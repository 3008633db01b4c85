------------------------------ MODULE MCUpload ------------------------------
(* Instances of Upload for TLC: an owner and one collaborator.             *)
EXTENDS Upload

CONSTANTS alice, bob

MCClients == {alice, bob}
MCAlone   == {alice}
=============================================================================
