------------------------------- MODULE MCStore -------------------------------
(* Instances of Store for TLC: two operations of other members.            *)
EXTENDS Store

CONSTANTS r1, r2

MCRemote == {r1, r2}
=============================================================================
