----------------------------- MODULE MCMembership -----------------------------
(* Instances of Membership for TLC: the owner ann with two devices, ben    *)
(* with one, and cat, who is only known as an account.                     *)
EXTENDS Membership, TLC

CONSTANTS ann, ben, cat, a1, a2, b1

MCMembers  == {ann, ben, cat}
MCDevices  == {a1, a2, b1}
MCAccounts == a1 :> ann @@ a2 :> ann @@ b1 :> ben

ASSUME InstanceHasOneAdmin == OneAdmin
=============================================================================
