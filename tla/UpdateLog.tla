------------------------------ MODULE UpdateLog ------------------------------
(***************************************************************************)
(* What the server promises about the `updates` table of one list: an      *)
(* append-only log in which every signed update holds at most one place.   *)
(*                                                                         *)
(* Sequence numbers come from one identity column, so they are handed out  *)
(* before the row that carries them is visible: a row may appear below     *)
(* rows that readers have already seen, and a number may be burned without *)
(* ever carrying a row.  Upload implements this specification (see         *)
(* Upload!Log); Download reads the log through it.                         *)
(***************************************************************************)
EXTENDS Naturals

CONSTANT Updates      (* the signed updates; a signature identifies one     *)

VARIABLES place,      (* place[u]: the seq of u's row, 0 while u has none   *)
          top         (* the highest seq handed out so far                  *)

logVars == <<place, top>>

Stored == {u \in Updates : place[u] # 0}

Free(s) == \A u \in Updates : place[u] # s

LogTypeOK ==
    /\ place \in [Updates -> Nat]
    /\ top \in Nat

LogInit ==
    /\ place = [u \in Updates |-> 0]
    /\ top = 0

\* nextval() of the identity column: never rolled back, never reused.
Allocate ==
    /\ top' = top + 1
    /\ UNCHANGED place

\* The row of an update that has none becomes visible under a number handed
\* out earlier; the UNIQUE constraint on the signature admits it once.
Store(u, s) ==
    /\ place[u] = 0
    /\ s \in 1..top
    /\ Free(s)
    /\ place' = [place EXCEPT ![u] = s]
    /\ UNCHANGED top

LogNext == Allocate \/ \E u \in Updates, s \in 1..top : Store(u, s)

LogSpec == LogInit /\ [][LogNext]_logVars
=============================================================================
