----------------------------- MODULE MCWorkspace -----------------------------
(* Two lists; a1 is due today and b1 later and more urgent, a2 is undated and   *)
(* the id given to a new todo.  The lower-case order of the names and the order  *)
(* of the ids are not that of the names and the documents.                       *)
EXTENDS Workspace

Look(t, d, p) == [title |-> t, due |-> d, priority |-> p]
MCListOf  == [a1 |-> "A", a2 |-> "A", b1 |-> "B"]
MCRank    == [A |-> 1, B |-> 2, a1 |-> 2, a2 |-> 1, b1 |-> 3]
MCPlace   == [a1 |-> 1, a2 |-> 2, b1 |-> 1]
MCFolded  == <<2, 1>> @@ (NoName :> 0)
MCLooks   == {Look(2, 1, 1), Look(1, 4, 2)}
MCNameOf  == [A |-> 1, B |-> 2]
MCLookOf  == [a1 |-> Look(2, 1, 1), a2 |-> Look(2, 1, 1), b1 |-> Look(1, 4, 2)]
Start(ls, ks, is) == [lists |-> ls, keyed |-> ks, todos |-> is]
MCStarts  == {Start({"A"}, {"A"}, {"a1"}), Start({"A", "B"}, {"A"}, {"a1", "b1"})}
MCScreens == {<<"A">>, <<"A", "DueToday">>}
==============================================================================
