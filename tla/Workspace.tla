------------------------------- MODULE Workspace -------------------------------
(***************************************************************************)
(* What the workspace shows and how it is kept current: the view-model the *)
(* sidebar and the panes are drawn from, the keys that lay the panes out   *)
(* and pick a row, the actions those keys queue, the commands the loop     *)
(* sends to the store worker, and the snapshots the worker answers with.   *)
(*                                                                         *)
(* The UI and the worker each hold the targets of the panes and the sort:  *)
(* the UI changes its own and tells the worker, the worker answers every   *)
(* change of the store with a snapshot for the targets it holds.  The      *)
(* store is the lists with their names, the documents of todos, and the    *)
(* table of todos the views are read from; an edit changes the document    *)
(* first and the table only when the list's current key is held.  Capture  *)
(* by the modals is the subject of Shell and Forms, what the documents and *)
(* their uploads survive that of Store.  Errors of the database itself are *)
(* left out.                                                               *)
(***************************************************************************)
EXTENDS Naturals, FiniteSets, Sequences, SequencesExt

CONSTANTS Lists, Items,
          ListOf,     (* the list a todo belongs to                          *)
          Rank,       (* the order of the random ids, the tables' keys       *)
          Place,      (* the order of a list's todos in its document         *)
          Names,      (* the names a list can be given, in their byte order  *)
          Folded,     (* the rank of a name in lower case                    *)
          Looks,      (* titles, dates and priorities a todo can be given    *)
          Today,      (* the end of the current day                          *)
          Undated,    (* larger than every date                              *)
          NameOf, LookOf,  (* what the first lists and todos look like       *)
          Starts,     (* what the store may hold when the session begins     *)
          Screens,    (* bound: layouts of the panes a run starts from       *)
          MaxKeys,    (* bound: keys of the user                             *)
          MaxRemote   (* bound: commands of the sync engine                  *)

NoName == 0           \* of a list whose name has not been written here

ASSUME WorkspaceAssumption ==
    /\ IsFiniteSet(Lists) /\ IsFiniteSet(Items) /\ Lists \cap Items = {}
    /\ Lists \cap {"AllTasks", "DueToday", "None"} = {}
    /\ ListOf \in [Items -> Lists]
    /\ Rank \in [Lists \cup Items -> Nat] /\ Place \in [Items -> Nat]
    /\ Names \subseteq Nat \ {NoName}
    /\ Folded \in [Names \cup {NoName} -> Nat]
    /\ Today \in Nat /\ Undated \in Nat /\ Today < Undated
    /\ Looks \subseteq [title : Nat, due : 0..Undated, priority : 0..3]
    /\ NameOf \in [Lists -> Names] /\ LookOf \in [Items -> Looks]
    /\ \A s \in Starts : /\ s.lists \subseteq Lists /\ s.keyed \subseteq s.lists
                         /\ s.todos \subseteq {i \in Items : ListOf[i] \in s.lists}
    /\ Screens \subseteq UNION {[1..n -> {"AllTasks", "DueToday"} \cup Lists] : n \in 1..2}
    /\ MaxKeys \in Nat /\ MaxRemote \in Nat

VARIABLES
    held,      \* the lists in the store
    keyed,     \* those of them whose current key the session holds
    name,      \* lists.name_plaintext
    docs,      \* the todos as the open documents have them
    rows,      \* the todos as the table has them
    unused,    \* ids no list or todo has had
    wtargets, wsort,                       \* the worker's targets and sort
    listed, panes, sort,                   \* ViewModel.lists, panes, sort
    focus, row, active, sel, visible,      \* the fields of Home
    modal,     \* <<>> or what the open modal's first button emits
    acts,      \* the action channel
    left,      \* actions this turn still dispatches
    turn,      \* where the loop stands
    cmds, replies,    \* the channels to the worker and back
    pending,   \* pending_edit and pending_members: what the next modal is for
    lookups,   \* lists whose new member's keys are being looked up
    behind,    \* an error kept the last change from being snapshotted
    keys, remote      \* bounds used up

storeVars == <<held, keyed, name, docs, rows, unused>>
workVars  == <<wtargets, wsort>>
viewVars  == <<listed, panes, sort>>
homeVars  == <<focus, row, active, sel, visible>>
vars == <<storeVars, workVars, viewVars, homeVars, modal, acts, left, turn, cmds,
          replies, pending, lookups, behind, keys, remote>>

-----------------------------------------------------------------------------
(* What the store answers                                                   *)

Metas == <<"AllTasks", "DueToday">>      \* this week and this month are as today
SortModes == <<"Alphabetical", "DueDate", "Priority">>
Next3(s) == LET i == CHOOSE j \in 1..3 : SortModes[j] = s
            IN  SortModes[(i % 3) + 1]
NoTarget == "None"
Targets == Range(Metas) \cup Lists \cup {NoTarget}
Layouts == UNION {[1..n -> Targets] : n \in 1..2}     \* one pane, or two when split

HeldItems == {i \in Items : rows[i].at = "list"}
Open == {i \in HeldItems : ~rows[i].done}
OpenOf(l) == {i \in Open : ListOf[i] = l}

\* sort_by and sort_by_key are stable: what the sort leaves equal stays in the
\* order of the query, and what the query leaves equal in that of the table.
Before(u, v) == \/ u[1] < v[1]
                \/ u[1] = v[1] /\ (u[2] < v[2] \/ (u[2] = v[2] /\ u[3] < v[3]))
Precedes(key, a, b) == Before(key[a], key[b])

SortItems(S, key) ==
    CHOOSE s \in SetToSeqs(S) :
        \A i, j \in 1..Len(s) : i < j => ~Precedes(key, s[j], s[i])

Least(S)    == CHOOSE n \in S : \A m \in S : n <= m
Greatest(S) == CHOOSE n \in S : \A m \in S : n >= m

NextDue(l)     == Least({rows[i].look.due : i \in OpenOf(l)} \cup {Undated})
TopPriority(l) == Greatest({rows[i].look.priority : i \in OpenOf(l)} \cup {0})

\* Lists without a dated todo come last, among themselves by name.
ListKey(s, l) ==
    CASE s = "Alphabetical" -> Folded[name[l]]
      [] s = "DueDate"      -> IF NextDue(l) = Undated THEN Undated + Folded[name[l]]
                               ELSE NextDue(l)
      [] s = "Priority"     -> 3 - TopPriority(l)

Summary(l) == [id |-> l, name |-> name[l], open |-> Cardinality(OpenOf(l)),
               due |-> NextDue(l), top |-> TopPriority(l)]

\* list_lists asks for the order of the names.
Summaries(s) ==
    LET order == SortItems(held, [l \in held |-> <<ListKey(s, l), name[l], Rank[l]>>])
    IN  [n \in 1..Len(order) |-> Summary(order[n])]

ItemKey(s, i) == CASE s = "Alphabetical" -> rows[i].look.title
                   [] s = "DueDate"      -> rows[i].look.due
                   [] s = "Priority"     -> 3 - rows[i].look.priority

\* A list's todos are asked for in the document's order, all todos by date,
\* those without one first.
QueryKey(t, i) == CASE t \in Lists                   -> Place[i]
                    [] rows[i].look.due = Undated    -> 0
                    [] OTHER                         -> rows[i].look.due + 1

InView(t) == CASE t = "AllTasks" -> Open
               [] t = "DueToday" -> {i \in Open : rows[i].look.due <= Today}
               [] t \in Lists    -> {i \in HeldItems : ListOf[i] = t}
               [] OTHER          -> {}

Shown(i) == [id |-> i, done |-> rows[i].done, look |-> rows[i].look]

LoadView(t, s) ==
    LET order == SortItems(InView(t),
                   [i \in InView(t) |-> <<ItemKey(s, i), QueryKey(t, i), Rank[i]>>])
    IN  [n \in 1..Len(order) |-> Shown(order[n])]

-----------------------------------------------------------------------------
Act(op) == [op |-> op]
ActOn(op, x) == [op |-> op, on |-> x]

NewName(n) == [op |-> "CreateList", name |-> n]
Rename(l, n) == [op |-> "RenameList", on |-> l, name |-> n]
Save(op, x, k) == [op |-> op, on |-> x, look |-> k]    \* SaveTodo without or with an id

OnItem == {"ToggleDone", "DeleteTodo"}
OnList == {"DeleteList"}
Written == [op : {"CreateList"}, name : Names]
             \cup [op : {"RenameList"}, on : Lists, name : Names]
             \cup [op : {"AddTodo"}, on : Lists, look : Looks]
             \cup [op : {"EditTodo"}, on : Items, look : Looks]

Actions ==
    Written
      \cup [op : {"RefreshLists", "CycleSort", "NewListModal", "CloseModal",
                  "ToggleSidebar", "OpenEditReady", "OpenMembersReady"}]
      \cup [op : OnItem \cup {"ConfirmDelete", "EditTodoModal"}, on : Items]
      \cup [op : OnList \cup {"ConfirmDelete", "AddTodoModal", "RenameListModal",
                              "ShareModal", "ShareList", "AddResolvedMember",
                              "MembersModal", "Unshare"}, on : Lists]
      \cup [op : {"OpenView"}, on : Targets \ {NoTarget}, pane : 1..2]

\* The open modal: what its first button will emit, but for what is typed.
Dialogs == [op : {"CreateList"}]
             \cup [op : {"DeleteTodo", "EditTodo"}, on : Items]
             \cup [op : {"DeleteList", "AddTodo", "RenameList", "ShareList", "Unshare"},
                   on : Lists]

\* A todo in a document or in the table: not there, there, or deleted.
Todos == [at : {"nowhere", "list", "deleted"}, done : BOOLEAN, look : Looks]

Commands ==
    Written
      \cup [op : OnItem \cup {"FetchFullItem"}, on : Items]
      \cup [op : OnList \cup {"AddMember", "RemoveMember", "FetchMembers", "Ingest"},
            on : Lists]
      \cup [op : {"ApplyRemote"}, on : Items, to : Todos]
      \cup [op : {"SetView"}, targets : Layouts, sort : Range(SortModes)]

ListRows == [id : Lists, name : Names \cup {NoName}, open : Nat, due : 0..Undated,
             top : 0..3]
ItemRows == [id : Items, done : BOOLEAN, look : Looks]
Snapshots == [op : {"Snapshot"}, lists : Seq(ListRows), panes : Seq(Seq(ItemRows))]
Fetched == [op : {"FullItem"}, on : Items] \cup [op : {"Members"}, on : Lists]

TypeOK ==
    /\ held \subseteq Lists /\ keyed \subseteq held
    /\ unused \subseteq Lists \cup Items /\ held \cap unused = {}
    /\ name \in [Lists -> Names \cup {NoName}]
    /\ docs \in [Items -> Todos] /\ rows \in [Items -> Todos]
    /\ \A i \in HeldItems : ListOf[i] \in held
    /\ \A i \in unused \cap Items : docs[i].at = "nowhere" /\ rows[i].at = "nowhere"
    /\ wtargets \in Layouts
    /\ wsort \in Range(SortModes) /\ sort \in Range(SortModes)
    /\ listed \in Seq(ListRows)
    /\ panes \in Seq([target : Targets, items : Seq(ItemRows)])
    /\ Len(panes) \in 1..2
    /\ focus \in {"Sidebar", "Pane"} /\ visible \in BOOLEAN
    /\ row \in 0..(Len(Metas) + Cardinality(Lists) - 1)
    /\ active \in 1..Len(panes)     \* the focused pane is one that is shown
    /\ sel \in [1..2 -> 0..Cardinality(Items)]
    /\ modal = <<>> \/ \E d \in Dialogs : modal = <<d>>
    /\ acts \in Seq(Actions) /\ cmds \in Seq(Commands)
    /\ replies \in Seq(Snapshots \cup Fetched)
    /\ pending \subseteq Items \cup Lists /\ lookups \subseteq Lists
    /\ left \in 0..Len(acts) /\ turn \in {"wait", "burst", "actions"}
    /\ behind \in BOOLEAN
    /\ keys \in 0..MaxKeys /\ remote \in 0..MaxRemote

\* The first frame: the session was just built and the worker told the view.
FirstFrame ==
    /\ wtargets = <<NoTarget>> /\ listed = <<>>
    /\ panes = <<[target |-> "AllTasks", items |-> <<>>]>>
    /\ cmds = <<[op |-> "SetView", targets |-> <<"AllTasks">>, sort |-> "Alphabetical"]>>
    /\ row = 0 /\ active = 1 /\ focus = "Sidebar"

\* Later, between keys: any layout, with its snapshot installed.
AtRest ==
    /\ wtargets \in Screens
    /\ Range(wtargets) \cap Lists \subseteq held
    /\ listed = Summaries("Alphabetical")
    /\ panes = [p \in 1..Len(wtargets) |->
                  [target |-> wtargets[p], items |-> LoadView(wtargets[p], "Alphabetical")]]
    /\ cmds = <<>>
    /\ row \in 0..(Len(Metas) + Len(listed) - 1) /\ active \in 1..Len(panes)
    /\ \/ focus = "Sidebar"
       \/ focus = "Pane" /\ row = 0

Init ==
    /\ \E s \in Starts :
          /\ held = s.lists /\ keyed = s.keyed
          /\ unused = (Lists \cup Items) \ (s.lists \cup s.todos)
          /\ docs = [i \in Items |-> [at |-> IF i \in s.todos THEN "list" ELSE "nowhere",
                                      done |-> FALSE, look |-> LookOf[i]]]
    /\ name = [l \in Lists |-> IF l \in held THEN NameOf[l] ELSE NoName]
    /\ rows = docs
    /\ wsort = "Alphabetical" /\ sort = "Alphabetical"
    /\ FirstFrame \/ AtRest
    /\ sel = [p \in 1..2 |-> 0] /\ visible = TRUE
    /\ modal = <<>> /\ acts = <<>> /\ left = 0 /\ turn = "wait"
    /\ replies = <<>> /\ pending = {} /\ lookups = {}
    /\ behind = FALSE
    /\ keys = 0 /\ remote = 0

-----------------------------------------------------------------------------
(* Keys                                                                     *)

Send(a) == acts' = Append(acts, a)

\* What every key does: the loop takes the rest of the buffered events before
\* it dispatches anything.
Pressed == /\ turn \in {"wait", "burst"} /\ keys < MaxKeys
           /\ keys' = keys + 1 /\ turn' = "burst"
           /\ UNCHANGED <<storeVars, workVars, modal, left, cmds, replies, pending,
                          lookups, behind, remote>>

AtHome == Pressed /\ modal = <<>>

TargetAt(r) == IF r < Len(Metas) THEN Metas[r + 1]
               ELSE IF r - Len(Metas) < Len(listed) THEN listed[r - Len(Metas) + 1].id
               ELSE NoTarget

SelectedList == IF TargetAt(row) \in Lists THEN {TargetAt(row)} ELSE {}
SelectedItem ==
    LET shown == panes[active].items
    IN  IF sel[active] < Len(shown) THEN {shown[sel[active] + 1].id} ELSE {}
CurrentList == IF panes[active].target \in Lists THEN {panes[active].target} ELSE {}

Least2(a, b) == IF a < b THEN a ELSE b

\* rem_euclid from a selection first brought back into the rows.
Moved(cur, len, delta) ==
    (Least2(cur, len - 1) + (IF delta = "next" THEN 1 ELSE len - 1)) % len

MoveSelection(delta) ==
    /\ AtHome
    /\ LET len == Len(panes[active].items) IN
       \/ /\ focus = "Sidebar"
          /\ row' = Moved(row, Len(Metas) + Len(listed), delta)
          /\ UNCHANGED sel
       \/ /\ focus = "Pane" /\ len # 0
          /\ sel' = [sel EXCEPT ![active] = Moved(sel[active], len, delta)]
          /\ UNCHANGED row
    /\ UNCHANGED <<viewVars, focus, active, visible, acts>>

OpenSelected ==
    /\ AtHome /\ focus = "Sidebar" /\ TargetAt(row) # NoTarget
    /\ sel' = [sel EXCEPT ![active] = 0]
    /\ focus' = "Pane"
    /\ Send([op |-> "OpenView", on |-> TargetAt(row), pane |-> active])
    /\ UNCHANGED <<viewVars, row, active, visible>>

SplitPanes ==
    /\ panes' = IF Len(panes) = 1 THEN <<panes[1], panes[1]>> ELSE panes
    /\ sel' = IF Len(panes) = 1 THEN [sel EXCEPT ![2] = sel[1]] ELSE sel
    /\ active' = 2 /\ focus' = "Pane"

\* Mutant of Split: the worker is not told that there is a second pane.
SplitQuietly ==
    AtHome /\ SplitPanes /\ UNCHANGED <<acts, listed, sort, row, visible>>

Split ==
    /\ AtHome /\ SplitPanes
    /\ Send(Act("RefreshLists"))
    /\ UNCHANGED <<listed, sort, row, visible>>

\* Mutant of ClosePane: the focus stays on the pane's old position.
ClosePaneKeepingFocus ==
    /\ AtHome /\ Len(panes) = 2
    /\ panes' = <<panes[active]>>
    /\ sel' = [sel EXCEPT ![1] = sel[active], ![2] = 0]
    /\ Send(Act("RefreshLists"))
    /\ UNCHANGED <<listed, sort, focus, active, row, visible>>

ClosePane ==
    /\ AtHome /\ Len(panes) = 2
    /\ panes' = <<panes[active]>>
    /\ sel' = [sel EXCEPT ![1] = sel[active], ![2] = 0]
    /\ active' = 1
    /\ Send(Act("RefreshLists"))
    /\ UNCHANGED <<listed, sort, focus, row, visible>>

CyclePane ==
    /\ AtHome /\ Len(panes) = 2
    /\ focus' = "Pane" /\ active' = 3 - active
    /\ UNCHANGED <<viewVars, row, sel, visible, acts>>

\* Sidebar, first pane, second pane if split, sidebar; and the two direct keys.
CycleFocus ==
    /\ AtHome
    /\ \/ focus = "Sidebar" /\ focus' = "Pane" /\ active' = 1
       \/ focus = "Pane" /\ active < Len(panes) /\ active' = 2 /\ UNCHANGED focus
       \/ focus = "Pane" /\ active = Len(panes) /\ focus' = "Sidebar" /\ UNCHANGED active
    /\ UNCHANGED <<viewVars, row, sel, visible, acts>>

FocusOn(f) ==
    /\ AtHome /\ focus # f /\ focus' = f
    /\ UNCHANGED <<viewVars, row, active, sel, visible, acts>>

\* Keys that only emit an action for what is selected.  Rename takes the
\* sidebar's list wherever the focus is; sharing that or the pane's.
CommandList == IF focus = "Sidebar" THEN SelectedList ELSE CurrentList

Emitted ==
    {Act("CycleSort"), Act("NewListModal"), Act("ToggleSidebar")}
      \cup {ActOn("AddTodoModal", l) : l \in CurrentList}
      \cup {ActOn("RenameListModal", l) : l \in SelectedList}
      \cup {ActOn(op, l) : op \in {"ShareModal", "MembersModal"}, l \in CommandList}
      \cup (IF focus = "Pane"
            THEN {ActOn(op, i) : op \in {"ToggleDone", "ConfirmDelete", "EditTodoModal"},
                                 i \in SelectedItem}
            ELSE {ActOn("ConfirmDelete", l) : l \in SelectedList})

Emit == /\ AtHome
        /\ \E a \in Emitted : Send(a)
        /\ UNCHANGED <<viewVars, homeVars>>

\* What the first button of a dialog emits, whatever is typed.
Filled(d) ==
    CASE d.op = "CreateList"             -> {NewName(n) : n \in Names}
      [] d.op = "RenameList"             -> {Rename(d.on, n) : n \in Names}
      [] d.op \in {"AddTodo", "EditTodo"} -> {Save(d.op, d.on, k) : k \in Looks}
      [] OTHER                           -> {d}

\* A modal on top takes the keys: its first button, or cancel.  The global
\* binding for the sidebar is queued all the same.
ModalKey ==
    /\ Pressed /\ modal # <<>>
    /\ \E a \in Filled(modal[1]) \cup {Act("CloseModal"), Act("ToggleSidebar")} : Send(a)
    /\ UNCHANGED <<viewVars, homeVars>>

-----------------------------------------------------------------------------
(* Dispatch                                                                 *)

Drain == /\ \/ turn = "burst"
            \/ turn = "wait" /\ acts # <<>>
         /\ left' = Len(acts)
         /\ turn' = IF acts = <<>> THEN "wait" ELSE "actions"
         /\ UNCHANGED <<storeVars, workVars, viewVars, homeVars, modal, acts, cmds,
                        replies, pending, lookups, behind, keys, remote>>

Command(c) == cmds' = Append(cmds, c)
SetView(ps, s) == [op |-> "SetView", targets |-> [p \in 1..Len(ps) |-> ps[p].target],
                   sort |-> s]
Retarget(ps, from, to) ==
    [p \in 1..Len(ps) |->
       IF ps[p].target = from THEN [ps[p] EXCEPT !.target = to] ELSE ps[p]]

\* The head of the queue is done with and sends nothing more.
Done == /\ acts' = Tail(acts)
        /\ UNCHANGED <<homeVars, modal>>

Opens(d) == /\ modal' = <<d>>
            /\ acts' = Tail(acts) /\ UNCHANGED <<viewVars, homeVars, cmds>>
Ignored  == Done /\ UNCHANGED <<viewVars, cmds>>

Handle(a) ==
    \/ /\ a.op = "OpenView"            \* a pane closed meanwhile is not retargeted
       /\ panes' = [p \in 1..Len(panes) |->
                      IF p = a.pane THEN [panes[p] EXCEPT !.target = a.on] ELSE panes[p]]
       /\ Command(SetView(panes', sort))
       /\ Done /\ UNCHANGED <<listed, sort>>
    \/ /\ a.op = "RefreshLists"
       /\ Command(SetView(panes, sort))
       /\ Done /\ UNCHANGED viewVars
    \/ /\ a.op = "CycleSort"
       /\ sort' = Next3(sort)
       /\ Command(SetView(panes, sort'))
       /\ Done /\ UNCHANGED <<listed, panes>>
    \/ /\ a.op = "ToggleDone"
       /\ Command(a) /\ Done /\ UNCHANGED viewVars
    \/ /\ a.op \in {"CreateList", "RenameList", "AddTodo", "EditTodo", "DeleteTodo"}
       /\ Command(a)
       /\ acts' = Append(Tail(acts), Act("CloseModal"))
       /\ UNCHANGED <<viewVars, homeVars, modal>>
    \/ /\ a.op \in {"AddResolvedMember", "Unshare"}
       /\ Command(ActOn(IF a.op = "Unshare" THEN "RemoveMember" ELSE "AddMember", a.on))
       /\ acts' = Append(Tail(acts), Act("CloseModal"))
       /\ UNCHANGED <<viewVars, homeVars, modal>>
    \/ /\ a.op = "DeleteList"
       /\ panes' = Retarget(panes, a.on, "AllTasks")
       /\ cmds' = cmds \o <<a, SetView(panes', sort)>>
       /\ acts' = Append(Tail(acts), Act("CloseModal"))
       /\ UNCHANGED <<listed, sort, homeVars, modal>>
    \/ /\ a.op \in {"EditTodoModal", "MembersModal"}    \* the worker fetches first
       /\ Command(ActOn(IF a.op = "MembersModal" THEN "FetchMembers" ELSE "FetchFullItem",
                        a.on))
       /\ Done /\ UNCHANGED viewVars
    \/ /\ a.op = "ConfirmDelete"
       /\ Opens(ActOn(IF a.on \in Lists THEN "DeleteList" ELSE "DeleteTodo", a.on))
    \/ a.op = "NewListModal"    /\ Opens(Act("CreateList"))
    \/ a.op = "RenameListModal" /\ Opens(ActOn("RenameList", a.on))
    \/ a.op = "AddTodoModal"    /\ Opens(ActOn("AddTodo", a.on))
    \/ a.op = "ShareModal"      /\ Opens(ActOn("ShareList", a.on))
    \/ /\ a.op = "OpenEditReady"
       /\ IF pending \cap Items = {} THEN Ignored
          ELSE \E i \in pending : i \in Items /\ Opens(ActOn("EditTodo", i))
    \/ /\ a.op = "OpenMembersReady"
       /\ IF pending \cap Lists = {} THEN Ignored
          ELSE \E l \in pending : l \in Lists /\ Opens(ActOn("Unshare", l))
    \/ a.op = "ShareList" /\ Ignored                    \* a task looks the user up
    \/ /\ a.op = "CloseModal"
       /\ modal' = <<>>
       /\ acts' = Tail(acts) /\ UNCHANGED <<viewVars, homeVars, cmds>>
    \/ /\ a.op = "ToggleSidebar"       \* Home is not told while a modal is open
       /\ IF modal = <<>>
          THEN visible' = ~visible /\ focus' = IF visible THEN "Pane" ELSE focus
          ELSE UNCHANGED <<visible, focus>>
       /\ acts' = Tail(acts) /\ UNCHANGED <<viewVars, row, active, sel, modal, cmds>>

Dispatch ==
    /\ turn = "actions"
    /\ Handle(Head(acts))
    /\ pending' = CASE Head(acts).op = "OpenEditReady"    -> pending \ Items
                    [] Head(acts).op = "OpenMembersReady" -> pending \ Lists
                    [] OTHER                              -> pending
    /\ lookups' = IF Head(acts).op = "ShareList" THEN lookups \cup {Head(acts).on}
                  ELSE lookups
    /\ left' = left - 1
    /\ turn' = IF left = 1 THEN "wait" ELSE "actions"
    /\ UNCHANGED <<storeVars, workVars, replies, behind, keys, remote>>

\* The task of ShareList ends: the user was found, or was not.
LookupEnds ==
    /\ \E l \in lookups :
          /\ lookups' = lookups \ {l}
          /\ Send(ActOn("AddResolvedMember", l)) \/ UNCHANGED acts
    /\ UNCHANGED <<storeVars, workVars, viewVars, homeVars, modal, left, turn, cmds,
                   replies, pending, behind, keys, remote>>

\* A snapshot is installed pane by pane as far as both go; an item or the
\* members fetched are kept for the modal's action.  What was queued before is
\* dispatched next.
Install ==
    /\ turn = "wait" /\ replies # <<>>
    /\ LET r == Head(replies) IN
       \/ /\ r.op = "Snapshot"
          /\ listed' = r.lists
          /\ panes' = [p \in 1..Len(panes) |->
                         IF p <= Len(r.panes)
                         THEN [panes[p] EXCEPT !.items = r.panes[p]] ELSE panes[p]]
          /\ UNCHANGED <<acts, pending>>
       \/ /\ r.op = "FullItem"
          /\ pending' = (pending \ Items) \cup {r.on}
          /\ Send(Act("OpenEditReady")) /\ UNCHANGED <<listed, panes>>
       \/ /\ r.op = "Members"
          /\ pending' = (pending \ Lists) \cup {r.on}
          /\ Send(Act("OpenMembersReady")) /\ UNCHANGED <<listed, panes>>
    /\ replies' = Tail(replies)
    /\ left' = Len(acts')
    /\ turn' = IF acts' = <<>> THEN "wait" ELSE "actions"
    /\ UNCHANGED <<storeVars, workVars, sort, homeVars, modal, cmds, lookups, behind,
                   keys, remote>>

-----------------------------------------------------------------------------
(* The store worker                                                         *)

Snapshot == [op |-> "Snapshot", lists |-> Summaries(wsort),
             panes |-> [p \in 1..Len(wtargets) |-> LoadView(wtargets[p], wsort)]]

\* Ok(true): the worker takes a snapshot of what the command left.
Refresh == replies' = Append(replies, Snapshot') /\ behind' = FALSE

\* The table gets the document's todos.
Publish(l) == rows' = [i \in Items |-> IF ListOf[i] = l THEN docs'[i] ELSE rows[i]]

ListFor(c) == IF c.on \in Lists THEN c.on ELSE ListOf[c.on]

\* A new todo goes to the end of the document.
NewIn(l) == {i \in unused \cap Items :
               /\ ListOf[i] = l
               /\ \A j \in Items : ListOf[j] = l /\ docs[j].at = "list"
                                     => Place[j] < Place[i]}

\* An edit's closure on the document; an unknown id is an error.
EditsDoc(c) ==
    \/ /\ c.op = "ToggleDone" /\ docs[c.on].at = "list"
       /\ docs' = [docs EXCEPT ![c.on].done = ~@] /\ UNCHANGED unused
    \/ /\ c.op = "EditTodo" /\ docs[c.on].at = "list"
       /\ docs' = [docs EXCEPT ![c.on].look = c.look] /\ UNCHANGED unused
    \/ /\ c.op = "DeleteTodo" /\ docs[c.on].at = "list"
       /\ docs' = [docs EXCEPT ![c.on].at = "deleted"] /\ UNCHANGED unused
    \/ /\ c.op = "AddTodo"
       /\ \E i \in NewIn(c.on) :
             /\ docs' = [docs EXCEPT ![i] = [at |-> "list", done |-> FALSE,
                                             look |-> c.look]]
             /\ unused' = unused \ {i}
    \/ c.op = "RenameList" /\ UNCHANGED <<docs, unused>>

\* edit_doc and persist: the document has changed when the list or its key turns
\* out to be missing, and so has the name, which rename_list writes first.
Edit(c) ==
    /\ EditsDoc(c)
    /\ name' = IF c.op = "RenameList" /\ c.on \in held THEN [name EXCEPT ![c.on] = c.name]
               ELSE name
    /\ UNCHANGED <<held, keyed, workVars>>
    /\ \/ ListFor(c) \in keyed /\ Publish(ListFor(c)) /\ Refresh
       \/ /\ ListFor(c) \notin keyed
          /\ behind' = (behind \/ name' # name) /\ UNCHANGED <<rows, replies>>

\* Nothing is changed or answered: an unknown id, no more ids to give (a bound).
NoEdit(c) ==
    /\ c.op \in {"ToggleDone", "EditTodo", "DeleteTodo", "AddTodo"}
    /\ IF c.op = "AddTodo" THEN NewIn(c.on) = {}
       ELSE docs[c.on].at # "list"
    /\ UNCHANGED <<storeVars, workVars, replies, behind>>

CreateList(c) ==
    /\ c.op = "CreateList"
    /\ \E l \in unused \cap Lists :
          /\ held' = held \cup {l} /\ keyed' = keyed \cup {l} /\ unused' = unused \ {l}
          /\ name' = [name EXCEPT ![l] = c.name]
    /\ UNCHANGED <<docs, rows, workVars>>
    /\ Refresh

NoCreate(c) ==
    /\ c.op = "CreateList" /\ unused \cap Lists = {}
    /\ UNCHANGED <<storeVars, workVars, replies, behind>>

\* The rows go with the list, the document is closed; panes that showed the
\* list fall back.
DeleteList(c) ==
    /\ c.op = "DeleteList"
    /\ held' = held \ {c.on} /\ keyed' = keyed \ {c.on}
    /\ name' = [name EXCEPT ![c.on] = NoName]
    /\ docs' = [i \in Items |-> IF ListOf[i] = c.on THEN [docs[i] EXCEPT !.at = "nowhere"]
                                ELSE docs[i]]
    /\ Publish(c.on)
    /\ wtargets' = [p \in 1..Len(wtargets) |->
                      IF wtargets[p] = c.on THEN "AllTasks" ELSE wtargets[p]]
    /\ UNCHANGED <<unused, wsort>>
    /\ Refresh

\* A new member is given the current key; a removal makes a new one.
Membership(c) ==
    /\ \/ c.op = "AddMember" /\ UNCHANGED keyed
       \/ c.op = "RemoveMember" /\ keyed' = keyed \cup ({c.on} \cap held)
    /\ UNCHANGED <<held, name, docs, rows, unused, workVars>>
    /\ IF c.on \in keyed' THEN Refresh ELSE UNCHANGED <<replies, behind>>

\* Discovery: a list new here has no name, and the server's current epoch is
\* one whose key this device has or has not.
Ingest(c) ==
    /\ c.op = "Ingest"
    /\ held' = held \cup {c.on} /\ unused' = unused \ {c.on}
    /\ keyed' \in {keyed \cup {c.on}, keyed \ {c.on}}
    /\ UNCHANGED <<name, docs, rows, workVars>>
    /\ Refresh

\* An update is skipped for want of its epoch's key or its author, or merged
\* into the document, which the table then gets.  When a later update of the
\* batch fails, nothing is answered.
ApplyRemote(c) ==
    /\ c.op = "ApplyRemote"
    /\ \/ UNCHANGED <<storeVars, workVars, replies, behind>>
       \/ /\ ListOf[c.on] \in held
          /\ docs' = IF docs[c.on].at = "deleted" THEN docs ELSE [docs EXCEPT ![c.on] = c.to]
          /\ unused' = unused \ {c.on}
          /\ Publish(ListOf[c.on])
          /\ UNCHANGED <<held, keyed, name, workVars>>
          /\ Refresh \/ (behind' = TRUE /\ UNCHANGED replies)

ServeView(c) ==
    /\ c.op = "SetView"
    /\ wtargets' = c.targets /\ wsort' = c.sort
    /\ UNCHANGED storeVars
    /\ Refresh

\* What the next modal needs is answered without a snapshot.
Fetch(c) ==
    /\ \/ c.op = "FetchMembers" /\ replies' = Append(replies, ActOn("Members", c.on))
       \/ /\ c.op = "FetchFullItem"
          /\ replies' = IF docs[c.on].at = "list"
                        THEN Append(replies, ActOn("FullItem", c.on)) ELSE replies
    /\ UNCHANGED <<storeVars, workVars, behind>>

Run(c) == \/ Edit(c) \/ NoEdit(c) \/ CreateList(c) \/ NoCreate(c) \/ DeleteList(c)
          \/ Membership(c) \/ Ingest(c) \/ ApplyRemote(c) \/ ServeView(c) \/ Fetch(c)

Serve ==
    /\ cmds # <<>> /\ Run(Head(cmds))
    /\ cmds' = Tail(cmds)
    /\ UNCHANGED <<viewVars, homeVars, modal, acts, left, turn, pending, lookups, keys,
                   remote>>

\* The sync engine's commands queue behind the user's.
Remote ==
    /\ remote < MaxRemote
    /\ remote' = remote + 1
    /\ \/ \E i \in Items, to \in Todos :
             /\ to.at = "list" \/ (to.at = "deleted" /\ to.done = FALSE /\ to.look = LookOf[i])
             /\ Command([op |-> "ApplyRemote", on |-> i, to |-> to])
       \/ \E l \in Lists : Command(ActOn("Ingest", l))
    /\ UNCHANGED <<storeVars, workVars, viewVars, homeVars, modal, acts, left, turn,
                   replies, pending, lookups, behind, keys>>

-----------------------------------------------------------------------------
UserNext == \/ \E d \in {"next", "prev"} : MoveSelection(d)
            \/ OpenSelected \/ Split \/ ClosePane \/ CyclePane \/ CycleFocus
            \/ \E f \in {"Sidebar", "Pane"} : FocusOn(f)
            \/ Emit \/ ModalKey

Next == UserNext \/ Drain \/ Dispatch \/ LookupEnds \/ Install \/ Serve \/ Remote

Spec == Init /\ [][Next]_vars

Quiet == turn = "wait" /\ acts = <<>> /\ cmds = <<>> /\ replies = <<>>

Current ==
    /\ listed = Summaries(sort)
    /\ \A p \in 1..Len(panes) : panes[p].items = LoadView(panes[p].target, sort)

\* Once the keys and the snapshots have gone through, the sidebar and every
\* pane show what the store holds for their targets, in the chosen order: no
\* split, close, open, delete, rename, edit or sort leaves the worker computing
\* for another layout than the one drawn (home.rs split and close_pane, app.rs
\* send_set_view, worker.rs run_store_worker).  There are two exceptions, in
\* both of which a command fails after it has changed the tables and so is
\* answered with an error alone: a remote batch whose later update fails, and a
\* rename that wrote the name and then found no key to encrypt with
\* (store.rs rename_list and persist).
QuietIsCurrent == Quiet /\ ~behind => Current
=============================================================================
