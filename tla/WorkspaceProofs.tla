---------------------------- MODULE WorkspaceProofs ----------------------------
(***************************************************************************)
(* Theorems about Workspace, for any lists, todos, keys and remote         *)
(* changes: the types, and that what is drawn is current once everything   *)
(* sent has arrived.                                                       *)
(***************************************************************************)
EXTENDS Workspace, SequenceTheorems, FiniteSetTheorems, WellFoundedInduction, TLAPS

-----------------------------------------------------------------------------
(* Sorting                                                                 *)

\* The naturals are well-ordered: what is true of some number is true of a
\* least one.
LEMMA SmallestOf ==
  ASSUME NEW S \in SUBSET Nat, S # {}
  PROVE  \E n \in S : \A m \in S : n <= m
<1> DEFINE Less == OpToRel(<, Nat)
<1>1. IsWellFoundedOn(Less, Nat)
  BY NatLessThanWellFounded
<1>2. \A m, n \in Nat : m < n => <<m, n>> \in Less
  BY SMT DEF OpToRel
<1> HIDE DEF Less
<1>3. PICK n \in S : \A m \in S : <<m, n>> \notin Less
  BY <1>1, WFMin
<1>4. ASSUME NEW m \in S PROVE n <= m
  <2>1. m \in Nat /\ n \in Nat /\ ~(m < n)
    BY <1>2, <1>3
  <2> QED
    BY <2>1
<1> QED
  BY <1>4

Ids == Lists \cup Items

\* s lists the elements of S, each once and in the order of their keys.
InOrder(s, S, key) ==
    /\ s \in [1..Cardinality(S) -> S]
    /\ \A i, j \in 1..Cardinality(S) : i # j => s[i] # s[j]
    /\ \A i, j \in 1..Cardinality(S) : i < j => ~Precedes(key, s[j], s[i])

Triples == Nat \X Nat \X Nat

\* Some row comes before no other's.
LEMMA FirstRow ==
  ASSUME NEW S \in SUBSET Ids, S # {}, NEW key, \A a \in S : key[a] \in Triples
  PROVE  \E a \in S : \A b \in S : ~Precedes(key, b, a)
<1>t. \A a \in S : key[a][1] \in Nat /\ key[a][2] \in Nat /\ key[a][3] \in Nat
  BY DEF Triples
<1> DEFINE F == {key[a][1] : a \in S}
<1>1. PICK u \in F : \A m \in F : u <= m
  <2>1. F \in SUBSET Nat /\ F # {}
    BY <1>t
  <2> QED
    BY <2>1, SmallestOf
<1> DEFINE G == {key[a][2] : a \in {b \in S : key[b][1] = u}}
<1>2. PICK v \in G : \A m \in G : v <= m
  <2>1. G \in SUBSET Nat /\ G # {}
    BY <1>t, <1>1
  <2> QED
    BY <2>1, SmallestOf
<1> DEFINE H == {key[a][3] : a \in {b \in S : key[b][1] = u /\ key[b][2] = v}}
<1>3. PICK w \in H : \A m \in H : w <= m
  <2>1. H \in SUBSET Nat /\ H # {}
    BY <1>t, <1>2
  <2> QED
    BY <2>1, SmallestOf
<1>4. PICK a \in S : key[a][1] = u /\ key[a][2] = v /\ key[a][3] = w
  BY <1>3
<1>5. ASSUME NEW b \in S PROVE ~Precedes(key, b, a)
  <2>1. key[a][1] <= key[b][1]
    BY <1>1, <1>4
  <2>2. key[b][1] = key[a][1] => key[a][2] <= key[b][2]
    BY <1>2, <1>4
  <2>3. key[b][1] = key[a][1] /\ key[b][2] = key[a][2] => key[a][3] <= key[b][3]
    BY <1>3, <1>4
  <2> QED
    BY <1>t, <2>1, <2>2, <2>3 DEF Precedes, Before
<1> QED
  BY <1>5

\* A row that comes before no other's goes in front of the others sorted.
LEMMA SortedFrom ==
  ASSUME NEW S \in SUBSET Ids, IsFiniteSet(S), NEW key, NEW a \in S,
         \A b \in S : ~Precedes(key, b, a),
         NEW t, InOrder(t, S \ {a}, key)
  PROVE  \E s : InOrder(s, S, key)
<1> DEFINE n == Cardinality(S)
           s == [i \in 1..n |-> IF i = 1 THEN a ELSE t[i - 1]]
<1>1. n \in Nat /\ Cardinality(S \ {a}) = n - 1 /\ n # 0
  BY FS_CardinalityType, FS_RemoveElement, FS_EmptySet
<1>2. /\ t \in [1..(n - 1) -> S \ {a}]
      /\ \A i, j \in 1..(n - 1) : i # j => t[i] # t[j]
      /\ \A i, j \in 1..(n - 1) : i < j => ~Precedes(key, t[j], t[i])
  BY <1>1 DEF InOrder
<1> HIDE DEF n
<1>3. \A i \in 1..n : i # 1 => i - 1 \in 1..(n - 1) /\ s[i] = t[i - 1] /\ s[i] \in S \ {a}
  BY <1>1, <1>2
<1>4. 1 \in 1..n /\ s[1] = a
  BY <1>1
<1>5. s \in [1..n -> S]
  BY <1>3, <1>4
<1> HIDE DEF s
<1>6. \A i, j \in 1..n : i # j => s[i] # s[j]
  <2> SUFFICES ASSUME NEW i \in 1..n, NEW j \in 1..n, i # j PROVE s[i] # s[j]
    OBVIOUS
  <2>1. CASE i = 1 \/ j = 1
    BY <2>1, <1>3, <1>4
  <2>2. CASE i # 1 /\ j # 1
    <3>1. i - 1 # j - 1
      BY <1>1
    <3> QED
      BY <2>2, <3>1, <1>2, <1>3
  <2> QED
    BY <2>1, <2>2
<1>7. \A i, j \in 1..n : i < j => ~Precedes(key, s[j], s[i])
  <2> SUFFICES ASSUME NEW i \in 1..n, NEW j \in 1..n, i < j
               PROVE  ~Precedes(key, s[j], s[i])
    OBVIOUS
  <2>1. CASE i = 1
    BY <2>1, <1>4, <1>5
  <2>2. CASE i # 1
    <3>1. j # 1 /\ i - 1 < j - 1
      BY <1>1, <2>2
    <3> QED
      BY <2>2, <3>1, <1>2, <1>3
  <2> QED
    BY <2>1, <2>2
<1> QED
  BY <1>5, <1>6, <1>7 DEF InOrder, n

\* Every set of rows can be sorted: a smallest one that cannot be would leave
\* one that cannot be without its first row.
LEMMA Sortable ==
  ASSUME NEW S \in SUBSET Ids, NEW key, \A a \in S : key[a] \in Triples
  PROVE  \E s : InOrder(s, S, key)
<1> DEFINE Bad == {n \in Nat : \E T \in SUBSET S :
                      Cardinality(T) = n /\ ~\E s : InOrder(s, T, key)}
<1>1. \A T \in SUBSET Ids : IsFiniteSet(T) /\ Cardinality(T) \in Nat
  BY WorkspaceAssumption, FS_Union, FS_Subset, FS_CardinalityType DEF Ids
<1>2. SUFFICES Bad = {}
  BY <1>1
<1>3. SUFFICES ASSUME Bad # {} PROVE FALSE
  OBVIOUS
<1>4. PICK n \in Bad : \A m \in Bad : n <= m
  <2>1. Bad \in SUBSET Nat
    OBVIOUS
  <2> QED
    BY <2>1, <1>3, SmallestOf
<1>5. PICK T \in SUBSET S : Cardinality(T) = n /\ ~\E s : InOrder(s, T, key)
  BY <1>4
<1>6. T # {}
  <2> SUFFICES ASSUME T = {} PROVE FALSE
    OBVIOUS
  <2>1. Cardinality(T) = 0 /\ 1..0 = {}
    BY FS_EmptySet
  <2>2. InOrder([i \in 1..0 |-> i], T, key)
    BY <2>1 DEF InOrder
  <2> QED
    BY <1>5, <2>2
<1>7. PICK a \in T : \A b \in T : ~Precedes(key, b, a)
  BY <1>6, FirstRow
<1>8. Cardinality(T \ {a}) = n - 1 /\ n \in Nat /\ n # 0
  BY <1>1, <1>5, <1>6, FS_RemoveElement, FS_EmptySet
<1>9. n - 1 \notin Bad
  BY <1>4, <1>8
<1>10. PICK t : InOrder(t, T \ {a}, key)
  <2>1. T \ {a} \in SUBSET S /\ n - 1 \in Nat
    BY <1>8
  <2> QED
    BY <1>8, <1>9, <2>1
<1> QED
  BY <1>1, <1>5, <1>7, <1>10, SortedFrom

\* What SortItems returns.
LEMMA SortItemsSorts ==
  ASSUME NEW S \in SUBSET Ids, NEW key, \A a \in S : key[a] \in Triples
  PROVE  /\ InOrder(SortItems(S, key), S, key)
         /\ SortItems(S, key) \in Seq(S) /\ Len(SortItems(S, key)) = Cardinality(S)
         /\ Range(SortItems(S, key)) = S
<1> DEFINE n == Cardinality(S)
           s == SortItems(S, key)
<1>1. IsFiniteSet(S) /\ n \in Nat
  BY WorkspaceAssumption, FS_Union, FS_Subset, FS_CardinalityType DEF Ids
<1>2. PICK t : InOrder(t, S, key)
  BY Sortable
<1>3. t \in SetToSeqs(S) /\ \A i, j \in 1..Len(t) : i < j => ~Precedes(key, t[j], t[i])
  <2>1. t \in Seq(S) /\ Len(t) = n
    BY <1>1, <1>2 DEF InOrder
  <2> QED
    BY <1>2, <2>1 DEF InOrder, SetToSeqs
<1>4. s \in SetToSeqs(S) /\ \A i, j \in 1..Len(s) : i < j => ~Precedes(key, s[j], s[i])
  BY <1>3 DEF SortItems
<1> HIDE DEF s
<1>5. s \in [1..n -> S] /\ \A i, j \in 1..n : i # j => s[i] # s[j]
  BY <1>4 DEF SetToSeqs
<1>6. s \in Seq(S) /\ Len(s) = n
  BY <1>1, <1>5
<1>7. InOrder(s, S, key)
  BY <1>4, <1>5, <1>6 DEF InOrder
<1>8. Range(s) = S
  <2>1. IsFiniteSet(1..n) /\ Cardinality(1..n) = n
    BY <1>1, FS_Interval
  <2>2. s \in Injection(1..n, S)
    BY <1>5 DEF Injection, IsInjective
  <2>3. s \in Surjection(1..n, S)
    BY <1>1, <2>1, <2>2, FS_Injection
  <2> QED
    BY <1>5, <2>3 DEF Surjection, Range
<1> QED
  BY <1>6, <1>7, <1>8 DEF s

-----------------------------------------------------------------------------
(* Types                                                                   *)

LEMMA ModeNames ==
  /\ Range(SortModes) = {"Alphabetical", "DueDate", "Priority"}
  /\ Range(Metas) = {"AllTasks", "DueToday"} /\ Len(Metas) = 2
  /\ \A s \in Range(SortModes) : Next3(s) \in Range(SortModes)
<1>1. /\ DOMAIN SortModes = 1..3 /\ DOMAIN Metas = 1..2 /\ Len(Metas) = 2
      /\ SortModes[1] = "Alphabetical" /\ SortModes[2] = "DueDate" /\ SortModes[3] = "Priority"
      /\ Metas[1] = "AllTasks" /\ Metas[2] = "DueToday"
  BY DEF SortModes, Metas
<1>2. Range(SortModes) = {"Alphabetical", "DueDate", "Priority"}
  BY <1>1 DEF Range
<1>3. Range(Metas) = {"AllTasks", "DueToday"}
  BY <1>1 DEF Range
<1>4. ASSUME NEW s \in Range(SortModes) PROVE Next3(s) \in Range(SortModes)
  <2>1. \E j \in 1..3 : SortModes[j] = s
    BY <1>1, <1>2
  <2>2. PICK i \in 1..3 : Next3(s) = SortModes[(i % 3) + 1]
    BY <2>1 DEF Next3
  <2>3. (i % 3) + 1 \in 1..3
    OBVIOUS
  <2> QED
    BY <1>1, <1>2, <2>2, <2>3
<1> QED
  BY <1>1, <1>2, <1>3, <1>4

\* Rows are no more than there are things to show.
ListSeqs == {s \in Seq(ListRows) : Len(s) <= Cardinality(Lists)}
ItemSeqs == {s \in Seq(ItemRows) : Len(s) <= Cardinality(Items)}

\* The sets a row of the sidebar is summed up from have an extreme.
LEMMA Extremes ==
  /\ \A D \in SUBSET (0..Undated) : D # {} => Least(D) \in 0..Undated
  /\ \A D \in SUBSET (0..3) : D # {} => Greatest(D) \in 0..3
<1>1. ASSUME NEW D \in SUBSET (0..Undated), D # {} PROVE Least(D) \in 0..Undated
  <2>1. D \in SUBSET Nat
    BY WorkspaceAssumption
  <2>2. PICK d \in D : \A m \in D : d <= m
    BY <1>1, <2>1, SmallestOf
  <2> QED
    BY <2>2 DEF Least
<1>2. ASSUME NEW D \in SUBSET (0..3), D # {} PROVE Greatest(D) \in 0..3
  <2> DEFINE C == {3 - d : d \in D}
  <2>1. C \in SUBSET Nat /\ C # {}
    <3>1. \A d \in 0..3 : 3 - d \in Nat
      OBVIOUS
    <3> QED
      BY <1>2, <3>1
  <2>2. PICK c \in C : \A m \in C : c <= m
    BY <2>1, SmallestOf
  <2>3. PICK d \in D : c = 3 - d
    BY <2>2
  <2>4. ASSUME NEW e \in D PROVE d >= e
    <3>1. 3 - e \in C /\ d \in 0..3 /\ e \in 0..3
      OBVIOUS
    <3>2. 3 - d <= 3 - e
      BY <2>2, <2>3, <3>1
    <3> QED
      BY <3>1, <3>2
  <2> QED
    BY <2>4 DEF Greatest
<1> QED
  BY <1>1, <1>2

StoreTyped ==
    /\ held \subseteq Lists /\ keyed \subseteq held
    /\ unused \subseteq Lists \cup Items /\ held \cap unused = {}
    /\ name \in [Lists -> Names \cup {NoName}]
    /\ docs \in [Items -> Todos] /\ rows \in [Items -> Todos]
    /\ \A i \in HeldItems : ListOf[i] \in held
    /\ \A i \in unused \cap Items : docs[i].at = "nowhere" /\ rows[i].at = "nowhere"

\* What a row is made of.
LEMMA RowTypes ==
  ASSUME StoreTyped
  PROVE  /\ \A i \in Items : /\ rows[i].look.title \in Nat /\ rows[i].look.due \in 0..Undated
                             /\ rows[i].look.priority \in 0..3
                             /\ Shown(i) \in ItemRows
         /\ \A l \in Lists : /\ NextDue(l) \in 0..Undated /\ TopPriority(l) \in 0..3
                             /\ name[l] \in Nat /\ Folded[name[l]] \in Nat
                             /\ Summary(l) \in ListRows
<1>1. ASSUME NEW i \in Items
      PROVE  /\ rows[i].look.title \in Nat /\ rows[i].look.due \in 0..Undated
             /\ rows[i].look.priority \in 0..3
             /\ Shown(i) \in ItemRows
  <2>1. rows[i].look \in Looks /\ rows[i].done \in BOOLEAN
    BY DEF StoreTyped, Todos
  <2>2. rows[i].look \in [title : Nat, due : 0..Undated, priority : 0..3]
    BY <2>1, WorkspaceAssumption
  <2> QED
    BY <2>1, <2>2 DEF Shown, ItemRows
<1>2. ASSUME NEW l \in Lists
      PROVE  /\ NextDue(l) \in 0..Undated /\ TopPriority(l) \in 0..3
             /\ name[l] \in Nat /\ Folded[name[l]] \in Nat
             /\ Summary(l) \in ListRows
  <2>1. OpenOf(l) \subseteq Items
    BY DEF OpenOf, Open, HeldItems
  <2>2. NextDue(l) \in 0..Undated
    <3>1. {rows[i].look.due : i \in OpenOf(l)} \cup {Undated} \in SUBSET (0..Undated)
      BY <1>1, <2>1, WorkspaceAssumption
    <3> QED
      BY <3>1, Extremes DEF NextDue
  <2>3. TopPriority(l) \in 0..3
    <3>1. {rows[i].look.priority : i \in OpenOf(l)} \cup {0} \in SUBSET (0..3)
      BY <1>1, <2>1
    <3> QED
      BY <3>1, Extremes DEF TopPriority
  <2>4. Cardinality(OpenOf(l)) \in Nat
    BY <2>1, WorkspaceAssumption, FS_Subset, FS_CardinalityType
  <2>5. name[l] \in Names \cup {NoName}
    BY DEF StoreTyped
  <2>6. name[l] \in Nat /\ Folded[name[l]] \in Nat
    <3>1. Names \subseteq Nat /\ NoName \in Nat
      BY WorkspaceAssumption DEF NoName
    <3>2. Folded \in [Names \cup {NoName} -> Nat]
      BY WorkspaceAssumption
    <3> QED
      BY <2>5, <3>1, <3>2
  <2> QED
    BY <2>2, <2>3, <2>4, <2>5, <2>6 DEF Summary, ListRows
<1> QED
  BY <1>1, <1>2

\* What the store answers fits the panes.
LEMMA Answers ==
  ASSUME StoreTyped, NEW s \in Range(SortModes)
  PROVE  Summaries(s) \in ListSeqs /\ \A t : LoadView(t, s) \in ItemSeqs
<1>1. \A T \in SUBSET Lists : IsFiniteSet(T) /\ Cardinality(T) <= Cardinality(Lists)
  BY WorkspaceAssumption, FS_Subset
<1>2. \A T \in SUBSET Items : IsFiniteSet(T) /\ Cardinality(T) <= Cardinality(Items)
  BY WorkspaceAssumption, FS_Subset
<1>3. Summaries(s) \in ListSeqs
  <2> DEFINE key == [l \in held |-> <<ListKey(s, l), name[l], Rank[l]>>]
             order == SortItems(held, key)
  <2>1. held \in SUBSET Lists /\ held \in SUBSET Ids
    BY DEF StoreTyped, Ids
  <2>2. ASSUME NEW l \in held PROVE key[l] \in Triples
    <3>1. /\ NextDue(l) \in 0..Undated /\ TopPriority(l) \in 0..3
          /\ name[l] \in Nat /\ Folded[name[l]] \in Nat
      BY <2>1, RowTypes
    <3>2. ListKey(s, l) \in Nat
      BY <3>1, ModeNames, WorkspaceAssumption DEF ListKey
    <3>3. Rank[l] \in Nat
      BY <2>1, WorkspaceAssumption
    <3> QED
      BY <3>1, <3>2, <3>3 DEF Triples
  <2> HIDE DEF key
  <2>3. order \in Seq(held) /\ Len(order) = Cardinality(held)
    BY <2>1, <2>2, SortItemsSorts
  <2>4. Summaries(s) = [n \in 1..Len(order) |-> Summary(order[n])]
    BY DEF Summaries, key
  <2> HIDE DEF order
  <2>5. \A n \in 1..Len(order) : order[n] \in Lists
    BY <2>1, <2>3
  <2>6. \A n \in 1..Len(order) : Summary(order[n]) \in ListRows
    BY <2>5, RowTypes
  <2>7. Summaries(s) \in [1..Len(order) -> ListRows] /\ Len(order) \in Nat
    BY <2>3, <2>4, <2>6
  <2>8. Summaries(s) \in Seq(ListRows) /\ Len(Summaries(s)) = Len(order)
    BY <2>7
  <2> QED
    BY <1>1, <2>1, <2>3, <2>8 DEF ListSeqs
<1>4. ASSUME NEW t PROVE LoadView(t, s) \in ItemSeqs
  <2> DEFINE S == InView(t)
             key == [i \in S |-> <<ItemKey(s, i), QueryKey(t, i), Rank[i]>>]
             order == SortItems(S, key)
  <2>1. S \in SUBSET Items /\ S \in SUBSET Ids
    BY DEF InView, Open, HeldItems, Ids
  <2>2. ASSUME NEW i \in S PROVE key[i] \in Triples
    <3>1. /\ rows[i].look.title \in Nat /\ rows[i].look.due \in 0..Undated
          /\ rows[i].look.priority \in 0..3
      BY <2>1, RowTypes
    <3>2. ItemKey(s, i) \in Nat
      BY <3>1, ModeNames, WorkspaceAssumption DEF ItemKey
    <3>3. QueryKey(t, i) \in Nat /\ Rank[i] \in Nat
      BY <2>1, <3>1, WorkspaceAssumption DEF QueryKey
    <3> QED
      BY <3>2, <3>3 DEF Triples
  <2> HIDE DEF key
  <2>3. order \in Seq(S) /\ Len(order) = Cardinality(S)
    BY <2>1, <2>2, SortItemsSorts
  <2>4. LoadView(t, s) = [n \in 1..Len(order) |-> Shown(order[n])]
    BY DEF LoadView, key
  <2> HIDE DEF order, S
  <2>5. \A n \in 1..Len(order) : order[n] \in Items
    BY <2>1, <2>3
  <2>6. \A n \in 1..Len(order) : Shown(order[n]) \in ItemRows
    BY <2>5, RowTypes
  <2>7. LoadView(t, s) \in [1..Len(order) -> ItemRows] /\ Len(order) \in Nat
    BY <2>3, <2>4, <2>6
  <2>8. LoadView(t, s) \in Seq(ItemRows) /\ Len(LoadView(t, s)) = Len(order)
    BY <2>7
  <2> QED
    BY <1>2, <2>1, <2>3, <2>8 DEF ItemSeqs
<1> QED
  BY <1>3, <1>4

Replies == [op : {"Snapshot"}, lists : ListSeqs, panes : Seq(ItemSeqs)] \cup Fetched
PaneRows == [target : Targets, items : ItemSeqs]

\* The bounds that TypeOK states of the selections need those of the rows.
RowsBounded ==
    /\ listed \in ListSeqs
    /\ panes \in Seq(PaneRows)
    /\ replies \in Seq(Replies)

\* A turn dispatches something.
TurnHasActions == turn = "actions" => left # 0

TypeInv == TypeOK /\ RowsBounded /\ TurnHasActions

\* The commands' fields.
LEMMA CommandFields ==
  ASSUME NEW c \in Commands
  PROVE  /\ c.op \in {"ToggleDone", "DeleteTodo", "EditTodo", "FetchFullItem", "ApplyRemote"}
               => c.on \in Items
         /\ c.op \in {"RenameList", "AddTodo", "DeleteList", "AddMember", "RemoveMember",
                      "FetchMembers", "Ingest"} => c.on \in Lists
         /\ c.op \in {"CreateList", "RenameList"} => c.name \in Names
         /\ c.op \in {"AddTodo", "EditTodo"} => c.look \in Looks
         /\ c.op = "ApplyRemote" => c.to \in Todos
         /\ c.op = "SetView" => c.targets \in Layouts /\ c.sort \in Range(SortModes)
BY DEF Commands, Written, OnItem, OnList

\* A document changed by an edit, and the table after it, are well typed.
LEMMA EditTyped ==
  ASSUME StoreTyped, NEW c \in Commands, Edit(c)
  PROVE  StoreTyped'
<1> USE DEF StoreTyped, HeldItems
<1>1. c.op \in {"ToggleDone", "EditTodo", "DeleteTodo", "AddTodo", "RenameList"}
  BY DEF Edit, EditsDoc
<1>2. /\ docs' \in [Items -> Todos]
      /\ unused' \subseteq unused
      /\ \A i \in unused' \cap Items : docs'[i].at = "nowhere"
  <2>1. CASE c.op = "ToggleDone"
    <3>1. c.on \in Items /\ docs[c.on].at = "list" /\ UNCHANGED unused
      BY <2>1, CommandFields DEF Edit, EditsDoc
    <3>2. PICK d \in BOOLEAN : docs' = [docs EXCEPT ![c.on].done = d]
      BY <2>1 DEF Edit, EditsDoc
    <3>3. docs' \in [Items -> Todos]
      BY <3>1, <3>2 DEF Todos
    <3>4. \A i \in Items : i # c.on => docs'[i] = docs[i]
      BY <3>2
    <3> QED
      BY <3>1, <3>3, <3>4
  <2>2. CASE c.op = "EditTodo"
    <3>1. c.on \in Items /\ c.look \in Looks /\ docs[c.on].at = "list" /\ UNCHANGED unused
      BY <2>2, CommandFields DEF Edit, EditsDoc
    <3>2. docs' = [docs EXCEPT ![c.on].look = c.look]
      BY <2>2 DEF Edit, EditsDoc
    <3>3. docs' \in [Items -> Todos]
      <4>1. docs[c.on] \in Todos
        BY <3>1
      <4>2. [docs[c.on] EXCEPT !.look = c.look] \in Todos
        BY <3>1, <4>1 DEF Todos
      <4> QED
        BY <3>1, <3>2, <4>2
    <3>4. \A i \in Items : i # c.on => docs'[i] = docs[i]
      BY <3>2
    <3> QED
      BY <3>1, <3>3, <3>4
  <2>3. CASE c.op = "DeleteTodo"
    BY <2>3, CommandFields DEF Edit, EditsDoc, Todos
  <2>4. CASE c.op = "AddTodo"
    <3>1. PICK i \in unused \cap Items :
             /\ docs' = [docs EXCEPT ![i] = [at |-> "list", done |-> FALSE,
                                             look |-> c.look]]
             /\ unused' = unused \ {i}
      BY <2>4 DEF Edit, EditsDoc, NewIn
    <3>2. [at |-> "list", done |-> FALSE, look |-> c.look] \in Todos
      BY <2>4, CommandFields DEF Todos
    <3>3. docs' \in [Items -> Todos]
      BY <3>1, <3>2
    <3>4. \A j \in Items : j # i => docs'[j] = docs[j]
      BY <3>1
    <3> QED
      BY <3>1, <3>3, <3>4
  <2>5. CASE c.op = "RenameList"
    BY <2>5 DEF Edit, EditsDoc
  <2> QED
    BY <1>1, <2>1, <2>2, <2>3, <2>4, <2>5
<1>3. name' \in [Lists -> Names \cup {NoName}]
  BY CommandFields DEF Edit
<1>4. ListFor(c) \in Lists
  BY <1>1, CommandFields, WorkspaceAssumption DEF ListFor
<1>5. UNCHANGED rows \/ (ListFor(c) \in keyed /\ Publish(ListFor(c)))
  BY DEF Edit
<1>6. UNCHANGED <<held, keyed>>
  BY DEF Edit
<1>7. CASE UNCHANGED rows
  BY <1>2, <1>3, <1>6, <1>7
<1>8. CASE ListFor(c) \in keyed /\ Publish(ListFor(c))
  <2>1. rows' = [i \in Items |-> IF ListOf[i] = ListFor(c) THEN docs'[i] ELSE rows[i]]
    BY <1>8 DEF Publish
  <2>2. rows' \in [Items -> Todos]
    BY <1>2, <2>1
  <2>3. \A i \in Items : rows'[i].at = "list" => ListOf[i] \in held
    BY <1>8, <2>1
  <2>4. \A i \in unused' \cap Items : rows'[i].at = "nowhere"
    BY <1>2, <2>1
  <2> QED
    BY <1>2, <1>3, <1>6, <2>2, <2>3, <2>4
<1> QED
  BY <1>5, <1>7, <1>8

\* So do the other commands leave them.
LEMMA CommandTyped ==
  ASSUME StoreTyped, NEW c \in Commands, Run(c)
  PROVE  StoreTyped'
<1> USE DEF StoreTyped, HeldItems
<1>1. CASE Edit(c)
  BY <1>1, EditTyped
<1>2. CASE CreateList(c)
  BY <1>2, CommandFields, WorkspaceAssumption DEF CreateList
<1>3. CASE DeleteList(c)
  <2>1. c.on \in Lists
    BY <1>3, CommandFields DEF DeleteList
  <2>2. docs' = [i \in Items |-> IF ListOf[i] = c.on THEN [docs[i] EXCEPT !.at = "nowhere"]
                                 ELSE docs[i]]
    BY <1>3 DEF DeleteList
  <2>3. \A i \in Items : /\ docs'[i] \in Todos
                         /\ ListOf[i] = c.on => docs'[i].at = "nowhere"
                         /\ ListOf[i] # c.on => docs'[i] = docs[i]
    BY <2>2 DEF Todos
  <2>4. docs' \in [Items -> Todos]
    BY <2>2, <2>3
  <2>5. rows' = [i \in Items |-> IF ListOf[i] = c.on THEN docs'[i] ELSE rows[i]]
    BY <1>3 DEF DeleteList, Publish
  <2>6. /\ rows' \in [Items -> Todos]
        /\ \A i \in Items : rows'[i].at = "list" => ListOf[i] # c.on /\ rows[i].at = "list"
    BY <2>3, <2>5
  <2>7. /\ held' = held \ {c.on} /\ keyed' = keyed \ {c.on} /\ unused' = unused
        /\ name' = [name EXCEPT ![c.on] = NoName]
    BY <1>3 DEF DeleteList
  <2>8. \A i \in unused' \cap Items : docs'[i].at = "nowhere" /\ rows'[i].at = "nowhere"
    BY <2>3, <2>5, <2>7
  <2>9. name' \in [Lists -> Names \cup {NoName}]
    BY <2>7
  <2> QED
    BY <2>4, <2>6, <2>7, <2>8, <2>9
<1>4. CASE Membership(c)
  BY <1>4 DEF Membership
<1>5. CASE Ingest(c)
  BY <1>5, CommandFields, WorkspaceAssumption DEF Ingest
<1>6. CASE ApplyRemote(c)
  <2>1. c.on \in Items /\ c.to \in Todos
    BY <1>6, CommandFields DEF ApplyRemote
  <2>2. CASE UNCHANGED storeVars
    BY <2>2 DEF storeVars
  <2>3. CASE ~UNCHANGED storeVars
    <3>1. /\ ListOf[c.on] \in held
          /\ docs' = IF docs[c.on].at = "deleted" THEN docs ELSE [docs EXCEPT ![c.on] = c.to]
          /\ unused' = unused \ {c.on}
          /\ rows' = [i \in Items |-> IF ListOf[i] = ListOf[c.on] THEN docs'[i] ELSE rows[i]]
          /\ UNCHANGED <<held, keyed, name>>
      BY <1>6, <2>3 DEF ApplyRemote, Publish
    <3>2. /\ docs' \in [Items -> Todos]
          /\ \A i \in unused' \cap Items : docs'[i].at = "nowhere"
      BY <2>1, <3>1
    <3>3. rows' \in [Items -> Todos] /\ \A i \in unused' \cap Items : rows'[i].at = "nowhere"
      BY <3>1, <3>2
    <3>4. \A i \in Items : rows'[i].at = "list" => ListOf[i] \in held
      BY <3>1
    <3> QED
      BY <3>1, <3>2, <3>3, <3>4
  <2> QED
    BY <2>2, <2>3
<1>7. CASE NoEdit(c) \/ NoCreate(c) \/ ServeView(c) \/ Fetch(c)
  BY <1>7 DEF NoEdit, NoCreate, ServeView, Fetch, storeVars
<1> QED
  BY <1>1, <1>2, <1>3, <1>4, <1>5, <1>6, <1>7 DEF Run

LEMMA StoreStep == ASSUME TypeInv, [Next]_vars PROVE StoreTyped'
<1>t. StoreTyped
  BY DEF TypeInv, TypeOK, StoreTyped
<1>1. ASSUME Serve PROVE StoreTyped'
  <2>1. Head(cmds) \in Commands /\ Run(Head(cmds))
    BY <1>1, HeadTailProperties DEF Serve, TypeInv, TypeOK
  <2> QED
    BY <1>t, <2>1, CommandTyped
<1>2. ASSUME UNCHANGED storeVars PROVE StoreTyped'
  BY <1>t, <1>2 DEF storeVars, StoreTyped, HeldItems
<1>3. Serve \/ UNCHANGED storeVars
  BY DEF Next, UserNext, vars, MoveSelection, OpenSelected, Split, ClosePane, CyclePane,
         CycleFocus, FocusOn, Emit, ModalKey, AtHome, Pressed, Drain, Dispatch, LookupEnds,
         Install, Remote
<1> QED
  BY <1>1, <1>2, <1>3

\* The commands that change the targets the worker holds.
Retargets == {"SetView", "DeleteList"}

LEMMA LayoutLens ==
  /\ \A w \in Layouts : w \in Seq(Targets) /\ Len(w) \in 1..2 /\ DOMAIN w = 1..Len(w)
  /\ \A w \in Seq(Targets) : Len(w) \in 1..2 => w \in Layouts
<1>1. ASSUME NEW w \in Layouts
      PROVE  w \in Seq(Targets) /\ Len(w) \in 1..2 /\ DOMAIN w = 1..Len(w)
  <2>1. PICK n \in 1..2 : w \in [1..n -> Targets]
    BY DEF Layouts
  <2> QED
    BY <2>1
<1>2. ASSUME NEW w \in Seq(Targets), Len(w) \in 1..2 PROVE w \in Layouts
  <2>1. w \in [1..Len(w) -> Targets]
    BY LenProperties
  <2> QED
    BY <1>2, <2>1 DEF Layouts
<1> QED
  BY <1>1, <1>2

WorkTyped == wtargets \in Layouts /\ wsort \in Range(SortModes)

LEMMA SnapshotTyped == StoreTyped /\ WorkTyped => Snapshot \in Replies
<1> SUFFICES ASSUME StoreTyped, WorkTyped PROVE Snapshot \in Replies
  OBVIOUS
<1>1. Summaries(wsort) \in ListSeqs /\ \A t : LoadView(t, wsort) \in ItemSeqs
  BY Answers DEF WorkTyped
<1>2. Len(wtargets) \in Nat
  BY LayoutLens DEF WorkTyped
<1>3. [p \in 1..Len(wtargets) |-> LoadView(wtargets[p], wsort)] \in Seq(ItemSeqs)
  BY <1>1, <1>2
<1> QED
  BY <1>1, <1>3 DEF Snapshot, Replies

LEMMA SnapshotTypedNext == (StoreTyped /\ WorkTyped => Snapshot \in Replies)'
  BY SnapshotTyped, PTL

\* What serving a command does to the worker's targets and sort, and answers.
LEMMA Served ==
  ASSUME behind \in BOOLEAN, NEW c, Run(c)
  PROVE  /\ \/ c.op \notin Retargets /\ UNCHANGED workVars
            \/ c.op = "SetView" /\ wtargets' = c.targets /\ wsort' = c.sort /\ Refresh
            \/ /\ c.op = "DeleteList" /\ wsort' = wsort /\ Refresh
               /\ wtargets' = [p \in 1..Len(wtargets) |->
                                 IF wtargets[p] = c.on THEN "AllTasks" ELSE wtargets[p]]
         /\ \/ Refresh
            \/ behind' = TRUE /\ UNCHANGED replies
            \/ /\ UNCHANGED <<held, name, rows, workVars, behind>>
               /\ \/ UNCHANGED replies
                  \/ /\ c.op \in {"FetchFullItem", "FetchMembers"}
                     /\ replies' = Append(replies, ActOn(IF c.op = "FetchMembers"
                                                         THEN "Members" ELSE "FullItem", c.on))
<1> USE DEF Retargets
<1>1. CASE Edit(c)
  <2>1. c.op \notin Retargets /\ UNCHANGED workVars
    BY <1>1 DEF Edit, EditsDoc
  <2>2. Refresh \/ UNCHANGED <<rows, replies>>
    BY <1>1 DEF Edit
  <2>3. UNCHANGED held /\ (Refresh \/ behind' = (behind \/ name' # name))
    BY <1>1 DEF Edit
  <2>4. CASE Refresh
    BY <2>1, <2>4
  <2>5. CASE ~Refresh /\ name' = name
    <3>1. behind' = (behind \/ FALSE)
      BY <2>3, <2>5, Zenon
    <3>2. behind' = behind
      BY <3>1
    <3> QED
      BY <2>1, <2>2, <2>3, <2>5, <3>2
  <2>6. CASE ~Refresh /\ name' # name
    BY <2>1, <2>2, <2>3, <2>6
  <2> QED
    BY <2>4, <2>5, <2>6
<1>2. CASE NoEdit(c)
  BY <1>2 DEF NoEdit, storeVars
<1>3. CASE CreateList(c)
  BY <1>3 DEF CreateList
<1>4. CASE NoCreate(c)
  BY <1>4 DEF NoCreate, storeVars
<1>5. CASE DeleteList(c)
  BY <1>5 DEF DeleteList
<1>6. CASE Membership(c)
  BY <1>6 DEF Membership
<1>7. CASE Ingest(c)
  BY <1>7 DEF Ingest
<1>8. CASE ApplyRemote(c)
  BY <1>8 DEF ApplyRemote, storeVars
<1>9. CASE ServeView(c)
  BY <1>9 DEF ServeView
<1>10. CASE Fetch(c)
  BY <1>10 DEF Fetch, storeVars
<1> QED
  BY <1>1, <1>2, <1>3, <1>4, <1>5, <1>6, <1>7, <1>8, <1>9, <1>10 DEF Run

LEMMA WorkStep ==
  ASSUME TypeInv, [Next]_vars
  PROVE  WorkTyped' /\ replies' \in Seq(Replies)
<1>t. /\ WorkTyped /\ replies \in Seq(Replies) /\ cmds \in Seq(Commands)
      /\ behind \in BOOLEAN
  BY DEF TypeInv, TypeOK, WorkTyped, RowsBounded
<1>1. ASSUME Serve PROVE WorkTyped' /\ replies' \in Seq(Replies)
  <2> DEFINE c == Head(cmds)
  <2>1. c \in Commands /\ Run(c)
    BY <1>t, <1>1, HeadTailProperties DEF Serve
  <2> HIDE DEF c
  <2>2. WorkTyped'
    <3>1. CASE UNCHANGED workVars
      BY <1>t, <3>1 DEF workVars, WorkTyped
    <3>2. CASE c.op = "SetView" /\ wtargets' = c.targets /\ wsort' = c.sort
      BY <2>1, <3>2, CommandFields DEF WorkTyped, Layouts, Targets, NoTarget
    <3>3. CASE /\ wsort' = wsort
               /\ wtargets' = [p \in 1..Len(wtargets) |->
                                 IF wtargets[p] = c.on THEN "AllTasks" ELSE wtargets[p]]
      <4>1. wtargets \in Seq(Targets) /\ Len(wtargets) \in 1..2
        BY <1>t, LayoutLens DEF WorkTyped
      <4>2. "AllTasks" \in Targets
        BY ModeNames DEF Targets
      <4>3. \A p \in 1..Len(wtargets) : wtargets[p] \in Targets
        BY <4>1
      <4>4. wtargets' \in [1..Len(wtargets) -> Targets]
        BY <3>3, <4>2, <4>3
      <4>5. wtargets' \in Layouts
        BY <4>1, <4>4 DEF Layouts
      <4> QED
        BY <1>t, <3>3, <4>5 DEF WorkTyped
    <3> QED
      BY <1>t, <2>1, <3>1, <3>2, <3>3, Served
  <2>3. Snapshot' \in Replies
    <3>1. Snapshot' \in Replies'
      BY <2>2, StoreStep, SnapshotTypedNext
    <3>2. Replies' = Replies
      BY DEF Replies, ListSeqs, ItemSeqs
    <3> QED
      BY <3>1, <3>2
  <2>4. CASE Refresh
    BY <1>t, <2>2, <2>3, <2>4 DEF Refresh
  <2>5. CASE UNCHANGED replies
    BY <1>t, <2>2, <2>5
  <2>6. CASE /\ c.op \in {"FetchFullItem", "FetchMembers"}
             /\ replies' = Append(replies, ActOn(IF c.op = "FetchMembers"
                                                 THEN "Members" ELSE "FullItem", c.on))
    <3>1. ActOn(IF c.op = "FetchMembers" THEN "Members" ELSE "FullItem", c.on) \in Replies
      BY <2>1, <2>6, CommandFields DEF ActOn, Replies, Fetched
    <3> QED
      BY <1>t, <2>2, <2>6, <3>1
  <2> QED
    BY <1>t, <2>1, <2>4, <2>5, <2>6, Served
<1>2. ASSUME Install PROVE WorkTyped' /\ replies' \in Seq(Replies)
  BY <1>t, <1>2, HeadTailProperties DEF Install, workVars, WorkTyped
<1>3. ASSUME UNCHANGED <<workVars, replies>>
      PROVE  WorkTyped' /\ replies' \in Seq(Replies)
  BY <1>t, <1>3 DEF workVars, WorkTyped
<1>4. Serve \/ Install \/ UNCHANGED <<workVars, replies>>
  BY DEF Next, UserNext, vars, MoveSelection, OpenSelected, Split, ClosePane, CyclePane,
         CycleFocus, FocusOn, Emit, ModalKey, AtHome, Pressed, Drain, Dispatch, LookupEnds,
         Remote
<1> QED
  BY <1>1, <1>2, <1>3, <1>4

\* What an action carries, and which of them are commands as they are.
LEMMA ActionFields ==
  ASSUME NEW a \in Actions
  PROVE  /\ a.op = "OpenView" => a.on \in Targets /\ a.pane \in 1..2
         /\ a.op = "ConfirmDelete" => a.on \in Ids
         /\ a.op = "EditTodoModal" => a.on \in Items
         /\ a.op \in {"AddTodoModal", "RenameListModal", "ShareModal", "MembersModal",
                      "ShareList", "AddResolvedMember", "Unshare"} => a.on \in Lists
         /\ a.op \in {"ToggleDone", "DeleteTodo", "DeleteList", "CreateList", "RenameList",
                      "AddTodo", "EditTodo"} => a \in Commands
         /\ a.op = "DeleteList" => a.on \in Lists
BY DEF Actions, Commands, Written, OnItem, OnList, Ids

LEMMA SetViewTyped ==
  ASSUME NEW ps \in Seq(PaneRows), Len(ps) \in 1..2, NEW s \in Range(SortModes)
  PROVE  SetView(ps, s) \in Commands
<1> DEFINE w == [p \in 1..Len(ps) |-> ps[p].target]
<1>1. \A p \in 1..Len(ps) : ps[p] \in PaneRows
  BY ElementOfSeq
<1>2. w \in [1..Len(ps) -> Targets]
  BY <1>1 DEF PaneRows
<1> HIDE DEF w
<1>3. w \in Layouts
  BY <1>2 DEF Layouts
<1> QED
  BY <1>3 DEF SetView, Commands, w

ViewTyped ==
    /\ panes \in Seq(PaneRows) /\ Len(panes) \in 1..2
    /\ sort \in Range(SortModes)
    /\ listed \in ListSeqs

LEMMA HandleTyped ==
  ASSUME TypeInv, NEW a \in Actions, Handle(a)
  PROVE  ViewTyped' /\ cmds' \in Seq(Commands)
<1>t. ViewTyped /\ cmds \in Seq(Commands)
  BY DEF TypeInv, TypeOK, RowsBounded, ViewTyped
<1>p. \A p \in 1..Len(panes) : panes[p] \in PaneRows
  BY <1>t, ElementOfSeq DEF ViewTyped
<1>1. CASE a.op = "OpenView"
  <2>1. /\ panes' = [p \in 1..Len(panes) |->
                      IF p = a.pane THEN [panes[p] EXCEPT !.target = a.on] ELSE panes[p]]
        /\ UNCHANGED <<listed, sort>> /\ cmds' = Append(cmds, SetView(panes', sort))
    BY <1>1 DEF Handle, Command
  <2>2. a.on \in Targets
    BY <1>1, ActionFields
  <2>3. \A p \in 1..Len(panes) : panes'[p] \in PaneRows
    BY <1>p, <2>1, <2>2 DEF PaneRows
  <2>4. panes' \in [1..Len(panes) -> PaneRows]
    BY <2>1, <2>3
  <2>5. ViewTyped'
    BY <1>t, <2>1, <2>4 DEF ViewTyped, ListSeqs
  <2>6. SetView(panes', sort) \in Commands
    BY <1>t, <2>1, <2>5, SetViewTyped DEF ViewTyped
  <2> QED
    BY <1>t, <2>1, <2>5, <2>6
<1>2. CASE a.op = "RefreshLists"
  BY <1>t, <1>2, SetViewTyped DEF Handle, Command, ViewTyped, viewVars, ListSeqs
<1>3. CASE a.op = "CycleSort"
  <2>1. sort' = Next3(sort) /\ UNCHANGED <<listed, panes>>
        /\ cmds' = Append(cmds, SetView(panes, sort'))
    BY <1>3 DEF Handle, Command
  <2>2. sort' \in Range(SortModes)
    BY <1>t, <2>1, ModeNames DEF ViewTyped
  <2> QED
    BY <1>t, <2>1, <2>2, SetViewTyped DEF ViewTyped, ListSeqs
<1>4. CASE a.op \in {"ToggleDone", "DeleteTodo", "CreateList", "RenameList", "AddTodo",
                    "EditTodo"}
  <2>1. UNCHANGED viewVars /\ cmds' = Append(cmds, a)
    BY <1>4 DEF Handle, Command
  <2>2. a \in Commands
    BY <1>4, ActionFields
  <2> QED
    BY <1>t, <2>1, <2>2 DEF ViewTyped, viewVars, ListSeqs
<1>5. CASE a.op = "DeleteList"
  <2>1. /\ panes' = [p \in 1..Len(panes) |->
                      IF panes[p].target = a.on
                      THEN [panes[p] EXCEPT !.target = "AllTasks"] ELSE panes[p]]
        /\ UNCHANGED <<listed, sort>> /\ cmds' = cmds \o <<a, SetView(panes', sort)>>
    BY <1>5 DEF Handle, Retarget
  <2>2. "AllTasks" \in Targets
    BY ModeNames DEF Targets
  <2>3. \A p \in 1..Len(panes) : panes'[p] \in PaneRows
    BY <1>p, <2>1, <2>2 DEF PaneRows
  <2>4. panes' \in [1..Len(panes) -> PaneRows]
    BY <2>1, <2>3
  <2>5. ViewTyped'
    BY <1>t, <2>1, <2>4 DEF ViewTyped, ListSeqs
  <2>6. SetView(panes', sort) \in Commands /\ a \in Commands
    BY <1>t, <1>5, <2>1, <2>5, SetViewTyped, ActionFields DEF ViewTyped
  <2>7. <<a, SetView(panes', sort)>> \in Seq(Commands)
    BY <2>6
  <2> QED
    BY <1>t, <2>1, <2>5, <2>7, ConcatProperties
<1>6. CASE a.op \in {"AddResolvedMember", "Unshare", "EditTodoModal", "MembersModal"}
  <2>1. UNCHANGED viewVars
    BY <1>6 DEF Handle
  <2>2. \E c \in Commands : cmds' = Append(cmds, c)
    <3>1. CASE a.op \in {"AddResolvedMember", "Unshare"}
      <4>1. cmds' = Append(cmds,
               ActOn(IF a.op = "Unshare" THEN "RemoveMember" ELSE "AddMember", a.on))
        BY <3>1 DEF Handle, Command
      <4>2. ActOn(IF a.op = "Unshare" THEN "RemoveMember" ELSE "AddMember", a.on) \in Commands
        BY <3>1, ActionFields DEF ActOn, Commands
      <4> QED
        BY <4>1, <4>2
    <3>2. CASE a.op \in {"EditTodoModal", "MembersModal"}
      <4>1. cmds' = Append(cmds,
               ActOn(IF a.op = "MembersModal" THEN "FetchMembers" ELSE "FetchFullItem", a.on))
        BY <3>2 DEF Handle, Command
      <4>2. ActOn(IF a.op = "MembersModal" THEN "FetchMembers" ELSE "FetchFullItem", a.on)
              \in Commands
        BY <3>2, ActionFields DEF ActOn, Commands
      <4> QED
        BY <4>1, <4>2
    <3> QED
      BY <1>6, <3>1, <3>2
  <2> QED
    BY <1>t, <2>1, <2>2 DEF ViewTyped, viewVars, ListSeqs
<1>7. CASE a.op \in {"ConfirmDelete", "NewListModal", "RenameListModal", "AddTodoModal",
                    "ShareModal", "OpenEditReady", "OpenMembersReady", "ShareList",
                    "CloseModal", "ToggleSidebar"}
  BY <1>t, <1>7 DEF Handle, Opens, Ignored, ViewTyped, viewVars, ListSeqs
<1> QED
  BY <1>1, <1>2, <1>3, <1>4, <1>5, <1>6, <1>7 DEF Handle

\* The first action of a turn.
LEMMA HeadActs ==
  ASSUME TypeInv, Dispatch
  PROVE  /\ acts # <<>> /\ acts \in Seq(Actions) /\ left \in 1..Len(acts)
         /\ Head(acts) \in Actions /\ Handle(Head(acts))
         /\ Tail(acts) \in Seq(Actions) /\ Len(Tail(acts)) = Len(acts) - 1
<1>1. turn = "actions" /\ Handle(Head(acts))
  BY DEF Dispatch
<1>2. acts \in Seq(Actions) /\ left \in 0..Len(acts) /\ left # 0
  BY <1>1 DEF TypeInv, TypeOK, TurnHasActions
<1>3. acts # <<>>
  BY <1>2
<1> QED
  BY <1>1, <1>2, <1>3, HeadTailProperties

LEMMA ViewStep ==
  ASSUME TypeInv, [Next]_vars
  PROVE  ViewTyped' /\ cmds' \in Seq(Commands)
<1>t. ViewTyped /\ cmds \in Seq(Commands) /\ active \in 1..Len(panes)
  BY DEF TypeInv, TypeOK, RowsBounded, ViewTyped
<1>p. \A p \in 1..Len(panes) : panes[p] \in PaneRows
  BY <1>t, ElementOfSeq DEF ViewTyped
<1>1. CASE Dispatch
  BY <1>1, HeadActs, HandleTyped
<1>2. CASE Install
  <2> DEFINE snap == Head(replies)
  <2>1. snap \in Replies
    BY <1>2, HeadTailProperties DEF Install, TypeInv, RowsBounded
  <2>2. UNCHANGED <<sort, cmds>>
    BY <1>2 DEF Install
  <2>3. \/ UNCHANGED <<listed, panes>>
        \/ /\ snap.op = "Snapshot"
           /\ listed' = snap.lists
           /\ panes' = [p \in 1..Len(panes) |->
                          IF p <= Len(snap.panes)
                          THEN [panes[p] EXCEPT !.items = snap.panes[p]] ELSE panes[p]]
    BY <1>2 DEF Install
  <2> HIDE DEF snap
  <2>4. CASE UNCHANGED <<listed, panes>>
    BY <1>t, <2>2, <2>4 DEF ViewTyped
  <2>5. CASE /\ snap.op = "Snapshot"
             /\ listed' = snap.lists
             /\ panes' = [p \in 1..Len(panes) |->
                            IF p <= Len(snap.panes)
                            THEN [panes[p] EXCEPT !.items = snap.panes[p]] ELSE panes[p]]
    <3>1. snap.lists \in ListSeqs /\ snap.panes \in Seq(ItemSeqs)
      BY <2>1, <2>5 DEF Replies, Fetched
    <3>2. \A p \in 1..Len(panes) : p <= Len(snap.panes) => snap.panes[p] \in ItemSeqs
      BY <3>1
    <3>3. \A p \in 1..Len(panes) : panes'[p] \in PaneRows
      BY <1>p, <2>5, <3>2 DEF PaneRows
    <3>4. panes' \in [1..Len(panes) -> PaneRows]
      BY <2>5, <3>3
    <3> QED
      BY <1>t, <2>2, <2>5, <3>1, <3>4 DEF ViewTyped
  <2> QED
    BY <2>3, <2>4, <2>5
<1>3. CASE Split
  BY <1>t, <1>p, <1>3 DEF Split, SplitPanes, AtHome, Pressed, ViewTyped, ListSeqs
<1>4. CASE ClosePane
  BY <1>t, <1>p, <1>4 DEF ClosePane, AtHome, Pressed, ViewTyped, ListSeqs
<1>5. CASE Serve
  BY <1>t, <1>5, HeadTailProperties DEF Serve, viewVars, ViewTyped, ListSeqs
<1>6. CASE Remote
  <2>1. PICK c \in Commands : cmds' = Append(cmds, c)
    BY <1>6 DEF Remote, Command, ActOn, Commands
  <2>2. UNCHANGED viewVars
    BY <1>6 DEF Remote
  <2> QED
    BY <1>t, <2>1, <2>2 DEF viewVars, ViewTyped, ListSeqs
<1>7. CASE UNCHANGED <<viewVars, cmds>>
  BY <1>t, <1>7 DEF viewVars, ViewTyped, ListSeqs
<1>8. Dispatch \/ Install \/ Split \/ ClosePane \/ Serve \/ Remote \/ UNCHANGED <<viewVars, cmds>>
  BY DEF Next, UserNext, vars, MoveSelection, OpenSelected, CyclePane,
         CycleFocus, FocusOn, Emit, ModalKey, AtHome, Pressed, Drain, LookupEnds
<1> QED
  BY <1>1, <1>2, <1>3, <1>4, <1>5, <1>6, <1>7, <1>8

\* A selection stays among the rows.
LEMMA MovedWithin ==
  ASSUME NEW cur \in Nat, NEW len \in Nat \ {0}, NEW d \in {"next", "prev"}
  PROVE  Moved(cur, len, d) \in 0..(len - 1)
<1>1. Least2(cur, len - 1) + (IF d = "next" THEN 1 ELSE len - 1) \in Nat
  BY DEF Least2
<1>2. \A n \in Nat : n % len \in 0..(len - 1)
  OBVIOUS
<1> QED
  BY <1>1, <1>2 DEF Moved

LoopTyped ==
    /\ modal = <<>> \/ \E d \in Dialogs : modal = <<d>>
    /\ acts \in Seq(Actions)
    /\ pending \subseteq Items \cup Lists /\ lookups \subseteq Lists
    /\ left \in 0..Len(acts) /\ turn \in {"wait", "burst", "actions"} /\ TurnHasActions
    /\ behind \in BOOLEAN
    /\ keys \in 0..MaxKeys /\ remote \in 0..MaxRemote

\* A key queues at most one action, one the loop knows.
LEMMA UserSends ==
  ASSUME TypeInv, UserNext
  PROVE  /\ acts' = acts \/ \E a \in Actions : acts' = Append(acts, a)
         /\ turn' = "burst" /\ keys < MaxKeys /\ keys' = keys + 1
         /\ UNCHANGED <<modal, left, pending, lookups, behind, remote>>
<1>t. /\ panes \in Seq(PaneRows) /\ active \in 1..Len(panes) /\ listed \in Seq(ListRows)
      /\ row \in Nat /\ sel \in [1..2 -> Nat] /\ Len(panes) \in 1..2
  BY WorkspaceAssumption, FS_CardinalityType, ModeNames DEF TypeInv, TypeOK, RowsBounded
<1>p. panes[active].items \in Seq(ItemRows) /\ panes[active].target \in Targets
  <2>1. panes[active] \in PaneRows
    BY <1>t, ElementOfSeq
  <2> QED
    BY <2>1 DEF PaneRows, ItemSeqs
<1>a. active \in 1..2 /\ sel[active] \in Nat
  <2>1. active \in 1..2
    <3>1. Len(panes) \in 1..2 /\ active \in 1..Len(panes)
      BY <1>t
    <3>2. \A m \in 1..2 : \A k \in 1..m : k \in 1..2
      OBVIOUS
    <3> QED
      BY <3>1, <3>2
  <2>2. sel \in [1..2 -> Nat]
    BY <1>t
  <2> QED
    BY <2>1, <2>2
<1>w. TargetAt(row) \in Targets
  <2>1. CASE row < Len(Metas)
    BY <1>t, <2>1, ModeNames DEF TargetAt, Targets, Metas
  <2>2. CASE ~(row < Len(Metas)) /\ row - Len(Metas) < Len(listed)
    <3>1. row - Len(Metas) + 1 \in 1..Len(listed)
      BY <1>t, <2>2, ModeNames
    <3>2. listed[row - Len(Metas) + 1] \in ListRows
      BY <1>t, <3>1, ElementOfSeq
    <3>3. TargetAt(row) = listed[row - Len(Metas) + 1].id
      BY <2>2 DEF TargetAt
    <3> QED
      BY <3>2, <3>3 DEF ListRows, Targets
  <2>3. CASE ~(row < Len(Metas)) /\ ~(row - Len(Metas) < Len(listed))
    BY <2>3 DEF TargetAt, Targets
  <2> QED
    BY <2>1, <2>2, <2>3
<1>i. SelectedItem \subseteq Items /\ CurrentList \subseteq Lists /\ SelectedList \subseteq Lists
  <2> DEFINE shown == panes[active].items
             k == sel[active] + 1
  <2>1. SelectedItem \subseteq Items
    <3>1. SelectedItem = IF sel[active] < Len(shown) THEN {shown[k].id} ELSE {}
      BY DEF SelectedItem
    <3>2. shown \in Seq(ItemRows) /\ Len(shown) \in Nat
      BY <1>p
    <3> HIDE DEF shown
    <3>3. sel[active] < Len(shown) => k \in 1..Len(shown)
      BY <1>a, <3>2
    <3> HIDE DEF k
    <3>4. sel[active] < Len(shown) => shown[k] \in ItemRows
      BY <3>2, <3>3, ElementOfSeq
    <3> QED
      BY <3>1, <3>4 DEF ItemRows
  <2> QED
    BY <2>1 DEF CurrentList, SelectedList
<1>1. CASE OpenSelected
  <2>1. TargetAt(row) \in Targets \ {NoTarget}
    BY <1>w, <1>1 DEF OpenSelected
  <2>2. [op |-> "OpenView", on |-> TargetAt(row), pane |-> active] \in Actions
    BY <1>a, <2>1 DEF Actions
  <2> QED
    BY <1>1, <2>2 DEF OpenSelected, AtHome, Pressed, Send
<1>2. CASE Split \/ ClosePane
  <2>1. Act("RefreshLists") \in Actions
    BY DEF Act, Actions
  <2> QED
    BY <1>2, <2>1 DEF Split, ClosePane, AtHome, Pressed, Send
<1>3. CASE Emit
  <2>1. Emitted \subseteq Actions
    BY <1>i DEF Emitted, CommandList, Act, ActOn, Actions, OnItem, OnList
  <2> QED
    BY <1>3, <2>1 DEF Emit, AtHome, Pressed, Send
<1>4. CASE ModalKey
  <2>1. PICK d \in Dialogs : modal = <<d>>
    BY <1>4 DEF ModalKey, TypeInv, TypeOK
  <2>2. modal[1] = d
    BY <2>1
  <2>3. Filled(d) \subseteq Actions
    <3>1. CASE d.op \in {"CreateList", "RenameList", "AddTodo", "EditTodo"}
      BY <3>1 DEF Filled, NewName, Rename, Save, Dialogs, Actions, Written
    <3>2. CASE d.op \notin {"CreateList", "RenameList", "AddTodo", "EditTodo"}
      BY <3>2 DEF Filled, Dialogs, Actions, OnItem, OnList
    <3> QED
      BY <3>1, <3>2
  <2>4. {Act("CloseModal"), Act("ToggleSidebar")} \subseteq Actions
    BY DEF Act, Actions
  <2> QED
    BY <1>4, <2>2, <2>3, <2>4 DEF ModalKey, Pressed, Send
<1>5. CASE (\E d \in {"next", "prev"} : MoveSelection(d)) \/ CyclePane \/ CycleFocus
           \/ (\E f \in {"Sidebar", "Pane"} : FocusOn(f))
  BY <1>5 DEF MoveSelection, CyclePane, CycleFocus, FocusOn, AtHome, Pressed
<1> QED
  BY <1>1, <1>2, <1>3, <1>4, <1>5 DEF UserNext

\* What dispatching an action leaves of the queue, the modal and the layout.
LEMMA HandleLoop ==
  ASSUME TypeInv, NEW a \in Actions, Handle(a)
  PROVE  /\ acts' = Tail(acts) \/ acts' = Append(Tail(acts), Act("CloseModal"))
         /\ modal' = modal \/ modal' = <<>> \/ \E d \in Dialogs : modal' = <<d>>
         /\ UNCHANGED <<row, active, sel>> /\ Len(panes') = Len(panes)
         /\ visible' \in {visible, ~visible} /\ focus' \in {"Pane", focus}
<1>t. Len(panes) \in 1..2
  BY DEF TypeInv, TypeOK
<1>1. CASE a.op \in {"OpenView", "RefreshLists", "CycleSort", "ToggleDone", "EditTodoModal",
                    "MembersModal", "ShareList"}
  BY <1>t, <1>1 DEF Handle, Done, Ignored, homeVars, viewVars
<1>2. CASE a.op \in {"DeleteTodo", "CreateList", "RenameList", "AddTodo", "EditTodo",
                    "AddResolvedMember", "Unshare", "DeleteList"}
  BY <1>t, <1>2 DEF Handle, homeVars, viewVars, Retarget
<1>3. CASE a.op = "ConfirmDelete"
  <2>1. ActOn(IF a.on \in Lists THEN "DeleteList" ELSE "DeleteTodo", a.on) \in Dialogs
    BY <1>3, ActionFields DEF ActOn, Dialogs, Ids
  <2> QED
    BY <1>3, <2>1 DEF Handle, Opens, homeVars, viewVars
<1>4. CASE a.op = "NewListModal"
  BY <1>4 DEF Handle, Opens, homeVars, viewVars, Act, Dialogs
<1>5. CASE a.op \in {"AddTodoModal", "RenameListModal", "ShareModal"}
  <2>1. \A op \in {"AddTodo", "RenameList", "ShareList"} : ActOn(op, a.on) \in Dialogs
    BY <1>5, ActionFields DEF ActOn, Dialogs
  <2> QED
    BY <1>5, <2>1 DEF Handle, Opens, homeVars, viewVars
<1>6. CASE a.op \in {"OpenEditReady", "OpenMembersReady"}
  <2>1. /\ \A i \in Items : ActOn("EditTodo", i) \in Dialogs
        /\ \A l \in Lists : ActOn("Unshare", l) \in Dialogs
    BY DEF ActOn, Dialogs
  <2>2. Ignored \/ \E d \in Dialogs : Opens(d)
    <3>1. CASE a.op = "OpenEditReady"
      BY <2>1, <3>1 DEF Handle
    <3>2. CASE a.op = "OpenMembersReady"
      BY <2>1, <3>2 DEF Handle
    <3> QED
      BY <1>6, <3>1, <3>2
  <2> QED
    BY <2>2 DEF Ignored, Opens, Done, homeVars, viewVars
<1>7. CASE a.op = "CloseModal"
  BY <1>7 DEF Handle, homeVars, viewVars
<1>8. CASE a.op = "ToggleSidebar"
  BY <1>8 DEF Handle, viewVars
<1> QED
  BY <1>1, <1>2, <1>3, <1>4, <1>5, <1>6, <1>7, <1>8 DEF Handle

LEMMA LoopStep == ASSUME TypeInv, [Next]_vars PROVE LoopTyped'
<1> USE DEF LoopTyped, TurnHasActions
<1>t. LoopTyped
  BY DEF TypeInv, TypeOK
<1>1. CASE UserNext
  <2>a. Act("CloseModal") \in Actions
    BY DEF Act, Actions
  <2>1. PICK a \in Actions : acts' = acts \/ acts' = Append(acts, a)
    BY <1>1, <2>a, UserSends
  <2>2. acts' \in Seq(Actions) /\ Len(acts) <= Len(acts')
    BY <1>t, <2>1
  <2> QED
    BY <1>t, <1>1, <2>2, UserSends, WorkspaceAssumption
<1>2. CASE Drain
  BY <1>t, <1>2, EmptySeq DEF Drain
<1>3. CASE Dispatch
  <2> DEFINE a == Head(acts)
  <2>1. /\ acts' = Tail(acts) \/ acts' = Append(Tail(acts), Act("CloseModal"))
        /\ modal' = modal \/ modal' = <<>> \/ \E d \in Dialogs : modal' = <<d>>
    BY <1>3, HeadActs, HandleLoop
  <2>a. Act("CloseModal") \in Actions
    BY DEF Act, Actions
  <2>t. Tail(acts) \in Seq(Actions) /\ Len(Tail(acts)) = Len(acts) - 1
    BY <1>3, HeadActs
  <2>2. acts' \in Seq(Actions) /\ Len(Tail(acts)) <= Len(acts')
    BY <2>a, <2>t, <2>1
  <2>3. pending' \subseteq Items \cup Lists /\ lookups' \subseteq Lists
    <3>1. pending' \subseteq pending
      BY <1>3 DEF Dispatch
    <3>2. lookups' = lookups \/ (a.op = "ShareList" /\ lookups' = lookups \cup {a.on})
      BY <1>3 DEF Dispatch
    <3>3. a.op = "ShareList" => a.on \in Lists
      BY <1>3, HeadActs, ActionFields
    <3> QED
      BY <1>t, <3>1, <3>2, <3>3
  <2> QED
    BY <1>t, <1>3, <2>t, <2>1, <2>2, <2>3, HeadActs DEF Dispatch
<1>4. CASE Install
  <2>1. Head(replies) \in Replies
    BY <1>4, HeadTailProperties DEF Install, TypeInv, RowsBounded
  <2>2. acts' \in Seq(Actions) /\ pending' \subseteq Items \cup Lists
    <3>1. Act("OpenEditReady") \in Actions /\ Act("OpenMembersReady") \in Actions
      BY DEF Act, Actions
    <3>2. /\ Head(replies).op = "FullItem" => Head(replies).on \in Items
          /\ Head(replies).op = "Members" => Head(replies).on \in Lists
      BY <2>1 DEF Replies, Fetched
    <3>3. \/ UNCHANGED <<acts, pending>>
          \/ /\ Head(replies).op = "FullItem"
             /\ pending' = (pending \ Items) \cup {Head(replies).on}
             /\ acts' = Append(acts, Act("OpenEditReady"))
          \/ /\ Head(replies).op = "Members"
             /\ pending' = (pending \ Lists) \cup {Head(replies).on}
             /\ acts' = Append(acts, Act("OpenMembersReady"))
      BY <1>4 DEF Install, Send
    <3>4. acts \in Seq(Actions) /\ pending \subseteq Items \cup Lists
      BY <1>t
    <3> HIDE DEF LoopTyped, TurnHasActions
    <3>5. acts' \in Seq(Actions)
      BY <3>1, <3>3, <3>4
    <3>6. pending' \subseteq Items \cup Lists
      BY <3>2, <3>3, <3>4
    <3> QED
      BY <3>5, <3>6
  <2>3. /\ left' = Len(acts') /\ turn' = IF acts' = <<>> THEN "wait" ELSE "actions"
        /\ UNCHANGED <<modal, lookups, behind, keys, remote>>
    BY <1>4 DEF Install
  <2> QED
    BY <1>t, <2>2, <2>3, EmptySeq
<1>5. CASE Serve
  <2>1. behind' \in BOOLEAN
    <3>1. Run(Head(cmds))
      BY <1>5 DEF Serve
    <3> QED
      BY <1>t, <3>1, Served DEF Refresh
  <2> QED
    BY <1>t, <1>5, <2>1 DEF Serve
<1>6. CASE Remote
  BY <1>t, <1>6, WorkspaceAssumption DEF Remote
<1>8. CASE LookupEnds
  <2>1. PICK l \in lookups : lookups' = lookups \ {l}
                             /\ (acts' = Append(acts, ActOn("AddResolvedMember", l))
                                   \/ UNCHANGED acts)
    BY <1>8 DEF LookupEnds, Send
  <2>2. ActOn("AddResolvedMember", l) \in Actions
    BY <1>t DEF ActOn, Actions
  <2>3. acts' \in Seq(Actions) /\ Len(acts) <= Len(acts')
    BY <1>t, <2>1, <2>2
  <2> QED
    BY <1>t, <1>8, <2>1, <2>3 DEF LookupEnds
<1>7. CASE UNCHANGED vars
  BY <1>t, <1>7 DEF vars
<1> QED
  BY <1>1, <1>2, <1>3, <1>4, <1>5, <1>6, <1>7, <1>8 DEF Next

HomeTyped ==
    /\ focus \in {"Sidebar", "Pane"} /\ visible \in BOOLEAN
    /\ row \in 0..(Len(Metas) + Cardinality(Lists) - 1)
    /\ active \in 1..Len(panes)
    /\ sel \in [1..2 -> 0..Cardinality(Items)]

LEMMA HomeStep == ASSUME TypeInv, [Next]_vars PROVE HomeTyped'
<1> USE DEF HomeTyped
<1>t. HomeTyped /\ Len(panes) \in 1..2 /\ listed \in ListSeqs /\ panes \in Seq(PaneRows)
  BY DEF TypeInv, TypeOK, RowsBounded
<1>c. Cardinality(Lists) \in Nat /\ Cardinality(Items) \in Nat /\ Len(Metas) = 2
  BY WorkspaceAssumption, FS_CardinalityType, ModeNames
<1>a. active \in 1..2 /\ panes[active] \in PaneRows
  BY <1>t, ElementOfSeq
<1>1. ASSUME NEW d \in {"next", "prev"}, MoveSelection(d) PROVE HomeTyped'
  <2> DEFINE len == Len(panes[active].items)
             all == Len(Metas) + Len(listed)
  <2>1. len \in 0..Cardinality(Items)
    BY <1>a, <1>c DEF PaneRows, ItemSeqs
  <2>2. UNCHANGED <<panes, focus, active, visible>>
    BY <1>1 DEF MoveSelection, viewVars
  <2>3. CASE row' = Moved(row, all, d) /\ UNCHANGED sel
    <3>1. Len(listed) \in 0..Cardinality(Lists) /\ row \in Nat
      BY <1>t, <1>c DEF ListSeqs
    <3>2. all \in Nat \ {0} /\ all <= Len(Metas) + Cardinality(Lists)
      BY <1>c, <3>1
    <3> HIDE DEF all
    <3>3. row' \in 0..(all - 1)
      BY <2>3, <3>1, <3>2, MovedWithin
    <3> QED
      BY <1>t, <1>c, <2>2, <2>3, <3>2, <3>3
  <2>4. CASE len # 0 /\ sel' = [sel EXCEPT ![active] = Moved(sel[active], len, d)]
             /\ UNCHANGED row
    <3>1. sel[active] \in Nat
      BY <1>t, <1>a, <1>c
    <3> HIDE DEF len
    <3>2. Moved(sel[active], len, d) \in 0..(len - 1)
      BY <1>c, <2>1, <2>4, <3>1, MovedWithin
    <3>3. Moved(sel[active], len, d) \in 0..Cardinality(Items)
      BY <1>c, <2>1, <3>2
    <3> QED
      BY <1>t, <2>2, <2>4, <3>3
  <2> QED
    BY <1>1, <2>3, <2>4 DEF MoveSelection
<1>2. CASE OpenSelected
  BY <1>t, <1>a, <1>c, <1>2 DEF OpenSelected, AtHome, viewVars
<1>3. CASE Split
  <2>1. Len(panes') = 2 /\ active' = 2
    BY <1>t, <1>3 DEF Split, SplitPanes
  <2>2. sel' \in [1..2 -> 0..Cardinality(Items)] /\ focus' = "Pane" /\ UNCHANGED <<row, visible>>
    BY <1>t, <1>3 DEF Split, SplitPanes
  <2> QED
    BY <1>t, <2>1, <2>2
<1>4. CASE ClosePane
  BY <1>t, <1>c, <1>4 DEF ClosePane, AtHome
<1>5. CASE CyclePane
  <2>1. /\ Len(panes) = 2 /\ active' = 3 - active /\ focus' = "Pane"
        /\ UNCHANGED <<panes, row, sel, visible>>
    BY <1>5 DEF CyclePane, viewVars
  <2>2. active' \in 1..2
    BY <1>a, <2>1
  <2> QED
    BY <1>t, <2>1, <2>2
<1>6. CASE CycleFocus
  BY <1>t, <1>6 DEF CycleFocus, AtHome, viewVars
<1>7. ASSUME NEW f \in {"Sidebar", "Pane"}, FocusOn(f) PROVE HomeTyped'
  BY <1>t, <1>7 DEF FocusOn, AtHome, viewVars
<1>8. CASE Dispatch
  BY <1>t, <1>8, HeadActs, HandleLoop
<1>9. CASE Install
  <2>1. Len(panes') = Len(panes) /\ UNCHANGED homeVars
    BY <1>t, <1>9 DEF Install
  <2> QED
    BY <1>t, <2>1 DEF homeVars
<1>10. CASE UNCHANGED <<panes, homeVars>>
  BY <1>t, <1>10 DEF homeVars
<1>11. (Emit \/ ModalKey \/ Drain \/ LookupEnds \/ Serve \/ Remote \/ UNCHANGED vars)
          => UNCHANGED <<panes, homeVars>>
  BY DEF Emit, ModalKey, Drain, LookupEnds, Serve, Remote, vars, viewVars
<1> QED
  BY <1>1, <1>2, <1>3, <1>4, <1>5, <1>6, <1>7, <1>8, <1>9, <1>10, <1>11 DEF Next, UserNext

\* The type invariant is the parts of it that the lemmas are about.
LEMMA Parts == TypeInv <=> StoreTyped /\ WorkTyped /\ ViewTyped /\ LoopTyped /\ HomeTyped
                             /\ cmds \in Seq(Commands) /\ replies \in Seq(Replies)
<1>1. ListSeqs \subseteq Seq(ListRows) /\ ItemSeqs \subseteq Seq(ItemRows)
  BY DEF ListSeqs, ItemSeqs
<1>2. \A ps \in Seq(PaneRows) : ps \in Seq([target : Targets, items : Seq(ItemRows)])
  <2>1. PaneRows \subseteq [target : Targets, items : Seq(ItemRows)]
    BY <1>1 DEF PaneRows
  <2> QED
    BY <2>1, SeqMonotonic
<1>3. \A rs \in Seq(Replies) : rs \in Seq(Snapshots \cup Fetched)
  <2>1. Replies \subseteq Snapshots \cup Fetched
    <3>1. \A ps \in Seq(ItemSeqs) : ps \in Seq(Seq(ItemRows))
      BY <1>1, SeqMonotonic
    <3> QED
      BY <1>1, <3>1 DEF Replies, Snapshots
  <2> QED
    BY <2>1, SeqMonotonic
<1>4. ASSUME TypeInv
      PROVE  /\ StoreTyped /\ WorkTyped /\ ViewTyped /\ LoopTyped /\ HomeTyped
             /\ cmds \in Seq(Commands) /\ replies \in Seq(Replies)
  BY <1>4 DEF TypeInv, TypeOK, RowsBounded, StoreTyped, WorkTyped, ViewTyped, LoopTyped,
              HomeTyped
<1>5. ASSUME StoreTyped, WorkTyped, ViewTyped, LoopTyped, HomeTyped,
             cmds \in Seq(Commands), replies \in Seq(Replies)
      PROVE  TypeInv
  <2>1. RowsBounded /\ TurnHasActions
    BY <1>5 DEF RowsBounded, ViewTyped, LoopTyped
  <2>2. /\ listed \in Seq(ListRows) /\ replies \in Seq(Snapshots \cup Fetched)
        /\ panes \in Seq([target : Targets, items : Seq(ItemRows)])
    BY <1>1, <1>2, <1>3, <1>5 DEF ViewTyped
  <2>3. TypeOK
    BY <1>5, <2>2 DEF TypeOK, StoreTyped, WorkTyped, ViewTyped, LoopTyped, HomeTyped
  <2> QED
    BY <2>1, <2>3 DEF TypeInv
<1> QED
  BY <1>4, <1>5

LEMMA PartsNext ==
  (StoreTyped /\ WorkTyped /\ ViewTyped /\ LoopTyped /\ HomeTyped
     /\ cmds \in Seq(Commands) /\ replies \in Seq(Replies) => TypeInv)'
  BY Parts, PTL

LEMMA TypeInit == Init => TypeInv
<1> SUFFICES ASSUME Init PROVE TypeInv
  OBVIOUS
<1>c. Cardinality(Lists) \in Nat /\ Cardinality(Items) \in Nat /\ Len(Metas) = 2
  BY WorkspaceAssumption, FS_CardinalityType, ModeNames
<1>n. /\ "Alphabetical" \in Range(SortModes)
      /\ "AllTasks" \in Targets /\ NoTarget \in Targets /\ NoTarget \notin Lists
      /\ <<NoTarget>> \in Layouts /\ <<"AllTasks">> \in Layouts
  <2>1. "AllTasks" \in Targets /\ NoTarget \in Targets /\ NoTarget \notin Lists
    BY ModeNames, WorkspaceAssumption DEF Targets, NoTarget
  <2>2. <<NoTarget>> \in Seq(Targets) /\ <<"AllTasks">> \in Seq(Targets)
    BY <2>1
  <2>3. Len(<<NoTarget>>) \in 1..2 /\ Len(<<"AllTasks">>) \in 1..2
    OBVIOUS
  <2>4. <<NoTarget>> \in Layouts /\ <<"AllTasks">> \in Layouts
    BY <2>2, <2>3, LayoutLens
  <2> QED
    BY <2>1, <2>4, ModeNames
<1>1. StoreTyped
  <2>1. PICK s \in Starts :
           /\ held = s.lists /\ keyed = s.keyed
           /\ unused = (Lists \cup Items) \ (s.lists \cup s.todos)
           /\ docs = [i \in Items |-> [at |-> IF i \in s.todos THEN "list" ELSE "nowhere",
                                       done |-> FALSE, look |-> LookOf[i]]]
    BY DEF Init
  <2>2. /\ s.lists \subseteq Lists /\ s.keyed \subseteq s.lists
        /\ s.todos \subseteq {i \in Items : ListOf[i] \in s.lists}
    BY WorkspaceAssumption
  <2>3. docs \in [Items -> Todos] /\ rows = docs
    BY <2>1, WorkspaceAssumption DEF Init, Todos
  <2>4. name \in [Lists -> Names \cup {NoName}]
    BY WorkspaceAssumption DEF Init
  <2>5. \A i \in Items : (docs[i].at = "list" => i \in s.todos)
                         /\ (i \notin s.todos => docs[i].at = "nowhere")
    BY <2>1
  <2>6. \A i \in HeldItems : ListOf[i] \in held
    BY <2>1, <2>2, <2>3, <2>5 DEF HeldItems
  <2>7. \A i \in unused \cap Items : docs[i].at = "nowhere" /\ rows[i].at = "nowhere"
    BY <2>1, <2>3, <2>5
  <2> QED
    BY <2>1, <2>2, <2>3, <2>4, <2>6, <2>7 DEF StoreTyped
<1>2. LoopTyped
  <2>1. <<>> \in Seq(Actions) /\ 0 \in 0..Len(<<>>)
    BY EmptySeq
  <2>2. 0 \in 0..MaxKeys /\ 0 \in 0..MaxRemote
    BY WorkspaceAssumption
  <2> QED
    BY <2>1, <2>2 DEF Init, LoopTyped, TurnHasActions
<1>3. replies \in Seq(Replies)
  BY DEF Init
<1>4. CASE FirstFrame
  <2>1. WorkTyped
    BY <1>n, <1>4 DEF Init, FirstFrame, WorkTyped
  <2>2. ViewTyped
    <3>1. <<>> \in ItemSeqs /\ <<>> \in ListSeqs
      BY <1>c, EmptySeq DEF ItemSeqs, ListSeqs
    <3>2. [target |-> "AllTasks", items |-> <<>>] \in PaneRows
      BY <1>n, <3>1 DEF PaneRows
    <3> QED
      BY <1>n, <1>4, <3>1, <3>2 DEF Init, FirstFrame, ViewTyped
  <2>3. HomeTyped
    BY <1>c, <1>4, <2>2 DEF Init, FirstFrame, HomeTyped, ViewTyped
  <2>4. cmds \in Seq(Commands)
    BY <1>n, <1>4 DEF FirstFrame, Commands
  <2> QED
    BY <1>1, <1>2, <1>3, <2>1, <2>2, <2>3, <2>4, Parts
<1>5. CASE AtRest
  <2>1. PICK n \in 1..2 : wtargets \in [1..n -> {"AllTasks", "DueToday"} \cup Lists]
    BY <1>5, WorkspaceAssumption DEF AtRest
  <2>2. wtargets \in Layouts /\ Len(wtargets) = n
    <3>1. wtargets \in [1..n -> Targets]
      BY <2>1, ModeNames DEF Targets
    <3> QED
      BY <3>1 DEF Layouts
  <2>3. WorkTyped
    BY <1>n, <2>2 DEF Init, WorkTyped
  <2>4. /\ Summaries("Alphabetical") \in ListSeqs
        /\ \A t : LoadView(t, "Alphabetical") \in ItemSeqs
    BY <1>1, <1>n, Answers
  <2>5. ViewTyped
    <3>1. panes = [p \in 1..n |->
                     [target |-> wtargets[p], items |-> LoadView(wtargets[p], "Alphabetical")]]
      BY <1>5, <2>2 DEF AtRest
    <3>2. \A p \in 1..n : panes[p] \in PaneRows
      BY <2>2, <2>4, <3>1, LayoutLens, ElementOfSeq DEF PaneRows
    <3>3. panes \in [1..n -> PaneRows]
      BY <3>1, <3>2
    <3>4. panes \in Seq(PaneRows) /\ Len(panes) = n
      BY <3>3
    <3> QED
      BY <1>n, <1>5, <2>4, <3>4 DEF Init, AtRest, ViewTyped
  <2>6. HomeTyped
    <3>1. Len(listed) \in 0..Cardinality(Lists)
      BY <1>c, <2>5 DEF ViewTyped, ListSeqs
    <3> QED
      BY <1>c, <1>5, <3>1 DEF Init, AtRest, HomeTyped
  <2>7. cmds \in Seq(Commands)
    BY <1>5 DEF AtRest
  <2> QED
    BY <1>1, <1>2, <1>3, <2>3, <2>5, <2>6, <2>7, Parts
<1> QED
  BY <1>4, <1>5 DEF Init

LEMMA TypeStep == TypeInv /\ [Next]_vars => TypeInv'
<1> SUFFICES ASSUME TypeInv, [Next]_vars PROVE TypeInv'
  OBVIOUS
<1>1. StoreTyped' /\ LoopTyped' /\ HomeTyped'
  BY StoreStep, LoopStep, HomeStep
<1>2. WorkTyped' /\ replies' \in Seq(Replies)
  BY WorkStep
<1>3. ViewTyped' /\ cmds' \in Seq(Commands)
  BY ViewStep
<1>4. Replies' = Replies /\ Commands' = Commands
  <2>1. Replies' = Replies
    BY DEF Replies, ListSeqs, ItemSeqs
  <2>2. Commands' = Commands
    BY DEF Commands
  <2> QED
    BY <2>1, <2>2
<1> QED
  BY <1>1, <1>2, <1>3, <1>4, PartsNext

LEMMA AlwaysTyped == Spec => []TypeInv
<1> QED
  BY TypeInit, TypeStep, PTL DEF Spec

\* TypeOK: whatever keys, snapshots and remote changes come in whatever order,
\* the focused pane is one that is shown, the selections stay among rows there
\* can be, the store holds a todo only with its list, and every queue carries
\* what its reader knows (home.rs, app.rs handle_action, worker.rs).
THEOREM WorkspaceTypeCorrect == Spec => []TypeOK
<1>1. TypeInv => TypeOK
  BY DEF TypeInv
<1> QED
  BY <1>1, AlwaysTyped, PTL

-----------------------------------------------------------------------------
(* What is drawn once everything has arrived                               *)

Has(s, ops) == \E k \in 1..Len(s) : s[k].op \in ops

\* v is on its way and nothing behind it changes the targets again.
Tells(cs, v) == \E k \in 1..Len(cs) :
                    /\ cs[k] = v
                    /\ \A j \in 1..Len(cs) : j > k => cs[j].op \notin Retargets

Announced == Has(acts, {"RefreshLists"})
Drawn == SetView(panes, sort)

\* Unless the layout is about to be announced, the worker is being told it or
\* holds it.
Told == \/ Announced
        \/ Tells(cmds, Drawn)
        \/ ~Has(cmds, Retargets) /\ wtargets = Drawn.targets /\ wsort = sort

\* The last snapshot sent is of the store as it is; what was fetched for a
\* modal may follow it.
Latest(rs, k) == /\ rs[k].op = "Snapshot"
                 /\ \A j \in 1..Len(rs) : j > k => rs[j].op # "Snapshot"
LastReply == \/ behind
             \/ \A k \in 1..Len(replies) : Latest(replies, k) => replies[k] = Snapshot

\* With nothing on its way, what is drawn is what the worker would answer.
Displayed ==
    \/ Has(replies, {"Snapshot"}) \/ behind \/ Announced \/ Has(cmds, {"SetView"})
    \/ /\ listed = Summaries(wsort)
       /\ \A p \in 1..Len(panes) : panes[p].items = LoadView(wtargets[p], wsort)

QuietInv == Told /\ LastReply /\ Displayed

LEMMA HasAppend ==
  ASSUME NEW S, NEW s \in Seq(S), NEW e \in S, NEW ops
  PROVE  Has(Append(s, e), ops) <=> Has(s, ops) \/ e.op \in ops
<1> DEFINE t == Append(s, e)
<1>1. /\ Len(t) = Len(s) + 1 /\ Len(s) \in Nat
      /\ \A k \in 1..Len(s) : t[k] = s[k]
      /\ t[Len(s) + 1] = e
  OBVIOUS
<1> HIDE DEF t
<1>2. ASSUME Has(t, ops) PROVE Has(s, ops) \/ e.op \in ops
  <2>1. PICK k \in 1..Len(t) : t[k].op \in ops
    BY <1>2 DEF Has
  <2>2. k \in 1..Len(s) \/ k = Len(s) + 1
    BY <1>1
  <2> QED
    BY <1>1, <2>1, <2>2 DEF Has
<1>3. ASSUME Has(s, ops) \/ e.op \in ops PROVE Has(t, ops)
  <2>1. 1..Len(s) \subseteq 1..Len(t) /\ Len(s) + 1 \in 1..Len(t)
    BY <1>1
  <2> QED
    BY <1>1, <1>3, <2>1 DEF Has
<1> QED
  BY <1>2, <1>3 DEF t

LEMMA HasTail ==
  ASSUME NEW S, NEW s \in Seq(S), s # <<>>, NEW ops
  PROVE  Has(s, ops) <=> Has(Tail(s), ops) \/ Head(s).op \in ops
<1> DEFINE t == Tail(s)
<1>1. /\ Len(t) = Len(s) - 1 /\ Len(s) \in Nat \ {0}
      /\ \A k \in 1..Len(t) : t[k] = s[k + 1]
      /\ Head(s) = s[1]
  BY EmptySeq, HeadTailProperties
<1> HIDE DEF t
<1>2. ASSUME Has(s, ops) PROVE Has(t, ops) \/ Head(s).op \in ops
  <2>1. PICK k \in 1..Len(s) : s[k].op \in ops
    BY <1>2 DEF Has
  <2>2. k = 1 \/ (k - 1 \in 1..Len(t) /\ t[k - 1] = s[k])
    BY <1>1
  <2> QED
    BY <1>1, <2>1, <2>2 DEF Has
<1>3. ASSUME Has(t, ops) PROVE Has(s, ops)
  <2>1. PICK k \in 1..Len(t) : t[k].op \in ops
    BY <1>3 DEF Has
  <2>2. k + 1 \in 1..Len(s) /\ s[k + 1] = t[k]
    BY <1>1
  <2> QED
    BY <2>1, <2>2 DEF Has
<1>4. ASSUME Head(s).op \in ops PROVE Has(s, ops)
  <2>1. 1 \in 1..Len(s)
    BY <1>1
  <2> QED
    BY <1>1, <1>4, <2>1 DEF Has
<1> QED
  BY <1>2, <1>3, <1>4 DEF t

\* A view just sent is told; it stays so while others are sent, until it is
\* served.
LEMMA ViewSent ==
  ASSUME NEW cs \in Seq(Commands), NEW c \in Commands
  PROVE  /\ Tells(Append(cs, c), c)
         /\ \A v : Tells(cs, v) /\ c.op \notin Retargets => Tells(Append(cs, c), v)
<1> DEFINE t == Append(cs, c)
<1>1. /\ Len(t) = Len(cs) + 1 /\ Len(cs) \in Nat
      /\ \A k \in 1..Len(cs) : t[k] = cs[k]
      /\ t[Len(cs) + 1] = c
  OBVIOUS
<1> HIDE DEF t
<1>2. Tells(t, c)
  <2>1. Len(cs) + 1 \in 1..Len(t) /\ \A j \in 1..Len(t) : ~(j > Len(cs) + 1)
    BY <1>1
  <2> QED
    BY <1>1, <2>1 DEF Tells
<1>3. ASSUME NEW v, Tells(cs, v), c.op \notin Retargets PROVE Tells(t, v)
  <2>1. PICK k \in 1..Len(cs) :
           cs[k] = v /\ \A j \in 1..Len(cs) : j > k => cs[j].op \notin Retargets
    BY <1>3 DEF Tells
  <2>2. k \in 1..Len(t) /\ t[k] = v
    BY <1>1, <2>1
  <2>3. ASSUME NEW j \in 1..Len(t), j > k PROVE t[j].op \notin Retargets
    <3>1. j \in 1..Len(cs) \/ j = Len(cs) + 1
      BY <1>1
    <3> QED
      BY <1>1, <1>3, <2>1, <2>3, <3>1
  <2> QED
    BY <2>2, <2>3 DEF Tells
<1> QED
  BY <1>2, <1>3 DEF t

LEMMA ViewServed ==
  ASSUME NEW cs \in Seq(Commands), cs # <<>>, NEW v, Tells(cs, v)
  PROVE  \/ Tells(Tail(cs), v)
         \/ Head(cs) = v /\ ~Has(Tail(cs), Retargets)
<1> DEFINE t == Tail(cs)
<1>1. /\ Len(t) = Len(cs) - 1 /\ Len(cs) \in Nat \ {0}
      /\ \A k \in 1..Len(t) : t[k] = cs[k + 1]
      /\ Head(cs) = cs[1]
  BY EmptySeq, HeadTailProperties
<1> HIDE DEF t
<1>2. PICK k \in 1..Len(cs) :
         cs[k] = v /\ \A j \in 1..Len(cs) : j > k => cs[j].op \notin Retargets
  BY DEF Tells
<1>3. ASSUME NEW j \in 1..Len(t), j > k - 1 PROVE t[j].op \notin Retargets
  <2>1. j + 1 \in 1..Len(cs) /\ j + 1 > k
    BY <1>1, <1>3
  <2> QED
    BY <1>1, <1>2, <2>1
<1>4. CASE k = 1
  <2>1. ~Has(t, Retargets)
    <3>1. \A j \in 1..Len(t) : j > k - 1
      BY <1>1, <1>4
    <3> QED
      BY <1>3, <3>1 DEF Has
  <2> QED
    BY <1>1, <1>2, <1>4, <2>1 DEF t
<1>5. CASE k # 1
  <2>1. PICK n \in 1..Len(t) : n = k - 1 /\ t[n] = v
    BY <1>1, <1>2, <1>5
  <2>2. Tells(t, v)
    BY <1>3, <2>1, Zenon DEF Tells
  <2> QED
    BY <2>2 DEF t
<1> QED
  BY <1>4, <1>5

LEMMA ToldHasView ==
  ASSUME NEW cs, NEW v, Tells(cs, v), v.op = "SetView"
  PROVE  Has(cs, {"SetView"})
BY DEF Tells, Has

\* A snapshot sent becomes the last one, what is fetched does not.
LEMMA LatestSent ==
  ASSUME NEW rs \in Seq(Replies), NEW r \in Replies
  PROVE  \A k \in 1..Len(Append(rs, r)) : Latest(Append(rs, r), k)
            => IF r.op = "Snapshot" THEN Append(rs, r)[k] = r
               ELSE k \in 1..Len(rs) /\ Latest(rs, k) /\ Append(rs, r)[k] = rs[k]
<1> DEFINE t == Append(rs, r)
<1>1. /\ Len(t) = Len(rs) + 1 /\ Len(rs) \in Nat
      /\ \A k \in 1..Len(rs) : t[k] = rs[k]
      /\ t[Len(rs) + 1] = r
  OBVIOUS
<1> HIDE DEF t
<1> SUFFICES ASSUME NEW k \in 1..Len(t), Latest(t, k)
             PROVE  IF r.op = "Snapshot" THEN t[k] = r
                    ELSE k \in 1..Len(rs) /\ Latest(rs, k) /\ t[k] = rs[k]
  BY DEF t
<1>2. k = Len(rs) + 1 \/ k \in 1..Len(rs)
  BY <1>1
<1>3. Len(rs) + 1 \in 1..Len(t) /\ (k \in 1..Len(rs) => Len(rs) + 1 > k)
  BY <1>1
<1>4. CASE r.op = "Snapshot"
  BY <1>1, <1>2, <1>3, <1>4 DEF Latest
<1>5. CASE r.op # "Snapshot"
  <2>1. k \in 1..Len(rs)
    BY <1>1, <1>2, <1>5 DEF Latest
  <2>2. 1..Len(rs) \subseteq 1..Len(t)
    BY <1>1
  <2> QED
    BY <1>1, <1>5, <2>1, <2>2 DEF Latest
<1> QED
  BY <1>4, <1>5

\* Installing a reply leaves the last snapshot, unless it was that.
LEMMA LatestInstalled ==
  ASSUME NEW rs \in Seq(Replies), rs # <<>>
  PROVE  /\ \A k \in 1..Len(Tail(rs)) : Latest(Tail(rs), k)
               => k + 1 \in 1..Len(rs) /\ Latest(rs, k + 1) /\ rs[k + 1] = Tail(rs)[k]
         /\ Head(rs).op = "Snapshot" /\ ~Has(Tail(rs), {"Snapshot"})
               => 1 \in 1..Len(rs) /\ Latest(rs, 1) /\ rs[1] = Head(rs)
<1> DEFINE t == Tail(rs)
<1>1. /\ Len(t) = Len(rs) - 1 /\ Len(rs) \in Nat \ {0}
      /\ \A k \in 1..Len(t) : t[k] = rs[k + 1]
      /\ Head(rs) = rs[1]
  BY EmptySeq, HeadTailProperties
<1> HIDE DEF t
<1>2. ASSUME NEW k \in 1..Len(t), Latest(t, k)
      PROVE  k + 1 \in 1..Len(rs) /\ Latest(rs, k + 1) /\ rs[k + 1] = t[k]
  <2>1. k + 1 \in 1..Len(rs) /\ rs[k + 1] = t[k]
    BY <1>1
  <2>2. ASSUME NEW j \in 1..Len(rs), j > k + 1 PROVE rs[j].op # "Snapshot"
    <3>1. j - 1 \in 1..Len(t) /\ j - 1 > k /\ t[j - 1] = rs[j]
      BY <1>1, <2>2
    <3> QED
      BY <1>2, <3>1 DEF Latest
  <2> QED
    BY <1>2, <2>1, <2>2 DEF Latest
<1>3. ASSUME Head(rs).op = "Snapshot", ~Has(t, {"Snapshot"})
      PROVE  1 \in 1..Len(rs) /\ Latest(rs, 1) /\ rs[1] = Head(rs)
  <2>1. ASSUME NEW j \in 1..Len(rs), j > 1 PROVE rs[j].op # "Snapshot"
    <3>1. j - 1 \in 1..Len(t) /\ t[j - 1] = rs[j]
      BY <1>1, <2>1
    <3> QED
      BY <1>3, <3>1 DEF Has
  <2> QED
    BY <1>1, <1>3, <2>1 DEF Latest
<1> QED
  BY <1>2, <1>3 DEF t

\* Without a change of the tables the store's answers are the same.
LEMMA Same ==
  UNCHANGED <<held, name, rows>> => /\ \A t, s : LoadView(t, s)' = LoadView(t, s)
                                    /\ \A s : Summaries(s)' = Summaries(s)
<1> SUFFICES ASSUME UNCHANGED <<held, name, rows>>
             PROVE  /\ \A t, s : LoadView(t, s)' = LoadView(t, s)
                    /\ \A s : Summaries(s)' = Summaries(s)
  OBVIOUS
<1>1. ASSUME NEW t, NEW s PROVE LoadView(t, s)' = LoadView(t, s)
  BY DEF LoadView, InView, Open, HeldItems, ItemKey, QueryKey, Shown, SortItems, Precedes,
         Before
<1>2. ASSUME NEW s PROVE Summaries(s)' = Summaries(s)
  BY DEF Summaries, Summary, ListKey, NextDue, TopPriority, OpenOf, Open, HeldItems,
         SortItems, Precedes, Before
<1> QED
  BY <1>1, <1>2

LEMMA QuietInit == ASSUME Init, TypeInv PROVE QuietInv
<1>1. LastReply /\ ~Announced
  <2>1. 1..Len(replies) = {} /\ 1..Len(acts) = {}
    BY DEF Init
  <2> QED
    BY <2>1 DEF LastReply, Announced, Has
<1>2. CASE FirstFrame
  <2>1. cmds = <<Drawn>>
    BY <1>2 DEF Init, FirstFrame, Drawn, SetView
  <2>2. Tells(cmds, Drawn)
    <3>1. Len(cmds) = 1 /\ cmds[1] = Drawn
      BY <2>1
    <3>2. 1 \in 1..1 /\ \A j \in 1..1 : ~(j > 1)
      OBVIOUS
    <3> QED
      BY <3>1, <3>2 DEF Tells
  <2>3. Has(cmds, {"SetView"})
    BY <2>2, ToldHasView DEF Drawn, SetView
  <2> QED
    BY <1>1, <2>2, <2>3 DEF QuietInv, Told, Displayed
<1>3. CASE AtRest
  <2>1. wtargets = Drawn.targets
    <3>1. wtargets = [p \in 1..Len(wtargets) |-> wtargets[p]] /\ Len(wtargets) \in Nat
      BY LayoutLens, LenProperties DEF TypeInv, TypeOK
    <3>2. Len(panes) = Len(wtargets)
      BY <1>3, <3>1 DEF AtRest
    <3> QED
      BY <1>3, <3>1, <3>2 DEF AtRest, Drawn, SetView
  <2>2. \A ops : ~Has(cmds, ops)
    BY <1>3 DEF AtRest, Has
  <2>3. Len(panes) = Len(wtargets)
    <3>1. Len(wtargets) \in Nat
      BY LayoutLens, LenProperties DEF TypeInv, TypeOK
    <3> QED
      BY <1>3, <3>1 DEF AtRest
  <2>4. Displayed
    BY <1>3, <2>3 DEF Init, AtRest, Displayed
  <2> QED
    BY <1>1, <2>1, <2>2, <2>4 DEF Init, QuietInv, Told
<1> QED
  BY <1>2, <1>3 DEF Init

\* A key that changes the panes queues their announcement.
LEMMA KeyAnnounces ==
  ASSUME TypeInv, UserNext
  PROVE  /\ Announced => Announced'
         /\ Announced' \/ UNCHANGED viewVars
<1>1. acts \in Seq(Actions)
  BY DEF TypeInv, TypeOK
<1>2. Announced => Announced'
  BY <1>1, UserSends, HasAppend DEF Announced
<1>3. CASE Split \/ ClosePane
  <2>1. acts' = Append(acts, Act("RefreshLists")) /\ Act("RefreshLists") \in Actions
    BY <1>3 DEF Split, ClosePane, Send, Act, Actions
  <2>2. Announced'
    BY <1>1, <2>1, HasAppend DEF Announced, Act
  <2> QED
    BY <1>2, <2>2
<1>4. CASE UNCHANGED viewVars
  BY <1>2, <1>4
<1>5. Split \/ ClosePane \/ UNCHANGED viewVars
  BY DEF UserNext, MoveSelection, OpenSelected, CyclePane, CycleFocus, FocusOn, Emit, ModalKey
<1> QED
  BY <1>3, <1>4, <1>5

\* An action that changes the layout or the sort tells the worker; the others
\* leave what is drawn and what it is told.
LEMMA HandleTells ==
  ASSUME TypeInv, NEW a \in Actions, Handle(a)
  PROVE  \/ Tells(cmds', Drawn') /\ Has(cmds', {"SetView"})
         \/ /\ UNCHANGED viewVars /\ a.op # "RefreshLists"
            /\ \/ cmds' = cmds
               \/ \E c \in Commands : cmds' = Append(cmds, c) /\ c.op \notin Retargets
<1>1. /\ cmds \in Seq(Commands)
      /\ ViewTyped'
  BY HandleTyped DEF TypeInv, TypeOK
<1>2. Drawn' \in Commands /\ Drawn'.op = "SetView"
  BY <1>1, SetViewTyped DEF ViewTyped, Drawn, SetView
<1>3. CASE a.op \in {"OpenView", "RefreshLists", "CycleSort"}
  <2>1. cmds' = Append(cmds, Drawn')
    BY <1>3 DEF Handle, Command, Drawn, SetView, viewVars
  <2>2. Tells(cmds', Drawn')
    BY <1>1, <1>2, <2>1, ViewSent
  <2> QED
    BY <1>2, <2>2, ToldHasView
<1>4. CASE a.op = "DeleteList"
  <2>1. cmds' = cmds \o <<a, Drawn'>>
    BY <1>4 DEF Handle, Drawn, SetView
  <2>2. a \in Commands
    BY <1>4, ActionFields
  <2>3. cmds' = Append(Append(cmds, a), Drawn') /\ Append(cmds, a) \in Seq(Commands)
    BY <1>1, <1>2, <2>1, <2>2
  <2>4. Tells(cmds', Drawn')
    BY <1>2, <2>3, ViewSent
  <2> QED
    BY <1>2, <2>4, ToldHasView
<1>5. CASE a.op \in {"ToggleDone", "DeleteTodo", "CreateList", "RenameList", "AddTodo",
                    "EditTodo"}
  <2>1. UNCHANGED viewVars /\ cmds' = Append(cmds, a)
    BY <1>5 DEF Handle, Command
  <2>2. a \in Commands
    BY <1>5, ActionFields
  <2> QED
    BY <1>5, <2>1, <2>2 DEF Retargets
<1>6. CASE a.op \in {"AddResolvedMember", "Unshare", "EditTodoModal", "MembersModal"}
  <2>1. UNCHANGED viewVars
    BY <1>6 DEF Handle
  <2>2. \E op \in {"AddMember", "RemoveMember", "FetchMembers", "FetchFullItem"} :
           ActOn(op, a.on) \in Commands /\ cmds' = Append(cmds, ActOn(op, a.on))
    <3>1. CASE a.op = "AddResolvedMember"
      BY <3>1, ActionFields DEF Handle, Command, ActOn, Commands
    <3>2. CASE a.op = "Unshare"
      BY <3>2, ActionFields DEF Handle, Command, ActOn, Commands
    <3>3. CASE a.op = "EditTodoModal"
      BY <3>3, ActionFields DEF Handle, Command, ActOn, Commands
    <3>4. CASE a.op = "MembersModal"
      BY <3>4, ActionFields DEF Handle, Command, ActOn, Commands
    <3> QED
      BY <1>6, <3>1, <3>2, <3>3, <3>4
  <2> QED
    BY <1>6, <2>1, <2>2 DEF Retargets, ActOn
<1>7. CASE a.op \in {"ConfirmDelete", "NewListModal", "RenameListModal", "AddTodoModal",
                    "ShareModal", "OpenEditReady", "OpenMembersReady", "ShareList",
                    "CloseModal", "ToggleSidebar"}
  BY <1>7 DEF Handle, Opens, Ignored
<1> QED
  BY <1>3, <1>4, <1>5, <1>6, <1>7 DEF Handle

LEMMA QuietStep == ASSUME TypeInv, TypeInv', QuietInv, [Next]_vars PROVE QuietInv'
<1>t. /\ cmds \in Seq(Commands) /\ acts \in Seq(Actions) /\ replies \in Seq(Replies)
      /\ Len(panes) \in 1..2 /\ wtargets \in Layouts /\ behind \in BOOLEAN
  BY DEF TypeInv, TypeOK, RowsBounded
<1>v. Drawn.op = "SetView" /\ Drawn.sort = sort
  BY DEF Drawn, SetView
<1>d. UNCHANGED viewVars => Drawn' = Drawn
  BY DEF viewVars, Drawn, SetView
<1>s. (UNCHANGED storeVars \/ UNCHANGED <<held, name, rows>>) /\ UNCHANGED workVars
         => /\ Snapshot' = Snapshot /\ Summaries(wsort)' = Summaries(wsort)
            /\ \A p \in 1..Len(panes) :
                  LoadView(wtargets[p], wsort)' = LoadView(wtargets[p], wsort)
  BY Same DEF storeVars, workVars, Snapshot
<1>q. Told /\ LastReply /\ Displayed
  BY DEF QuietInv
<1>1. CASE UserNext
  <2>1. /\ UNCHANGED <<storeVars, workVars, cmds, replies, behind>>
        /\ Announced => Announced'
        /\ Announced' \/ UNCHANGED viewVars
    <3>1. Pressed
      BY <1>1 DEF UserNext, MoveSelection, OpenSelected, Split, ClosePane, CyclePane,
                  CycleFocus, FocusOn, Emit, ModalKey, AtHome
    <3> QED
      BY <1>1, <3>1, KeyAnnounces DEF Pressed
  <2>2. LastReply'
    BY <1>q, <1>s, <2>1 DEF LastReply
  <2>3. CASE Announced'
    BY <2>2, <2>3 DEF QuietInv, Told, Displayed
  <2>4. CASE ~Announced' /\ UNCHANGED viewVars
    <3>1. Told'
      BY <1>q, <1>d, <2>1, <2>4 DEF Told, workVars, viewVars
    <3>2. Displayed'
      BY <1>q, <1>s, <2>1, <2>4 DEF Displayed, viewVars
    <3> QED
      BY <2>2, <3>1, <3>2 DEF QuietInv
  <2> QED
    BY <2>1, <2>3, <2>4
<1>2. CASE Dispatch
  <2> DEFINE a == Head(acts)
  <2>1. UNCHANGED <<storeVars, workVars, replies, behind>>
    BY <1>2 DEF Dispatch
  <2>2. LastReply'
    BY <1>q, <1>s, <2>1 DEF LastReply
  <2>3. a \in Actions /\ Handle(a) /\ acts # <<>> /\ Tail(acts) \in Seq(Actions)
    BY <1>2, HeadActs
  <2> HIDE DEF a
  <2>4. CASE Tells(cmds', Drawn') /\ Has(cmds', {"SetView"})
    BY <2>2, <2>4 DEF QuietInv, Told, Displayed
  <2>5. CASE /\ UNCHANGED viewVars /\ a.op # "RefreshLists"
             /\ \/ cmds' = cmds
                \/ \E c \in Commands : cmds' = Append(cmds, c) /\ c.op \notin Retargets
    <3>1. Announced => Announced'
      <4>1. Announced => Has(Tail(acts), {"RefreshLists"})
        BY <1>t, <2>3, <2>5, HasTail DEF Announced, a
      <4>2. acts' = Tail(acts) \/ acts' = Append(Tail(acts), Act("CloseModal"))
        BY <2>3, HandleLoop
      <4>3. Act("CloseModal") \in Actions
        BY DEF Act, Actions
      <4> QED
        BY <2>3, <4>1, <4>2, <4>3, HasAppend DEF Announced
    <3>2. /\ Tells(cmds, Drawn) => Tells(cmds', Drawn)
          /\ Has(cmds', Retargets) => Has(cmds, Retargets)
          /\ Has(cmds, {"SetView"}) => Has(cmds', {"SetView"})
      <4>1. CASE cmds' = cmds
        BY <4>1
      <4>2. ASSUME NEW c \in Commands, cmds' = Append(cmds, c), c.op \notin Retargets
            PROVE  /\ Tells(cmds, Drawn) => Tells(cmds', Drawn)
                   /\ Has(cmds', Retargets) => Has(cmds, Retargets)
                   /\ Has(cmds, {"SetView"}) => Has(cmds', {"SetView"})
        <5>1. Tells(cmds, Drawn) => Tells(cmds', Drawn)
          BY <1>t, <4>2, ViewSent
        <5>2. \A ops : Has(cmds', ops) <=> Has(cmds, ops) \/ c.op \in ops
          BY <1>t, <4>2, HasAppend
        <5> QED
          BY <4>2, <5>1, <5>2
      <4> QED
        BY <2>5, <4>1, <4>2
    <3>3. Told'
      BY <1>q, <1>d, <2>1, <2>5, <3>1, <3>2 DEF Told, workVars, viewVars
    <3>4. Displayed'
      BY <1>q, <1>s, <2>1, <2>5, <3>1, <3>2 DEF Displayed, viewVars
    <3> QED
      BY <2>2, <3>3, <3>4 DEF QuietInv
  <2> QED
    BY <2>3, <2>4, <2>5, HandleTells
<1>3. CASE Install
  <2> DEFINE r == Head(replies)
  <2>1. /\ UNCHANGED <<storeVars, workVars, sort, cmds, behind>>
        /\ replies # <<>> /\ replies' = Tail(replies)
    BY <1>3 DEF Install
  <2>p. \A p \in 1..Len(panes) : panes[p] \in PaneRows
    BY <1>t, ElementOfSeq DEF TypeInv, RowsBounded
  <2>2. LastReply'
    BY <1>t, <1>q, <1>s, <2>1, LatestInstalled DEF LastReply
  <2>h. \A ops : Has(replies, ops) <=> Has(replies', ops) \/ r.op \in ops
    BY <1>t, <2>1, HasTail
  <2>l. r.op = "Snapshot" /\ ~Has(replies', {"Snapshot"}) /\ ~behind => r = Snapshot
    BY <1>t, <1>q, <2>1, LatestInstalled DEF LastReply
  <2>3. \/ /\ r.op = "Snapshot" /\ UNCHANGED acts
           /\ listed' = r.lists
           /\ panes' = [p \in 1..Len(panes) |->
                          IF p <= Len(r.panes)
                          THEN [panes[p] EXCEPT !.items = r.panes[p]] ELSE panes[p]]
        \/ /\ r.op # "Snapshot" /\ UNCHANGED <<listed, panes>>
           /\ \E op \in {"OpenEditReady", "OpenMembersReady"} : acts' = Append(acts, Act(op))
    BY <1>3 DEF Install, Send
  <2> HIDE DEF r
  <2>4. CASE /\ r.op = "Snapshot" /\ UNCHANGED acts
             /\ listed' = r.lists
             /\ panes' = [p \in 1..Len(panes) |->
                            IF p <= Len(r.panes)
                            THEN [panes[p] EXCEPT !.items = r.panes[p]] ELSE panes[p]]
    <3>1. Announced' <=> Announced
      BY <2>4 DEF Announced
    <3>2. Len(panes') = Len(panes)
      BY <1>t, <2>4
    <3>3. Drawn' = Drawn
      <4>1. \A p \in 1..Len(panes) : panes'[p].target = panes[p].target
        BY <2>4, <2>p DEF PaneRows
      <4> QED
        BY <2>1, <3>2, <4>1 DEF Drawn, SetView
    <3>4. Told'
      BY <1>q, <2>1, <3>1, <3>3 DEF Told, workVars
    <3>5. Displayed'
      <4>1. SUFFICES ASSUME ~Has(replies', {"Snapshot"}), ~behind, ~Announced,
                            ~Has(cmds, {"SetView"})
                     PROVE  /\ listed' = Summaries(wsort)
                            /\ \A p \in 1..Len(panes) :
                                  panes'[p].items = LoadView(wtargets[p], wsort)
        BY <1>s, <2>1, <3>1, <3>2 DEF Displayed, workVars
      <4>2. r = Snapshot
        BY <2>4, <2>l, <4>1
      <4>3. wtargets = Drawn.targets
        BY <1>q, <1>v, <4>1, ToldHasView DEF Told
      <4>4. Len(r.panes) = Len(panes) /\ Len(wtargets) = Len(panes)
        BY <1>t, <4>2, <4>3 DEF Snapshot, Drawn, SetView
      <4>5. \A p \in 1..Len(panes) : r.panes[p] = LoadView(wtargets[p], wsort)
        BY <4>2, <4>4 DEF Snapshot
      <4>6. ASSUME NEW p \in 1..Len(panes)
            PROVE  panes'[p].items = LoadView(wtargets[p], wsort)
        <5>1. p <= Len(r.panes)
          BY <1>t, <4>4
        <5>2. panes'[p].items = r.panes[p]
          BY <2>4, <2>p, <5>1 DEF PaneRows
        <5> QED
          BY <4>5, <5>2
      <4> QED
        BY <2>4, <4>2, <4>6 DEF Snapshot
    <3> QED
      BY <2>2, <3>4, <3>5 DEF QuietInv
  <2>5. CASE /\ r.op # "Snapshot" /\ UNCHANGED <<listed, panes>>
             /\ \E op \in {"OpenEditReady", "OpenMembersReady"} : acts' = Append(acts, Act(op))
    <3>1. \A op \in {"OpenEditReady", "OpenMembersReady"} : Act(op) \in Actions
      BY DEF Act, Actions
    <3>2. Announced => Announced'
      BY <1>t, <2>5, <3>1, HasAppend DEF Announced
    <3>3. UNCHANGED viewVars
      BY <2>1, <2>5 DEF viewVars
    <3>4. Told'
      BY <1>q, <1>d, <2>1, <3>2, <3>3 DEF Told, workVars, viewVars
    <3>5. Has(replies, {"Snapshot"}) => Has(replies', {"Snapshot"})
      BY <2>h, <2>5
    <3>6. Displayed'
      BY <1>q, <1>s, <2>1, <3>2, <3>3, <3>5 DEF Displayed, viewVars
    <3> QED
      BY <2>2, <3>4, <3>6 DEF QuietInv
  <2> QED
    BY <2>3, <2>4, <2>5
<1>4. CASE Serve
  <2> DEFINE c == Head(cmds)
  <2>1. cmds # <<>> /\ cmds' = Tail(cmds) /\ UNCHANGED <<viewVars, acts>> /\ Run(c)
    BY <1>4 DEF Serve
  <2>2. c \in Commands /\ Tail(cmds) \in Seq(Commands)
    BY <1>t, <2>1, HeadTailProperties
  <2>3. \A ops : Has(cmds, ops) <=> Has(cmds', ops) \/ c.op \in ops
    BY <1>t, <2>1, HasTail
  <2>4. Tells(cmds, Drawn) => \/ Tells(cmds', Drawn)
                              \/ c = Drawn /\ ~Has(cmds', Retargets)
    BY <1>t, <2>1, ViewServed
  <2>5. Drawn' = Drawn /\ (Announced' <=> Announced)
    BY <1>d, <2>1 DEF Announced
  <2> HIDE DEF c
  <2>6. /\ \/ c.op \notin Retargets /\ UNCHANGED workVars
           \/ c.op = "SetView" /\ wtargets' = c.targets /\ wsort' = c.sort /\ Refresh
           \/ c.op = "DeleteList" /\ Refresh
        /\ \/ Refresh
           \/ behind' = TRUE /\ UNCHANGED replies
           \/ /\ UNCHANGED <<held, name, rows, workVars, behind>>
              /\ \/ UNCHANGED replies
                 \/ /\ c.op \in {"FetchFullItem", "FetchMembers"}
                    /\ replies' = Append(replies, ActOn(IF c.op = "FetchMembers"
                                                        THEN "Members" ELSE "FullItem", c.on))
    BY <1>t, <2>1, Served
  <2>7. Told'
    <3>1. CASE Announced
      BY <2>5, <3>1 DEF Told
    <3>2. CASE Tells(cmds, Drawn)
      <4>1. c = Drawn => wtargets' = Drawn.targets /\ wsort' = sort
        BY <1>v, <2>6 DEF Retargets
      <4> QED
        BY <2>1, <2>4, <2>5, <3>2, <4>1 DEF Told, viewVars
    <3>3. CASE ~Has(cmds, Retargets) /\ wtargets = Drawn.targets /\ wsort = sort
      <4>1. ~Has(cmds', Retargets) /\ c.op \notin Retargets
        BY <2>3, <3>3
      <4>2. wtargets' = wtargets /\ wsort' = wsort
        BY <2>6, <4>1 DEF Retargets, workVars
      <4> QED
        BY <2>1, <2>5, <3>3, <4>1, <4>2 DEF Told, viewVars
    <3> QED
      BY <1>q, <3>1, <3>2, <3>3 DEF Told
  <2>8. CASE Refresh
    <3>1. Snapshot' \in Replies /\ Snapshot'.op = "Snapshot"
      <4>1. Snapshot' \in Replies'
        BY StoreStep, WorkStep, SnapshotTypedNext
      <4>2. Replies' = Replies
        BY DEF Replies, ListSeqs, ItemSeqs
      <4>3. Snapshot'.op = "Snapshot"
        BY DEF Snapshot
      <4> QED
        BY <4>1, <4>2, <4>3
    <3>2. replies' = Append(replies, Snapshot') /\ behind' = FALSE
      BY <2>8 DEF Refresh
    <3>3. LastReply'
      BY <1>t, <3>1, <3>2, LatestSent DEF LastReply
    <3>4. Has(replies', {"Snapshot"})
      BY <1>t, <3>1, <3>2, HasAppend
    <3>5. Displayed'
      BY <3>4 DEF Displayed
    <3> QED
      BY <2>7, <3>3, <3>5 DEF QuietInv
  <2>9. CASE behind' = TRUE
    BY <2>7, <2>9 DEF QuietInv, LastReply, Displayed
  <2>10. CASE /\ ~Refresh /\ UNCHANGED <<held, name, rows, workVars, behind>>
              /\ \/ UNCHANGED replies
                 \/ /\ c.op \in {"FetchFullItem", "FetchMembers"}
                    /\ replies' = Append(replies, ActOn(IF c.op = "FetchMembers"
                                                        THEN "Members" ELSE "FullItem", c.on))
    <3>1. Has(cmds, {"SetView"}) => Has(cmds', {"SetView"})
      BY <2>3, <2>6, <2>10 DEF Retargets
    <3>2. /\ Has(replies, {"Snapshot"}) => Has(replies', {"Snapshot"})
          /\ LastReply'
      <4>1. CASE UNCHANGED replies
        BY <1>q, <1>s, <2>10, <4>1 DEF LastReply
      <4>2. CASE /\ c.op \in {"FetchFullItem", "FetchMembers"}
                 /\ replies' = Append(replies, ActOn(IF c.op = "FetchMembers"
                                                     THEN "Members" ELSE "FullItem", c.on))
        <5> DEFINE f == ActOn(IF c.op = "FetchMembers" THEN "Members" ELSE "FullItem", c.on)
        <5>1. f \in Replies /\ f.op # "Snapshot"
          BY <2>2, <4>2, CommandFields DEF ActOn, Replies, Fetched
        <5>2. replies' = Append(replies, f)
          BY <4>2
        <5> HIDE DEF f
        <5>3. Has(replies, {"Snapshot"}) => Has(replies', {"Snapshot"})
          BY <1>t, <5>1, <5>2, HasAppend
        <5>4. LastReply'
          BY <1>t, <1>q, <1>s, <2>10, <5>1, <5>2, LatestSent DEF LastReply
        <5> QED
          BY <5>3, <5>4
      <4> QED
        BY <2>10, <4>1, <4>2
    <3>3. Displayed'
      BY <1>q, <1>s, <2>1, <2>5, <2>10, <3>1, <3>2 DEF Displayed, viewVars
    <3> QED
      BY <2>7, <3>2, <3>3 DEF QuietInv
  <2> QED
    BY <2>6, <2>8, <2>9, <2>10
<1>5. CASE Remote
  <2>1. PICK c \in Commands : cmds' = Append(cmds, c) /\ c.op \in {"ApplyRemote", "Ingest"}
    <3>1. CASE \E i \in Items, to \in Todos :
                  Command([op |-> "ApplyRemote", on |-> i, to |-> to])
      <4>1. \A i \in Items, to \in Todos :
               [op |-> "ApplyRemote", on |-> i, to |-> to] \in Commands
        BY DEF Commands
      <4> QED
        BY <3>1, <4>1 DEF Command
    <3>2. CASE \E l \in Lists : Command(ActOn("Ingest", l))
      <4>1. \A l \in Lists : ActOn("Ingest", l) \in Commands /\ ActOn("Ingest", l).op = "Ingest"
        BY DEF ActOn, Commands
      <4> QED
        BY <3>2, <4>1 DEF Command
    <3> QED
      BY <1>5, <3>1, <3>2 DEF Remote
  <2>2. UNCHANGED <<storeVars, workVars, viewVars, acts, replies, behind>>
    BY <1>5 DEF Remote
  <2>3. /\ Tells(cmds, Drawn) => Tells(cmds', Drawn)
        /\ Has(cmds', Retargets) <=> Has(cmds, Retargets)
        /\ Has(cmds', {"SetView"}) <=> Has(cmds, {"SetView"})
    <3>1. c.op \notin Retargets /\ c.op \notin {"SetView"}
      BY <2>1 DEF Retargets
    <3>2. Tells(cmds, Drawn) => Tells(cmds', Drawn)
      BY <1>t, <2>1, <3>1, ViewSent
    <3>3. \A ops : Has(cmds', ops) <=> Has(cmds, ops) \/ c.op \in ops
      BY <1>t, <2>1, HasAppend
    <3> QED
      BY <3>1, <3>2, <3>3
  <2>4. Announced' <=> Announced
    BY <2>2 DEF Announced
  <2>5. Told'
    BY <1>q, <1>d, <2>2, <2>3, <2>4 DEF Told, workVars, viewVars
  <2>6. LastReply'
    BY <1>q, <1>s, <2>2 DEF LastReply
  <2>7. Displayed'
    BY <1>q, <1>s, <2>2, <2>3, <2>4 DEF Displayed, viewVars
  <2> QED
    BY <2>5, <2>6, <2>7 DEF QuietInv
<1>6. CASE /\ UNCHANGED <<storeVars, workVars, viewVars, cmds, replies, behind>>
           /\ Announced => Announced'
  <2>1. Told'
    BY <1>q, <1>d, <1>6 DEF Told, workVars, viewVars
  <2>2. LastReply'
    BY <1>q, <1>s, <1>6 DEF LastReply
  <2>3. Displayed'
    BY <1>q, <1>s, <1>6 DEF Displayed, viewVars
  <2> QED
    BY <2>1, <2>2, <2>3 DEF QuietInv
<1>7. Drain \/ UNCHANGED vars
         => /\ UNCHANGED <<storeVars, workVars, viewVars, cmds, replies, behind>>
            /\ Announced => Announced'
  BY DEF Drain, vars, Announced
<1>8. LookupEnds => /\ UNCHANGED <<storeVars, workVars, viewVars, cmds, replies, behind>>
                    /\ Announced => Announced'
  <2> SUFFICES ASSUME LookupEnds
               PROVE  /\ UNCHANGED <<storeVars, workVars, viewVars, cmds, replies, behind>>
                      /\ Announced => Announced'
    OBVIOUS
  <2>1. \/ UNCHANGED acts
        \/ \E l \in Lists : acts' = Append(acts, ActOn("AddResolvedMember", l))
    BY DEF LookupEnds, Send, TypeInv, TypeOK
  <2>2. \A l \in Lists : ActOn("AddResolvedMember", l) \in Actions
    BY DEF ActOn, Actions
  <2>3. Announced => Announced'
    BY <1>t, <2>1, <2>2, HasAppend DEF Announced
  <2> QED
    BY <2>3 DEF LookupEnds
<1> QED
  BY <1>1, <1>2, <1>3, <1>4, <1>5, <1>6, <1>7, <1>8 DEF Next

LEMMA QuietEnough == TypeInv /\ QuietInv => QuietIsCurrent
<1> SUFFICES ASSUME TypeInv, QuietInv, turn = "wait", acts = <<>>, cmds = <<>>,
                    replies = <<>>, ~behind
             PROVE  /\ listed = Summaries(sort)
                    /\ \A p \in 1..Len(panes) : panes[p].items = LoadView(panes[p].target, sort)
  BY DEF QuietIsCurrent, Quiet, Current
<1>1. ~Announced /\ \A ops : ~Has(cmds, ops)
  BY DEF Announced, Has
<1>2. wtargets = Drawn.targets /\ wsort = sort
  BY <1>1 DEF QuietInv, Told, Tells
<1>3. \A p \in 1..Len(panes) : wtargets[p] = panes[p].target
  BY <1>2 DEF Drawn, SetView
<1> QED
  BY <1>1, <1>2, <1>3 DEF QuietInv, Displayed

\* QuietIsCurrent: for any lists, todos, keys and remote changes, once nothing
\* is on its way between the keys, the loop and the store worker, the sidebar
\* and every pane show what the store holds for the targets drawn, in the
\* order chosen, unless a remote batch or a rename failed after it had changed
\* the tables and nothing was answered since (home.rs split and close_pane,
\* app.rs send_set_view and handle_worker_msg, worker.rs run_store_worker,
\* store.rs rename_list).
THEOREM QuietScreenIsCurrent == Spec => []QuietIsCurrent
<1>1. Init => TypeInv /\ QuietInv
  BY TypeInit, QuietInit
<1>2. TypeInv /\ QuietInv /\ [Next]_vars => TypeInv' /\ QuietInv'
  BY TypeStep, QuietStep
<1> QED
  BY <1>1, <1>2, QuietEnough, PTL DEF Spec
=============================================================================
