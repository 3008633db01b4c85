----------------------------- MODULE UploadProofs -----------------------------
(* Theorems about Upload, for every set of clients and every bound.        *)
EXTENDS Upload, SequenceTheorems, FiniteSetTheorems, WellFoundedInduction, TLAPS

LEMMA MinOfEdits ==
    ASSUME NEW S \in SUBSET Edits, S # {}
    PROVE  /\ Min(S) \in S
           /\ \A n \in S : Min(S) <= n
<1>1. S \subseteq Nat
  BY UploadAssumption DEF Edits
<1>2. \E m \in S : \A n \in S : <<n, m>> \notin OpToRel(<, Nat)
  BY <1>1, NatLessThanWellFounded, WFMin, Zenon
<1>3. PICK m \in S : \A n \in S : ~ (n < m)
  BY <1>1, <1>2 DEF OpToRel
<1>4. \A n \in S : m <= n
  BY <1>1, <1>3
<1> QED
  BY <1>4 DEF Min

\* take_outbound claims the first pending row whenever there is one.
LEMMA ClaimedNotEmpty ==
    ASSUME NEW c \in Clients, Pending(c) # {}
    PROVE  Claimed(c) # {}
<1> DEFINE first == Min(Pending(c))
<1>1. Pending(c) \in SUBSET Edits
  BY DEF Pending
<1>2. first \in Pending(c) /\ \A n \in Pending(c) : first <= n
  BY <1>1, MinOfEdits
<1>3. {m \in Pending(c) : m < first} = {}
  BY <1>1, <1>2 DEF Edits
<1>4. Cardinality({m \in Pending(c) : m < first}) < Batch
  BY <1>3, FS_EmptySet, UploadAssumption
<1> QED
  BY <1>2, <1>4 DEF Claimed

-----------------------------------------------------------------------------
\* A push has rows in hand exactly while it is sending or waiting, and has
\* counted the attempt of each.
SendingHasRow ==
    \A c \in Clients :
        /\ engine[c] \in {"sending", "waiting"} <=> batch[c] # {}
        /\ \A n \in batch[c] : attempts[<<c, n>>] # 0

TypeInv == TypeOK /\ SendingHasRow

USE DEF Call, Updates, vars, storeVars, tableVars, engineVars, serverVars, ghostVars

LEMMA WorseType ==
    ASSUME TypeOK, NEW c \in Clients
    PROVE  Worse(c) \in [Clients -> Mishaps]
BY DEF TypeOK, Worse, Mishaps

\* What a push that gives up leaves behind is well typed.
LEMMA GiveUpType ==
    ASSUME TypeInv, NEW c \in Clients, batch[c] # {}, GiveUp(c)
    PROVE  /\ row' \in [Updates -> RowStates]
           /\ batch' \in [Clients -> SUBSET Edits]
           /\ engine' \in [Clients -> EngineStates]
           /\ mishap' \in [Clients -> Mishaps]
           /\ SendingHasRow'
<1>1. Current(c) \in Updates
  BY MinOfEdits DEF TypeInv, TypeOK, Current
<1>2. row' \in [Updates -> RowStates]
  BY <1>1 DEF TypeInv, TypeOK, GiveUp, RowStates
<1>3. batch' \in [Clients -> SUBSET Edits]
  BY DEF TypeInv, TypeOK, GiveUp
<1>4. engine' \in [Clients -> EngineStates]
  BY DEF TypeInv, TypeOK, GiveUp, EngineStates
<1>5. mishap' \in [Clients -> Mishaps]
  BY WorseType DEF TypeInv, GiveUp
<1>6. SendingHasRow'
  <2>1. batch' = [batch EXCEPT ![c] = {}] /\ engine' = [engine EXCEPT ![c] = "idle"]
        /\ attempts' = attempts
    BY DEF GiveUp
  <2>2. batch \in [Clients -> SUBSET Edits] /\ engine \in [Clients -> EngineStates]
    BY DEF TypeInv, TypeOK
  <2>3. ASSUME NEW d \in Clients
        PROVE  /\ engine'[d] \in {"sending", "waiting"} <=> batch'[d] # {}
               /\ \A n \in batch'[d] : attempts'[<<d, n>>] # 0
    <3>1. CASE d = c
      BY <3>1, <2>1, <2>2
    <3>2. CASE d # c
      <4>1. engine'[d] = engine[d] /\ batch'[d] = batch[d]
        BY <3>2, <2>1, <2>2
      <4> QED
        BY <4>1, <2>1 DEF TypeInv, SendingHasRow
    <3> QED
      BY <3>1, <3>2
  <2> QED
    BY <2>3 DEF SendingHasRow
<1> QED
  BY <1>2, <1>3, <1>4, <1>5, <1>6

LEMMA TypeInit == Init => TypeInv
<1> SUFFICES ASSUME Init
             PROVE  TypeInv
  OBVIOUS
<1>1. commands \in [Clients -> Seq({"CreateList", "Push"})]
  BY DEF Init
<1>2. faults \in 0..MaxFaults /\ edits \in [Clients -> 0..MaxEdits]
  BY UploadAssumption DEF Init
<1>3. created \in BOOLEAN /\ hasList \in [Clients -> BOOLEAN]
  BY DEF Init
<1> QED
  BY <1>1, <1>2, <1>3 DEF Init, TypeInv, TypeOK, SendingHasRow, EditorStates,
     EngineStates, RowStates, Mishaps

LEMMA TypeNext == TypeInv /\ [Next]_vars => TypeInv'
<1> SUFFICES ASSUME TypeInv, [Next]_vars
             PROVE  TypeInv'
  OBVIOUS
<1> USE UploadAssumption DEF TypeInv, TypeOK, SendingHasRow, EditorStates,
        EngineStates, RowStates, Mishaps, CallStates
<1>1. ASSUME NEW c \in Clients, CreateList(c)
      PROVE  TypeInv'
  BY <1>1 DEF CreateList
<1>2. ASSUME NEW c \in Clients, Join(c)
      PROVE  TypeInv'
  BY <1>2 DEF Join
<1>3. ASSUME NEW c \in Clients, Enqueue(c)
      PROVE  TypeInv'
  <2>1. edits[c] + 1 \in Edits /\ edits[c] + 1 \in 0..MaxEdits
    BY <1>3 DEF Enqueue, Edits, TypeOK
  <2>2. edits' \in [Clients -> 0..MaxEdits]
    BY <1>3, <2>1 DEF Enqueue
  <2>3. row' \in [Updates -> RowStates]
    BY <1>3, <2>1 DEF Enqueue
  <2>4. editor' \in [Clients -> EditorStates]
    BY <1>3 DEF Enqueue
  <2>5. UNCHANGED <<hasList, attempts, engineVars, serverVars, ghostVars>>
    BY <1>3 DEF Enqueue
  <2> HIDE DEF EditorStates, EngineStates, RowStates, Mishaps, CallStates
  <2> QED
    BY <2>2, <2>3, <2>4, <2>5
<1>4. ASSUME NEW c \in Clients, Nudge(c)
      PROVE  TypeInv'
  BY <1>4 DEF Nudge
<1>5. ASSUME NEW c \in Clients, Receive(c)
      PROVE  TypeInv'
  BY <1>5 DEF Receive
<1>6. ASSUME NEW c \in Clients, CreateListDone(c)
      PROVE  TypeInv'
  BY <1>6 DEF CreateListDone
<1>7. ASSUME NEW c \in Clients, CreateListFails(c)
      PROVE  TypeInv'
  <2>1. created' \in BOOLEAN
    BY <1>7 DEF CreateListFails
  <2>2. faults' \in 0..MaxFaults
    BY <1>7 DEF CreateListFails
  <2> QED
    BY <1>7, <2>1, <2>2, WorseType DEF CreateListFails
<1>8. ASSUME NEW c \in Clients, TakeOutbound(c)
      PROVE  TypeInv'
  <2>1. Claimed(c) \in SUBSET Edits
    BY DEF Claimed, Pending
  <2>2. TypeOK'
    BY <1>8, <2>1 DEF TakeOutbound, Counted
  <2>3. SendingHasRow'
    <3>1. Claimed(c) = {} <=> Pending(c) = {}
      BY ClaimedNotEmpty DEF Claimed
    <3> QED
      BY <1>8, <2>1, <3>1 DEF TakeOutbound, Counted
  <2> QED
    BY <2>2, <2>3
<1>9. ASSUME NEW c \in Clients, SendAppend(c)
      PROVE  TypeInv'
  <2>1. Current(c) \in Updates /\ attempts[Current(c)] # 0
    BY <1>9, MinOfEdits DEF SendAppend, Current
  <2> QED
    BY <1>9, <2>1 DEF SendAppend
<1>10. ASSUME NEW c \in Clients, Ack(c)
       PROVE  TypeInv'
  <2>1. batch[c] # {} /\ Current(c) \in Updates
    BY <1>10, MinOfEdits DEF Ack, Current
  <2>2. row' \in [Updates -> RowStates]
    BY <1>10, <2>1 DEF Ack
  <2>3. batch' \in [Clients -> SUBSET Edits]
    BY <1>10 DEF Ack, Rest
  <2>4. engine' \in [Clients -> EngineStates]
    BY <1>10 DEF Ack
  <2>5. calls' \subseteq calls
    BY <1>10 DEF Ack
  <2>6. UNCHANGED <<storeVars, attempts, commands, created, seqOf, firstSeq, top,
                    ghostVars>>
    BY <1>10 DEF Ack
  <2>7. SendingHasRow'
    <3>1. batch' = [batch EXCEPT ![c] = Rest(c)] /\ Rest(c) \subseteq batch[c]
      BY <1>10 DEF Ack, Rest
    <3>2. engine' = [engine EXCEPT ![c] = IF Rest(c) = {} THEN "taking" ELSE "sending"]
      BY <1>10 DEF Ack
    <3> QED
      BY <3>1, <3>2, <2>6
  <2>8. TypeOK'
    <3> HIDE DEF SendingHasRow, EditorStates, EngineStates, RowStates, Mishaps, CallStates
    <3> QED
      BY <2>2, <2>3, <2>4, <2>5, <2>6
  <2> QED
    BY <2>7, <2>8
<1>11. ASSUME NEW c \in Clients, AppendRejected(c)
       PROVE  TypeInv'
  <2>1. batch[c] # {}
    BY <1>11 DEF AppendRejected
  <2>2. /\ calls' \subseteq calls
        /\ UNCHANGED <<storeVars, attempts, commands, created, seqOf, firstSeq, top, faults>>
    BY <1>11 DEF AppendRejected, GiveUp
  <2>3. GiveUp(c)
    BY <1>11 DEF AppendRejected
  <2> HIDE DEF SendingHasRow, EditorStates, EngineStates, RowStates, Mishaps, CallStates
  <2> QED
    BY <2>1, <2>2, <2>3, GiveUpType
<1>12. ASSUME NEW c \in Clients, AppendLost(c)
       PROVE  TypeInv'
  <2>1. batch[c] # {} /\ faults' \in 0..MaxFaults
    BY <1>12 DEF AppendLost
  <2>2. UNCHANGED <<storeVars, attempts, commands, created, seqOf, firstSeq, top, calls>>
    BY <1>12 DEF AppendLost, GiveUp
  <2>3. GiveUp(c)
    BY <1>12 DEF AppendLost
  <2> HIDE DEF SendingHasRow, EditorStates, EngineStates, RowStates, Mishaps, CallStates
  <2> QED
    BY <2>1, <2>2, <2>3, GiveUpType
<1>13. ASSUME NEW c \in Clients, Restart(c)
       PROVE  TypeInv'
  BY <1>13 DEF Restart
<1>14. ASSUME NEW k \in calls, HandlerNext(k)
       PROVE  TypeInv'
  <2>1. CASE RejectAuthor(k)
    BY <2>1 DEF RejectAuthor, Step
  <2>2. CASE AllocateSeq(k)
    <3>1. calls' \subseteq [upd : Updates, att : Nat \ {0}, pc : CallStates, seq : Nat]
      BY <2>2 DEF AllocateSeq, Step
    <3>2. top' \in Nat
      BY <2>2 DEF AllocateSeq
    <3> QED
      BY <2>2, <3>1, <3>2 DEF AllocateSeq
  <2>3. CASE InsertRow(k)
    <3>1. k.upd \in Updates /\ k.seq \in Nat /\ k.att \in Nat
      OBVIOUS
    <3>2. seqOf' \in [Updates -> Nat] /\ firstSeq' \in [Updates -> Nat]
      BY <2>3, <3>1 DEF InsertRow
    <3>3. calls' \subseteq [upd : Updates, att : Nat \ {0}, pc : CallStates, seq : Nat]
      BY <2>3, <3>1 DEF InsertRow, Step
    <3>4. UNCHANGED <<storeVars, tableVars, engineVars, created, top, ghostVars>>
      BY <2>3 DEF InsertRow
    <3> HIDE DEF EditorStates, EngineStates, RowStates, Mishaps, CallStates
    <3> QED
      BY <3>2, <3>3, <3>4
  <2>4. CASE InsertConflict(k)
    BY <2>4 DEF InsertConflict, Step
  <2>5. CASE ReturnExisting(k)
    <3>1. seqOf[k.upd] \in Nat
      OBVIOUS
    <3> QED
      BY <2>5, <3>1 DEF ReturnExisting, Step
  <2> QED
    BY <1>14, <2>1, <2>2, <2>3, <2>4, <2>5 DEF HandlerNext
<1>15. ASSUME NEW u \in Updates, PutSnapshot(u)
       PROVE  TypeInv'
  BY <1>15 DEF PutSnapshot
<1>16. CASE UNCHANGED vars
  BY <1>16
<1> QED
  BY <1>1, <1>2, <1>3, <1>4, <1>5, <1>6, <1>7, <1>8, <1>9, <1>10, <1>11,
     <1>12, <1>13, <1>14, <1>15, <1>16 DEF Next, StoreNext, EngineNext

\* Every reachable state is well typed, whatever the clients and the bounds.
THEOREM TypeCorrect == Spec => []TypeOK
<1>1. Spec => []TypeInv
  BY TypeInit, TypeNext, PTL DEF Spec
<1>2. TypeInv => TypeOK
  BY DEF TypeInv
<1> QED
  BY <1>1, <1>2, PTL

-----------------------------------------------------------------------------
\* What AckedIsStored rests on: a handler that holds or answers a seq found
\* or made a row, and whatever has a row has been stored.
CallsBacked ==
    \A k \in calls :
        /\ k.pc = "allocated" => k.seq # 0
        /\ k.pc = "replied" /\ k.seq # 0 => firstSeq[k.upd] # 0

RowsRecorded == \A u \in Updates : seqOf[u] # 0 => firstSeq[u] # 0

AckInv == AckedIsStored /\ CallsBacked /\ RowsRecorded

LEMMA AckInit == Init => AckInv
  BY DEF Init, AckInv, AckedIsStored, CallsBacked, RowsRecorded

LEMMA AckNext == TypeOK /\ TypeOK' /\ AckInv /\ [Next]_vars => AckInv'
<1> SUFFICES ASSUME TypeOK, TypeOK', AckInv, [Next]_vars
             PROVE  AckInv'
  OBVIOUS
<1> USE DEF AckInv, AckedIsStored, CallsBacked, RowsRecorded
<1>1. ASSUME NEW c \in Clients, StoreNext(c)
      PROVE  AckInv'
  BY <1>1 DEF StoreNext, CreateList, Join, Enqueue, Nudge, TypeOK
<1>2. ASSUME NEW c \in Clients,
             Receive(c) \/ CreateListDone(c) \/ CreateListFails(c) \/ Restart(c)
      PROVE  AckInv'
  BY <1>2 DEF Receive, CreateListDone, CreateListFails, Restart
<1>3. ASSUME NEW c \in Clients, TakeOutbound(c)
      PROVE  AckInv'
  BY <1>3 DEF TakeOutbound
<1>4. ASSUME NEW c \in Clients, SendAppend(c)
      PROVE  AckInv'
  BY <1>4 DEF SendAppend
<1>5. ASSUME NEW c \in Clients, Ack(c)
      PROVE  AckInv'
  <2>1. PICK k \in calls : /\ k.upd = Current(c)
                           /\ k.pc = "replied" /\ k.seq # 0
                           /\ calls' = calls \ {k}
    BY <1>5 DEF Ack, Awaited
  <2>2. firstSeq[Current(c)] # 0
    BY <2>1
  <2> QED
    BY <1>5, <2>1, <2>2 DEF Ack, TypeOK
<1>6. ASSUME NEW c \in Clients, AppendRejected(c) \/ AppendLost(c)
      PROVE  AckInv'
  <2>1. calls' \subseteq calls /\ row' = [row EXCEPT ![Current(c)] = "pending"]
    BY <1>6 DEF AppendRejected, AppendLost, GiveUp
  <2> QED
    BY <1>6, <2>1 DEF AppendRejected, AppendLost, GiveUp, TypeOK
<1>7. ASSUME NEW k \in calls, HandlerNext(k)
      PROVE  AckInv'
  <2>1. CASE RejectAuthor(k)
    BY <2>1 DEF RejectAuthor, Step
  <2>2. CASE AllocateSeq(k)
    BY <2>2 DEF AllocateSeq, Step, TypeOK
  <2>3. CASE InsertRow(k)
    BY <2>3 DEF InsertRow, Step, TypeOK
  <2>4. CASE InsertConflict(k)
    BY <2>4 DEF InsertConflict, Step
  <2>5. CASE ReturnExisting(k)
    BY <2>5 DEF ReturnExisting, Step, TypeOK
  <2> QED
    BY <1>7, <2>1, <2>2, <2>3, <2>4, <2>5 DEF HandlerNext
<1>8. ASSUME NEW u \in Updates, PutSnapshot(u)
      PROVE  AckInv'
  BY <1>8 DEF PutSnapshot, TypeOK
<1>9. CASE UNCHANGED vars
  BY <1>9
<1> QED
  BY <1>1, <1>2, <1>3, <1>4, <1>5, <1>6, <1>7, <1>8, <1>9 DEF Next, EngineNext

\* No local edit is forgotten before the server holds it, in every behaviour:
\* with any number of clients, lost calls, restarts and compactions.
THEOREM AcknowledgedIsStored == Spec => []AckedIsStored
<1>1. Spec => []AckInv
  BY TypeCorrect, AckInit, AckNext, PTL DEF Spec
<1>2. AckInv => AckedIsStored
  BY DEF AckInv
<1> QED
  BY <1>1, <1>2, PTL

-----------------------------------------------------------------------------
\* Sending a command never unqueues a Push, receiving one other than Push
\* leaves every Push in the channel.
LEMMA SendKeepsPush ==
    ASSUME TypeOK, NEW c \in Clients, NEW d \in Clients,
           NEW m \in {"CreateList", "Push"},
           commands' = [commands EXCEPT ![d] = Append(@, m)]
    PROVE  /\ PushQueued(c) => PushQueued(c)'
           /\ c = d /\ m = "Push" => PushQueued(c)'
<1> DEFINE old == commands[d]
           new == Append(old, m)
<1>1. old \in Seq({"CreateList", "Push"})
  BY DEF TypeOK
<1>2. /\ DOMAIN old = 1..Len(old) /\ Len(old) \in Nat
      /\ DOMAIN new = 1..(Len(old) + 1)
      /\ \A i \in 1..Len(old) : new[i] = old[i]
      /\ new[Len(old) + 1] = m
  BY <1>1
<1>3. CASE c = d
  <2>1. commands'[c] = new
    BY <1>3 DEF TypeOK
  <2>2. ASSUME NEW i \in DOMAIN old, old[i] = "Push"
        PROVE  i \in DOMAIN new /\ new[i] = "Push"
    BY <1>2, <2>2
  <2>3. Len(old) + 1 \in DOMAIN new
    BY <1>2
  <2> HIDE DEF new
  <2> QED
    BY <1>2, <1>3, <2>1, <2>2, <2>3 DEF PushQueued
<1>4. CASE c # d
  BY <1>4 DEF PushQueued, TypeOK
<1> QED
  BY <1>3, <1>4

LEMMA ReceiveKeepsPush ==
    ASSUME TypeOK, NEW c \in Clients, NEW d \in Clients, Receive(d),
           PushQueued(c)
    PROVE  \/ PushQueued(c)'
           \/ c = d /\ engine'[c] = "taking"
<1> DEFINE old == commands[d]
<1>1. old \in Seq({"CreateList", "Push"}) /\ old # <<>>
  BY DEF TypeOK, Receive
<1>2. CASE c = d /\ Head(old) # "Push"
  <2>1. PICK i \in 1..Len(old) : old[i] = "Push"
    BY <1>1, <1>2 DEF PushQueued
  <2>2. i # 1
    BY <1>1, <1>2, <2>1
  <2>3. i - 1 \in DOMAIN Tail(old) /\ Tail(old)[i - 1] = "Push"
    BY <1>1, <2>1, <2>2
  <2>4. commands'[c] = Tail(old)
    BY <1>2 DEF Receive, TypeOK
  <2> QED
    BY <2>3, <2>4 DEF PushQueued
<1>3. CASE c = d /\ Head(old) = "Push"
  BY <1>3 DEF Receive, TypeOK
<1>4. CASE c # d
  BY <1>4 DEF Receive, PushQueued, TypeOK
<1> QED
  BY <1>2, <1>3, <1>4

LEMMA NudgeInit == Init => NudgeNotLost
  BY DEF Init, NudgeNotLost

LEMMA NudgeNext == TypeOK /\ NudgeNotLost /\ [Next]_vars => NudgeNotLost'
<1> SUFFICES ASSUME TypeOK, NudgeNotLost, [Next]_vars,
                    NEW d \in Clients, NEW n \in Edits,
                    row'[<<d, n>>] = "pending", mishap'[d] = "none"
             PROVE  \/ editor'[d] = "queued"
                    \/ PushQueued(d)'
                    \/ engine'[d] \in {"taking", "sending", "waiting"}
  BY DEF NudgeNotLost
<1> DEFINE Goal == \/ editor'[d] = "queued"
                   \/ PushQueued(d)'
                   \/ engine'[d] \in {"taking", "sending", "waiting"}
<1>a. row[<<d, n>>] = "pending" /\ mishap[d] = "none" =>
          \/ editor[d] = "queued"
          \/ PushQueued(d)
          \/ engine[d] \in {"taking", "sending", "waiting"}
  BY DEF NudgeNotLost
<1>b. UNCHANGED commands => (PushQueued(d) <=> PushQueued(d)')
  BY DEF PushQueued
<1>1. ASSUME NEW c \in Clients, CreateList(c)
      PROVE  Goal
  BY <1>1, <1>a, SendKeepsPush DEF CreateList, TypeOK
<1>2. ASSUME NEW c \in Clients, Join(c)
      PROVE  Goal
  BY <1>2, <1>a, <1>b DEF Join
<1>3. ASSUME NEW c \in Clients, Enqueue(c)
      PROVE  Goal
  BY <1>3, <1>a, <1>b DEF Enqueue, TypeOK
<1>4. ASSUME NEW c \in Clients, Nudge(c)
      PROVE  Goal
  BY <1>4, <1>a, SendKeepsPush DEF Nudge, TypeOK
<1>5. ASSUME NEW c \in Clients, Receive(c)
      PROVE  Goal
  BY <1>5, <1>a, ReceiveKeepsPush DEF Receive, TypeOK
<1>6. ASSUME NEW c \in Clients, CreateListDone(c)
      PROVE  Goal
  BY <1>6, <1>a, <1>b DEF CreateListDone, TypeOK
<1>7. ASSUME NEW c \in Clients, CreateListFails(c)
      PROVE  Goal
  BY <1>7, <1>a, <1>b DEF CreateListFails, Worse, TypeOK
<1>8. ASSUME NEW c \in Clients, TakeOutbound(c)
      PROVE  Goal
  BY <1>8, <1>a, <1>b DEF TakeOutbound, Pending, TypeOK
<1>9. ASSUME NEW c \in Clients, SendAppend(c)
      PROVE  Goal
  BY <1>9, <1>a, <1>b DEF SendAppend, TypeOK
<1>10. ASSUME NEW c \in Clients, Ack(c)
       PROVE  Goal
  <2>1. row[<<d, n>>] = "pending"
    BY <1>10 DEF Ack, TypeOK
  <2> QED
    BY <1>10, <1>a, <1>b, <2>1 DEF Ack, TypeOK
<1>11. ASSUME NEW c \in Clients, AppendRejected(c) \/ AppendLost(c)
       PROVE  Goal
  <2>1. GiveUp(c)
    BY <1>11 DEF AppendRejected, AppendLost
  <2>2. c # d
    BY <2>1 DEF GiveUp, Worse, TypeOK
  <2> QED
    BY <1>a, <1>b, <2>1, <2>2 DEF GiveUp, Worse, Current, TypeOK
<1>12. ASSUME NEW c \in Clients, Restart(c)
       PROVE  Goal
  BY <1>12, <1>a DEF Restart, PushQueued, TypeOK
<1>13. ASSUME NEW k \in calls, HandlerNext(k)
       PROVE  Goal
  BY <1>13, <1>a, <1>b DEF HandlerNext, RejectAuthor, AllocateSeq, InsertRow,
     InsertConflict, ReturnExisting
<1>14. ASSUME NEW u \in Updates, PutSnapshot(u)
       PROVE  Goal
  BY <1>14, <1>a, <1>b DEF PutSnapshot
<1>15. CASE UNCHANGED vars
  BY <1>15, <1>a, <1>b
<1> QED
  BY <1>1, <1>2, <1>3, <1>4, <1>5, <1>6, <1>7, <1>8, <1>9, <1>10, <1>11,
     <1>12, <1>13, <1>14, <1>15 DEF Next, StoreNext, EngineNext

\* No nudge is ever lost: until its client meets a failure, a pending row has
\* a Push or a running drain ahead of it, for any number of edits.
THEOREM NoLostWakeup == Spec => []NudgeNotLost
  BY TypeCorrect, NudgeInit, NudgeNext, PTL DEF Spec

-----------------------------------------------------------------------------
\* What keeps the log's places unique: a handler between the two halves of
\* its INSERT holds a number that no row and no other handler has.
SeqsApart ==
    /\ \A u \in Updates : seqOf[u] <= top
    /\ \A k \in calls : k.pc = "allocated" =>
         /\ k.seq \in 1..top
         /\ \A u \in Updates : seqOf[u] # k.seq
         /\ \A j \in calls : j.pc = "allocated" /\ j.seq = k.seq => j = k

\* No step but a handler's and a compaction's touches the log or lets a
\* handler hold a number.
LEMMA ClientsLeaveLog ==
    ASSUME TypeOK, NEW c \in Clients, StoreNext(c) \/ EngineNext(c) \/ Restart(c)
    PROVE  /\ UNCHANGED <<seqOf, firstSeq, top>>
           /\ \A k \in calls' : k \in calls \/ (k.pc = "received" /\ k.seq = 0)
<1>1. CASE StoreNext(c)
  BY <1>1 DEF StoreNext, CreateList, Join, Enqueue, Nudge
<1>2. CASE Receive(c) \/ CreateListDone(c) \/ CreateListFails(c)
           \/ TakeOutbound(c) \/ Restart(c)
  BY <1>2 DEF Receive, CreateListDone, CreateListFails, TakeOutbound, Restart
<1>3. CASE SendAppend(c)
  BY <1>3 DEF SendAppend
<1>4. CASE Ack(c) \/ AppendRejected(c) \/ AppendLost(c)
  <2>1. calls' \subseteq calls
    BY <1>4 DEF Ack, AppendRejected, AppendLost
  <2> QED
    BY <1>4, <2>1 DEF Ack, AppendRejected, AppendLost, GiveUp
<1> QED
  BY <1>1, <1>2, <1>3, <1>4 DEF EngineNext

LEMMA SeqsInit == Init => SeqsApart
  BY DEF Init, SeqsApart

LEMMA SeqsNext == TypeOK /\ SeqsApart /\ [Next]_vars => SeqsApart'
<1> SUFFICES ASSUME TypeOK, SeqsApart, [Next]_vars
             PROVE  SeqsApart'
  OBVIOUS
<1> USE DEF SeqsApart
<1>1. ASSUME NEW c \in Clients, StoreNext(c) \/ EngineNext(c) \/ Restart(c)
      PROVE  SeqsApart'
  BY <1>1, ClientsLeaveLog
<1>2. ASSUME NEW k \in calls, HandlerNext(k)
      PROVE  SeqsApart'
  <2>1. CASE RejectAuthor(k)
    BY <2>1 DEF RejectAuthor, Step
  <2>2. CASE AllocateSeq(k)
    <3>1. calls' = (calls \ {k}) \cup {Call(k.upd, k.att, "allocated", top + 1)}
      BY <2>2 DEF AllocateSeq, Step
    <3>2. top' = top + 1 /\ UNCHANGED seqOf
      BY <2>2 DEF AllocateSeq
    <3>3. \A u \in Updates : seqOf'[u] <= top'
      BY <3>2 DEF TypeOK
    <3>4. ASSUME NEW j \in calls', j.pc = "allocated"
          PROVE  /\ j.seq \in 1..top'
                 /\ \A u \in Updates : seqOf'[u] # j.seq
                 /\ \A i \in calls' : i.pc = "allocated" /\ i.seq = j.seq => i = j
      <4>1. \A u \in Updates : seqOf[u] \in Nat /\ seqOf[u] <= top
        BY DEF TypeOK
      <4>2. \A i \in calls : i.pc = "allocated" => i.seq \in 1..top
        OBVIOUS
      <4>3. top \in Nat /\ k.upd \in Updates
        BY DEF TypeOK
      <4>4. CASE j \in calls \ {k}
        <5>1. j.seq \in 1..top /\ \A u \in Updates : seqOf[u] # j.seq
          BY <4>4, <3>4
        <5>2. ASSUME NEW i \in calls', i.pc = "allocated", i.seq = j.seq
              PROVE  i = j
          <6>1. i \in calls
            BY <3>1, <5>1, <5>2, <4>3
          <6> QED
            BY <6>1, <5>2, <4>4, <3>4
        <5> QED
          BY <5>1, <5>2, <3>2, <4>3
      <4>5. CASE j = Call(k.upd, k.att, "allocated", top + 1)
        <5>1. j.seq = top + 1
          BY <4>5
        <5>2. ASSUME NEW i \in calls', i.pc = "allocated", i.seq = j.seq
              PROVE  i = j
          <6>1. i \notin calls
            BY <5>1, <5>2, <4>2, <4>3
          <6> QED
            BY <6>1, <3>1, <4>5
        <5> QED
          BY <5>1, <5>2, <3>2, <4>1, <4>3
      <4> QED
        BY <3>1, <4>4, <4>5
    <3> QED
      BY <3>3, <3>4
  <2>3. CASE InsertRow(k)
    <3>1. calls' = (calls \ {k}) \cup {Call(k.upd, k.att, "replied", k.seq)}
      BY <2>3 DEF InsertRow, Step
    <3>2. seqOf' = [seqOf EXCEPT ![k.upd] = k.seq] /\ UNCHANGED top
      BY <2>3 DEF InsertRow
    <3>3. k.pc = "allocated" /\ k.upd \in Updates /\ seqOf \in [Updates -> Nat] /\ top \in Nat
      BY <2>3 DEF InsertRow, TypeOK
    <3>4. k.seq \in 1..top
      BY <3>3
    <3>5. \A u \in Updates : seqOf'[u] <= top'
      BY <3>2, <3>3, <3>4
    <3>6. \A j \in calls' : j.pc = "allocated" => j \in calls \ {k}
      BY <3>1
    <3>7. ASSUME NEW j \in calls', j.pc = "allocated"
          PROVE  /\ j.seq \in 1..top'
                 /\ \A u \in Updates : seqOf'[u] # j.seq
                 /\ \A i \in calls' : i.pc = "allocated" /\ i.seq = j.seq => i = j
      <4>1. j \in calls /\ j # k
        BY <3>6, <3>7
      <4>2. j.seq # k.seq
        BY <4>1, <3>3, <3>7
      <4>3. \A u \in Updates : seqOf'[u] # j.seq
        BY <4>1, <4>2, <3>2, <3>3, <3>7
      <4> QED
        BY <4>1, <4>3, <3>2, <3>6, <3>7
    <3> QED
      BY <3>5, <3>7
  <2>4. CASE InsertConflict(k)
    BY <2>4 DEF InsertConflict, Step
  <2>5. CASE ReturnExisting(k)
    BY <2>5 DEF ReturnExisting, Step
  <2> QED
    BY <1>2, <2>1, <2>2, <2>3, <2>4, <2>5 DEF HandlerNext
<1>3. ASSUME NEW u \in Updates, PutSnapshot(u)
      PROVE  SeqsApart'
  <2>1. UNCHANGED <<calls, top>>
    BY <1>3 DEF PutSnapshot
  <2>2. seqOf' = [v \in Updates |-> IF seqOf[v] <= seqOf[u] THEN 0 ELSE seqOf[v]]
    BY <1>3 DEF PutSnapshot
  <2>3. \A v \in Updates : seqOf'[v] = 0 \/ seqOf'[v] = seqOf[v]
    BY <2>2
  <2>4. top \in Nat
    BY DEF TypeOK
  <2>5. \A v \in Updates : seqOf'[v] <= top'
    BY <2>1, <2>3, <2>4
  <2>6. ASSUME NEW j \in calls', j.pc = "allocated"
        PROVE  \A v \in Updates : seqOf'[v] # j.seq
    BY <2>1, <2>3, <2>4, <2>6
  <2> QED
    BY <2>1, <2>5, <2>6
<1>4. CASE UNCHANGED vars
  BY <1>4
<1> QED
  BY <1>1, <1>2, <1>3, <1>4 DEF Next

LEMMA LogStep ==
    ~Compaction /\ TypeOK /\ SeqsApart /\ [Next]_vars => [Log!LogNext]_(Log!logVars)
<1> SUFFICES ASSUME ~Compaction, TypeOK, SeqsApart, [Next]_vars
             PROVE  [Log!LogNext]_(Log!logVars)
  OBVIOUS
<1> USE DEF Log!logVars
<1>1. ASSUME NEW c \in Clients, StoreNext(c) \/ EngineNext(c) \/ Restart(c)
      PROVE  UNCHANGED Log!logVars
  BY <1>1, ClientsLeaveLog
<1>2. ASSUME NEW k \in calls, HandlerNext(k)
      PROVE  [Log!LogNext]_(Log!logVars)
  <2>1. CASE RejectAuthor(k) \/ InsertConflict(k) \/ ReturnExisting(k)
    BY <2>1 DEF RejectAuthor, InsertConflict, ReturnExisting
  <2>2. CASE AllocateSeq(k)
    BY <2>2 DEF AllocateSeq, Log!LogNext, Log!Allocate
  <2>3. CASE InsertRow(k)
    <3>1. k.upd \in Updates /\ k.seq \in 1..top
      BY <2>3 DEF InsertRow, SeqsApart, TypeOK
    <3>2. Log!Store(k.upd, k.seq)
      BY <2>3, <3>1 DEF InsertRow, SeqsApart, Log!Store, Log!Free
    <3> QED
      BY <3>1, <3>2 DEF Log!LogNext
  <2> QED
    BY <1>2, <2>1, <2>2, <2>3 DEF HandlerNext
<1>3. ~ \E u \in Updates : PutSnapshot(u)
  BY DEF PutSnapshot
<1>4. CASE UNCHANGED vars
  BY <1>4
<1> QED
  BY <1>1, <1>2, <1>3, <1>4 DEF Next

\* As long as nobody compacts, the server's handlers implement the abstract
\* log: every update takes one place of its own and keeps it, whatever clients
\* retry and in whatever order handlers interleave.
THEOREM LogIsImplemented == ~Compaction /\ Spec => LogImplemented
<1> SUFFICES ASSUME ~Compaction
             PROVE  Spec => LogImplemented
  OBVIOUS
<1>1. Init => Log!LogInit
  BY DEF Init, Log!LogInit
<1>2. TypeOK /\ SeqsApart /\ [Next]_vars => [Log!LogNext]_(Log!logVars)
  BY LogStep
<1> QED
  BY <1>1, <1>2, TypeCorrect, SeqsInit, SeqsNext, PTL
     DEF Spec, LogImplemented, Log!LogSpec

-----------------------------------------------------------------------------
\* Why an error answer is never given for a stored update: CreateList is the
\* owner's first command, so an append that reached the server before the
\* list did means that the list will never be created.
Creating(c) ==
    engine[c] = "creating" \/ \E i \in DOMAIN commands[c] : commands[c][i] = "CreateList"

CreateFirst ==
    /\ \A c \in Clients : Creating(c) => c = Owner /\ ~created /\ calls = {}
    /\ \A c \in Clients : \A i \in DOMAIN commands[c] :
         commands[c][i] = "CreateList" => i = 1 /\ engine[c] = "idle"
    /\ \A c \in Clients : ~hasList[c] =>
         editor[c] = "idle" /\ commands[c] = <<>> /\ engine[c] = "idle"
    /\ \A c \in Clients : c # Owner /\ ~created => ~hasList[c]
    /\ ~hasList[Owner] => ~created /\ calls = {}

AnswersKept ==
    /\ \A u \in Updates : seqOf[u] = firstSeq[u]
    /\ \A u \in Updates : seqOf[u] # 0 => created
    /\ \A k \in calls :
         /\ k.pc = "allocated" => created /\ k.seq # 0
         /\ k.pc = "conflict" => created /\ seqOf[k.upd] # 0
         /\ k.pc = "replied" /\ k.seq = 0 => ~created
         /\ k.pc = "replied" /\ k.seq # 0 => k.seq = firstSeq[k.upd]

LEMMA CreateInit == Init => CreateFirst
  BY UploadAssumption DEF Init, CreateFirst, Creating

LEMMA CreateNext == TypeOK /\ CreateFirst /\ [Next]_vars => CreateFirst'
<1> SUFFICES ASSUME TypeOK, CreateFirst, [Next]_vars
             PROVE  CreateFirst'
  OBVIOUS
<1> USE UploadAssumption DEF CreateFirst, Creating
<1>1. ASSUME NEW c \in Clients, CreateList(c)
      PROVE  CreateFirst'
  <2>1. commands[c] = <<>> /\ engine[c] = "idle" /\ ~created /\ calls = {}
    BY <1>1 DEF CreateList
  <2>2. commands' = [commands EXCEPT ![c] = <<"CreateList">>]
    BY <1>1, <2>1 DEF CreateList
  <2> QED
    BY <1>1, <2>1, <2>2 DEF CreateList, TypeOK
<1>2. ASSUME NEW c \in Clients, Join(c)
      PROVE  CreateFirst'
  BY <1>2 DEF Join, TypeOK
<1>3. ASSUME NEW c \in Clients, Enqueue(c)
      PROVE  CreateFirst'
  BY <1>3 DEF Enqueue, TypeOK
<1>4. ASSUME NEW c \in Clients, Nudge(c)
      PROVE  CreateFirst'
  <2> DEFINE new == Append(commands[c], "Push")
  <2>1. commands' = [commands EXCEPT ![c] = new]
    BY <1>4 DEF Nudge
  <2>2. commands[c] \in Seq({"CreateList", "Push"})
    BY DEF TypeOK
  <2>3. \A i \in DOMAIN new : new[i] = "CreateList" =>
            i \in DOMAIN commands[c] /\ commands[c][i] = "CreateList"
    BY <2>2
  <2>4. hasList[c]
    BY <1>4 DEF Nudge
  <2> HIDE DEF new
  <2> QED
    BY <1>4, <2>1, <2>3, <2>4 DEF Nudge, TypeOK
<1>5. ASSUME NEW c \in Clients, Receive(c)
      PROVE  CreateFirst'
  <2> DEFINE new == Tail(commands[c])
  <2>1. commands' = [commands EXCEPT ![c] = new] /\ hasList[c]
    BY <1>5 DEF Receive
  <2>2. commands[c] \in Seq({"CreateList", "Push"}) /\ commands[c] # <<>>
    BY <1>5 DEF Receive, TypeOK
  <2>3. ASSUME NEW i \in DOMAIN new, new[i] = "CreateList"
        PROVE  FALSE
    <3>1. i + 1 \in DOMAIN commands[c] /\ commands[c][i + 1] = "CreateList"
      BY <2>2, <2>3
    <3>2. i + 1 # 1
      BY <2>2, <2>3
    <3> QED
      BY <3>1, <3>2
  <2>4. engine'[c] = "creating" => Head(commands[c]) = "CreateList"
    BY <1>5, <2>2 DEF Receive, TypeOK
  <2>5. engine'[c] = "creating" => Creating(c)
    BY <2>2, <2>4
  <2> HIDE DEF new
  <2> QED
    BY <1>5, <2>1, <2>3, <2>5 DEF Receive, TypeOK
<1>6. ASSUME NEW c \in Clients, CreateListDone(c) \/ CreateListFails(c)
      PROVE  CreateFirst'
  <2>1. engine[c] = "creating" /\ engine' = [engine EXCEPT ![c] = "idle"]
    BY <1>6 DEF CreateListDone, CreateListFails
  <2>2. UNCHANGED <<commands, calls, hasList, editor>>
    BY <1>6 DEF CreateListDone, CreateListFails
  <2>3. c = Owner /\ \A d \in Clients : ~Creating(d)'
    BY <2>1, <2>2 DEF TypeOK
  <2>4. hasList[Owner] /\ (~created' => ~created)
    BY <1>6, <2>1, <2>3 DEF CreateListDone, CreateListFails
  <2> QED
    BY <2>1, <2>2, <2>3, <2>4 DEF TypeOK
<1>7. ASSUME NEW c \in Clients, TakeOutbound(c)
      PROVE  CreateFirst'
  BY <1>7 DEF TakeOutbound, TypeOK
<1>8. ASSUME NEW c \in Clients, SendAppend(c)
      PROVE  CreateFirst'
  <2>1. hasList[c] /\ engine[c] = "sending"
    BY <1>8 DEF SendAppend
  <2>2. hasList[Owner]
    BY <2>1
  <2>3. \A d \in Clients : ~Creating(d)
    BY <2>1
  <2> QED
    BY <1>8, <2>1, <2>2, <2>3 DEF SendAppend, TypeOK
<1>9. ASSUME NEW c \in Clients, Ack(c) \/ AppendRejected(c) \/ AppendLost(c)
      PROVE  CreateFirst'
  <2>1. calls' \subseteq calls
    BY <1>9 DEF Ack, AppendRejected, AppendLost
  <2>2. engine[c] = "waiting" /\ engine'[c] \in {"idle", "taking", "sending"}
    BY <1>9 DEF Ack, AppendRejected, AppendLost, GiveUp, TypeOK
  <2>3. \A d \in Clients : d # c => engine'[d] = engine[d]
    BY <1>9 DEF Ack, AppendRejected, AppendLost, GiveUp, TypeOK
  <2>4. UNCHANGED <<commands, created, hasList, editor>>
    BY <1>9 DEF Ack, AppendRejected, AppendLost, GiveUp
  <2> QED
    BY <2>1, <2>2, <2>3, <2>4
<1>10. ASSUME NEW c \in Clients, Restart(c)
       PROVE  CreateFirst'
  BY <1>10 DEF Restart, TypeOK
<1>11. ASSUME NEW k \in calls, HandlerNext(k)
       PROVE  CreateFirst'
  BY <1>11 DEF HandlerNext, RejectAuthor, AllocateSeq, InsertRow,
     InsertConflict, ReturnExisting
<1>12. ASSUME NEW u \in Updates, PutSnapshot(u)
       PROVE  CreateFirst'
  BY <1>12 DEF PutSnapshot
<1>13. CASE UNCHANGED vars
  BY <1>13
<1> QED
  BY <1>1, <1>2, <1>3, <1>4, <1>5, <1>6, <1>7, <1>8, <1>9, <1>10, <1>11,
     <1>12, <1>13 DEF Next, StoreNext, EngineNext

LEMMA AnswersInit == Init => AnswersKept
  BY DEF Init, AnswersKept

LEMMA AnswersNext ==
    ~Compaction /\ TypeOK /\ SeqsApart /\ CreateFirst /\ AnswersKept /\ [Next]_vars
        => AnswersKept'
<1> SUFFICES ASSUME ~Compaction, TypeOK, SeqsApart, CreateFirst, AnswersKept,
                    [Next]_vars
             PROVE  AnswersKept'
  OBVIOUS
<1> USE DEF AnswersKept
<1>1. ASSUME NEW c \in Clients, StoreNext(c) \/ EngineNext(c) \/ Restart(c)
      PROVE  AnswersKept'
  <2>1. created' = created \/ (created' /\ Creating(c))
    BY <1>1 DEF StoreNext, EngineNext, CreateList, Join, Enqueue, Nudge, Receive,
       CreateListDone, CreateListFails, TakeOutbound, SendAppend, Ack,
       AppendRejected, AppendLost, GiveUp, Restart, Creating, TypeOK
  <2>2. CASE created' = created
    BY <1>1, <2>2, ClientsLeaveLog
  <2>3. CASE created' /\ Creating(c)
    <3>1. calls = {}
      BY <2>3 DEF CreateFirst
    <3>2. UNCHANGED <<seqOf, firstSeq>> /\ \A k \in calls' : k.pc = "received"
      BY <1>1, <3>1, ClientsLeaveLog
    <3> QED
      BY <2>3, <3>2
  <2> QED
    BY <2>1, <2>2, <2>3
<1>2. ASSUME NEW k \in calls, HandlerNext(k)
      PROVE  AnswersKept'
  <2>1. CASE RejectAuthor(k)
    BY <2>1 DEF RejectAuthor, Step
  <2>2. CASE AllocateSeq(k)
    BY <2>2 DEF AllocateSeq, Step, TypeOK
  <2>3. CASE InsertRow(k)
    <3>1. calls' = (calls \ {k}) \cup {Call(k.upd, k.att, "replied", k.seq)}
      BY <2>3 DEF InsertRow, Step
    <3>2. k.upd \in Updates /\ k.seq # 0 /\ created
      BY <2>3 DEF InsertRow, TypeOK
    <3>3. /\ seqOf' = [seqOf EXCEPT ![k.upd] = k.seq]
          /\ firstSeq' = [firstSeq EXCEPT ![k.upd] = k.seq]
          /\ UNCHANGED created
      <4>1. firstSeq[k.upd] = 0
        BY <2>3, <3>2 DEF InsertRow
      <4> QED
        BY <2>3, <4>1 DEF InsertRow
    <3>4. \A j \in calls : j.upd = k.upd =>
              j.pc # "conflict" /\ ~(j.pc = "replied" /\ j.seq # 0)
      BY <2>3, <3>2 DEF InsertRow
    <3>5. \A u \in Updates : seqOf'[u] = firstSeq'[u] /\ (seqOf'[u] # 0 => created')
      BY <3>2, <3>3 DEF TypeOK
    <3>6. ASSUME NEW j \in calls'
          PROVE  /\ j.pc = "allocated" => created' /\ j.seq # 0
                 /\ j.pc = "conflict" => created' /\ seqOf'[j.upd] # 0
                 /\ j.pc = "replied" /\ j.seq = 0 => ~created'
                 /\ j.pc = "replied" /\ j.seq # 0 => j.seq = firstSeq'[j.upd]
      <4>1. CASE j = Call(k.upd, k.att, "replied", k.seq)
        BY <3>2, <3>3, <4>1 DEF TypeOK
      <4>2. CASE j \in calls /\ j.upd = k.upd
        BY <3>2, <3>3, <3>4, <4>2 DEF TypeOK
      <4>3. CASE j \in calls /\ j.upd # k.upd
        <5>1. seqOf'[j.upd] = seqOf[j.upd] /\ firstSeq'[j.upd] = firstSeq[j.upd]
          BY <3>3, <4>3 DEF TypeOK
        <5> QED
          BY <3>3, <4>3, <5>1
      <4> QED
        BY <3>1, <4>1, <4>2, <4>3
    <3> QED
      BY <3>5, <3>6
  <2>4. CASE InsertConflict(k)
    BY <2>4 DEF InsertConflict, Step
  <2>5. CASE ReturnExisting(k)
    BY <2>5 DEF ReturnExisting, Step, TypeOK
  <2> QED
    BY <1>2, <2>1, <2>2, <2>3, <2>4, <2>5 DEF HandlerNext
<1>3. ~ \E u \in Updates : PutSnapshot(u)
  BY DEF PutSnapshot
<1>4. CASE UNCHANGED vars
  BY <1>4
<1> QED
  BY <1>1, <1>2, <1>3, <1>4 DEF Next

\* insert_update is idempotent for every client, retry and interleaving as
\* long as nobody compacts: a stored update is only ever answered with the seq
\* it was first stored under.
THEOREM RetryIsIdempotent == ~Compaction /\ Spec => []RetryReturnsOriginal
<1> SUFFICES ASSUME ~Compaction
             PROVE  Spec => []RetryReturnsOriginal
  OBVIOUS
<1>1. TypeOK /\ SeqsApart /\ CreateFirst /\ AnswersKept /\ [Next]_vars => AnswersKept'
  BY AnswersNext
<1>2. TypeOK /\ AnswersKept => RetryReturnsOriginal
  BY DEF AnswersKept, RetryReturnsOriginal, TypeOK
<1> QED
  BY <1>1, <1>2, TypeCorrect, SeqsInit, SeqsNext, CreateInit, CreateNext,
     AnswersInit, PTL DEF Spec

-----------------------------------------------------------------------------
\* As long as the owner met no failure, the creation of a list that exists
\* locally is done or under way.
CreationQueued ==
    mishap[Owner] = "none" /\ hasList[Owner] /\ ~created => Creating(Owner)

LEMMA QueuedInit == Init => CreationQueued
  BY UploadAssumption DEF Init, CreationQueued

LEMMA QueuedNext == TypeOK /\ CreationQueued /\ [Next]_vars => CreationQueued'
<1> SUFFICES ASSUME TypeOK, CreationQueued, [Next]_vars
             PROVE  CreationQueued'
  OBVIOUS
<1> USE UploadAssumption DEF CreationQueued, Creating
<1>1. ASSUME NEW c \in Clients, CreateList(c)
      PROVE  CreationQueued'
  <2> DEFINE new == Append(commands[c], "CreateList")
  <2>1. commands' = [commands EXCEPT ![c] = new]
    BY <1>1 DEF CreateList
  <2>2. Len(commands[c]) + 1 \in DOMAIN new /\ new[Len(commands[c]) + 1] = "CreateList"
    BY DEF TypeOK
  <2>3. c = Owner
    BY <1>1 DEF CreateList
  <2> HIDE DEF new
  <2> QED
    BY <2>1, <2>2, <2>3 DEF TypeOK
<1>2. ASSUME NEW c \in Clients, Nudge(c)
      PROVE  CreationQueued'
  <2> DEFINE new == Append(commands[c], "Push")
  <2>1. commands' = [commands EXCEPT ![c] = new]
    BY <1>2 DEF Nudge
  <2>2. \A i \in DOMAIN commands[c] : i \in DOMAIN new /\ new[i] = commands[c][i]
    BY DEF TypeOK
  <2> HIDE DEF new
  <2> QED
    BY <1>2, <2>1, <2>2 DEF Nudge, TypeOK
<1>3. ASSUME NEW c \in Clients, Receive(c)
      PROVE  CreationQueued'
  <2> DEFINE new == Tail(commands[c])
  <2>1. commands' = [commands EXCEPT ![c] = new]
    BY <1>3 DEF Receive
  <2>2. commands[c] \in Seq({"CreateList", "Push"}) /\ commands[c] # <<>>
    BY <1>3 DEF Receive, TypeOK
  <2>3. \A i \in DOMAIN commands[c] :
          i = 1 \/ (i - 1 \in DOMAIN new /\ new[i - 1] = commands[c][i])
    BY <2>2
  <2>4. commands[c][1] = "CreateList" => engine'[c] = "creating"
    BY <1>3, <2>2 DEF Receive, TypeOK
  <2>5. engine[c] = "idle" /\ \A d \in Clients : d # c => engine'[d] = engine[d]
    BY <1>3 DEF Receive, TypeOK
  <2>6. UNCHANGED <<mishap, hasList, created>>
    BY <1>3 DEF Receive
  <2> HIDE DEF new
  <2>7. CASE c = Owner
    <3>1. commands'[Owner] = new
      BY <2>1, <2>7 DEF TypeOK
    <3>2. ASSUME NEW i \in DOMAIN commands[Owner], commands[Owner][i] = "CreateList"
          PROVE  Creating(Owner)'
      BY <2>3, <2>4, <2>7, <3>1, <3>2
    <3> QED
      BY <2>5, <2>6, <2>7, <3>2
  <2>8. CASE c # Owner
    BY <2>1, <2>5, <2>6, <2>8 DEF TypeOK
  <2> QED
    BY <2>7, <2>8
<1>4. ASSUME NEW c \in Clients, CreateListFails(c)
      PROVE  CreationQueued'
  <2>1. mishap' = Worse(c) /\ engine' = [engine EXCEPT ![c] = "idle"]
        /\ created' \in {created, TRUE} /\ UNCHANGED <<hasList, commands>>
    BY <1>4 DEF CreateListFails
  <2>2. CASE c = Owner
    <3>1. mishap'[Owner] # "none"
      BY <2>1, <2>2 DEF Worse, TypeOK
    <3> QED
      BY <3>1
  <2>3. CASE c # Owner
    <3>1. mishap'[Owner] = mishap[Owner] /\ engine'[Owner] = engine[Owner]
      BY <2>1, <2>3 DEF Worse, TypeOK
    <3> QED
      BY <2>1, <3>1 DEF TypeOK
  <2> QED
    BY <2>2, <2>3
<1>5. ASSUME NEW c \in Clients, AppendRejected(c) \/ AppendLost(c)
      PROVE  CreationQueued'
  BY <1>5 DEF AppendRejected, AppendLost, GiveUp, Worse, TypeOK
<1>6. ASSUME NEW c \in Clients, Restart(c)
      PROVE  CreationQueued'
  BY <1>6 DEF Restart, TypeOK
<1>7. ASSUME NEW c \in Clients, Join(c) \/ Enqueue(c) \/ CreateListDone(c)
      PROVE  CreationQueued'
  BY <1>7 DEF Join, Enqueue, CreateListDone, TypeOK
<1>8. ASSUME NEW c \in Clients, TakeOutbound(c) \/ SendAppend(c) \/ Ack(c)
      PROVE  CreationQueued'
  BY <1>8 DEF TakeOutbound, SendAppend, Ack, TypeOK
<1>9. ASSUME NEW k \in calls, HandlerNext(k)
      PROVE  CreationQueued'
  BY <1>9 DEF HandlerNext, RejectAuthor, AllocateSeq, InsertRow, InsertConflict,
     ReturnExisting, engineVars, storeVars, ghostVars
<1>10. ASSUME NEW u \in Updates, PutSnapshot(u)
      PROVE  CreationQueued'
  BY <1>10 DEF PutSnapshot, engineVars, storeVars, ghostVars
<1>11. CASE UNCHANGED vars
  BY <1>11 DEF vars, engineVars, storeVars, serverVars, ghostVars
<1> QED
  BY <1>1, <1>2, <1>3, <1>4, <1>5, <1>6, <1>7, <1>8, <1>9, <1>10, <1>11
  DEF Next, StoreNext, EngineNext

\* No update overtakes the creation of its list: without compaction, and unless
\* the owner's own calls failed, no append of any member is ever refused.
THEOREM AppendsFindTheirList == ~Compaction /\ Spec => []UploadsFindTheList
<1> SUFFICES ASSUME ~Compaction
             PROVE  Spec => []UploadsFindTheList
  OBVIOUS
<1>1. TypeOK /\ SeqsApart /\ CreateFirst /\ AnswersKept /\ [Next]_vars => AnswersKept'
  BY AnswersNext
<1>2. CreateFirst /\ AnswersKept /\ CreationQueued => UploadsFindTheList
  BY UploadAssumption DEF CreateFirst, AnswersKept, CreationQueued, UploadsFindTheList
<1> QED
  BY <1>1, <1>2, TypeCorrect, SeqsInit, SeqsNext, CreateInit, CreateNext,
     AnswersInit, QueuedInit, QueuedNext, PTL DEF Spec

-----------------------------------------------------------------------------
\* Why one client's edits enter the log in order: an edit is only sent when
\* every earlier one is acknowledged or will never be sent again.
Touched(u) == seqOf[u] # 0 \/ \E k \in calls : k.upd = u

Settled(c, n) ==
    \/ row[<<c, n>>] = "acked"
    \/ row[<<c, n>>] = "inflight" /\ n \notin batch[c] /\ ~Touched(<<c, n>>)

RowsInOrder(c) ==
    /\ \A n \in Edits : row[<<c, n>>] = "none" <=> n > edits[c]
    /\ \A n \in batch[c] : row[<<c, n>>] = "inflight"
    /\ \A n \in batch[c], p \in Pending(c) : n < p
    /\ \A n \in Edits : row[<<c, n>>] = "inflight" /\ n \notin batch[c]
                          => ~Touched(<<c, n>>)
    /\ \A m, n \in Edits : m < n /\ Touched(<<c, n>>) => Settled(c, m)

NumbersInOrder(c) ==
    \A k \in calls : \A m \in Edits :
        k.pc = "allocated" /\ k.upd[1] = c /\ m < k.upd[2]
            => seqOf[<<c, m>>] < k.seq

InOrder(c) ==
    \A m, n \in Edits :
        m < n /\ seqOf[<<c, m>>] # 0 /\ seqOf[<<c, n>>] # 0
            => seqOf[<<c, m>>] < seqOf[<<c, n>>]

OrderInv ==
    \A c \in Clients : mishap[c] # "exited" =>
        RowsInOrder(c) /\ NumbersInOrder(c) /\ InOrder(c)

LEMMA RowsFrame ==
    ASSUME NEW c \in Clients, batch[c] \in SUBSET Edits, RowsInOrder(c),
           edits'[c] = edits[c], batch'[c] = batch[c],
           \A n \in Edits : row'[<<c, n>>] = row[<<c, n>>],
           \A n \in Edits : Touched(<<c, n>>)' => Touched(<<c, n>>)
    PROVE  RowsInOrder(c)'
<1>1. Pending(c)' = Pending(c)
  BY DEF Pending
<1>2. \A n \in Edits : Settled(c, n) => Settled(c, n)'
  BY DEF Settled
<1> QED
  BY <1>1, <1>2 DEF RowsInOrder

\* What take_outbound leaves behind comes after everything it claims.
LEMMA ClaimedComeFirst ==
    ASSUME NEW c \in Clients, NEW n \in Claimed(c), NEW p \in Pending(c) \ Claimed(c)
    PROVE  n < p
<1> DEFINE Before(x) == {m \in Pending(c) : m < x}
<1>1. Pending(c) \in SUBSET Edits /\ Edits \subseteq Nat
  BY UploadAssumption DEF Pending, Edits
<1>2. n \in Nat /\ p \in Nat /\ n \in Pending(c) /\ p \in Pending(c)
  BY <1>1 DEF Claimed
<1>3. SUFFICES ASSUME p <= n
               PROVE  FALSE
  BY <1>2
<1>4. Before(p) \in SUBSET Before(n)
  <2>1. \A m \in Pending(c) : m \in Nat /\ (m < p => m < n)
    BY <1>1, <1>2, <1>3
  <2> QED
    BY <2>1
<1>5. IsFiniteSet(Edits)
  BY FS_Interval, UploadAssumption DEF Edits
<1>6. IsFiniteSet(Before(n)) /\ IsFiniteSet(Before(p))
  BY <1>1, <1>5, FS_Subset
<1>7. /\ Cardinality(Before(p)) <= Cardinality(Before(n))
      /\ Cardinality(Before(p)) \in Nat /\ Cardinality(Before(n)) \in Nat
  BY <1>4, <1>6, FS_Subset, FS_CardinalityType
<1>8. Cardinality(Before(n)) < Batch /\ ~(Cardinality(Before(p)) < Batch)
  BY <1>2 DEF Claimed
<1> QED
  BY <1>7, <1>8, UploadAssumption

LEMMA RowsNext ==
    ASSUME ~Compaction, TypeInv, [Next]_vars,
           NEW c \in Clients, RowsInOrder(c), mishap'[c] # "exited"
    PROVE  RowsInOrder(c)'
<1> USE DEF TypeInv, TypeOK
<1>0. /\ batch[c] \in SUBSET Edits /\ edits[c] \in Nat
      /\ \A n \in Edits : n \in Nat
      /\ Pending(c) \in SUBSET Edits
  BY UploadAssumption DEF Edits, Pending
<1>1. ASSUME NEW d \in Clients, CreateList(d) \/ Join(d) \/ Nudge(d) \/ Receive(d)
                                \/ CreateListDone(d) \/ CreateListFails(d)
      PROVE  RowsInOrder(c)'
  <2>1. UNCHANGED <<edits, batch, row, calls, seqOf>>
    BY <1>1 DEF CreateList, Join, Nudge, Receive, CreateListDone, CreateListFails
  <2> QED
    BY <1>0, <2>1, RowsFrame DEF Touched
<1>2. ASSUME NEW d \in Clients, d # c, StoreNext(d) \/ EngineNext(d) \/ Restart(d)
      PROVE  RowsInOrder(c)'
  <2>1. edits'[c] = edits[c] /\ batch'[c] = batch[c]
    BY <1>2 DEF StoreNext, EngineNext, CreateList, Join, Enqueue, Nudge, Receive,
       CreateListDone, CreateListFails, TakeOutbound, SendAppend, Ack,
       AppendRejected, AppendLost, GiveUp, Restart
  <2>2. \A n \in Edits : row'[<<c, n>>] = row[<<c, n>>]
    BY <1>2 DEF StoreNext, EngineNext, CreateList, Join, Enqueue, Nudge, Receive,
       CreateListDone, CreateListFails, TakeOutbound, SendAppend, Ack,
       AppendRejected, AppendLost, GiveUp, Restart, Current
  <2>3. \A n \in Edits : Touched(<<c, n>>)' => Touched(<<c, n>>)
    <3>1. CASE SendAppend(d)
      BY <1>2, <3>1 DEF SendAppend, Current, Touched
    <3>2. CASE ~SendAppend(d)
      <4>1. calls' \subseteq calls /\ seqOf' = seqOf
        BY <1>2, <3>2 DEF StoreNext, EngineNext, CreateList, Join, Enqueue, Nudge,
           Receive, CreateListDone, CreateListFails, TakeOutbound, Ack,
           AppendRejected, AppendLost, GiveUp, Restart
      <4> QED
        BY <4>1 DEF Touched
    <3> QED
      BY <3>1, <3>2
  <2> QED
    BY <1>0, <2>1, <2>2, <2>3, RowsFrame
<1>3. CASE Enqueue(c)
  <2> DEFINE new == edits[c] + 1
  <2>1. /\ new \in Edits /\ row[<<c, new>>] = "none"
        /\ edits'[c] = new
        /\ row' = [row EXCEPT ![<<c, new>>] = "pending"]
        /\ UNCHANGED <<batch, calls, seqOf>>
    <3>1. new \in Edits /\ new > edits[c]
      BY <1>0, <1>3, UploadAssumption DEF Enqueue, Edits
    <3>2. row[<<c, new>>] = "none"
      BY <3>1 DEF RowsInOrder
    <3> QED
      BY <1>3, <3>1, <3>2 DEF Enqueue
  <2>2. Pending(c)' = Pending(c) \cup {new}
    BY <2>1 DEF Pending
  <2>3. \A n \in Edits : n # new => row'[<<c, n>>] = row[<<c, n>>]
    BY <2>1
  <2>4. ASSUME NEW n \in batch[c]
        PROVE  n < new
    <3>1. n \in Edits /\ n \in Nat /\ row[<<c, n>>] # "none"
      BY <1>0 DEF RowsInOrder
    <3>2. ~(n > edits[c])
      BY <3>1 DEF RowsInOrder
    <3> QED
      BY <1>0, <3>1, <3>2
  <2>5. \A n \in Edits : Settled(c, n) => Settled(c, n)'
    BY <2>1, <2>3 DEF Settled, Touched
  <2>6. \A n \in Edits : Touched(<<c, n>>)' <=> Touched(<<c, n>>)
    BY <2>1 DEF Touched
  <2>7. \A n \in Edits : row'[<<c, n>>] = "none" <=> n > edits'[c]
    BY <1>0, <2>1, <2>3 DEF RowsInOrder
  <2> HIDE DEF new
  <2> QED
    BY <1>0, <2>1, <2>2, <2>3, <2>4, <2>5, <2>6, <2>7 DEF RowsInOrder
<1>4. CASE TakeOutbound(c)
  <2>1. Claimed(c) \in SUBSET Pending(c) /\ Pending(c) \in SUBSET Edits
    BY DEF Claimed, Pending
  <2>2. /\ batch'[c] = Claimed(c)
        /\ \A n \in Edits : row'[<<c, n>>] =
               IF n \in Claimed(c) THEN "inflight" ELSE row[<<c, n>>]
        /\ UNCHANGED <<edits, calls, seqOf>>
    BY <1>4 DEF TakeOutbound
  <2>3. Pending(c)' = Pending(c) \ Claimed(c)
    BY <2>1, <2>2 DEF Pending
  <2>4. batch[c] = {}
    BY <1>4 DEF TakeOutbound, SendingHasRow
  <2>5. \A n \in Edits : Settled(c, n) => Settled(c, n)'
    BY <2>1, <2>2 DEF Settled, Touched, Pending
  <2>6. \A n \in Edits : Touched(<<c, n>>)' <=> Touched(<<c, n>>)
    BY <2>2 DEF Touched
  <2>7. \A n \in batch'[c], p \in Pending(c)' : n < p
    BY <2>2, <2>3, ClaimedComeFirst
  <2>8. \A n \in Edits : row'[<<c, n>>] = "none" <=> n > edits'[c]
    BY <2>1, <2>2 DEF RowsInOrder, Pending
  <2>9. \A n \in Edits : row'[<<c, n>>] = "inflight" /\ n \notin batch'[c]
                          => ~Touched(<<c, n>>)'
    BY <2>2, <2>4, <2>6 DEF RowsInOrder
  <2> QED
    BY <2>1, <2>2, <2>5, <2>6, <2>7, <2>8, <2>9 DEF RowsInOrder
<1>5. CASE SendAppend(c)
  <2> DEFINE now == Min(batch[c])
  <2>1. batch[c] # {}
    BY <1>5 DEF SendingHasRow, SendAppend
  <2>2. now \in batch[c] /\ \A n \in batch[c] : now <= n
    BY <1>0, <2>1, MinOfEdits
  <2>3. /\ UNCHANGED <<edits, row, batch, seqOf>>
        /\ \A k \in calls' : k \in calls \/ k.upd = <<c, now>>
    BY <1>5 DEF SendAppend, Current
  <2>4. \A n \in Edits : n # now /\ Touched(<<c, n>>)' => Touched(<<c, n>>)
    BY <2>3 DEF Touched
  <2>5. \A n \in Edits : Settled(c, n) => Settled(c, n)'
    BY <2>2, <2>3, <2>4 DEF Settled
  <2>6. ASSUME NEW m \in Edits, m < now
        PROVE  Settled(c, m)
    <3>1. m \notin batch[c] /\ m \notin Pending(c)
      BY <1>0, <2>2, <2>6 DEF RowsInOrder
    <3>2. row[<<c, m>>] # "none"
      <4>1. row[<<c, now>>] = "inflight" /\ now \in Edits
        BY <1>0, <2>2 DEF RowsInOrder
      <4>2. now <= edits[c]
        BY <1>0, <4>1 DEF RowsInOrder
      <4> QED
        BY <1>0, <2>6, <4>1, <4>2 DEF RowsInOrder
    <3>3. row[<<c, m>>] \in RowStates
      BY <2>6
    <3> QED
      BY <3>1, <3>2, <3>3 DEF Settled, Pending, RowStates, RowsInOrder
  <2>7. Pending(c)' = Pending(c)
    BY <2>3 DEF Pending
  <2> HIDE DEF now
  <2> QED
    BY <1>0, <2>2, <2>3, <2>4, <2>5, <2>6, <2>7 DEF RowsInOrder
<1>6. CASE Ack(c)
  <2> DEFINE now == Min(batch[c])
  <2>1. now \in batch[c] /\ now \in Edits
    BY <1>0, <1>6, MinOfEdits DEF SendingHasRow, Ack
  <2>2. /\ row' = [row EXCEPT ![<<c, now>>] = "acked"]
        /\ batch'[c] = batch[c] \ {now}
        /\ calls' \subseteq calls
        /\ UNCHANGED <<edits, seqOf>>
    BY <1>6 DEF Ack, Current, Rest
  <2>3. /\ row'[<<c, now>>] = "acked"
        /\ \A n \in Edits : n # now => row'[<<c, n>>] = row[<<c, n>>]
    BY <2>1, <2>2
  <2>4. Pending(c)' \subseteq Pending(c)
    BY <2>3 DEF Pending
  <2>5. \A n \in Edits : Touched(<<c, n>>)' => Touched(<<c, n>>)
    BY <2>2 DEF Touched
  <2>6. \A n \in Edits : Settled(c, n) => Settled(c, n)'
    BY <2>2, <2>3, <2>5 DEF Settled
  <2>7. row[<<c, now>>] = "inflight"
    BY <2>1 DEF RowsInOrder
  <2> HIDE DEF now
  <2> QED
    BY <1>0, <2>1, <2>2, <2>3, <2>4, <2>5, <2>6, <2>7 DEF RowsInOrder
<1>7. CASE AppendRejected(c) \/ AppendLost(c)
  <2> DEFINE now == Min(batch[c])
  <2>1. now \in batch[c] /\ now \in Edits /\ \A n \in batch[c] : now <= n
    BY <1>0, <1>7, MinOfEdits DEF SendingHasRow, AppendRejected, AppendLost
  <2>2. /\ row' = [row EXCEPT ![<<c, now>>] = "pending"]
        /\ batch'[c] = {}
        /\ calls' \subseteq calls
        /\ UNCHANGED <<edits, seqOf>>
    BY <1>7 DEF AppendRejected, AppendLost, GiveUp, Current
  <2>3. /\ row'[<<c, now>>] = "pending"
        /\ \A n \in Edits : n # now => row'[<<c, n>>] = row[<<c, n>>]
    BY <2>1, <2>2
  <2>4. \A n \in Edits : Touched(<<c, n>>)' => Touched(<<c, n>>)
    BY <2>2 DEF Touched
  <2>5. ~Settled(c, now)
    BY <2>1 DEF Settled, RowsInOrder
  <2>6. \A n \in Edits : Settled(c, n) => Settled(c, n)'
    BY <2>2, <2>3, <2>4, <2>5 DEF Settled
  <2>7. ASSUME NEW n \in batch[c], n # now
        PROVE  ~Touched(<<c, n>>)
    BY <1>0, <2>1, <2>5, <2>7 DEF RowsInOrder
  <2>8. row[<<c, now>>] = "inflight"
    BY <2>1 DEF RowsInOrder
  <2> HIDE DEF now
  <2> QED
    BY <1>0, <2>1, <2>2, <2>3, <2>4, <2>6, <2>7, <2>8 DEF RowsInOrder
<1>8. CASE Restart(c)
  BY <1>8 DEF Restart
<1>9. ASSUME NEW k \in calls, HandlerNext(k)
      PROVE  RowsInOrder(c)'
  <2>1. UNCHANGED <<edits, batch, row>> /\ \A j \in calls' : j \in calls \/ j.upd = k.upd
    BY <1>9 DEF HandlerNext, RejectAuthor, AllocateSeq, InsertRow, InsertConflict,
       ReturnExisting, Step
  <2>2. \A u \in Updates : u # k.upd => seqOf'[u] = seqOf[u]
    BY <1>9 DEF HandlerNext, RejectAuthor, AllocateSeq, InsertRow, InsertConflict,
       ReturnExisting
  <2>3. \A u \in Updates : Touched(u)' => Touched(u)
    BY <2>1, <2>2 DEF Touched
  <2> QED
    BY <1>0, <2>1, <2>3, RowsFrame
<1>10. ~ \E u \in Updates : PutSnapshot(u)
  BY DEF PutSnapshot
<1>11. CASE UNCHANGED vars
  BY <1>0, <1>11, RowsFrame DEF Touched
<1> QED
  BY <1>1, <1>2, <1>3, <1>4, <1>5, <1>6, <1>7, <1>8, <1>9, <1>10, <1>11
     DEF Next, StoreNext, EngineNext

\* An update that is still without a row when its handler inserts it comes
\* before nothing that has been sent.
LEMMA NothingLaterSent ==
    ASSUME TypeOK, AnswersKept, AckedIsStored, NEW c \in Clients, RowsInOrder(c),
           NEW k \in calls, k.upd[1] = c, seqOf[k.upd] = 0,
           NEW n \in Edits, k.upd[2] < n
    PROVE  ~Touched(<<c, n>>)
<1>1. k.upd \in Updates /\ k.upd = <<c, k.upd[2]>> /\ k.upd[2] \in Edits
  BY DEF TypeOK
<1>2. row[k.upd] # "acked"
  BY <1>1 DEF AnswersKept, AckedIsStored
<1>3. Touched(k.upd)
  BY DEF Touched
<1>4. ~Settled(c, k.upd[2])
  BY <1>1, <1>2, <1>3 DEF Settled
<1> QED
  BY <1>1, <1>4 DEF RowsInOrder

LEMMA NumbersNext ==
    ASSUME ~Compaction, TypeOK, SeqsApart, AnswersKept, AckedIsStored, [Next]_vars,
           NEW c \in Clients, RowsInOrder(c), NumbersInOrder(c), InOrder(c)
    PROVE  NumbersInOrder(c)' /\ InOrder(c)'
<1> USE DEF NumbersInOrder, InOrder
<1>0. \A n \in Edits : n \in Nat /\ <<c, n>> \in Updates
  BY UploadAssumption DEF Edits
<1>1. ASSUME NEW d \in Clients, StoreNext(d) \/ EngineNext(d) \/ Restart(d)
      PROVE  NumbersInOrder(c)' /\ InOrder(c)'
  <2>1. UNCHANGED seqOf /\ \A k \in calls' : k.pc = "allocated" => k \in calls
    BY <1>1, ClientsLeaveLog
  <2> QED
    BY <2>1
<1>2. ASSUME NEW k \in calls, RejectAuthor(k) \/ InsertConflict(k) \/ ReturnExisting(k)
      PROVE  NumbersInOrder(c)' /\ InOrder(c)'
  <2>1. UNCHANGED seqOf /\ \A j \in calls' : j.pc = "allocated" => j \in calls
    BY <1>2 DEF RejectAuthor, InsertConflict, ReturnExisting, Step
  <2> QED
    BY <2>1
<1>3. ASSUME NEW k \in calls, AllocateSeq(k)
      PROVE  NumbersInOrder(c)' /\ InOrder(c)'
  <2>1. UNCHANGED seqOf /\ \A j \in calls' : j \in calls \/ j.seq = top + 1
    BY <1>3 DEF AllocateSeq, Step
  <2>2. \A u \in Updates : seqOf[u] < top + 1
    BY DEF SeqsApart, TypeOK
  <2> QED
    BY <1>0, <2>1, <2>2
<1>4. ASSUME NEW k \in calls, InsertRow(k)
      PROVE  NumbersInOrder(c)' /\ InOrder(c)'
  <2>1. /\ k.pc = "allocated" /\ seqOf[k.upd] = 0
        /\ seqOf' = [seqOf EXCEPT ![k.upd] = k.seq]
        /\ \A j \in calls' : j.pc = "allocated" => j \in calls
    BY <1>4 DEF InsertRow, Step
  <2>2. CASE k.upd[1] # c
    <3>1. \A n \in Edits : seqOf'[<<c, n>>] = seqOf[<<c, n>>]
      BY <1>0, <2>1, <2>2 DEF TypeOK
    <3> QED
      BY <2>1, <3>1
  <2>3. CASE k.upd[1] = c
    <3> DEFINE now == k.upd[2]
    <3>1. now \in Edits /\ now \in Nat /\ k.upd = <<c, now>> /\ k.seq \in Nat
      BY <1>0, <2>3 DEF TypeOK
    <3>2. /\ seqOf'[<<c, now>>] = k.seq
          /\ \A n \in Edits : n # now => seqOf'[<<c, n>>] = seqOf[<<c, n>>]
      BY <1>0, <2>1, <3>1 DEF TypeOK
    <3>3. \A n \in Edits : now < n => ~Touched(<<c, n>>)
      BY <2>1, <2>3, NothingLaterSent
    <3>4. \A n \in Edits : now < n => seqOf[<<c, n>>] = 0
      BY <3>3 DEF Touched
    <3>5. ASSUME NEW j \in calls, j.upd[1] = c
          PROVE  j.upd[2] <= now /\ j.upd[2] \in Edits
      <4>0. j.upd \in Clients \X Edits
        BY DEF TypeOK
      <4>1. j.upd = <<c, j.upd[2]>> /\ j.upd[2] \in Edits
        BY <3>5, <4>0
      <4>2. Touched(<<c, j.upd[2]>>)
        BY <4>1 DEF Touched
      <4>3. ~ (now < j.upd[2])
        BY <3>3, <4>1, <4>2
      <4> QED
        BY <3>1, <4>1, <4>3, UploadAssumption DEF Edits
    <3>6. \A m \in Edits : m < now => seqOf[<<c, m>>] < k.seq
      BY <2>1, <2>3
    <3> HIDE DEF now
    <3>7. NumbersInOrder(c)'
      <4> SUFFICES ASSUME NEW j \in calls', NEW m \in Edits,
                          j.pc = "allocated", j.upd[1] = c, m < j.upd[2]
                   PROVE  seqOf'[<<c, m>>] < j.seq
        OBVIOUS
      <4>1. j \in calls /\ j.upd[2] <= now /\ j.upd[2] \in Nat
        BY <1>0, <2>1, <3>5
      <4>2. m # now
        BY <1>0, <3>1, <4>1
      <4> QED
        BY <3>2, <4>1, <4>2
    <3>8. InOrder(c)'
      BY <1>0, <3>1, <3>2, <3>4, <3>6
    <3> QED
      BY <3>7, <3>8
  <2> QED
    BY <2>2, <2>3
<1>5. ~ \E u \in Updates : PutSnapshot(u)
  BY DEF PutSnapshot
<1>6. CASE UNCHANGED vars
  BY <1>6
<1> QED
  BY <1>1, <1>2, <1>3, <1>4, <1>5, <1>6 DEF Next, HandlerNext

LEMMA ExitIsFinal ==
    ASSUME TypeOK, [Next]_vars, NEW c \in Clients, mishap[c] = "exited"
    PROVE  mishap'[c] = "exited"
<1>1. ASSUME NEW d \in Clients, StoreNext(d) \/ Restart(d)
      PROVE  mishap'[c] = "exited"
  BY <1>1 DEF StoreNext, CreateList, Join, Enqueue, Nudge, Restart, TypeOK
<1>2. ASSUME NEW d \in Clients, EngineNext(d)
      PROVE  mishap'[c] = "exited"
  <2>1. mishap' = mishap \/ mishap' = Worse(d)
    BY <1>2 DEF EngineNext, Receive, CreateListDone, CreateListFails, TakeOutbound,
       SendAppend, Ack, AppendRejected, AppendLost, GiveUp
  <2> QED
    BY <2>1 DEF Worse, TypeOK
<1>3. ASSUME NEW k \in calls, HandlerNext(k)
      PROVE  mishap'[c] = "exited"
  BY <1>3 DEF HandlerNext, RejectAuthor, AllocateSeq, InsertRow, InsertConflict,
     ReturnExisting
<1>4. ASSUME NEW u \in Updates, PutSnapshot(u)
      PROVE  mishap'[c] = "exited"
  BY <1>4 DEF PutSnapshot
<1>5. CASE UNCHANGED vars
  BY <1>5
<1> QED
  BY <1>1, <1>2, <1>3, <1>4, <1>5 DEF Next

LEMMA OrderInit == Init => OrderInv
<1> SUFFICES ASSUME Init, NEW c \in Clients
             PROVE  RowsInOrder(c) /\ NumbersInOrder(c) /\ InOrder(c)
  BY DEF OrderInv
<1>1. \A n \in Edits : <<c, n>> \in Updates /\ n > 0
  BY UploadAssumption DEF Edits
<1>2. \A n \in Edits : ~Touched(<<c, n>>) /\ row[<<c, n>>] = "none" /\ n > edits[c]
  BY <1>1 DEF Init, Touched
<1>3. RowsInOrder(c)
  BY <1>2 DEF Init, RowsInOrder
<1>4. NumbersInOrder(c) /\ InOrder(c)
  BY <1>2 DEF Init, NumbersInOrder, InOrder, Touched
<1> QED
  BY <1>3, <1>4

LEMMA OrderNext ==
    ~Compaction /\ TypeInv /\ SeqsApart /\ AnswersKept /\ AckInv /\ OrderInv
        /\ [Next]_vars => OrderInv'
<1> SUFFICES ASSUME ~Compaction, TypeInv, SeqsApart, AnswersKept, AckInv, OrderInv,
                    [Next]_vars, NEW c \in Clients, mishap'[c] # "exited"
             PROVE  RowsInOrder(c)' /\ NumbersInOrder(c)' /\ InOrder(c)'
  BY DEF OrderInv
<1>1. mishap[c] # "exited"
  BY ExitIsFinal DEF TypeInv
<1>2. RowsInOrder(c) /\ NumbersInOrder(c) /\ InOrder(c)
  BY <1>1 DEF OrderInv
<1> QED
  BY <1>2, RowsNext, NumbersNext DEF TypeInv, AckInv

\* One client's edits enter the log in the order they were made, for as long as
\* its process runs and nobody compacts: for any number of edits, any batch
\* size, any retries and any handler that outlives its call.
THEOREM UploadsInOrder == ~Compaction /\ Spec => []UploadOrder
<1> SUFFICES ASSUME ~Compaction
             PROVE  Spec => []UploadOrder
  OBVIOUS
<1>1. OrderInv => UploadOrder
  BY DEF OrderInv, InOrder, UploadOrder
<1>2. TypeOK /\ SeqsApart /\ CreateFirst /\ AnswersKept /\ [Next]_vars => AnswersKept'
  BY AnswersNext
<1>3. TypeInv /\ SeqsApart /\ AnswersKept /\ AckInv /\ OrderInv /\ [Next]_vars => OrderInv'
  BY OrderNext
<1>4. TypeInv => TypeOK
  BY DEF TypeInv
<1> QED
  BY <1>1, <1>2, <1>3, <1>4, TypeInit, TypeNext, SeqsInit, SeqsNext, CreateInit,
     CreateNext, AnswersInit, AckInit, AckNext, OrderInit, PTL DEF Spec
=============================================================================
