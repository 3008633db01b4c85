----------------------------- MODULE DownloadProofs -----------------------------
(***************************************************************************)
(* Theorems about Download, for any devices, updates, members, page size,  *)
(* ring and inbox, with and without sockets.                               *)
(***************************************************************************)
EXTENDS Download, FiniteSetTheorems, SequenceTheorems, TLAPS

-----------------------------------------------------------------------------
(* Facts about the channels between the tasks                              *)

\* Appending adds an element, and keeps the head of a channel that has one.
LEMMA Appended ==
  ASSUME NEW S, NEW s \in Seq(S), NEW e \in S
  PROVE  /\ Append(s, e) \in Seq(S)
         /\ Append(s, e) # <<>>
         /\ Len(Append(s, e)) = Len(s) + 1
         /\ Range(Append(s, e)) = Range(s) \cup {e}
         /\ s # <<>> => Head(Append(s, e)) = Head(s)
<1>1. Append(s, e) = s \o <<e>> /\ <<e>> \in Seq(S) /\ Range(<<e>>) = {e}
  <2>1. <<e>> \in Seq(S) /\ DOMAIN <<e>> = {1} /\ <<e>>[1] = e
    OBVIOUS
  <2> QED
    BY <2>1, AppendIsConcat DEF Range
<1>2. Range(s \o <<e>>) = Range(s) \cup Range(<<e>>)
  BY <1>1, RangeConcatenation, Zenon
<1> QED
  BY <1>1, <1>2, AppendProperties, HeadTailAppend

\* Taking the head leaves the rest.
LEMMA Dequeued ==
  ASSUME NEW S, NEW s \in Seq(S), s # <<>>
  PROVE  /\ Tail(s) \in Seq(S)
         /\ Head(s) \in S
         /\ Head(s) \in Range(s)
         /\ Len(Tail(s)) = Len(s) - 1
         /\ Range(s) = Range(Tail(s)) \cup {Head(s)}
<1>1. s = <<Head(s)>> \o Tail(s) /\ <<Head(s)>> \in Seq(S) /\ Tail(s) \in Seq(S)
  BY HeadTailProperties, EmptySeq
<1>2. Range(<<Head(s)>>) = {Head(s)}
  <2>1. DOMAIN <<Head(s)>> = {1} /\ <<Head(s)>>[1] = Head(s)
    OBVIOUS
  <2> QED
    BY <2>1 DEF Range
<1>3. Range(<<Head(s)>> \o Tail(s)) = Range(<<Head(s)>>) \cup Range(Tail(s))
  BY <1>1, RangeConcatenation, Zenon
<1>4. Range(s) = {Head(s)} \cup Range(Tail(s))
  BY <1>1, <1>2, <1>3, Zenon
<1> QED
  BY <1>4, HeadTailProperties

\* One channel's content behind another's.
LEMMA Extended ==
  ASSUME NEW S, NEW s \in Seq(S), NEW t \in Seq(S)
  PROVE  /\ s \o t \in Seq(S)
         /\ Range(s \o t) = Range(s) \cup Range(t)
         /\ s # <<>> => s \o t # <<>> /\ Head(s \o t) = Head(s)
  BY ConcatProperties, RangeConcatenation, EmptySeq

-----------------------------------------------------------------------------
(* The parts of the invariants                                             *)

\* The log: a number carries one row, and what was published is stored.
LogSound ==
    /\ \A u, v \in Updates : place[u] = place[v] /\ place[u] # 0 => u = v
    /\ published \subseteq Log!Stored

\* Frames and pages carry rows.
FramesAt(d) == Range(ring[d]) \cup Range(inbox[d]) \cup live[d] \subseteq Log!Stored

FramesStored == \A d \in Devices : FramesAt(d)

\* An update between its two writes is still the head of the channel.
HeadAt(d) ==
    applying[d] =>
        /\ inbox[d] # <<>>
        /\ Head(inbox[d]) \in merged[d]
        /\ ~Own(d, Head(inbox[d]))
        /\ Readable(d, Head(inbox[d]))

HeadInHand == \A d \in Devices : HeadAt(d)

\* No two commands of a channel are Subscribe.
Lone(s) == \A i, j \in DOMAIN s : s[i] = "Subscribe" /\ s[j] = "Subscribe" => i = j

\* A subscription is queued, running or neither.
ChainAt(d) ==
    /\ Lone(commands[d])
    /\ socket[d] # "off" => "Subscribe" \notin Range(commands[d])

OneChain == \A d \in Devices : ChainAt(d)

DownloadInv ==
    /\ TypeOK /\ LogSound /\ FramesStored /\ HeadInHand /\ OneChain
    /\ MergedBehindCursor /\ LiveNotDropped

-----------------------------------------------------------------------------
(* Channels                                                                *)

\* The two things that are appended to the engine's channel, and what is left
\* when a Subscribe is taken from it.
LEMMA LoneAppended ==
  ASSUME NEW S, NEW s \in Seq(S), NEW e \in S, Lone(s),
         e = "Subscribe" => "Subscribe" \notin Range(s)
  PROVE  Lone(Append(s, e))
<1>1. Len(Append(s, e)) = Len(s) + 1 /\ Len(s) \in Nat /\ Append(s, e) \in Seq(S)
  OBVIOUS
<1>2. /\ \A i \in 1..Len(s) : Append(s, e)[i] = s[i]
      /\ Append(s, e)[Len(s) + 1] = e
  OBVIOUS
<1>3. DOMAIN s = 1..Len(s) /\ DOMAIN Append(s, e) = 1..(Len(s) + 1)
  BY <1>1
<1>4. \A i \in 1..Len(s) : s[i] \in Range(s)
  BY <1>3 DEF Range
<1>5. SUFFICES ASSUME NEW i \in 1..(Len(s) + 1), NEW j \in 1..(Len(s) + 1),
                      Append(s, e)[i] = "Subscribe", Append(s, e)[j] = "Subscribe"
               PROVE  i = j
  BY <1>3 DEF Lone
<1>6. CASE i \in 1..Len(s) /\ j \in 1..Len(s)
  BY <1>2, <1>3, <1>5, <1>6 DEF Lone
<1>7. CASE i \in 1..Len(s) /\ j = Len(s) + 1
  BY <1>2, <1>4, <1>5, <1>7
<1>8. CASE i = Len(s) + 1 /\ j \in 1..Len(s)
  BY <1>2, <1>4, <1>5, <1>8
<1> QED
  BY <1>1, <1>6, <1>7, <1>8

LEMMA LoneDequeued ==
  ASSUME NEW S, NEW s \in Seq(S), s # <<>>, Lone(s)
  PROVE  /\ Lone(Tail(s))
         /\ Head(s) = "Subscribe" => "Subscribe" \notin Range(Tail(s))
<1>1. /\ Len(s) \in Nat \ {0} /\ Len(Tail(s)) = Len(s) - 1
      /\ \A i \in 1..(Len(s) - 1) : Tail(s)[i] = s[i + 1]
  BY EmptySeq, HeadTailProperties
<1>2. DOMAIN s = 1..Len(s) /\ DOMAIN Tail(s) = 1..(Len(s) - 1) /\ Head(s) = s[1]
  BY <1>1, HeadTailProperties
<1>3. \A i \in 1..(Len(s) - 1) : i + 1 \in 1..Len(s) /\ i + 1 # 1
  BY <1>1
<1>4. Lone(Tail(s))
  BY <1>1, <1>2, <1>3 DEF Lone
<1>5. Head(s) = "Subscribe" => \A i \in 1..(Len(s) - 1) : Tail(s)[i] # "Subscribe"
  <2> SUFFICES ASSUME Head(s) = "Subscribe", NEW i \in 1..(Len(s) - 1),
                      Tail(s)[i] = "Subscribe"
               PROVE  FALSE
    OBVIOUS
  <2>1. 1 \in DOMAIN s /\ i + 1 \in DOMAIN s /\ s[1] = "Subscribe" /\ s[i + 1] = "Subscribe"
    BY <1>1, <1>2, <1>3
  <2> QED
    BY <1>3, <2>1 DEF Lone
<1> QED
  BY <1>2, <1>4, <1>5 DEF Range

-----------------------------------------------------------------------------
(* Pages                                                                   *)

\* Places are different, so the rows after s have the ranks 1 up to their
\* number, each once: a page consists of rows.
LEMMA PageOfRows ==
  ASSUME ServerTyped, LogSound, NEW s \in 0..MaxSeq
  PROVE  /\ Page(s) \in Seq(Updates)
         /\ Range(Page(s)) \subseteq Log!Stored
         /\ Page(s) # <<>> => Page(s)[Len(Page(s))] \in Updates
<1> DEFINE A == After(s)
           N == Cardinality(A)
           low(u) == {v \in A : place[v] <= place[u]}
           rank == [u \in A |-> Cardinality(low(u))]
<1>1. A \subseteq Log!Stored /\ Log!Stored \subseteq Updates
  BY DEF After, Log!Stored
<1>2. IsFiniteSet(A) /\ N \in Nat
  BY <1>1, DownloadAssumption, FS_Subset, FS_CardinalityType
<1>3. \A u \in A : place[u] \in Nat
  BY <1>1 DEF ServerTyped
<1> HIDE DEF A
<1>4. ASSUME NEW u \in A
      PROVE  IsFiniteSet(low(u)) /\ Cardinality(low(u)) \in 1..N
  <2>1. low(u) \in SUBSET A /\ u \in low(u)
    BY <1>3
  <2>2. IsFiniteSet(low(u)) /\ Cardinality(low(u)) <= N
    BY <1>2, <2>1, FS_Subset
  <2>3. Cardinality(low(u)) \in Nat
    BY <2>2, FS_CardinalityType
  <2>4. Cardinality(low(u)) # 0
    BY <2>1, <2>2, FS_EmptySet
  <2> QED
    BY <1>2, <2>2, <2>3, <2>4
<1>5. ASSUME NEW u \in A, NEW v \in A, place[u] <= place[v],
             Cardinality(low(u)) = Cardinality(low(v))
      PROVE  u = v
  <2>1. low(u) \in SUBSET low(v)
    BY <1>3, <1>5
  <2>2. low(u) = low(v)
    BY <1>4, <1>5, <2>1, FS_Subset
  <2>3. v \in low(v)
    BY <1>3
  <2>4. place[v] <= place[u]
    BY <2>2, <2>3
  <2>5. place[u] = place[v] /\ place[u] # 0
    BY <1>1, <1>3, <1>5, <2>4 DEF Log!Stored
  <2> QED
    BY <1>1, <2>5 DEF LogSound
<1>6. ASSUME NEW u \in A, NEW v \in A, rank[u] = rank[v]
      PROVE  u = v
  <2>1. Cardinality(low(u)) = Cardinality(low(v))
    BY <1>6
  <2> HIDE DEF low, rank
  <2>2. place[u] <= place[v] \/ place[v] <= place[u]
    BY <1>3
  <2> QED
    BY <1>5, <2>1, <2>2
<1>7. rank \in Injection(A, 1..N)
  <2>1. rank \in [A -> 1..N]
    BY <1>4
  <2> QED
    BY <1>6, <2>1 DEF Injection, IsInjective
<1>8. rank \in Surjection(A, 1..N)
  <2>1. IsFiniteSet(1..N) /\ Cardinality(1..N) = N
    BY <1>2, FS_Interval
  <2> HIDE DEF rank, N
  <2> QED
    BY <1>7, <2>1, FS_Injection DEF N
<1>9. \A i \in 1..N : \E u \in A : Cardinality(low(u)) = i
  BY <1>8 DEF Surjection
<1> DEFINE size == IF N < PageSize THEN N ELSE PageSize
           row(i) == CHOOSE u \in A : Cardinality(low(u)) = i
<1>10. Page(s) = [i \in 1..size |-> row(i)]
  BY DEF Page, A
<1>11. size \in Nat /\ \A i \in 1..size : i \in 1..N
  BY <1>2, DownloadAssumption
<1>12. \A i \in 1..size : row(i) \in A
  BY <1>9, <1>11
<1> HIDE DEF size, row, low, rank
<1>13. Page(s) \in [1..size -> A]
  BY <1>10, <1>12
<1>14. Page(s) \in Seq(A)
  BY <1>11, <1>13
<1>15. Page(s) \in Seq(Updates)
  BY <1>1, <1>14, SeqMonotonic
<1>16. Range(Page(s)) \subseteq Log!Stored
  BY <1>1, <1>13 DEF Range
<1>17. Page(s) # <<>> => Page(s)[Len(Page(s))] \in Updates
  BY <1>15, EmptySeq, ElementOfSeq
<1> QED
  BY <1>15, <1>16, <1>17

-----------------------------------------------------------------------------
(* Type correctness                                                        *)

\* A step keeps the server's tables typed; few steps touch them.
LEMMA ServerStep ==
  ASSUME TypeOK, [Next]_vars
  PROVE  ServerTyped'
<1> USE DownloadAssumption DEF ServerTyped
<1>t. ServerTyped
  BY DEF TypeOK
<1>1. CASE Allocate
  BY <1>t, <1>1 DEF Allocate, Log!Allocate
<1>2. ASSUME NEW u \in Updates, StoreRow(u) PROVE ServerTyped'
  BY <1>t, <1>2 DEF StoreRow, Log!Store
<1>3. ASSUME NEW u \in Updates, Publish(u) PROVE ServerTyped'
  BY <1>t, <1>3 DEF Publish
<1>4. ASSUME NEW u \in Updates, Republish(u) PROVE ServerTyped'
  BY <1>t, <1>4 DEF Republish, serverVars
<1>5. ASSUME NEW d \in Devices, DeviceNext(d) PROVE ServerTyped'
  <2>1. UNCHANGED serverVars
    BY <1>5 DEF DeviceNext, Rotate, Admit, ReceivePull, ReceiveSubscribe, FetchPage, PullFails, Connect,
       ConnectFails, Forward, LagClose, SocketDrops, Reconcile, Wake, Apply, ApplyOwn,
       ApplySkip, ApplyMerge, ApplyAdvance, Restart
  <2> QED
    BY <1>t, <2>1 DEF serverVars
<1>6. CASE UNCHANGED vars
  BY <1>t, <1>6 DEF vars, serverVars
<1> QED
  BY <1>1, <1>2, <1>3, <1>4, <1>5, <1>6 DEF Next, ServerNext

\* What publishing u does to device d: an open socket is given the frame, or has
\* missed one.
Spread(d, u) ==
    /\ live'[d] \subseteq live[d] \cup {u}
    /\ Range(ring'[d]) \subseteq Range(ring[d]) \cup {u}
    /\ lagged[d] => lagged'[d]
    /\ \/ lagged'[d]
       \/ /\ Range(ring[d]) \subseteq Range(ring'[d])
          /\ live'[d] = live[d] \/ u \in Range(ring'[d])

\* A full ring loses its oldest frame and gains one.
LEMMA BroadcastStep ==
  ASSUME SocketTyped, NEW u \in Updates, Broadcast(u)
  PROVE  /\ ring' \in [Devices -> Seq(Updates)]
         /\ \A d \in Devices : Len(ring'[d]) <= RingCapacity
         /\ lagged' \in [Devices -> BOOLEAN]
         /\ live' \in [Devices -> SUBSET Updates]
         /\ \A d \in Devices : Spread(d, u)
<1> DEFINE open == {d \in Devices : socket[d] = "open"}
           full == {d \in open : Len(ring[d]) = RingCapacity}
           next(d) == IF d \in full THEN Append(Tail(ring[d]), u)
                      ELSE IF d \in open THEN Append(ring[d], u) ELSE ring[d]
<1>1. /\ ring' = [d \in Devices |-> next(d)]
      /\ lagged' = [d \in Devices |-> lagged[d] \/ d \in full]
      /\ live' = [d \in Devices |-> IF d \in open THEN live[d] \cup {u} ELSE live[d]]
  BY DEF Broadcast
<1>2. ASSUME NEW d \in Devices
      PROVE  /\ next(d) \in Seq(Updates) /\ Len(next(d)) <= RingCapacity
             /\ Range(next(d)) \subseteq Range(ring[d]) \cup {u}
             /\ d \in open => u \in Range(next(d))
             /\ d \notin full => Range(ring[d]) \subseteq Range(next(d))
  <2>1. ring[d] \in Seq(Updates) /\ Len(ring[d]) <= RingCapacity /\ Len(ring[d]) \in Nat
    BY DEF SocketTyped
  <2>2. CASE d \in full
    <3>1. ring[d] # <<>>
      BY <2>2, DownloadAssumption, EmptySeq
    <3> DEFINE rest == Tail(ring[d])
    <3>2. /\ rest \in Seq(Updates) /\ Len(rest) = Len(ring[d]) - 1
          /\ Range(rest) \subseteq Range(ring[d])
      BY <2>1, <3>1, Dequeued
    <3>3. next(d) = Append(rest, u)
      BY <2>2
    <3> HIDE DEF rest, next
    <3>4. /\ Append(rest, u) \in Seq(Updates)
          /\ Len(Append(rest, u)) = Len(rest) + 1
          /\ Range(Append(rest, u)) = Range(rest) \cup {u}
      BY <3>2, Appended
    <3>5. Len(Append(rest, u)) <= RingCapacity
      BY <2>1, <3>2, <3>4
    <3> QED
      BY <2>2, <3>2, <3>3, <3>4, <3>5
  <2>3. CASE d \notin full /\ d \in open
    <3>1. /\ Append(ring[d], u) \in Seq(Updates)
          /\ Len(Append(ring[d], u)) = Len(ring[d]) + 1
          /\ Range(Append(ring[d], u)) = Range(ring[d]) \cup {u}
      BY <2>1, Appended
    <3>2. Len(ring[d]) + 1 <= RingCapacity
      BY <2>1, <2>3, DownloadAssumption
    <3> QED
      BY <2>3, <3>1, <3>2
  <2>4. CASE d \notin open
    BY <2>1, <2>4
  <2> QED
    BY <2>2, <2>3, <2>4
<1> HIDE DEF next
<1>3. /\ \A d \in Devices : ring'[d] = next(d)
      /\ \A d \in Devices : lagged'[d] = (lagged[d] \/ d \in full)
      /\ \A d \in Devices : live'[d] = IF d \in open THEN live[d] \cup {u} ELSE live[d]
  BY <1>1
<1>4. ring' \in [Devices -> Seq(Updates)]
  BY <1>1, <1>2
<1>5. lagged' \in [Devices -> BOOLEAN]
  <2>1. \A d \in Devices : (lagged[d] \/ d \in full) \in BOOLEAN
    OBVIOUS
  <2> QED
    BY <1>1, <2>1
<1>6. live' \in [Devices -> SUBSET Updates]
  BY <1>1 DEF SocketTyped
<1> HIDE DEF open, full
<1>7. \A d \in Devices : Spread(d, u)
  BY <1>2, <1>3 DEF Spread
<1> QED
  BY <1>2, <1>3, <1>4, <1>5, <1>6, <1>7

LEMMA SocketStep ==
  ASSUME TypeOK, [Next]_vars
  PROVE  SocketTyped'
<1> USE DownloadAssumption DEF SocketStates
<1>t. SocketTyped
  BY DEF TypeOK
<1>1. ASSUME NEW u \in Updates, Publish(u) \/ Republish(u) PROVE SocketTyped'
  <2>1. Broadcast(u) /\ UNCHANGED socket
    BY <1>1 DEF Publish, Republish
  <2> QED
    BY <1>t, <2>1, BroadcastStep DEF SocketTyped
<1>2. ASSUME NEW d \in Devices, \E x \in SocketStates : socket' = [socket EXCEPT ![d] = x],
             UNCHANGED <<ring, lagged, live>>
      PROVE  SocketTyped'
  BY <1>t, <1>2 DEF SocketTyped
<1>3. ASSUME NEW d \in Devices, \E x \in SocketStates : socket' = [socket EXCEPT ![d] = x],
             Detach(d)
      PROVE  SocketTyped'
  <2>1. ring' = [ring EXCEPT ![d] = <<>>] /\ Len(<<>>) = 0 /\ <<>> \in Seq(Updates)
    BY <1>3 DEF Detach
  <2>2. ring' \in [Devices -> Seq(Updates)] /\ \A e \in Devices : Len(ring'[e]) <= RingCapacity
    BY <1>t, <2>1 DEF SocketTyped
  <2>3. /\ lagged' \in [Devices -> BOOLEAN] /\ live' \in [Devices -> SUBSET Updates]
        /\ socket' \in [Devices -> SocketStates]
    BY <1>t, <1>3 DEF SocketTyped, Detach
  <2> QED
    BY <2>2, <2>3 DEF SocketTyped
<1>4. ASSUME NEW d \in Devices, Forward(d) PROVE SocketTyped'
  <2>1. /\ ring' = [ring EXCEPT ![d] = Tail(ring[d])] /\ ring[d] # <<>>
        /\ UNCHANGED <<socket, lagged, live>>
    BY <1>4 DEF Forward
  <2>2. ring[d] \in Seq(Updates) /\ Len(ring[d]) \in Nat /\ Len(ring[d]) <= RingCapacity
    BY <1>t DEF SocketTyped
  <2>3. Tail(ring[d]) \in Seq(Updates) /\ Len(Tail(ring[d])) = Len(ring[d]) - 1
    BY <2>1, <2>2, Dequeued
  <2>4. ring' \in [Devices -> Seq(Updates)] /\ \A e \in Devices : Len(ring'[e]) <= RingCapacity
    BY <1>t, <2>1, <2>2, <2>3 DEF SocketTyped
  <2> QED
    BY <1>t, <2>1, <2>4 DEF SocketTyped
<1>5. ASSUME NEW d \in Devices,
             ReceiveSubscribe(d) \/ Connect(d) \/ Reconcile(d) \/ Wake(d)
      PROVE  SocketTyped'
  BY <1>2, <1>5 DEF ReceiveSubscribe, Connect, Reconcile, Wake
<1>6. ASSUME NEW d \in Devices,
             ConnectFails(d) \/ LagClose(d) \/ SocketDrops(d) \/ Restart(d)
      PROVE  SocketTyped'
  BY <1>3, <1>6 DEF ConnectFails, LagClose, SocketDrops, CloseSocket, Restart
<1>7. ASSUME NEW d \in Devices,
             \/ Rotate(d) \/ Admit(d) \/ ReceivePull(d) \/ FetchPage(d) \/ PullFails(d) \/ Apply(d)
      PROVE  SocketTyped'
  <2>1. UNCHANGED socketVars
    BY <1>7 DEF Rotate, Admit, ReceivePull, FetchPage, PullFails, Apply, ApplyOwn, ApplySkip,
       ApplyMerge, ApplyAdvance
  <2> QED
    BY <1>t, <2>1 DEF SocketTyped, socketVars
<1>8. ASSUME Allocate \/ (\E u \in Updates : StoreRow(u)) \/ UNCHANGED vars
      PROVE  SocketTyped'
  <2>1. UNCHANGED socketVars
    BY <1>8 DEF Allocate, StoreRow, vars
  <2> QED
    BY <1>t, <2>1 DEF SocketTyped, socketVars
<1> QED
  BY <1>1, <1>4, <1>5, <1>6, <1>7, <1>8 DEF Next, ServerNext, DeviceNext

LEMMA EngineStep ==
  ASSUME TypeOK, LogSound, [Next]_vars
  PROVE  EngineTyped'
<1> USE DownloadAssumption
<1> DEFINE Words == {"Pull", "Subscribe"}
<1>t. /\ EngineTyped /\ cursor \in [Devices -> 0..MaxSeq]
      /\ place \in [Updates -> 0..MaxSeq] /\ ServerTyped
  BY DEF TypeOK, StoreTyped, ServerTyped
<1>1. ASSUME NEW d \in Devices, NEW w \in Words,
             \/ UNCHANGED commands
             \/ commands' = [commands EXCEPT ![d] = Append(@, w)]
             \/ commands[d] # <<>> /\ commands' = [commands EXCEPT ![d] = Tail(@)]
             \/ commands' = [commands EXCEPT ![d] = Discovery]
             \/ commands' = [commands EXCEPT ![d] = <<>>]
      PROVE  commands' \in [Devices -> Seq(Words)]
  <2>1. commands \in [Devices -> Seq(Words)] /\ commands[d] \in Seq(Words)
    BY <1>t DEF EngineTyped
  <2>2. Append(commands[d], w) \in Seq(Words)
    BY <2>1, Appended
  <2>3. commands[d] # <<>> => Tail(commands[d]) \in Seq(Words)
    BY <2>1, Dequeued
  <2>4. Discovery \in Seq(Words) /\ <<>> \in Seq(Words)
    BY DEF Discovery
  <2> HIDE DEF Words
  <2> QED
    BY <1>1, <2>1, <2>2, <2>3, <2>4
<1>2. ASSUME NEW d \in Devices, ReceivePull(d) \/ ReceiveSubscribe(d) PROVE EngineTyped'
  <2>1. commands' \in [Devices -> Seq(Words)]
    BY <1>1, <1>2 DEF ReceivePull, ReceiveSubscribe
  <2>2. /\ engine' \in [Devices -> {"idle", "pulling"}]
        /\ from' \in [Devices -> 0..MaxSeq]
    BY <1>t, <1>2 DEF EngineTyped, ReceivePull, ReceiveSubscribe
  <2> QED
    BY <2>1, <2>2 DEF EngineTyped
<1>3. ASSUME NEW d \in Devices, FetchPage(d) PROVE EngineTyped'
  <2> DEFINE page == Page(from[d])
             more == Len(page) = PageSize
  <2>1. from[d] \in 0..MaxSeq
    BY <1>t DEF EngineTyped
  <2>2. page \in Seq(Updates) /\ (page # <<>> => page[Len(page)] \in Updates)
    BY <1>t, <2>1, PageOfRows
  <2>3. from' = [from EXCEPT ![d] = IF more THEN place[page[Len(page)]] ELSE 0]
    BY <1>3 DEF FetchPage
  <2>4. engine' = [engine EXCEPT ![d] = IF more THEN "pulling" ELSE "idle"]
    BY <1>3 DEF FetchPage
  <2>5. UNCHANGED commands
    BY <1>3 DEF FetchPage
  <2> HIDE DEF page
  <2>6. more => page # <<>>
    BY <2>2, EmptySeq
  <2>7. (IF more THEN place[page[Len(page)]] ELSE 0) \in 0..MaxSeq
    BY <1>t, <2>2, <2>6
  <2>8. from' \in [Devices -> 0..MaxSeq]
    BY <1>t, <2>3, <2>7 DEF EngineTyped
  <2>9. engine' \in [Devices -> {"idle", "pulling"}]
    BY <1>t, <2>4 DEF EngineTyped
  <2> QED
    BY <1>t, <2>5, <2>8, <2>9 DEF EngineTyped
<1>4. ASSUME NEW d \in Devices, PullFails(d) PROVE EngineTyped'
  BY <1>t, <1>4 DEF EngineTyped, PullFails
<1>5. ASSUME NEW d \in Devices, Reconcile(d) \/ Wake(d) PROVE EngineTyped'
  <2>1. commands' \in [Devices -> Seq(Words)]
    BY <1>1, <1>5 DEF Reconcile, Wake
  <2>2. UNCHANGED <<engine, from>>
    BY <1>5 DEF Reconcile, Wake
  <2> QED
    BY <1>t, <2>1, <2>2 DEF EngineTyped
<1>6. ASSUME NEW d \in Devices, Restart(d) PROVE EngineTyped'
  <2>1. commands' \in [Devices -> Seq(Words)]
    BY <1>1, <1>6 DEF Restart
  <2>2. /\ engine' \in [Devices -> {"idle", "pulling"}]
        /\ from' \in [Devices -> 0..MaxSeq]
    BY <1>t, <1>6 DEF EngineTyped, Restart
  <2> QED
    BY <2>1, <2>2 DEF EngineTyped
<1>7. ASSUME NEW d \in Devices,
             \/ Rotate(d) \/ Admit(d) \/ Connect(d) \/ ConnectFails(d) \/ Forward(d) \/ LagClose(d)
             \/ SocketDrops(d) \/ Apply(d)
      PROVE  EngineTyped'
  <2>1. UNCHANGED engineVars
    BY <1>7 DEF Rotate, Admit, Connect, ConnectFails, Forward, LagClose, SocketDrops, Apply,
       ApplyOwn, ApplySkip, ApplyMerge, ApplyAdvance
  <2> QED
    BY <1>t, <2>1 DEF EngineTyped, engineVars
<1>8. ASSUME ServerNext \/ UNCHANGED vars PROVE EngineTyped'
  <2>1. UNCHANGED engineVars
    BY <1>8 DEF ServerNext, Allocate, StoreRow, Publish, Republish, vars
  <2> QED
    BY <1>t, <2>1 DEF EngineTyped, engineVars
<1> QED
  BY <1>2, <1>3, <1>4, <1>5, <1>6, <1>7, <1>8 DEF Next, DeviceNext

LEMMA StoreStep ==
  ASSUME TypeOK, LogSound, HeadInHand, [Next]_vars
  PROVE  StoreTyped'
<1> USE DownloadAssumption
<1>t. StoreTyped /\ ServerTyped /\ SocketTyped /\ from \in [Devices -> 0..MaxSeq]
  BY DEF TypeOK, EngineTyped
<1>s. \A d \in Devices : ring[d] \in Seq(Updates) /\ inbox[d] \in Seq(Updates)
  BY <1>t DEF StoreTyped, SocketTyped
<1>1. ASSUME NEW d \in Devices, NEW q \in Seq(Updates), inbox' = [inbox EXCEPT ![d] = q],
             UNCHANGED <<cursor, merged, applying, keys, known, skipped, torn>>
      PROVE  StoreTyped'
  BY <1>t, <1>1 DEF StoreTyped
<1>2. ASSUME NEW d \in Devices, FetchPage(d) PROVE StoreTyped'
  <2>1. inbox[d] \o Page(from[d]) \in Seq(Updates)
    BY <1>t, <1>s, PageOfRows, Extended
  <2>2. /\ inbox' = [inbox EXCEPT ![d] = inbox[d] \o Page(from[d])]
        /\ UNCHANGED <<cursor, merged, applying, keys, known, skipped, torn>>
    BY <1>2 DEF FetchPage
  <2> QED
    BY <1>1, <2>1, <2>2
<1>3. ASSUME NEW d \in Devices, Forward(d) PROVE StoreTyped'
  <2>1. Append(inbox[d], Head(ring[d])) \in Seq(Updates)
    BY <1>s, <1>3, Dequeued, Appended DEF Forward
  <2>2. /\ inbox' = [inbox EXCEPT ![d] = Append(inbox[d], Head(ring[d]))]
        /\ UNCHANGED <<cursor, merged, applying, keys, known, skipped, torn>>
    BY <1>3 DEF Forward
  <2> QED
    BY <1>1, <2>1, <2>2
<1>4. ASSUME NEW d \in Devices, inbox[d] # <<>>
      PROVE  /\ Tail(inbox[d]) \in Seq(Updates)
             /\ Head(inbox[d]) \in Updates
             /\ place[Head(inbox[d])] \in 0..MaxSeq
  BY <1>t, <1>s, <1>4, Dequeued DEF ServerTyped
<1>5. ASSUME NEW d \in Devices, ApplyOwn(d) PROVE StoreTyped'
  <2>1. cursor' \in [Devices -> 0..MaxSeq]
    BY <1>t, <1>4, <1>5 DEF ApplyOwn, Advance, StoreTyped
  <2>2. inbox' \in [Devices -> Seq(Updates)]
    BY <1>t, <1>4, <1>5 DEF ApplyOwn, Taken, StoreTyped
  <2> QED
    BY <1>t, <1>5, <2>1, <2>2 DEF ApplyOwn, StoreTyped
<1>6. ASSUME NEW d \in Devices, ApplySkip(d) PROVE StoreTyped'
  <2>1. inbox' \in [Devices -> Seq(Updates)]
    BY <1>t, <1>4, <1>6 DEF ApplySkip, Taken, StoreTyped
  <2>2. skipped' \in [Devices -> SUBSET Updates]
    BY <1>t, <1>4, <1>6 DEF ApplySkip, StoreTyped
  <2> QED
    BY <1>t, <1>6, <2>1, <2>2 DEF ApplySkip, StoreTyped
<1>7. ASSUME NEW d \in Devices, ApplyMerge(d) PROVE StoreTyped'
  BY <1>t, <1>4, <1>7 DEF ApplyMerge, StoreTyped
<1>8. ASSUME NEW d \in Devices, ApplyAdvance(d) PROVE StoreTyped'
  <2>1. inbox[d] # <<>>
    BY <1>8 DEF ApplyAdvance, HeadInHand, HeadAt
  <2>2. cursor' \in [Devices -> 0..MaxSeq]
    BY <1>t, <1>4, <1>8, <2>1 DEF ApplyAdvance, Advance, StoreTyped
  <2>3. inbox' \in [Devices -> Seq(Updates)]
    BY <1>t, <1>4, <1>8, <2>1 DEF ApplyAdvance, Taken, StoreTyped
  <2> QED
    BY <1>t, <1>8, <2>2, <2>3 DEF ApplyAdvance, StoreTyped
<1>k. ASSUME NEW d \in Devices, NEW ks \in SUBSET Deks, NEW ms \in SUBSET Members,
             keys' = [keys EXCEPT ![d] = ks] \/ UNCHANGED keys,
             known' = [known EXCEPT ![d] = ms] \/ UNCHANGED known
      PROVE  keys' \in [Devices -> SUBSET Deks] /\ known' \in [Devices -> SUBSET Members]
  BY <1>t, <1>k DEF StoreTyped
<1>r. \A d \in Devices : keys[d] \in SUBSET Deks /\ known[d] \in SUBSET Members
  BY <1>t DEF StoreTyped
<1>9. ASSUME NEW d \in Devices, Restart(d) PROVE StoreTyped'
  <2>1. inbox' \in [Devices -> Seq(Updates)] /\ applying' \in [Devices -> BOOLEAN]
    BY <1>t, <1>9 DEF Restart, StoreTyped
  <2>2. keys' \in [Devices -> SUBSET Deks] /\ known' \in [Devices -> SUBSET Members]
    <3>1. CASE Ingest(d)
      <4>1. PICK ks \in SUBSET Deks, ms \in SUBSET Members :
               /\ keys' = [keys EXCEPT ![d] = keys[d] \cup ks]
               /\ known' = [known EXCEPT ![d] = known[d] \cup ms]
        BY <3>1 DEF Ingest
      <4>2. keys[d] \cup ks \in SUBSET Deks /\ known[d] \cup ms \in SUBSET Members
        BY <1>r
      <4> QED
        BY <1>k, <4>1, <4>2
    <3>2. CASE UNCHANGED <<keys, known>>
      BY <1>t, <3>2 DEF StoreTyped
    <3> QED
      BY <1>9, <3>1, <3>2 DEF Restart
  <2>3. applying[d] => Head(inbox[d]) \in Updates
    BY <1>4 DEF HeadInHand, HeadAt
  <2>4. torn' \in [Devices -> SUBSET Updates]
    BY <1>t, <1>9, <2>3 DEF Restart, StoreTyped
  <2> QED
    BY <1>t, <1>9, <2>1, <2>2, <2>4 DEF Restart, StoreTyped
<1>10. ASSUME NEW d \in Devices, Rotate(d) \/ Admit(d) PROVE StoreTyped'
  <2>1. keys' \in [Devices -> SUBSET Deks] /\ known' \in [Devices -> SUBSET Members]
    <3>1. CASE Rotate(d)
      <4>1. PICK k \in Deks, m \in known[d] :
               /\ keys' = [keys EXCEPT ![d] = keys[d] \cup {k}]
               /\ known' = [known EXCEPT ![d] = known[d] \ {m}]
        BY <3>1 DEF Rotate
      <4>2. keys[d] \cup {k} \in SUBSET Deks /\ known[d] \ {m} \in SUBSET Members
        BY <1>r
      <4> QED
        BY <1>k, <4>1, <4>2
    <3>2. CASE Admit(d)
      <4>1. PICK m \in Members : known' = [known EXCEPT ![d] = known[d] \cup {m}]
        BY <3>2 DEF Admit
      <4>2. known[d] \cup {m} \in SUBSET Members /\ keys[d] \in SUBSET Deks /\ UNCHANGED keys
        BY <1>r, <3>2 DEF Admit
      <4> QED
        BY <1>k, <4>1, <4>2
    <3> QED
      BY <1>10, <3>1, <3>2
  <2> QED
    BY <1>t, <1>10, <2>1 DEF Rotate, Admit, StoreTyped
<1>11. ASSUME NEW d \in Devices,
              \/ ReceivePull(d) \/ ReceiveSubscribe(d) \/ PullFails(d) \/ Connect(d)
              \/ ConnectFails(d) \/ LagClose(d) \/ SocketDrops(d) \/ Reconcile(d) \/ Wake(d)
       PROVE  StoreTyped'
  <2>1. UNCHANGED storeVars
    BY <1>11 DEF ReceivePull, ReceiveSubscribe, PullFails, Connect, ConnectFails, LagClose,
       SocketDrops, Reconcile, Wake
  <2> QED
    BY <1>t, <2>1 DEF StoreTyped, storeVars
<1>12. ASSUME ServerNext \/ UNCHANGED vars PROVE StoreTyped'
  <2>1. UNCHANGED storeVars
    BY <1>12 DEF ServerNext, Allocate, StoreRow, Publish, Republish, vars
  <2> QED
    BY <1>t, <2>1 DEF StoreTyped, storeVars
<1> QED
  BY <1>2, <1>3, <1>5, <1>6, <1>7, <1>8, <1>9, <1>10, <1>11, <1>12
     DEF Next, DeviceNext, Apply

\* Every step keeps the state typed, and counts its faults.
LEMMA TypeStep ==
  ASSUME TypeOK, LogSound, HeadInHand, [Next]_vars
  PROVE  TypeOK'
<1>1. faults' \in 0..MaxFaults
  <2>1. faults \in 0..MaxFaults
    BY DEF TypeOK
  <2>2. UNCHANGED faults \/ Fault
    BY DEF Next, ServerNext, DeviceNext, Apply, Allocate, StoreRow, Publish,
       Republish, Rotate, Admit, ReceivePull, ReceiveSubscribe, FetchPage, PullFails, Connect,
       ConnectFails, Forward, LagClose, SocketDrops, Reconcile, Wake, ApplyOwn, ApplySkip,
       ApplyMerge, ApplyAdvance, Restart, vars
  <2> QED
    BY <2>1, <2>2, DownloadAssumption DEF Fault
<1> QED
  BY <1>1, ServerStep, SocketStep, EngineStep, StoreStep DEF TypeOK

-----------------------------------------------------------------------------
(* What a step leaves alone                                                *)

\* A device's step is its own.
LEMMA OnlyHere ==
  ASSUME TypeOK, NEW d \in Devices, DeviceNext(d), NEW e \in Devices, e # d
  PROVE  /\ socket'[e] = socket[e] /\ ring'[e] = ring[e] /\ lagged'[e] = lagged[e]
         /\ live'[e] = live[e] /\ commands'[e] = commands[e] /\ inbox'[e] = inbox[e]
         /\ cursor'[e] = cursor[e] /\ merged'[e] = merged[e]
         /\ applying'[e] = applying[e] /\ keys'[e] = keys[e] /\ known'[e] = known[e]
         /\ skipped'[e] = skipped[e] /\ torn'[e] = torn[e]
<1> USE DEF TypeOK, SocketTyped, EngineTyped, StoreTyped, serverVars, socketVars, engineVars,
        storeVars
<1>1. CASE Rotate(d) \/ Admit(d)
  BY <1>1 DEF Rotate, Admit
<1>2. CASE ReceivePull(d) \/ ReceiveSubscribe(d)
  BY <1>2 DEF ReceivePull, ReceiveSubscribe
<1>3. CASE FetchPage(d) \/ PullFails(d)
  BY <1>3 DEF FetchPage, PullFails
<1>4. CASE Connect(d) \/ ConnectFails(d)
  BY <1>4 DEF Connect, ConnectFails, CloseSocket, Detach
<1>5. CASE Forward(d) \/ LagClose(d) \/ SocketDrops(d)
  BY <1>5 DEF Forward, LagClose, SocketDrops, CloseSocket, Detach
<1>6. CASE Reconcile(d) \/ Wake(d)
  BY <1>6 DEF Reconcile, Wake
<1>7. CASE Apply(d)
  BY <1>7 DEF Apply, ApplyOwn, ApplySkip, ApplyMerge, ApplyAdvance, Advance, Taken
<1>8. CASE Restart(d)
  BY <1>8 DEF Restart, Ingest, Detach
<1> QED
  BY <1>1, <1>2, <1>3, <1>4, <1>5, <1>6, <1>7, <1>8 DEF DeviceNext

\* A row keeps its number.
LEMMA PlacesStay ==
  ASSUME TypeOK, [Next]_vars
  PROVE  /\ \A u \in Log!Stored : place'[u] = place[u]
         /\ Log!Stored \subseteq (Log!Stored)'
<1>t. place \in [Updates -> 0..MaxSeq]
  BY DEF TypeOK, ServerTyped
<1>1. ASSUME NEW u \in Updates, StoreRow(u) PROVE \A v \in Log!Stored : place'[v] = place[v]
  BY <1>t, <1>1 DEF StoreRow, Log!Store, Log!Stored
<1>2. (\E u \in Updates : StoreRow(u)) \/ UNCHANGED place
  BY DEF Next, ServerNext, DeviceNext, Apply, Allocate, Log!Allocate, Publish,
     Republish, Rotate, Admit, ReceivePull, ReceiveSubscribe, FetchPage, PullFails, Connect,
     ConnectFails, Forward, LagClose, SocketDrops, Reconcile, Wake, ApplyOwn, ApplySkip,
     ApplyMerge, ApplyAdvance, Restart, vars, serverVars
<1>3. \A u \in Log!Stored : place'[u] = place[u]
  BY <1>1, <1>2
<1> QED
  BY <1>t, <1>3 DEF Log!Stored

-----------------------------------------------------------------------------
(* The invariant                                                           *)

\* A row goes under a free number, and is published later.
LEMMA LogStep ==
  ASSUME TypeOK, LogSound, [Next]_vars
  PROVE  LogSound'
<1> USE DownloadAssumption DEF LogSound, Log!Stored
<1>t. place \in [Updates -> 0..MaxSeq] /\ published \subseteq Updates
  BY DEF TypeOK, ServerTyped
<1>1. ASSUME NEW u \in Updates, StoreRow(u) PROVE LogSound'
  <2>1. PICK q \in 1..top : /\ place[u] = 0 /\ place' = [place EXCEPT ![u] = q]
                            /\ \A v \in Updates : place[v] # q
    BY <1>1 DEF StoreRow, Log!Store, Log!Free
  <2>2. UNCHANGED published
    BY <1>1 DEF StoreRow
  <2>3. q # 0
    BY <2>1 DEF TypeOK, ServerTyped
  <2> QED
    BY <1>t, <2>1, <2>2, <2>3
<1>2. ASSUME NEW u \in Updates, Publish(u) PROVE LogSound'
  BY <1>t, <1>2 DEF Publish
<1>3. ASSUME UNCHANGED <<place, published>> PROVE LogSound'
  BY <1>t, <1>3
<1>4. ASSUME NEW d \in Devices, DeviceNext(d) PROVE UNCHANGED <<place, published>>
  BY <1>4 DEF DeviceNext, Apply, Rotate, Admit, ReceivePull, ReceiveSubscribe, FetchPage,
     PullFails, Connect, ConnectFails, Forward, LagClose, SocketDrops, Reconcile, Wake,
     ApplyOwn, ApplySkip, ApplyMerge, ApplyAdvance, Restart, serverVars
<1>5. ASSUME Allocate \/ (\E u \in Updates : Republish(u)) \/ UNCHANGED vars
      PROVE  UNCHANGED <<place, published>>
  BY <1>5 DEF Allocate, Log!Allocate, Republish, vars, serverVars
<1> QED
  BY <1>1, <1>2, <1>3, <1>4, <1>5 DEF Next, ServerNext

\* What reaches a ring was stored, what reaches an inbox came from a ring or a
\* page.
LEMMA FramesStep ==
  ASSUME TypeOK, LogSound, FramesStored, HeadInHand, [Next]_vars
  PROVE  FramesStored'
<1>s. Log!Stored \subseteq (Log!Stored)'
  BY PlacesStay
<1>t. /\ SocketTyped /\ ServerTyped /\ StoreTyped /\ from \in [Devices -> 0..MaxSeq]
      /\ \A d \in Devices : ring[d] \in Seq(Updates) /\ inbox[d] \in Seq(Updates)
  BY DEF TypeOK, EngineTyped, SocketTyped, StoreTyped
<1>k. ASSUME NEW d \in Devices,
             Range(ring'[d]) \cup Range(inbox'[d]) \cup live'[d] \subseteq Log!Stored
      PROVE  FramesAt(d)'
  BY <1>s, <1>k DEF FramesAt
<1>1. ASSUME NEW u \in Updates, Publish(u) \/ Republish(u) PROVE FramesStored'
  <2>1. Broadcast(u) /\ u \in Log!Stored /\ UNCHANGED inbox
    BY <1>1 DEF Publish, Republish, LogSound, Log!Stored, storeVars
  <2>2. \A d \in Devices : Spread(d, u)
    BY <1>t, <2>1, BroadcastStep
  <2>3. ASSUME NEW d \in Devices PROVE FramesAt(d)'
    BY <1>k, <2>1, <2>2 DEF FramesStored, FramesAt, Spread
  <2> QED
    BY <2>3 DEF FramesStored
<1>2. ASSUME Allocate \/ (\E u \in Updates : StoreRow(u)) \/ UNCHANGED vars
      PROVE  FramesStored'
  <2>1. UNCHANGED <<ring, inbox, live>>
    BY <1>2 DEF Allocate, StoreRow, vars, socketVars, storeVars
  <2> QED
    BY <1>s, <2>1 DEF FramesStored, FramesAt
<1>3. ASSUME NEW d \in Devices, DeviceNext(d) PROVE FramesAt(d)'
  <2>t. FramesAt(d)
    BY DEF FramesStored
  <2>1. CASE \/ Rotate(d) \/ Admit(d) \/ ReceivePull(d) \/ ReceiveSubscribe(d) \/ PullFails(d)
             \/ Connect(d) \/ Reconcile(d) \/ Wake(d) \/ ApplyMerge(d)
    <3>1. UNCHANGED <<ring, inbox, live>>
      BY <2>1 DEF Rotate, Admit, ReceivePull, ReceiveSubscribe, PullFails, Connect, Reconcile, Wake,
         ApplyMerge, socketVars, storeVars
    <3> QED
      BY <1>k, <2>t, <3>1 DEF FramesAt
  <2>2. CASE FetchPage(d)
    <3>1. Page(from[d]) \in Seq(Updates) /\ Range(Page(from[d])) \subseteq Log!Stored
      BY <1>t, PageOfRows
    <3>2. Range(inbox[d] \o Page(from[d])) = Range(inbox[d]) \cup Range(Page(from[d]))
      BY <1>t, <3>1, Extended
    <3>3. inbox'[d] = inbox[d] \o Page(from[d]) /\ UNCHANGED <<ring, live>>
      BY <1>t, <2>2 DEF FetchPage, socketVars, StoreTyped
    <3> QED
      BY <1>k, <2>t, <3>1, <3>2, <3>3 DEF FramesAt
  <2>3. CASE Forward(d)
    <3>1. /\ ring[d] # <<>> /\ ring'[d] = Tail(ring[d]) /\ UNCHANGED live
          /\ inbox'[d] = Append(inbox[d], Head(ring[d]))
      BY <1>t, <2>3 DEF Forward, SocketTyped, StoreTyped
    <3>2. /\ Head(ring[d]) \in Updates
          /\ Range(ring[d]) = Range(Tail(ring[d])) \cup {Head(ring[d])}
      BY <1>t, <3>1, Dequeued
    <3>3. Range(Append(inbox[d], Head(ring[d]))) = Range(inbox[d]) \cup {Head(ring[d])}
      BY <1>t, <3>2, Appended
    <3> QED
      BY <1>k, <2>t, <3>1, <3>2, <3>3 DEF FramesAt
  <2>4. CASE ConnectFails(d) \/ LagClose(d) \/ SocketDrops(d)
    <3>1. ring'[d] = <<>> /\ live'[d] = {} /\ UNCHANGED inbox
      BY <1>t, <2>4 DEF ConnectFails, LagClose, SocketDrops, CloseSocket, Detach, SocketTyped,
         storeVars
    <3>2. Range(<<>>) = {}
      BY DEF Range
    <3> QED
      BY <1>k, <2>t, <3>1, <3>2 DEF FramesAt
  <2>5. CASE Restart(d)
    <3>1. ring'[d] = <<>> /\ live'[d] = {} /\ inbox'[d] = <<>>
      BY <1>t, <2>5 DEF Restart, Detach, SocketTyped, StoreTyped
    <3>2. Range(<<>>) = {}
      BY DEF Range
    <3> QED
      BY <1>k, <3>1, <3>2
  <2>6. ASSUME inbox[d] # <<>>, Taken(d), UNCHANGED <<ring, live>> PROVE FramesAt(d)'
    <3>1. inbox'[d] = Tail(inbox[d])
      BY <1>t, <2>6 DEF Taken, StoreTyped
    <3>2. Range(Tail(inbox[d])) \subseteq Range(inbox[d])
      BY <1>t, <2>6, Dequeued
    <3> QED
      BY <1>k, <2>6, <2>t, <3>1, <3>2 DEF FramesAt
  <2>7. CASE ApplyOwn(d) \/ ApplySkip(d)
    BY <2>6, <2>7 DEF ApplyOwn, ApplySkip, socketVars
  <2>8. CASE ApplyAdvance(d)
    BY <2>6, <2>8 DEF ApplyAdvance, HeadInHand, HeadAt, socketVars
  <2> QED
    BY <1>3, <2>1, <2>2, <2>3, <2>4, <2>5, <2>7, <2>8 DEF DeviceNext, Apply
<1>4. ASSUME NEW d \in Devices, DeviceNext(d) PROVE FramesStored'
  <2>1. ASSUME NEW e \in Devices PROVE FramesAt(e)'
    <3>1. CASE e = d
      BY <1>3, <1>4, <3>1
    <3>2. CASE e # d
      <4>1. ring'[e] = ring[e] /\ inbox'[e] = inbox[e] /\ live'[e] = live[e]
        BY <1>4, <3>2, OnlyHere
      <4> QED
        BY <1>k, <4>1 DEF FramesStored, FramesAt
    <3> QED
      BY <3>1, <3>2
  <2> QED
    BY <2>1 DEF FramesStored
<1> QED
  BY <1>1, <1>2, <1>4 DEF Next, ServerNext

\* New frames go behind the head; while it is in hand no other apply runs.
LEMMA HeadStep ==
  ASSUME TypeOK, LogSound, HeadInHand, [Next]_vars
  PROVE  HeadInHand'
<1>t. /\ StoreTyped /\ ServerTyped /\ from \in [Devices -> 0..MaxSeq]
      /\ \A d \in Devices : ring[d] \in Seq(Updates) /\ inbox[d] \in Seq(Updates)
  BY DEF TypeOK, EngineTyped, SocketTyped, StoreTyped
<1>1. ASSUME ServerNext \/ UNCHANGED vars PROVE HeadInHand'
  <2>1. UNCHANGED storeVars
    BY <1>1 DEF ServerNext, Allocate, StoreRow, Publish, Republish, vars
  <2> QED
    BY <2>1 DEF HeadInHand, HeadAt, Readable, HasDek, KnowsAuthor, storeVars
<1>2. ASSUME NEW d \in Devices, DeviceNext(d) PROVE HeadAt(d)'
  <2>t. HeadAt(d)
    BY DEF HeadInHand
  <2>1. CASE \/ ReceivePull(d) \/ ReceiveSubscribe(d) \/ PullFails(d) \/ Connect(d)
             \/ ConnectFails(d) \/ LagClose(d) \/ SocketDrops(d) \/ Reconcile(d) \/ Wake(d)
    <3>1. UNCHANGED storeVars
      BY <2>1 DEF ReceivePull, ReceiveSubscribe, PullFails, Connect, ConnectFails, LagClose,
         SocketDrops, Reconcile, Wake
    <3> QED
      BY <2>t, <3>1 DEF HeadAt, Own, Readable, HasDek, KnowsAuthor, storeVars
  <2>2. CASE Rotate(d) \/ Admit(d)
    <3>1. ~applying[d] /\ UNCHANGED applying
      BY <2>2 DEF Rotate, Admit
    <3> QED
      BY <3>1 DEF HeadAt
  <2>3. ASSUME NEW q, inbox'[d] = q, inbox[d] # <<>> => q # <<>> /\ Head(q) = Head(inbox[d]),
               UNCHANGED <<merged, applying, keys, known>>
        PROVE  HeadAt(d)'
    BY <2>3, <2>t DEF HeadAt, Own, Readable, HasDek, KnowsAuthor
  <2>4. CASE FetchPage(d)
    <3>1. Page(from[d]) \in Seq(Updates)
      BY <1>t, PageOfRows
    <3>2. inbox'[d] = inbox[d] \o Page(from[d]) /\ UNCHANGED <<merged, applying, keys, known>>
      BY <1>t, <2>4 DEF FetchPage, StoreTyped
    <3>3. inbox[d] # <<>> => /\ inbox[d] \o Page(from[d]) # <<>>
                             /\ Head(inbox[d] \o Page(from[d])) = Head(inbox[d])
      BY <1>t, <3>1, Extended
    <3> QED
      BY <2>3, <3>2, <3>3
  <2>5. CASE Forward(d)
    <3>1. /\ ring[d] # <<>> /\ inbox'[d] = Append(inbox[d], Head(ring[d]))
          /\ UNCHANGED <<merged, applying, keys, known>>
      BY <1>t, <2>5 DEF Forward, StoreTyped
    <3>2. Head(ring[d]) \in Updates
      BY <1>t, <3>1, Dequeued
    <3>3. inbox[d] # <<>> => /\ Append(inbox[d], Head(ring[d])) # <<>>
                             /\ Head(Append(inbox[d], Head(ring[d]))) = Head(inbox[d])
      BY <1>t, <3>2, Appended
    <3> QED
      BY <2>3, <3>1, <3>3
  <2>6. CASE ApplyOwn(d)
    <3>1. ~applying[d] /\ UNCHANGED applying
      BY <2>t, <2>6 DEF ApplyOwn, HeadAt
    <3> QED
      BY <3>1 DEF HeadAt
  <2>7. CASE ApplySkip(d)
    <3>1. ~applying[d] /\ UNCHANGED applying
      BY <2>t, <2>7 DEF ApplySkip, HeadAt
    <3> QED
      BY <3>1 DEF HeadAt
  <2>8. CASE ApplyMerge(d)
    <3>1. merged'[d] = merged[d] \cup {Head(inbox[d])} /\ UNCHANGED <<inbox, keys, known>>
      BY <1>t, <2>8 DEF ApplyMerge, StoreTyped
    <3> QED
      BY <2>8, <3>1 DEF ApplyMerge, HeadAt, Own, Readable, HasDek, KnowsAuthor
  <2>9. CASE ApplyAdvance(d) \/ Restart(d)
    <3>1. ~applying'[d]
      BY <1>t, <2>9 DEF ApplyAdvance, Restart, StoreTyped
    <3> QED
      BY <3>1 DEF HeadAt
  <2> QED
    BY <1>2, <2>1, <2>2, <2>4, <2>5, <2>6, <2>7, <2>8, <2>9 DEF DeviceNext, Apply
<1>3. ASSUME NEW d \in Devices, DeviceNext(d) PROVE HeadInHand'
  <2>1. ASSUME NEW e \in Devices PROVE HeadAt(e)'
    <3>1. CASE e = d
      BY <1>2, <1>3, <3>1
    <3>2. CASE e # d
      <4>1. /\ inbox'[e] = inbox[e] /\ merged'[e] = merged[e]
            /\ applying'[e] = applying[e] /\ keys'[e] = keys[e] /\ known'[e] = known[e]
        BY <1>3, <3>2, OnlyHere
      <4> QED
        BY <4>1 DEF HeadInHand, HeadAt, Own, Readable, HasDek, KnowsAuthor
    <3> QED
      BY <3>1, <3>2
  <2> QED
    BY <2>1 DEF HeadInHand
<1> QED
  BY <1>1, <1>3 DEF Next

\* The chain is passed on: a Subscribe becomes a task, and only the end of the
\* task's pause queues another.
LEMMA ChainStep ==
  ASSUME TypeOK, OneChain, [Next]_vars
  PROVE  OneChain'
<1> DEFINE Words == {"Pull", "Subscribe"}
<1>t. /\ commands \in [Devices -> Seq(Words)] /\ socket \in [Devices -> SocketStates]
      /\ \A d \in Devices : commands[d] \in Seq(Words)
  BY DEF TypeOK, EngineTyped, SocketTyped
<1>1. ASSUME ServerNext \/ UNCHANGED vars PROVE OneChain'
  <2>1. UNCHANGED <<commands, socket>>
    BY <1>1 DEF ServerNext, Allocate, StoreRow, Publish, Republish, vars,
       socketVars, engineVars
  <2> QED
    BY <2>1 DEF OneChain, ChainAt
<1>2. ASSUME NEW d \in Devices, DeviceNext(d) PROVE ChainAt(d)'
  <2>t. ChainAt(d) /\ "Pull" \in Words /\ "Subscribe" \in Words
    BY DEF OneChain
  <2>1. CASE \/ Rotate(d) \/ Admit(d) \/ FetchPage(d) \/ PullFails(d) \/ Forward(d) \/ Apply(d)
    <3>1. UNCHANGED <<commands, socket>>
      BY <2>1 DEF Rotate, Admit, FetchPage, PullFails, Forward, Apply, ApplyOwn, ApplySkip,
         ApplyMerge, ApplyAdvance, socketVars, engineVars
    <3> QED
      BY <2>t, <3>1 DEF ChainAt
  <2>2. CASE Connect(d) \/ ConnectFails(d) \/ LagClose(d) \/ SocketDrops(d)
    <3>1. UNCHANGED commands /\ socket[d] # "off"
      BY <2>2 DEF Connect, ConnectFails, LagClose, SocketDrops, engineVars
    <3> QED
      BY <2>t, <3>1 DEF ChainAt
  <2>3. CASE ReceivePull(d)
    <3>1. commands[d] # <<>> /\ commands'[d] = Tail(commands[d]) /\ UNCHANGED socket
      BY <1>t, <2>3 DEF ReceivePull, socketVars
    <3>2. Range(Tail(commands[d])) \subseteq Range(commands[d])
      BY <1>t, <3>1, Dequeued
    <3>3. Lone(Tail(commands[d]))
      BY <1>t, <2>t, <3>1, LoneDequeued DEF ChainAt
    <3> QED
      BY <2>t, <3>1, <3>2, <3>3 DEF ChainAt
  <2>4. CASE ReceiveSubscribe(d)
    <3>1. /\ commands[d] # <<>> /\ commands'[d] = Tail(commands[d])
          /\ Head(commands[d]) = "Subscribe"
      BY <1>t, <2>4 DEF ReceiveSubscribe
    <3>2. Lone(Tail(commands[d])) /\ "Subscribe" \notin Range(Tail(commands[d]))
      BY <1>t, <2>t, <3>1, LoneDequeued DEF ChainAt
    <3> QED
      BY <3>1, <3>2 DEF ChainAt
  <2>5. CASE Reconcile(d)
    <3>1. commands'[d] = Append(commands[d], "Pull") /\ socket[d] # "off"
      BY <1>t, <2>5 DEF Reconcile
    <3>2. Range(Append(commands[d], "Pull")) = Range(commands[d]) \cup {"Pull"}
      BY <1>t, <2>t, Appended
    <3>3. Lone(Append(commands[d], "Pull"))
      BY <1>t, <2>t, LoneAppended DEF ChainAt
    <3> QED
      BY <2>t, <3>1, <3>2, <3>3 DEF ChainAt
  <2>6. CASE Wake(d)
    <3>1. /\ commands'[d] = Append(commands[d], "Subscribe") /\ socket[d] # "off"
          /\ socket'[d] = "off"
      BY <1>t, <2>6 DEF Wake
    <3>2. Lone(Append(commands[d], "Subscribe"))
      BY <1>t, <2>t, <3>1, LoneAppended DEF ChainAt
    <3> QED
      BY <3>1, <3>2 DEF ChainAt
  <2>7. CASE Restart(d)
    <3>1. socket'[d] = "off" /\ commands'[d] \in {Discovery, <<>>}
      BY <1>t, <2>7 DEF Restart
    <3>2. Lone(Discovery) /\ Lone(<<>>)
      BY DEF Discovery, Lone
    <3> QED
      BY <3>1, <3>2 DEF ChainAt
  <2> QED
    BY <1>2, <2>1, <2>2, <2>3, <2>4, <2>5, <2>6, <2>7 DEF DeviceNext
<1>3. ASSUME NEW d \in Devices, DeviceNext(d) PROVE OneChain'
  <2>1. ASSUME NEW e \in Devices PROVE ChainAt(e)'
    <3>1. CASE e = d
      BY <1>2, <1>3, <3>1
    <3>2. CASE e # d
      <4>1. commands'[e] = commands[e] /\ socket'[e] = socket[e]
        BY <1>3, <3>2, OnlyHere
      <4> QED
        BY <4>1 DEF OneChain, ChainAt
    <3> QED
      BY <3>1, <3>2
  <2> QED
    BY <2>1 DEF OneChain
<1> QED
  BY <1>1, <1>3 DEF Next

\* What keeps a merged update from being fetched again.
Covered(d, u) ==
    \/ Own(d, u)
    \/ place[u] # 0 /\ place[u] <= cursor[d]
    \/ applying[d] /\ u = Head(inbox[d])
    \/ u \in torn[d]

\* The update in hand is covered by its own place as soon as the cursor has
\* been offered it, and by the history of torn ones if the process ends first.
LEMMA BehindStep ==
  ASSUME TypeOK, LogSound, FramesStored, HeadInHand, MergedBehindCursor, [Next]_vars
  PROVE  MergedBehindCursor'
<1>t. /\ StoreTyped /\ ServerTyped /\ from \in [Devices -> 0..MaxSeq]
      /\ \A d \in Devices : ring[d] \in Seq(Updates) /\ inbox[d] \in Seq(Updates)
      /\ \A d \in Devices : cursor[d] \in Nat /\ merged[d] \subseteq Updates
      /\ \A u \in Updates : place[u] \in Nat
  BY DownloadAssumption DEF TypeOK, EngineTyped, SocketTyped, ServerTyped, StoreTyped
<1>p. \A u \in Updates : place[u] # 0 => place'[u] = place[u]
  BY PlacesStay DEF Log!Stored
<1>c. \A d \in Devices : \A u \in merged[d] : Covered(d, u)
  BY DEF MergedBehindCursor, Covered
<1>1. ASSUME ServerNext \/ UNCHANGED vars PROVE MergedBehindCursor'
  <2>1. UNCHANGED storeVars
    BY <1>1 DEF ServerNext, Allocate, StoreRow, Publish, Republish, vars
  <2>2. ASSUME NEW d \in Devices, NEW u \in merged[d] PROVE Covered(d, u)'
    BY <1>t, <1>p, <1>c, <2>1, <2>2 DEF Covered, Own, storeVars
  <2> QED
    BY <2>1, <2>2 DEF MergedBehindCursor, Covered, storeVars
<1>2. ASSUME NEW d \in Devices, DeviceNext(d), NEW u \in merged'[d] PROVE Covered(d, u)'
  <2>1. ASSUME UNCHANGED <<cursor, merged, applying, torn>>,
               applying[d] => Head(inbox'[d]) = Head(inbox[d])
        PROVE  Covered(d, u)'
    BY <1>t, <1>p, <1>c, <1>2, <2>1 DEF Covered, Own
  <2>2. CASE \/ Rotate(d) \/ Admit(d) \/ ReceivePull(d) \/ ReceiveSubscribe(d) \/ PullFails(d) \/ Connect(d)
             \/ ConnectFails(d) \/ LagClose(d) \/ SocketDrops(d) \/ Reconcile(d) \/ Wake(d)
    <3>1. UNCHANGED <<inbox, cursor, merged, applying, torn>>
      BY <2>2 DEF Rotate, Admit, ReceivePull, ReceiveSubscribe, PullFails, Connect, ConnectFails,
         LagClose, SocketDrops, Reconcile, Wake, storeVars
    <3> QED
      BY <2>1, <3>1
  <2>3. CASE FetchPage(d)
    <3>1. Page(from[d]) \in Seq(Updates)
      BY <1>t, PageOfRows
    <3>2. /\ inbox'[d] = inbox[d] \o Page(from[d])
          /\ UNCHANGED <<cursor, merged, applying, torn>>
      BY <1>t, <2>3 DEF FetchPage, StoreTyped
    <3>3. inbox[d] # <<>> => Head(inbox[d] \o Page(from[d])) = Head(inbox[d])
      BY <1>t, <3>1, Extended
    <3> QED
      BY <2>1, <3>2, <3>3 DEF HeadInHand, HeadAt
  <2>4. CASE Forward(d)
    <3>1. /\ ring[d] # <<>> /\ inbox'[d] = Append(inbox[d], Head(ring[d]))
          /\ UNCHANGED <<cursor, merged, applying, torn>>
      BY <1>t, <2>4 DEF Forward, StoreTyped
    <3>2. Head(ring[d]) \in Updates
      BY <1>t, <3>1, Dequeued
    <3>3. inbox[d] # <<>> => Head(Append(inbox[d], Head(ring[d]))) = Head(inbox[d])
      BY <1>t, <3>2, Appended
    <3> QED
      BY <2>1, <3>1, <3>3 DEF HeadInHand, HeadAt
  <2>5. ASSUME ~applying[d], Advance(d, Head(inbox[d])) \/ UNCHANGED cursor,
               inbox[d] # <<>>, UNCHANGED <<place, merged, applying, torn>>
        PROVE  Covered(d, u)'
    <3>1. Head(inbox[d]) \in Updates
      BY <1>t, <2>5, Dequeued
    <3>2. cursor'[d] \in Nat /\ cursor[d] <= cursor'[d]
      BY <1>t, <2>5, <3>1 DEF Advance, StoreTyped
    <3>3. u \in Updates /\ Covered(d, u)
      BY <1>t, <1>c, <1>2, <2>5
    <3> QED
      BY <1>t, <2>5, <3>2, <3>3 DEF Covered, Own
  <2>6. CASE ApplyOwn(d)
    <3>1. ~applying[d]
      BY <2>6 DEF ApplyOwn, HeadInHand, HeadAt
    <3> QED
      BY <2>5, <2>6, <3>1 DEF ApplyOwn, serverVars
  <2>7. CASE ApplySkip(d)
    <3>1. ~applying[d]
      BY <2>7 DEF ApplySkip, HeadInHand, HeadAt
    <3> QED
      BY <2>5, <2>7, <3>1 DEF ApplySkip, serverVars
  <2>8. CASE ApplyMerge(d)
    <3>1. /\ ~applying[d] /\ applying'[d]
          /\ merged'[d] = merged[d] \cup {Head(inbox[d])}
          /\ UNCHANGED <<place, inbox, cursor, torn>>
      BY <1>t, <2>8 DEF ApplyMerge, StoreTyped, serverVars
    <3>2. CASE u = Head(inbox[d])
      BY <3>1, <3>2 DEF Covered
    <3>3. CASE u \in merged[d]
      BY <1>c, <3>1, <3>3 DEF Covered, Own
    <3> QED
      BY <1>2, <3>1, <3>2, <3>3
  <2>9. CASE ApplyAdvance(d)
    <3>1. /\ applying[d] /\ Advance(d, Head(inbox[d]))
          /\ UNCHANGED <<place, merged, torn>>
      BY <2>9 DEF ApplyAdvance, serverVars
    <3>2. /\ Head(inbox[d]) \in Updates
          /\ Head(inbox[d]) \in Range(inbox[d])
      BY <1>t, <3>1, Dequeued DEF HeadInHand, HeadAt
    <3>3. place[Head(inbox[d])] # 0
      BY <3>2 DEF FramesStored, FramesAt, Log!Stored
    <3>4. /\ cursor'[d] \in Nat /\ cursor[d] <= cursor'[d]
          /\ place[Head(inbox[d])] <= cursor'[d]
      BY <1>t, <3>1, <3>2 DEF Advance, StoreTyped
    <3>5. u \in Updates /\ Covered(d, u)
      BY <1>t, <1>c, <1>2, <3>1
    <3> QED
      BY <1>t, <3>1, <3>3, <3>4, <3>5 DEF Covered, Own
  <2>10. CASE Restart(d)
    <3>1. /\ UNCHANGED <<place, cursor, merged>>
          /\ torn[d] \subseteq torn'[d]
          /\ applying[d] => Head(inbox[d]) \in torn'[d]
      BY <1>t, <2>10 DEF Restart, StoreTyped, serverVars
    <3> QED
      BY <1>2, <1>c, <3>1 DEF Covered, Own
  <2> QED
    BY <1>2, <2>2, <2>3, <2>4, <2>6, <2>7, <2>8, <2>9, <2>10 DEF DeviceNext, Apply
<1>3. ASSUME NEW d \in Devices, DeviceNext(d) PROVE MergedBehindCursor'
  <2>1. ASSUME NEW e \in Devices, NEW u \in merged'[e] PROVE Covered(e, u)'
    <3>1. CASE e = d
      BY <1>2, <1>3, <2>1, <3>1
    <3>2. CASE e # d
      <4>1. /\ inbox'[e] = inbox[e] /\ cursor'[e] = cursor[e] /\ merged'[e] = merged[e]
            /\ applying'[e] = applying[e] /\ torn'[e] = torn[e]
        BY <1>3, <3>2, OnlyHere
      <4>2. u \in Updates /\ Covered(e, u)
        BY <1>t, <1>c, <2>1, <4>1
      <4> QED
        BY <1>t, <1>p, <4>1, <4>2 DEF Covered, Own
    <3> QED
      BY <3>1, <3>2
  <2> QED
    BY <2>1 DEF MergedBehindCursor, Covered
<1> QED
  BY <1>1, <1>3 DEF Next

\* Where an update published to d's open socket may be.
Kept(d, u) ==
    \/ lagged[d]
    \/ u \in Range(ring[d])
    \/ u \in Range(inbox[d])
    \/ u \in merged[d]
    \/ Own(d, u)
    \/ u \in skipped[d]

LEMMA LiveIsKept ==
  LiveNotDropped <=> \A d \in Devices : \A u \in live[d] : Kept(d, u)
<1>1. \A d \in Devices : \A u \in live[d] :
         /\ (\E i \in DOMAIN ring[d] : ring[d][i] = u) <=> u \in Range(ring[d])
         /\ (\E i \in DOMAIN inbox[d] : inbox[d][i] = u) <=> u \in Range(inbox[d])
  BY DEF Range
<1> QED
  BY <1>1 DEF LiveNotDropped, Kept

\* A frame moves from the ring to the channel and from there to the document, or
\* to the updates that were skipped.
LEMMA LiveStep ==
  ASSUME TypeOK, LogSound, FramesStored, HeadInHand, LiveNotDropped, [Next]_vars
  PROVE  LiveNotDropped'
<1>t. /\ SocketTyped /\ StoreTyped /\ ServerTyped /\ from \in [Devices -> 0..MaxSeq]
      /\ \A d \in Devices : ring[d] \in Seq(Updates) /\ inbox[d] \in Seq(Updates)
      /\ \A d \in Devices : live[d] \subseteq Updates
  BY DEF TypeOK, EngineTyped, SocketTyped, ServerTyped, StoreTyped
<1>k. \A d \in Devices : \A u \in live[d] : Kept(d, u)
  BY LiveIsKept
<1>l. SUFFICES ASSUME NEW e \in Devices, NEW u \in live'[e] PROVE Kept(e, u)'
  <2>1. (LiveNotDropped <=> \A d \in Devices : \A u \in live[d] : Kept(d, u))'
    BY LiveIsKept, PTL
  <2> QED
    BY <2>1
<1>1. ASSUME NEW v \in Updates, Publish(v) \/ Republish(v) PROVE Kept(e, u)'
  <2>1. Broadcast(v) /\ UNCHANGED storeVars
    BY <1>1 DEF Publish, Republish
  <2>2. Spread(e, v)
    BY <1>t, <2>1, BroadcastStep
  <2>3. lagged'[e] \/ u \in live[e] \/ u \in Range(ring'[e])
    BY <1>l, <2>2 DEF Spread
  <2>4. u \in live[e] => Kept(e, u)
    BY <1>k
  <2> QED
    BY <2>1, <2>2, <2>3, <2>4 DEF Kept, Own, Spread, storeVars
<1>2. ASSUME \/ Allocate \/ (\E v \in Updates : StoreRow(v)) \/ UNCHANGED vars
      PROVE  Kept(e, u)'
  <2>1. UNCHANGED <<lagged, ring, live, inbox, merged, skipped>>
    BY <1>2 DEF Allocate, StoreRow, vars, socketVars, storeVars
  <2> QED
    BY <1>k, <1>l, <2>1 DEF Kept, Own
<1>3. ASSUME NEW d \in Devices, DeviceNext(d), e # d PROVE Kept(e, u)'
  <2>1. /\ ring'[e] = ring[e] /\ lagged'[e] = lagged[e] /\ live'[e] = live[e]
        /\ inbox'[e] = inbox[e] /\ merged'[e] = merged[e] /\ skipped'[e] = skipped[e]
    BY <1>3, OnlyHere
  <2> QED
    BY <1>k, <1>l, <2>1 DEF Kept, Own
<1>4. ASSUME DeviceNext(e) PROVE Kept(e, u)'
  <2>1. CASE \/ Rotate(e) \/ Admit(e) \/ ReceivePull(e) \/ ReceiveSubscribe(e) \/ PullFails(e) \/ Connect(e)
             \/ Reconcile(e) \/ Wake(e)
    <3>1. UNCHANGED <<lagged, ring, live, inbox, merged, skipped>>
      BY <2>1 DEF Rotate, Admit, ReceivePull, ReceiveSubscribe, PullFails, Connect, Reconcile, Wake,
         socketVars, storeVars
    <3> QED
      BY <1>k, <1>l, <3>1 DEF Kept, Own
  <2>3. CASE FetchPage(e)
    <3>1. Page(from[e]) \in Seq(Updates)
      BY <1>t, PageOfRows
    <3>2. /\ inbox'[e] = inbox[e] \o Page(from[e])
          /\ UNCHANGED <<lagged, ring, live, merged, skipped>>
      BY <1>t, <2>3 DEF FetchPage, StoreTyped, socketVars
    <3>3. Range(inbox[e]) \subseteq Range(inbox[e] \o Page(from[e]))
      BY <1>t, <3>1, Extended
    <3> QED
      BY <1>k, <1>l, <3>2, <3>3 DEF Kept, Own
  <2>4. CASE Forward(e)
    <3>1. /\ ring[e] # <<>> /\ ring'[e] = Tail(ring[e])
          /\ inbox'[e] = Append(inbox[e], Head(ring[e]))
          /\ UNCHANGED <<lagged, live, merged, skipped>>
      BY <1>t, <2>4 DEF Forward, SocketTyped, StoreTyped
    <3>2. /\ Head(ring[e]) \in Updates
          /\ Range(ring[e]) = Range(Tail(ring[e])) \cup {Head(ring[e])}
      BY <1>t, <3>1, Dequeued
    <3>3. Range(Append(inbox[e], Head(ring[e]))) = Range(inbox[e]) \cup {Head(ring[e])}
      BY <1>t, <3>2, Appended
    <3> QED
      BY <1>k, <1>l, <3>1, <3>2, <3>3 DEF Kept, Own
  <2>5. CASE ConnectFails(e) \/ LagClose(e) \/ SocketDrops(e) \/ Restart(e)
    <3>1. live'[e] = {}
      BY <1>t, <2>5 DEF ConnectFails, LagClose, SocketDrops, CloseSocket, Restart, Detach,
         SocketTyped
    <3> QED
      BY <1>l, <3>1
  <2>6. ASSUME inbox[e] # <<>>, Taken(e), UNCHANGED <<lagged, ring, live, merged>>,
               skipped[e] \subseteq skipped'[e],
               \/ Own(e, Head(inbox[e])) \/ Head(inbox[e]) \in skipped'[e]
               \/ Head(inbox[e]) \in merged[e]
        PROVE  Kept(e, u)'
    <3>1. inbox'[e] = Tail(inbox[e])
      BY <1>t, <2>6 DEF Taken, StoreTyped
    <3>2. Range(inbox[e]) = Range(Tail(inbox[e])) \cup {Head(inbox[e])}
      BY <1>t, <2>6, Dequeued
    <3>3. Kept(e, u)
      BY <1>k, <1>l, <2>6
    <3> QED
      BY <2>6, <3>1, <3>2, <3>3 DEF Kept, Own
  <2>2. CASE ApplyOwn(e)
    BY <2>2, <2>6 DEF ApplyOwn, socketVars
  <2>7. CASE ApplySkip(e)
    <3>1. skipped'[e] = skipped[e] \cup {Head(inbox[e])}
      BY <1>t, <2>7 DEF ApplySkip, StoreTyped
    <3> QED
      BY <2>6, <2>7, <3>1 DEF ApplySkip, socketVars
  <2>8. CASE ApplyAdvance(e)
    BY <2>6, <2>8 DEF ApplyAdvance, HeadInHand, HeadAt, socketVars
  <2>9. CASE ApplyMerge(e)
    <3>1. /\ UNCHANGED <<lagged, ring, live, inbox, skipped>>
          /\ merged[e] \subseteq merged'[e]
      BY <1>t, <2>9 DEF ApplyMerge, StoreTyped, socketVars
    <3> QED
      BY <1>k, <1>l, <3>1 DEF Kept, Own
  <2> QED
    BY <1>4, <2>1, <2>2, <2>3, <2>4, <2>5, <2>7, <2>8, <2>9 DEF DeviceNext, Apply
<1> QED
  BY <1>1, <1>2, <1>3, <1>4 DEF Next, ServerNext

-----------------------------------------------------------------------------
(* Theorems                                                                *)

LEMMA DownloadInvInit ==
  ASSUME Init
  PROVE  DownloadInv
<1> USE DownloadAssumption DEF Init
<1>1. /\ place = [u \in Updates |-> 0] /\ top = 0
  BY DEF Log!LogInit
<1>2. ServerTyped
  BY <1>1 DEF ServerTyped
<1>3. SocketTyped
  <2>1. <<>> \in Seq(Updates) /\ Len(<<>>) = 0
    OBVIOUS
  <2> QED
    BY <2>1 DEF SocketTyped, SocketStates
<1>4. EngineTyped
  <2>1. Discovery \in Seq({"Pull", "Subscribe"})
    BY DEF Discovery
  <2> QED
    BY <2>1 DEF EngineTyped
<1>5. StoreTyped
  BY DEF StoreTyped, Written
<1>6. TypeOK
  BY <1>2, <1>3, <1>4, <1>5 DEF TypeOK
<1>7. LogSound
  BY <1>1 DEF LogSound, Log!Stored
<1>8. FramesStored
  BY DEF FramesStored, FramesAt, Range
<1>9. HeadInHand
  BY DEF HeadInHand, HeadAt
<1>10. OneChain
  BY DEF OneChain, ChainAt, Lone, Discovery
<1>11. MergedBehindCursor
  BY DEF MergedBehindCursor, Written, Own
<1>12. LiveNotDropped
  BY DEF LiveNotDropped
<1> QED
  BY <1>6, <1>7, <1>8, <1>9, <1>10, <1>11, <1>12 DEF DownloadInv

LEMMA DownloadInvStep ==
  ASSUME DownloadInv, [Next]_vars
  PROVE  DownloadInv'
<1> USE DEF DownloadInv
<1>1. TypeOK' /\ LogSound'
  BY TypeStep, LogStep
<1>2. FramesStored' /\ HeadInHand' /\ OneChain'
  BY FramesStep, HeadStep, ChainStep
<1>3. MergedBehindCursor' /\ LiveNotDropped'
  BY BehindStep, LiveStep
<1> QED
  BY <1>1, <1>2, <1>3

\* The inductive invariant: a number carries one row, what
\* travels to a device is stored, the update between its two writes is at the
\* head of the channel, and the chain of subscriptions has one link.
THEOREM DownloadIsInvariant == Spec => []DownloadInv
<1>1. Init => DownloadInv
  BY DownloadInvInit
<1>2. DownloadInv /\ [Next]_vars => DownloadInv'
  BY DownloadInvStep
<1> QED
  BY <1>1, <1>2, PTL DEF Spec

\* The tables, channels and task states keep their types, and no ring ever
\* holds more than CHANNEL_CAPACITY frames.
THEOREM DownloadTypeCorrect == Spec => []TypeOK
<1>1. DownloadInv => TypeOK
  BY DEF DownloadInv
<1> QED
  BY <1>1, DownloadIsInvariant, PTL

\* However pages and frames interleave, whatever a document took from the
\* server is behind the cursor, in hand, or was torn by a process exit.
THEOREM MergedIsBehind == Spec => []MergedBehindCursor
<1>1. DownloadInv => MergedBehindCursor
  BY DEF DownloadInv
<1> QED
  BY <1>1, DownloadIsInvariant, PTL

\* A socket that stays open without lagging has carried every update published
\* to it as far as the store actor, which has merged it or found it unreadable.
THEOREM LiveFramesKept == Spec => []LiveNotDropped
<1>1. DownloadInv => LiveNotDropped
  BY DEF DownloadInv
<1> QED
  BY <1>1, DownloadIsInvariant, PTL

\* A device has at most one subscription for the list, queued or running.
THEOREM SubscribesOnce == Spec => []OneSubscription
<1>1. DownloadInv => OneSubscription
  <2> SUFFICES ASSUME DownloadInv, NEW d \in Devices PROVE Subscriptions(d) <= 1
    BY DEF OneSubscription
  <2> DEFINE asked == {i \in DOMAIN commands[d] : commands[d][i] = "Subscribe"}
  <2>1. ChainAt(d)
    BY DEF DownloadInv, OneChain
  <2>2. Subscriptions(d) = Cardinality(asked) + (IF socket[d] = "off" THEN 0 ELSE 1)
    BY DEF Subscriptions
  <2>3. asked = {} \/ \E i \in asked : asked = {i}
    BY <2>1 DEF ChainAt, Lone
  <2>4. socket[d] # "off" => asked = {}
    BY <2>1 DEF ChainAt, Range
  <2> HIDE DEF asked
  <2>5. CASE asked = {}
    BY <2>2, <2>5, FS_EmptySet
  <2>6. CASE \E i \in asked : asked = {i}
    <3>1. Cardinality(asked) = 1
      BY <2>6, FS_Singleton
    <3>2. socket[d] = "off"
      BY <2>4, <2>6
    <3> QED
      BY <2>2, <3>1, <3>2
  <2> QED
    BY <2>3, <2>5, <2>6
<1> QED
  BY <1>1, DownloadIsInvariant, PTL
=============================================================================
