--------------------------- MODULE MembershipProofs ---------------------------
(***************************************************************************)
(* Theorems about Membership, for any accounts, devices and initial        *)
(* members: its types, and, where one device of the owner does all sharing *)
(* (SoleAdmin), that the members can read and nobody else is handed a key. *)
(***************************************************************************)
EXTENDS Membership, SequenceTheorems, TLAPS

-----------------------------------------------------------------------------
(* Facts about the channels between the tasks                              *)

\* Appending adds an element, and keeps the head of a channel that has one.
LEMMA Appended ==
  ASSUME NEW S, NEW s \in Seq(S), NEW e \in S
  PROVE  /\ Append(s, e) \in Seq(S)
         /\ Append(s, e) # <<>>
         /\ Len(Append(s, e)) = Len(s) + 1
         /\ Range(Append(s, e)) = Range(s) \cup {e}
         /\ s # <<>> => Head(Append(s, e)) = Head(s)
<1>1. Append(s, e) = s \o <<e>> /\ <<e>> \in Seq(S) /\ Range(<<e>>) = {e}
  <2>1. <<e>> \in Seq(S) /\ DOMAIN <<e>> = {1} /\ <<e>>[1] = e
    OBVIOUS
  <2> QED
    BY <2>1, AppendIsConcat DEF Range
<1>2. Range(s \o <<e>>) = Range(s) \cup Range(<<e>>)
  BY <1>1, RangeConcatenation, Zenon
<1> QED
  BY <1>1, <1>2, AppendProperties, HeadTailAppend

\* Taking the head leaves the rest.
LEMMA Dequeued ==
  ASSUME NEW S, NEW s \in Seq(S), s # <<>>
  PROVE  /\ Tail(s) \in Seq(S)
         /\ Head(s) \in S
         /\ Head(s) \in Range(s)
         /\ Len(Tail(s)) = Len(s) - 1
         /\ Range(s) = Range(Tail(s)) \cup {Head(s)}
<1>1. s = <<Head(s)>> \o Tail(s) /\ <<Head(s)>> \in Seq(S) /\ Tail(s) \in Seq(S)
  BY HeadTailProperties, EmptySeq
<1>2. Range(<<Head(s)>>) = {Head(s)}
  <2>1. DOMAIN <<Head(s)>> = {1} /\ <<Head(s)>>[1] = Head(s)
    OBVIOUS
  <2> QED
    BY <2>1 DEF Range
<1>3. Range(<<Head(s)>> \o Tail(s)) = Range(<<Head(s)>>) \cup Range(Tail(s))
  BY <1>1, RangeConcatenation, Zenon
<1>4. Range(s) = {Head(s)} \cup Range(Tail(s))
  BY <1>1, <1>2, <1>3, Zenon
<1> QED
  BY <1>4, HeadTailProperties

-----------------------------------------------------------------------------
(* The parts of the type invariant                                         *)

\* Every command may mint a DEK.
MintBounded == minted <= ops + 1

\* A rotation is only asked for where another epoch follows.
RotationsFit ==
    /\ \A d \in Devices : \A r \in Range(commands[d]) :
          r.op = "remove" => r.epoch < MaxEpoch
    /\ \A h \in handlers : h.req.op = "remove" => h.req.epoch < MaxEpoch

\* A sync that asks for members or keys has an epoch.
ProbeRead ==
    \A d \in Devices : engine[d] \in {"members", "keys"} => probe[d].epoch # 0

TypeInv == TypeOK /\ MintBounded /\ RotationsFit /\ ProbeRead

-----------------------------------------------------------------------------
(* Type correctness                                                        *)

\* What the devices' tables hold comes from commands and answers.
LEMMA StoreTyped ==
  ASSUME TypeInv, [Next]_vars
  PROVE  /\ epoch' \in [Devices -> Epochs \cup {0}]
         /\ directory' \in [Devices -> SUBSET Members]
         /\ deks' \in [Devices -> [Epochs -> Deks \cup {0}]]
         /\ minted' \in Deks
         /\ ops' \in 0..MaxOps
         /\ MintBounded'
<1> DEFINE Goal == /\ epoch' \in [Devices -> Epochs \cup {0}]
                   /\ directory' \in [Devices -> SUBSET Members]
                   /\ deks' \in [Devices -> [Epochs -> Deks \cup {0}]]
                   /\ minted' \in Deks
                   /\ ops' \in 0..MaxOps
                   /\ MintBounded'
<1>t. /\ epoch \in [Devices -> Epochs \cup {0}]
      /\ directory \in [Devices -> SUBSET Members]
      /\ deks \in [Devices -> [Epochs -> Deks \cup {0}]]
      /\ minted \in Deks /\ ops \in 0..MaxOps /\ minted <= ops + 1
      /\ \A d \in Devices : ingest[d] \in Seq(Answers)
  BY DEF TypeInv, TypeOK, MintBounded
<1>d. Deks = 1..(MaxOps + 1) /\ MaxOps \in Nat /\ MaxEpoch \in Nat
  BY MembershipAssumption DEF Deks
<1>1. ASSUME NEW d \in Devices, NEW m \in Invitees, AddMemberLocal(d, m) PROVE Goal
  <2>1. /\ UNCHANGED <<epoch, deks, minted>> /\ ops' = ops + 1 /\ ops < MaxOps
        /\ directory' = [directory EXCEPT ![d] = @ \cup {m}]
    BY <1>1 DEF AddMemberLocal, Command
  <2>2. m \in Members
    BY MembershipAssumption
  <2> QED
    BY <1>t, <1>d, <2>1, <2>2 DEF MintBounded
<1>2. ASSUME NEW d \in Devices, NEW m \in Members, RemoveMemberLocal(d, m) PROVE Goal
  <2>1. /\ ops' = ops + 1 /\ ops < MaxOps /\ epoch[d] # 0 /\ epoch[d] < MaxEpoch
        /\ minted' = minted + 1
        /\ deks' = [deks EXCEPT ![d][epoch[d] + 1] = minted + 1]
        /\ epoch' = [epoch EXCEPT ![d] = epoch[d] + 1]
        /\ directory' = [directory EXCEPT ![d] = @ \ {m}]
    BY <1>2 DEF RemoveMemberLocal, Command
  <2>2. epoch[d] + 1 \in Epochs /\ minted + 1 \in Deks
    BY <1>t, <1>d, <2>1 DEF Epochs
  <2> QED
    BY <1>t, <1>d, <2>1, <2>2 DEF MintBounded
<1>3. ASSUME NEW d \in Devices, NEW m \in Members, RemoveMemberCut(d, m) PROVE Goal
  <2>1. /\ ops' = ops + 1 /\ ops < MaxOps /\ epoch[d] # 0 /\ epoch[d] < MaxEpoch
        /\ minted' = minted + 1
        /\ deks' = [deks EXCEPT ![d][epoch[d] + 1] = minted + 1]
        /\ epoch' \in {epoch, [epoch EXCEPT ![d] = epoch[d] + 1]}
        /\ UNCHANGED directory
    BY <1>3, <1>t DEF RemoveMemberCut, Command
  <2>2. epoch[d] + 1 \in Epochs /\ minted + 1 \in Deks
    BY <1>t, <1>d, <2>1 DEF Epochs
  <2>3. epoch' \in [Devices -> Epochs \cup {0}]
    BY <1>t, <2>1, <2>2
  <2>4. deks' \in [Devices -> [Epochs -> Deks \cup {0}]]
    BY <1>t, <2>1, <2>2
  <2>5. minted' \in Deks /\ ops' \in 0..MaxOps /\ MintBounded'
    BY <1>t, <1>d, <2>1, <2>2 DEF MintBounded
  <2> QED
    BY <1>t, <2>1, <2>3, <2>4, <2>5
<1>4. ASSUME NEW d \in Devices, Ingest(d) \/ IngestCut(d) PROVE Goal
  <2> DEFINE got == Head(ingest[d])
  <2>1. got \in Answers
    BY <1>4, <1>t, Dequeued DEF Ingest, IngestCut
  <2>2. /\ got.epoch \in Epochs /\ got.members \in SUBSET Members
        /\ got.keys \in [Epochs -> Deks \cup {0}]
    BY <2>1 DEF Answers
  <2> DEFINE filled == [e \in Epochs |-> IF got.keys[e] # 0 THEN got.keys[e] ELSE deks[d][e]]
  <2>3. filled \in [Epochs -> Deks \cup {0}]
    BY <1>t, <2>2
  <2>4. /\ UNCHANGED <<minted, ops>>
        /\ epoch' = [epoch EXCEPT ![d] = got.epoch]
        /\ directory' \in {directory, [directory EXCEPT ![d] = @ \cup got.members]}
        /\ deks' \in {deks, [deks EXCEPT ![d] = filled]}
    BY <1>4, <1>t DEF Ingest, IngestCut
  <2>5. epoch' \in [Devices -> Epochs \cup {0}] /\ minted' \in Deks /\ ops' \in 0..MaxOps
    <3> HIDE DEF filled, got
    <3> QED
      BY <1>t, <2>2, <2>4
  <2>6. directory' \in [Devices -> SUBSET Members]
    <3> HIDE DEF filled, got
    <3> QED
      BY <1>t, <2>2, <2>4
  <2>7. deks' \in [Devices -> [Epochs -> Deks \cup {0}]]
    <3> HIDE DEF filled, got
    <3> QED
      BY <1>t, <2>3, <2>4
  <2> QED
    BY <1>t, <2>4, <2>5, <2>6, <2>7 DEF MintBounded
<1>5. ASSUME UNCHANGED <<storeVars, ops>> PROVE Goal
  BY <1>t, <1>5 DEF storeVars, MintBounded
<1>6. ASSUME NEW d \in Devices, EngineNext(d) \/ Restart(d) PROVE UNCHANGED <<storeVars, ops>>
  BY <1>6 DEF EngineNext, Start, Discover, ReadEpoch, ReadMembers, ReadKeys, SyncFails, Call,
     CallLost, Restart, boundVars
<1>7. ASSUME NEW h \in handlers, CheckOwner(h) \/ CommitAdd(h) \/ CommitRemove(h)
      PROVE  UNCHANGED <<storeVars, ops>>
  BY <1>7 DEF CheckOwner, CommitAdd, CommitRemove, boundVars
<1>8. UNCHANGED vars => UNCHANGED <<storeVars, ops>>
  BY DEF vars, boundVars
<1> QED
  BY <1>1, <1>2, <1>3, <1>4, <1>5, <1>6, <1>7, <1>8 DEF Next, StoreNext

\* A request is a command, and becomes a handler.
LEMMA RequestsTyped ==
  ASSUME TypeInv, [Next]_vars
  PROVE  /\ commands' \in [Devices -> Seq(Requests)]
         /\ handlers' \subseteq [from : Devices, req : Requests,
                                 pc : {"received", "checked"}, awaited : BOOLEAN]
         /\ RotationsFit'
<1> DEFINE Handlers == [from : Devices, req : Requests, pc : {"received", "checked"},
                        awaited : BOOLEAN]
           Goal == /\ commands' \in [Devices -> Seq(Requests)]
                   /\ handlers' \subseteq Handlers
                   /\ RotationsFit'
           fits(r) == r.op = "remove" => r.epoch < MaxEpoch
<1> USE MembershipAssumption
<1>t. /\ commands \in [Devices -> Seq(Requests)]
      /\ handlers \subseteq Handlers
      /\ \A d \in Devices : \A r \in Range(commands[d]) : fits(r)
      /\ \A h \in handlers : fits(h.req)
      /\ epoch \in [Devices -> Epochs \cup {0}]
      /\ directory \in [Devices -> SUBSET Members]
      /\ deks \in [Devices -> [Epochs -> Deks \cup {0}]]
  BY DEF TypeInv, TypeOK, RotationsFit
<1>s. ASSUME NEW d \in Devices, NEW r \in Requests, fits(r), UNCHANGED handlers,
             commands' = [commands EXCEPT ![d] = Append(commands[d], r)]
      PROVE  Goal
  <2>1. /\ Append(commands[d], r) \in Seq(Requests)
        /\ Range(Append(commands[d], r)) = Range(commands[d]) \cup {r}
    BY <1>t, Appended
  <2>2. commands' \in [Devices -> Seq(Requests)]
    BY <1>t, <1>s, <2>1
  <2>3. \A e \in Devices : \A q \in Range(commands'[e]) : fits(q)
    BY <1>t, <1>s, <2>1
  <2> QED
    BY <1>t, <1>s, <2>2, <2>3 DEF RotationsFit
<1>1. ASSUME NEW d \in Devices, NEW m \in Invitees, AddMemberLocal(d, m) PROVE Goal
  <2> DEFINE r == [op |-> "add", member |-> m, epoch |-> epoch[d], to |-> {m},
                   dek |-> deks[d][epoch[d]]]
  <2>1. epoch[d] \in Epochs /\ deks[d][epoch[d]] \in Deks /\ m \in Members
    BY <1>1, <1>t DEF AddMemberLocal
  <2>2. r \in Requests /\ fits(r)
    BY <2>1 DEF Requests
  <2>3. UNCHANGED handlers /\ commands' = [commands EXCEPT ![d] = Append(commands[d], r)]
    BY <1>1, <1>t DEF AddMemberLocal, Send
  <2> HIDE DEF r, fits
  <2> QED
    BY <1>s, <2>2, <2>3
<1>2. ASSUME NEW d \in Devices, NEW m \in Members, RemoveMemberLocal(d, m) PROVE Goal
  <2> DEFINE r == [op |-> "remove", member |-> m, epoch |-> epoch[d],
                   to |-> directory[d] \ {m}, dek |-> minted + 1]
  <2>1. epoch[d] \in Epochs /\ epoch[d] < MaxEpoch /\ directory[d] \ {m} \in SUBSET Members
    BY <1>2, <1>t DEF RemoveMemberLocal
  <2>2. minted + 1 \in Deks
    BY <1>2 DEF RemoveMemberLocal, Command, TypeInv, TypeOK, MintBounded, Deks
  <2>3. r \in Requests /\ fits(r)
    BY <2>1, <2>2 DEF Requests
  <2>4. UNCHANGED handlers /\ commands' = [commands EXCEPT ![d] = Append(commands[d], r)]
    BY <1>2, <1>t DEF RemoveMemberLocal, Send
  <2> HIDE DEF r, fits
  <2> QED
    BY <1>s, <2>3, <2>4
<1>3. ASSUME NEW d \in Devices, Call(d) PROVE Goal
  <2> DEFINE k == [from |-> d, req |-> Head(commands[d]), pc |-> "received", awaited |-> TRUE]
  <2>1. /\ commands[d] # <<>> /\ handlers' = handlers \cup {k}
        /\ commands' = [commands EXCEPT ![d] = Tail(commands[d])]
    BY <1>3, <1>t DEF Call
  <2>2. /\ Tail(commands[d]) \in Seq(Requests) /\ Head(commands[d]) \in Requests
        /\ Head(commands[d]) \in Range(commands[d])
        /\ Range(Tail(commands[d])) \subseteq Range(commands[d])
    BY <1>t, <2>1, Dequeued
  <2>3. commands' \in [Devices -> Seq(Requests)]
    BY <1>t, <2>1, <2>2
  <2>4. \A e \in Devices : \A q \in Range(commands'[e]) : fits(q)
    BY <1>t, <2>1, <2>2
  <2>5. k \in Handlers /\ fits(k.req)
    BY <1>t, <2>2
  <2> HIDE DEF k
  <2> QED
    BY <1>t, <2>1, <2>3, <2>4, <2>5 DEF RotationsFit
<1>h. ASSUME NEW q \in handlers
      PROVE  [q EXCEPT !.pc = "checked"] \in Handlers /\ fits([q EXCEPT !.pc = "checked"].req)
  <2>1. q \in Handlers /\ fits(q.req)
    BY <1>t
  <2>2. [q EXCEPT !.pc = "checked"].req = q.req
    BY <2>1
  <2>3. [q EXCEPT !.pc = "checked"] \in Handlers
    BY <2>1
  <2> QED
    BY <2>1, <2>2, <2>3
<1>b. ASSUME NEW q \in handlers, NEW b \in BOOLEAN
      PROVE  [q EXCEPT !.awaited = b] \in Handlers /\ fits([q EXCEPT !.awaited = b].req)
  <2>1. q \in Handlers /\ fits(q.req)
    BY <1>t
  <2>2. [q EXCEPT !.awaited = b].req = q.req
    BY <2>1
  <2>3. [q EXCEPT !.awaited = b] \in Handlers
    BY <2>1
  <2> QED
    BY <2>1, <2>2, <2>3
<1>a. ASSUME NEW d \in Devices
      PROVE  Abandoned(d) \subseteq Handlers /\ \A q \in Abandoned(d) : fits(q.req)
  <2> SUFFICES ASSUME NEW q \in handlers
               PROVE  /\ [q EXCEPT !.awaited = @ /\ q.from # d] \in Handlers
                      /\ fits([q EXCEPT !.awaited = @ /\ q.from # d].req)
    BY DEF Abandoned
  <2> DEFINE b == q.awaited /\ q.from # d
  <2>1. b \in BOOLEAN
    OBVIOUS
  <2>2. [q EXCEPT !.awaited = b] \in Handlers /\ fits([q EXCEPT !.awaited = b].req)
    <3> HIDE DEF b, Handlers, fits
    <3> QED
      BY <1>b, <2>1
  <2> QED
    BY <2>2
<1>4. ASSUME NEW d \in Devices, CallLost(d) PROVE Goal
  <2>1. handlers' \subseteq handlers \/ handlers' = Abandoned(d)
    BY <1>4 DEF CallLost
  <2>2. UNCHANGED commands
    BY <1>4 DEF CallLost
  <2> QED
    BY <1>t, <1>a, <2>1, <2>2 DEF RotationsFit
<1>5. ASSUME NEW d \in Devices,
             Restart(d) \/ IngestCut(d) \/ \E m \in Members : RemoveMemberCut(d, m)
      PROVE  Goal
  <2>1. handlers' = Abandoned(d) /\ commands' = [commands EXCEPT ![d] = <<>>]
    BY <1>5 DEF Restart, IngestCut, RemoveMemberCut, Exit
  <2>2. <<>> \in Seq(Requests) /\ Range(<<>>) = {}
    BY DEF Range
  <2>3. commands' \in [Devices -> Seq(Requests)]
    BY <1>t, <2>1, <2>2
  <2>4. \A e \in Devices : \A q \in Range(commands'[e]) : fits(q)
    BY <1>t, <2>1, <2>2
  <2> QED
    BY <1>t, <1>a, <2>1, <2>3, <2>4 DEF RotationsFit
<1>6. ASSUME NEW h \in handlers, CheckOwner(h) PROVE Goal
  <2>1. /\ UNCHANGED commands
        /\ \/ handlers' = (handlers \ {h}) \cup {[h EXCEPT !.pc = "checked"]}
           \/ handlers' = handlers \ {h}
    BY <1>6 DEF CheckOwner, Finish
  <2>2. handlers' \subseteq Handlers /\ \A q \in handlers' : fits(q.req)
    <3> DEFINE k == [h EXCEPT !.pc = "checked"]
    <3>1. k \in Handlers /\ fits(k.req)
      BY <1>h
    <3>2. handlers' \subseteq handlers \cup {k}
      BY <2>1
    <3> HIDE DEF k
    <3> QED
      BY <1>t, <3>1, <3>2
  <2> QED
    BY <1>t, <2>1, <2>2 DEF RotationsFit
<1>7. ASSUME NEW h \in handlers, CommitAdd(h) \/ CommitRemove(h) PROVE Goal
  <2>1. UNCHANGED commands /\ handlers' \subseteq handlers
    BY <1>7 DEF CommitAdd, CommitRemove, Finish
  <2> QED
    BY <1>t, <2>1 DEF RotationsFit
<1>8. ASSUME UNCHANGED <<commands, handlers>> PROVE Goal
  BY <1>t, <1>8 DEF RotationsFit
<1>9. ASSUME NEW d \in Devices, \/ Start(d) \/ Discover(d) \/ ReadEpoch(d) \/ ReadMembers(d)
                                \/ ReadKeys(d) \/ SyncFails(d) \/ Ingest(d)
      PROVE  UNCHANGED <<commands, handlers>>
  BY <1>9 DEF Start, Discover, ReadEpoch, ReadMembers, ReadKeys, SyncFails, Ingest
<1>10. UNCHANGED vars => UNCHANGED <<commands, handlers>>
  BY DEF vars, engineVars
<1> HIDE DEF Goal
<1>11. Goal
  BY <1>1, <1>2, <1>3, <1>4, <1>5, <1>6, <1>7, <1>8, <1>9, <1>10
     DEF Next, StoreNext, EngineNext
<1> QED
  BY <1>11 DEF Goal

\* Only the two commits write the server's tables.
LEMMA OnlyCommits ==
  ASSUME [Next]_vars, ~UNCHANGED serverVars
  PROVE  \E h \in handlers : CommitAdd(h) \/ CommitRemove(h)
<1>1. ASSUME NEW d \in Devices, StoreNext(d) PROVE UNCHANGED serverVars
  BY <1>1 DEF StoreNext, AddMemberLocal, RemoveMemberLocal, RemoveMemberCut, Ingest, IngestCut,
     Exit
<1>2. ASSUME NEW d \in Devices, EngineNext(d) \/ Restart(d) PROVE UNCHANGED serverVars
  BY <1>2 DEF EngineNext, Start, Discover, ReadEpoch, ReadMembers, ReadKeys, SyncFails, Call,
     CallLost, Restart, Exit
<1>3. ASSUME NEW h \in handlers, CheckOwner(h) PROVE UNCHANGED serverVars
  BY <1>3 DEF CheckOwner
<1> QED
  BY <1>1, <1>2, <1>3 DEF Next, vars

LEMMA ServerTyped ==
  ASSUME TypeInv, [Next]_vars
  PROVE  /\ role' \in [Members -> {"none", "member", "owner"}]
         /\ srvEpoch' \in Epochs
         /\ slot' \in [Epochs \X Members -> Deks \cup {0}]
         /\ removed' \subseteq Members
<1>t. /\ role \in [Members -> {"none", "member", "owner"}] /\ srvEpoch \in Epochs
      /\ slot \in [Epochs \X Members -> Deks \cup {0}] /\ removed \subseteq Members
  BY DEF TypeInv, TypeOK
<1>r. ASSUME NEW h \in handlers
      PROVE  h.req \in Requests /\ (h.req.op = "remove" => h.req.epoch < MaxEpoch)
  BY DEF TypeInv, TypeOK, RotationsFit
<1>f. ASSUME NEW e, NEW to, NEW dek \in Deks
      PROVE  Filled(e, to, dek) \in [Epochs \X Members -> Deks \cup {0}]
  BY <1>t DEF Filled
<1>1. ASSUME NEW h \in handlers, CommitAdd(h)
      PROVE  /\ role' \in [Members -> {"none", "member", "owner"}]
             /\ slot' \in [Epochs \X Members -> Deks \cup {0}]
             /\ UNCHANGED <<srvEpoch, removed>>
  BY <1>t, <1>r, <1>f, <1>1 DEF CommitAdd, Requests
<1>2. ASSUME NEW h \in handlers, CommitRemove(h)
      PROVE  /\ role' \in [Members -> {"none", "member", "owner"}]
             /\ slot' \in [Epochs \X Members -> Deks \cup {0}]
             /\ srvEpoch' \in Epochs /\ removed' \subseteq Members
  <2> DEFINE filled == Filled(h.req.epoch + 1, h.req.to, h.req.dek)
  <2>1. h.req.epoch \in Epochs /\ h.req.epoch < MaxEpoch /\ h.req.member \in Members
    BY <1>r, <1>2 DEF CommitRemove, Requests
  <2>2. filled \in [Epochs \X Members -> Deks \cup {0}]
    BY <1>r, <1>f DEF Requests
  <2>3. slot' = [s \in Epochs \X Members |-> IF s[2] = h.req.member THEN 0 ELSE filled[s]]
    BY <1>2 DEF CommitRemove
  <2>4. slot' \in [Epochs \X Members -> Deks \cup {0}]
    <3> HIDE DEF filled
    <3> QED
      BY <2>2, <2>3
  <2> QED
    BY <1>t, <1>2, <2>1, <2>4, MembershipAssumption DEF CommitRemove, Epochs
<1> QED
  BY <1>t, <1>1, <1>2, OnlyCommits DEF serverVars

\* A sync goes through its states one by one.
LEMMA SyncTyped ==
  ASSUME TypeInv, [Next]_vars
  PROVE  /\ engine' \in [Devices -> EngineStates]
         /\ probe' \in [Devices -> [epoch : Epochs \cup {0}, members : SUBSET Members]]
         /\ ProbeRead'
<1> DEFINE Probes == [epoch : Epochs \cup {0}, members : SUBSET Members]
           reading(d) == engine[d] \in {"members", "keys"} => probe[d].epoch # 0
           Goal == /\ engine' \in [Devices -> EngineStates]
                   /\ probe' \in [Devices -> Probes]
                   /\ ProbeRead'
<1>t. /\ engine \in [Devices -> EngineStates] /\ probe \in [Devices -> Probes]
      /\ srvEpoch \in Epochs /\ 0 \notin Epochs
      /\ \A d \in Devices : reading(d)
  BY DEF TypeInv, TypeOK, Epochs, ProbeRead
<1>n. NoProbe \in Probes
  BY DEF NoProbe
<1>s. ASSUME NEW d \in Devices, NEW x \in EngineStates, NEW p \in Probes,
             engine' = [engine EXCEPT ![d] = x], probe' = [probe EXCEPT ![d] = p],
             x \in {"members", "keys"} => p.epoch # 0
      PROVE  Goal
  BY <1>t, <1>s DEF ProbeRead
<1>e. ASSUME NEW d \in Devices, NEW x \in EngineStates \ {"members", "keys"},
             engine' = [engine EXCEPT ![d] = x], UNCHANGED probe
      PROVE  Goal
  BY <1>t, <1>e DEF ProbeRead
<1>1. ASSUME NEW d \in Devices, Start(d) \/ Discover(d) \/ Call(d) \/ CallLost(d) PROVE Goal
  BY <1>e, <1>1 DEF Start, Discover, Call, CallLost, Go, EngineStates
<1>2. ASSUME NEW d \in Devices, ReadEpoch(d) PROVE Goal
  <2> DEFINE p == [probe[d] EXCEPT !.epoch = srvEpoch]
  <2>1. p \in Probes /\ p.epoch = srvEpoch
    BY <1>t
  <2>2. probe' = [probe EXCEPT ![d] = p] /\ engine' = [engine EXCEPT ![d] = "members"]
    BY <1>2 DEF ReadEpoch, Go
  <2> HIDE DEF p
  <2> QED
    BY <1>s, <1>t, <2>1, <2>2 DEF EngineStates
<1>3. ASSUME NEW d \in Devices, ReadMembers(d) PROVE Goal
  <2> DEFINE p == [probe[d] EXCEPT !.members = {m \in Members : role[m] # "none"}]
  <2>1. p \in Probes /\ p.epoch = probe[d].epoch
    BY <1>t
  <2>2. /\ probe' = [probe EXCEPT ![d] = p] /\ engine' = [engine EXCEPT ![d] = "keys"]
        /\ engine[d] = "members"
    BY <1>3 DEF ReadMembers, Go
  <2> HIDE DEF p
  <2> QED
    BY <1>s, <1>t, <2>1, <2>2 DEF EngineStates
<1>4. ASSUME NEW d \in Devices, ReadKeys(d) \/ SyncFails(d) PROVE Goal
  BY <1>s, <1>n, <1>4 DEF ReadKeys, SyncFails, Go, EngineStates
<1>5. ASSUME NEW d \in Devices,
             Restart(d) \/ IngestCut(d) \/ \E m \in Members : RemoveMemberCut(d, m)
      PROVE  Goal
  BY <1>s, <1>n, <1>5 DEF Restart, IngestCut, RemoveMemberCut, Exit, Go, EngineStates
<1>6. ASSUME NEW h \in handlers, CheckOwner(h) \/ CommitAdd(h) \/ CommitRemove(h) PROVE Goal
  <2>1. h.from \in Devices
    BY DEF TypeInv, TypeOK
  <2>2. UNCHANGED probe
    BY <1>6 DEF CheckOwner, CommitAdd, CommitRemove
  <2>3. \/ engine' = [engine EXCEPT ![h.from] = "idle"]
        \/ engine' = [engine EXCEPT ![h.from] = engine[h.from]]
        \/ UNCHANGED engine
    BY <1>6 DEF CheckOwner, CommitAdd, CommitRemove, Finish
  <2> QED
    BY <1>t, <2>1, <2>2, <2>3 DEF EngineStates, ProbeRead
<1>7. ASSUME UNCHANGED <<engine, probe>> PROVE Goal
  BY <1>t, <1>7 DEF ProbeRead
<1>8. ASSUME NEW d \in Devices, \/ Ingest(d) \/ \E m \in Invitees : AddMemberLocal(d, m)
                                \/ \E m \in Members : RemoveMemberLocal(d, m)
      PROVE  UNCHANGED <<engine, probe>>
  BY <1>8 DEF Ingest, AddMemberLocal, RemoveMemberLocal
<1>9. UNCHANGED vars => UNCHANGED <<engine, probe>>
  BY DEF vars, engineVars
<1> HIDE DEF Goal
<1>10. Goal
  BY <1>1, <1>2, <1>3, <1>4, <1>5, <1>6, <1>7, <1>8, <1>9 DEF Next, StoreNext, EngineNext
<1> QED
  BY <1>10 DEF Goal

\* An answer joins what one sync has read.
LEMMA AnswersTyped ==
  ASSUME TypeInv, [Next]_vars
  PROVE  /\ ingest' \in [Devices -> Seq(Answers)]
         /\ torn' \subseteq Devices
         /\ faults' \in 0..MaxFaults
<1> DEFINE Goal == ingest' \in [Devices -> Seq(Answers)]
<1>t. ingest \in [Devices -> Seq(Answers)] /\ torn \subseteq Devices /\ faults \in 0..MaxFaults
  BY DEF TypeInv, TypeOK
<1>1. ASSUME NEW d \in Devices, ReadKeys(d) PROVE Goal
  <2> DEFINE got == [epoch |-> probe[d].epoch, members |-> probe[d].members,
                     keys |-> SlotsOf(AccountOf[d])]
  <2>1. /\ probe[d] \in [epoch : Epochs \cup {0}, members : SUBSET Members]
        /\ probe[d].epoch # 0
    BY <1>1 DEF ReadKeys, TypeInv, TypeOK, ProbeRead
  <2>2. SlotsOf(AccountOf[d]) \in [Epochs -> Deks \cup {0}]
    BY MembershipAssumption DEF SlotsOf, TypeInv, TypeOK
  <2>3. got \in Answers
    BY <2>1, <2>2 DEF Answers
  <2>4. ingest' = [ingest EXCEPT ![d] = Append(ingest[d], got)]
    BY <1>1, <1>t DEF ReadKeys
  <2> HIDE DEF got
  <2>5. Append(ingest[d], got) \in Seq(Answers)
    BY <1>t, <2>3
  <2> QED
    BY <1>t, <2>4, <2>5
<1>2. ASSUME NEW d \in Devices, Ingest(d) PROVE Goal
  <2>1. ingest[d] # <<>> /\ ingest' = [ingest EXCEPT ![d] = Tail(ingest[d])]
    BY <1>2, <1>t DEF Ingest
  <2>2. Tail(ingest[d]) \in Seq(Answers)
    BY <1>t, <2>1, Dequeued
  <2> QED
    BY <1>t, <2>1, <2>2
<1>3. ASSUME NEW d \in Devices,
             Restart(d) \/ IngestCut(d) \/ \E m \in Members : RemoveMemberCut(d, m)
      PROVE  Goal
  <2>1. ingest' = [ingest EXCEPT ![d] = <<>>]
    BY <1>3 DEF Restart, IngestCut, RemoveMemberCut, Exit
  <2> QED
    BY <1>t, <2>1
<1>4. ASSUME NEW d \in Devices, EngineNext(d), ~ReadKeys(d) PROVE UNCHANGED ingest
  BY <1>4 DEF EngineNext, Start, Discover, ReadEpoch, ReadMembers, SyncFails, Call, CallLost
<1>5. ASSUME NEW d \in Devices, \/ \E m \in Invitees : AddMemberLocal(d, m)
                                \/ \E m \in Members : RemoveMemberLocal(d, m)
      PROVE  UNCHANGED ingest
  BY <1>5 DEF AddMemberLocal, RemoveMemberLocal
<1>6. ASSUME NEW h \in handlers, CheckOwner(h) \/ CommitAdd(h) \/ CommitRemove(h)
      PROVE  UNCHANGED ingest
  BY <1>6 DEF CheckOwner, CommitAdd, CommitRemove
<1>7. UNCHANGED vars => UNCHANGED ingest
  BY DEF vars, engineVars
<1>8. Goal
  BY <1>t, <1>1, <1>2, <1>3, <1>4, <1>5, <1>6, <1>7 DEF Next, StoreNext
<1>9. torn' \subseteq Devices
  <2>1. ASSUME NEW d \in Devices, Ingest(d) \/ IngestCut(d) PROVE torn' \subseteq Devices
    BY <1>t, <2>1 DEF Ingest, IngestCut
  <2>2. UNCHANGED torn \/ \E d \in Devices : Ingest(d) \/ IngestCut(d)
    BY DEF Next, StoreNext, EngineNext, AddMemberLocal, RemoveMemberLocal, RemoveMemberCut,
       Start, Discover, ReadEpoch, ReadMembers, ReadKeys, SyncFails, Call, CallLost, Restart,
       CheckOwner, CommitAdd, CommitRemove, boundVars, vars
  <2> QED
    BY <1>t, <2>1, <2>2
<1>10. faults' \in 0..MaxFaults
  <2> DEFINE counted == UNCHANGED faults \/ (faults < MaxFaults /\ faults' = faults + 1)
  <2>1. ASSUME NEW d \in Devices, StoreNext(d) \/ Restart(d) PROVE counted
    BY <2>1 DEF StoreNext, AddMemberLocal, RemoveMemberLocal, RemoveMemberCut, Ingest, IngestCut,
       Restart, Exit, Fault
  <2>2. ASSUME NEW d \in Devices, EngineNext(d) PROVE counted
    BY <2>2 DEF EngineNext, Start, Discover, ReadEpoch, ReadMembers, ReadKeys, SyncFails, Call,
       CallLost, boundVars, Fault
  <2>3. ASSUME NEW h \in handlers, CheckOwner(h) \/ CommitAdd(h) \/ CommitRemove(h)
        PROVE  counted
    BY <2>3 DEF CheckOwner, CommitAdd, CommitRemove, boundVars
  <2>4. UNCHANGED vars => counted
    BY DEF vars, boundVars
  <2> QED
    BY <1>t, <2>1, <2>2, <2>3, <2>4, MembershipAssumption DEF Next
<1> QED
  BY <1>8, <1>9, <1>10

LEMMA TypeStep ==
  ASSUME TypeInv, [Next]_vars
  PROVE  TypeInv'
BY StoreTyped, RequestsTyped, ServerTyped, SyncTyped, AnswersTyped DEF TypeInv, TypeOK

LEMMA TypeInit ==
  ASSUME Init
  PROVE  TypeInv
<1> USE MembershipAssumption DEF Init
<1>1. 1 \in Epochs /\ 1 \in Deks
  BY DEF Epochs, Deks
<1>2. NoProbe \in [epoch : Epochs \cup {0}, members : SUBSET Members]
  BY DEF NoProbe
<1>3. TypeOK
  BY <1>1, <1>2 DEF TypeOK, EngineStates
<1>4. MintBounded /\ RotationsFit /\ ProbeRead
  BY DEF MintBounded, RotationsFit, ProbeRead, Range
<1> QED
  BY <1>3, <1>4 DEF TypeInv

\* The tables and channels keep their types: no DEK beyond the commands given,
\* no epoch beyond the last.
THEOREM MembershipTypeCorrect == Spec => []TypeOK
<1>1. Init => TypeInv
  BY TypeInit
<1>2. TypeInv /\ [Next]_vars => TypeInv'
  BY TypeStep
<1>3. TypeInv => TypeOK
  BY DEF TypeInv
<1> QED
  BY <1>1, <1>2, <1>3, PTL DEF Spec

-----------------------------------------------------------------------------
(* The sole administrator                                                  *)

Seats == {m \in Members : role[m] # "none"}

\* The request r takes the list from epoch e with members S to e2 and S2, and
\* was sealed to exactly the right members.
Fits(r, e, S, e2, S2) ==
    /\ r.epoch = e /\ r.member # Owner
    /\ r.op = "add" => e2 = e /\ S2 = S \cup {r.member} /\ r.to = {r.member}
    /\ r.op = "remove" => e2 = e + 1 /\ S2 = S \ {r.member} /\ r.to = S2

\* So do the requests of a channel one after the other.
Chain(s, e1, S1, e2, S2) ==
    \E E \in [0..Len(s) -> Epochs], M \in [0..Len(s) -> SUBSET Members] :
        /\ E[0] = e1 /\ M[0] = S1
        /\ E[Len(s)] = e2 /\ M[Len(s)] = S2
        /\ \A i \in 1..Len(s) : Fits(s[i], E[i - 1], M[i - 1], E[i], M[i])

\* Nobody else owns the list or is asked to leave it as its owner.
OwnerSits ==
    /\ role[Owner] = "owner" /\ Owner \notin removed
    /\ \A m \in Members : role[m] = "owner" => m = Owner

\* Only administrators call, and only a gets past require_owner.
CallersKnown(a) ==
    /\ \A d \in Devices : commands[d] # <<>> => d \in Admins
    /\ \A h \in handlers : h.from \in Admins /\ (h.pc = "checked" => h.from = a)

Mine(a) == {h \in handlers : h.from = a}

\* a never syncs again and waits for every call.
OneCall(a) ==
    /\ engine[a] \in {"idle", "calling"} /\ ingest[a] = <<>>
    /\ \A h \in Mine(a) : h.awaited /\ engine[a] = "calling"
    /\ \A h, k \in Mine(a) : h = k

\* What the server holds, followed by the call in flight and the channel, is
\* what a holds.
Planned(a) ==
    \E e \in Epochs, S \in SUBSET Members :
        /\ Chain(commands[a], e, S, epoch[a], directory[a])
        /\ engine[a] = "idle" => e = srvEpoch /\ S = Seats
        /\ \A h \in Mine(a) : Fits(h.req, srvEpoch, Seats, e, S)

AdminInv(a) == OwnerSits /\ CallersKnown(a) /\ OneCall(a) /\ Planned(a)

LEMMA ChainEmpty ==
  ASSUME NEW e \in Epochs, NEW S \in SUBSET Members
  PROVE  Chain(<<>>, e, S, e, S)
<1> DEFINE E == [i \in 0..0 |-> e]
           M == [i \in 0..0 |-> S]
<1>1. /\ E \in [0..0 -> Epochs] /\ M \in [0..0 -> SUBSET Members]
      /\ E[0] = e /\ M[0] = S
  OBVIOUS
<1>2. Len(<<>>) = 0 /\ 1..0 = {}
  OBVIOUS
<1> HIDE DEF E, M
<1> QED
  BY <1>1, <1>2 DEF Chain

LEMMA ChainAppended ==
  ASSUME NEW s \in Seq(Requests), NEW r \in Requests,
         NEW e0 \in Epochs, NEW S0 \in SUBSET Members, NEW e1 \in Epochs,
         NEW S1 \in SUBSET Members, NEW e2 \in Epochs, NEW S2 \in SUBSET Members,
         Chain(s, e0, S0, e1, S1), Fits(r, e1, S1, e2, S2)
  PROVE  Chain(Append(s, r), e0, S0, e2, S2)
<1> DEFINE n == Len(s)
           t == Append(s, r)
<1>1. n \in Nat /\ Len(t) = n + 1 /\ t[n + 1] = r /\ \A i \in 1..n : t[i] = s[i]
  OBVIOUS
<1>2. PICK E \in [0..n -> Epochs], M \in [0..n -> SUBSET Members] :
         /\ E[0] = e0 /\ M[0] = S0 /\ E[n] = e1 /\ M[n] = S1
         /\ \A i \in 1..n : Fits(s[i], E[i - 1], M[i - 1], E[i], M[i])
  BY DEF Chain
<1> DEFINE F == [i \in 0..(n + 1) |-> IF i = n + 1 THEN e2 ELSE E[i]]
           N == [i \in 0..(n + 1) |-> IF i = n + 1 THEN S2 ELSE M[i]]
<1> HIDE DEF n, t
<1>3. F \in [0..(n + 1) -> Epochs] /\ N \in [0..(n + 1) -> SUBSET Members]
  BY <1>1
<1>4. F[0] = e0 /\ N[0] = S0 /\ F[n + 1] = e2 /\ N[n + 1] = S2
  BY <1>1, <1>2
<1>5. \A i \in 0..n : F[i] = E[i] /\ N[i] = M[i]
  BY <1>1
<1> HIDE DEF F, N
<1>6. ASSUME NEW i \in 1..(n + 1) PROVE Fits(t[i], F[i - 1], N[i - 1], F[i], N[i])
  <2>1. CASE i \in 1..n
    <3>1. i \in 0..n /\ i - 1 \in 0..n
      BY <1>1, <2>1
    <3> QED
      BY <1>1, <1>2, <1>5, <2>1, <3>1
  <2>2. CASE i = n + 1
    <3>1. n \in 0..n /\ i - 1 = n
      BY <1>1, <2>2
    <3>2. F[i - 1] = e1 /\ N[i - 1] = S1
      BY <1>2, <1>5, <3>1
    <3> QED
      BY <1>1, <1>4, <2>2, <3>2
  <2> QED
    BY <1>1, <2>1, <2>2
<1> QED
  BY <1>1, <1>3, <1>4, <1>6 DEF Chain, t

LEMMA ChainDequeued ==
  ASSUME NEW s \in Seq(Requests), s # <<>>,
         NEW e0 \in Epochs, NEW S0 \in SUBSET Members, NEW e2 \in Epochs,
         NEW S2 \in SUBSET Members, Chain(s, e0, S0, e2, S2)
  PROVE  \E e1 \in Epochs, S1 \in SUBSET Members :
            Fits(Head(s), e0, S0, e1, S1) /\ Chain(Tail(s), e1, S1, e2, S2)
<1> DEFINE n == Len(s)
           t == Tail(s)
<1>1. /\ n \in Nat \ {0} /\ Len(t) = n - 1 /\ Head(s) = s[1]
      /\ \A i \in 1..(n - 1) : t[i] = s[i + 1]
  BY EmptySeq, HeadTailProperties
<1>2. PICK E \in [0..n -> Epochs], M \in [0..n -> SUBSET Members] :
         /\ E[0] = e0 /\ M[0] = S0 /\ E[n] = e2 /\ M[n] = S2
         /\ \A i \in 1..n : Fits(s[i], E[i - 1], M[i - 1], E[i], M[i])
  BY DEF Chain
<1> DEFINE F == [i \in 0..(n - 1) |-> E[i + 1]]
           N == [i \in 0..(n - 1) |-> M[i + 1]]
<1> HIDE DEF n, t
<1>3. F \in [0..(n - 1) -> Epochs] /\ N \in [0..(n - 1) -> SUBSET Members]
  BY <1>1
<1>4. F[0] = E[1] /\ N[0] = M[1] /\ F[n - 1] = e2 /\ N[n - 1] = S2
  BY <1>1, <1>2
<1>5. \A i \in 0..(n - 1) : F[i] = E[i + 1] /\ N[i] = M[i + 1]
  OBVIOUS
<1> HIDE DEF F, N
<1>6. ASSUME NEW i \in 1..(n - 1) PROVE Fits(t[i], F[i - 1], N[i - 1], F[i], N[i])
  <2>1. i \in 0..(n - 1) /\ i - 1 \in 0..(n - 1) /\ i + 1 \in 1..n /\ (i - 1) + 1 = i
        /\ (i + 1) - 1 = i
    BY <1>1
  <2> QED
    BY <1>1, <1>2, <1>5, <2>1
<1>7. Chain(t, F[0], N[0], e2, S2)
  BY <1>1, <1>3, <1>4, <1>6 DEF Chain
<1>8. 1 \in 1..n /\ 1 \in 0..n /\ 1 - 1 = 0
  BY <1>1
<1>9. Fits(Head(s), e0, S0, E[1], M[1]) /\ E[1] \in Epochs /\ M[1] \in SUBSET Members
  BY <1>1, <1>2, <1>8
<1> QED
  BY <1>4, <1>7, <1>9 DEF t

\* What the sole administrator may assume of its commits.
LEMMA CommitFits ==
  ASSUME NEW a \in Devices, SoleAdmin(a), TypeInv, AdminInv(a),
         NEW h \in handlers, CommitAdd(h) \/ CommitRemove(h)
  PROVE  /\ h.from = a /\ h.req \in Requests /\ h.req.epoch = srvEpoch
         /\ h.req.member \in Members /\ h.req.member # Owner
         /\ h.req.op = "add" => h.req.to = {h.req.member}
         /\ h.req.op = "remove" => h.req.to = Seats \ {h.req.member}
         /\ engine[a] = "calling"
         /\ engine' = [engine EXCEPT ![a] = "idle"]
<1>1. h.pc = "checked" /\ h.from = a
  BY DEF CommitAdd, CommitRemove, AdminInv, CallersKnown
<1>2. h.req \in Requests /\ h.req.member \in Members
  BY DEF TypeInv, TypeOK, Requests
<1>3. PICK e \in Epochs, S \in SUBSET Members : Fits(h.req, srvEpoch, Seats, e, S)
  BY <1>1 DEF AdminInv, Planned, Mine
<1>4. h.awaited /\ engine[a] = "calling"
  BY <1>1 DEF AdminInv, OneCall, Mine
<1>5. engine' = [engine EXCEPT ![a] = "idle"]
  BY <1>1, <1>4 DEF CommitAdd, CommitRemove, Finish
<1> QED
  BY <1>1, <1>2, <1>3, <1>4, <1>5 DEF Fits

\* The effect of a commit on seats and epoch is the one its request fits.
LEMMA CommitEffect ==
  ASSUME NEW a \in Devices, SoleAdmin(a), TypeInv, AdminInv(a),
         NEW h \in handlers, CommitAdd(h) \/ CommitRemove(h),
         NEW e \in Epochs, NEW S \in SUBSET Members,
         Fits(h.req, srvEpoch, Seats, e, S)
  PROVE  srvEpoch' = e /\ Seats' = S
<1>t. role \in [Members -> {"none", "member", "owner"}]
  BY DEF TypeInv, TypeOK
<1>f. h.req.member \in Members /\ h.req.epoch = srvEpoch
  BY CommitFits
<1>1. CASE CommitAdd(h)
  <2>1. /\ role' = [role EXCEPT ![h.req.member] = "member"] /\ UNCHANGED srvEpoch
        /\ e = srvEpoch /\ S = Seats \cup {h.req.member}
    BY <1>1 DEF CommitAdd, Fits
  <2> QED
    BY <1>t, <1>f, <2>1 DEF Seats
<1>2. CASE CommitRemove(h)
  <2>1. /\ role' = [role EXCEPT ![h.req.member] = "none"] /\ srvEpoch' = srvEpoch + 1
        /\ e = srvEpoch + 1 /\ S = Seats \ {h.req.member}
    BY <1>2, <1>f DEF CommitRemove, Fits
  <2> QED
    BY <1>t, <1>f, <2>1 DEF Seats
<1> QED
  BY <1>1, <1>2

\* Commits do not touch the owner.
LEMMA OwnerStep ==
  ASSUME NEW a \in Devices, SoleAdmin(a), TypeInv, AdminInv(a), [Next]_vars
  PROVE  OwnerSits'
<1>t. role \in [Members -> {"none", "member", "owner"}] /\ Owner \in Members
  BY MembershipAssumption DEF TypeInv, TypeOK
<1>1. ASSUME UNCHANGED serverVars PROVE OwnerSits'
  BY <1>1 DEF AdminInv, OwnerSits, serverVars
<1>2. ASSUME NEW h \in handlers, CommitAdd(h) \/ CommitRemove(h) PROVE OwnerSits'
  <2>1. h.req.member \in Members /\ h.req.member # Owner
    BY <1>2, CommitFits
  <2>2. /\ \/ role' = [role EXCEPT ![h.req.member] = "member"]
           \/ role' = [role EXCEPT ![h.req.member] = "none"]
        /\ removed' \subseteq removed \cup {h.req.member}
    BY <1>2 DEF CommitAdd, CommitRemove
  <2> QED
    BY <1>t, <2>1, <2>2 DEF AdminInv, OwnerSits
<1> QED
  BY <1>1, <1>2, OnlyCommits

LEMMA CallersStep ==
  ASSUME NEW a \in Devices, SoleAdmin(a), TypeInv, AdminInv(a), [Next]_vars
  PROVE  CallersKnown(a)'
<1>t. /\ commands \in [Devices -> Seq(Requests)]
      /\ \A d \in Devices : commands[d] # <<>> => d \in Admins
      /\ \A h \in handlers : h.from \in Admins /\ (h.pc = "checked" => h.from = a)
      /\ handlers \subseteq [from : Devices, req : Requests,
                             pc : {"received", "checked"}, awaited : BOOLEAN]
  BY DEF TypeInv, TypeOK, AdminInv, CallersKnown
<1>s. ASSUME UNCHANGED handlers,
             NEW d \in Devices, d \in Admins \/ commands'[d] = <<>>,
             \A e \in Devices \ {d} : commands'[e] = commands[e]
      PROVE  CallersKnown(a)'
  BY <1>t, <1>s DEF CallersKnown
<1>1. ASSUME NEW d \in Devices, \/ \E m \in Invitees : AddMemberLocal(d, m)
                                \/ \E m \in Members : RemoveMemberLocal(d, m)
      PROVE  CallersKnown(a)'
  <2>1. UNCHANGED handlers /\ d \in Admins /\ \A e \in Devices \ {d} : commands'[e] = commands[e]
    BY <1>t, <1>1 DEF AddMemberLocal, RemoveMemberLocal, Command, Send
  <2> QED
    BY <1>s, <2>1
<1>2. ASSUME NEW d \in Devices, Call(d) PROVE CallersKnown(a)'
  <2>1. /\ d \in Admins /\ \A e \in Devices \ {d} : commands'[e] = commands[e]
        /\ handlers' = handlers \cup {[from |-> d, req |-> Head(commands[d]),
                                       pc |-> "received", awaited |-> TRUE]}
    BY <1>t, <1>2 DEF Call
  <2> QED
    BY <1>t, <2>1 DEF CallersKnown
<1>a. ASSUME NEW d \in Devices, NEW q \in Abandoned(d)
      PROVE  q.from \in Admins /\ (q.pc = "checked" => q.from = a)
  <2>1. PICK k \in handlers : q = [k EXCEPT !.awaited = @ /\ k.from # d]
    BY <1>a DEF Abandoned
  <2>2. q.from = k.from /\ q.pc = k.pc
    BY <1>t, <2>1
  <2> QED
    BY <1>t, <2>2
<1>3. ASSUME NEW d \in Devices, CallLost(d) PROVE CallersKnown(a)'
  <2>1. UNCHANGED commands /\ (handlers' = Abandoned(d) \/ handlers' \subseteq handlers)
    BY <1>3 DEF CallLost
  <2> QED
    BY <1>t, <1>a, <2>1 DEF CallersKnown
<1>4. ASSUME NEW d \in Devices,
             Restart(d) \/ IngestCut(d) \/ \E m \in Members : RemoveMemberCut(d, m)
      PROVE  CallersKnown(a)'
  <2>1. handlers' = Abandoned(d) /\ commands' = [commands EXCEPT ![d] = <<>>]
    BY <1>4 DEF Restart, IngestCut, RemoveMemberCut, Exit
  <2> QED
    BY <1>t, <1>a, <2>1 DEF CallersKnown
<1>5. ASSUME NEW h \in handlers, CheckOwner(h) PROVE CallersKnown(a)'
  <2> DEFINE k == [h EXCEPT !.pc = "checked"]
  <2>1. k.from = h.from /\ UNCHANGED commands
    BY <1>t, <1>5 DEF CheckOwner
  <2>2. CASE role[AccountOf[h.from]] = "owner"
    <3>1. handlers' \subseteq handlers \cup {k}
      BY <1>5, <2>2 DEF CheckOwner
    <3>2. AccountOf[h.from] = Owner /\ h.from \in Admins
      BY <1>t, <2>2, MembershipAssumption DEF AdminInv, OwnerSits
    <3>3. h.from = a
      BY <3>2 DEF SoleAdmin
    <3> HIDE DEF k
    <3> QED
      BY <1>t, <2>1, <3>1, <3>2, <3>3 DEF CallersKnown
  <2>3. CASE role[AccountOf[h.from]] # "owner"
    <3>1. handlers' \subseteq handlers
      BY <1>5, <2>3 DEF CheckOwner, Finish
    <3> QED
      BY <1>t, <2>1, <3>1 DEF CallersKnown
  <2> QED
    BY <2>2, <2>3
<1>6. ASSUME NEW h \in handlers, CommitAdd(h) \/ CommitRemove(h) PROVE CallersKnown(a)'
  <2>1. UNCHANGED commands /\ handlers' \subseteq handlers
    BY <1>6 DEF CommitAdd, CommitRemove, Finish
  <2> QED
    BY <1>t, <2>1 DEF CallersKnown
<1>7. ASSUME UNCHANGED <<commands, handlers>> PROVE CallersKnown(a)'
  BY <1>t, <1>7 DEF CallersKnown
<1>8. ASSUME NEW d \in Devices, \/ Start(d) \/ Discover(d) \/ ReadEpoch(d) \/ ReadMembers(d)
                                \/ ReadKeys(d) \/ SyncFails(d) \/ Ingest(d)
      PROVE  UNCHANGED <<commands, handlers>>
  BY <1>8 DEF Start, Discover, ReadEpoch, ReadMembers, ReadKeys, SyncFails, Ingest
<1>9. UNCHANGED vars => UNCHANGED <<commands, handlers>>
  BY DEF vars, engineVars
<1> QED
  BY <1>1, <1>2, <1>3, <1>4, <1>5, <1>6, <1>7, <1>8, <1>9 DEF Next, StoreNext, EngineNext

\* The steps of other devices.
Elsewhere(a) ==
    \/ \E d \in Devices \ {a} : StoreNext(d) \/ EngineNext(d) \/ Restart(d)
    \/ \E h \in handlers \ Mine(a) : CheckOwner(h)
    \/ UNCHANGED vars

\* The steps of the sole administrator: it neither syncs, fails nor ends.
Here(a) ==
    \/ \E m \in Invitees : AddMemberLocal(a, m)
    \/ \E m \in Members : RemoveMemberLocal(a, m)
    \/ Call(a)
    \/ \E h \in Mine(a) : CheckOwner(h) \/ CommitAdd(h) \/ CommitRemove(h)

LEMMA HereOrElsewhere ==
  ASSUME NEW a \in Devices, SoleAdmin(a), TypeInv, AdminInv(a), [Next]_vars
  PROVE  Here(a) \/ Elsewhere(a)
<1>1. a \notin Unreliable /\ ingest[a] = <<>> /\ engine[a] \in {"idle", "calling"}
  BY DEF SoleAdmin, AdminInv, OneCall
<1>2. ~Fault(a)
  BY <1>1 DEF Fault
<1>3. StoreNext(a) => Here(a)
  BY <1>1, <1>2 DEF StoreNext, Here, RemoveMemberCut, Ingest, IngestCut, Exit
<1>4. ~Restart(a)
  BY <1>2 DEF Restart, Exit
<1>5. EngineNext(a) => Here(a)
  BY <1>1, <1>2 DEF EngineNext, Here, Start, Discover, ReadEpoch, ReadMembers, ReadKeys,
     SyncFails, CallLost
<1>6. ASSUME NEW h \in handlers, CheckOwner(h) \/ CommitAdd(h) \/ CommitRemove(h)
      PROVE  Here(a) \/ Elsewhere(a)
  <2>1. CASE h \in Mine(a)
    BY <1>6, <2>1 DEF Here
  <2>2. CASE h \notin Mine(a)
    <3>1. ~CommitAdd(h) /\ ~CommitRemove(h)
      BY <2>2, CommitFits DEF Mine
    <3> QED
      BY <1>6, <2>2, <3>1 DEF Elsewhere
  <2> QED
    BY <2>1, <2>2
<1> QED
  BY <1>3, <1>4, <1>5, <1>6 DEF Next, Elsewhere

\* The steps of others leave alone what the administrator's plan is made of.
LEMMA ElsewhereKeeps ==
  ASSUME NEW a \in Devices, SoleAdmin(a), TypeInv, AdminInv(a), Elsewhere(a)
  PROVE  /\ commands'[a] = commands[a] /\ epoch'[a] = epoch[a]
         /\ directory'[a] = directory[a] /\ deks'[a] = deks[a]
         /\ engine'[a] = engine[a] /\ ingest'[a] = ingest[a]
         /\ Mine(a)' = Mine(a) /\ UNCHANGED serverVars
<1> DEFINE Mailbox == /\ commands'[a] = commands[a] /\ engine'[a] = engine[a]
                      /\ ingest'[a] = ingest[a]
           Tables == /\ epoch'[a] = epoch[a] /\ directory'[a] = directory[a]
                     /\ deks'[a] = deks[a]
           Calls == Mine(a)' = Mine(a)
<1>t. /\ commands \in [Devices -> Seq(Requests)] /\ engine \in [Devices -> EngineStates]
      /\ ingest \in [Devices -> Seq(Answers)]
      /\ epoch \in [Devices -> Epochs \cup {0}]
      /\ directory \in [Devices -> SUBSET Members]
      /\ deks \in [Devices -> [Epochs -> Deks \cup {0}]]
      /\ handlers \subseteq [from : Devices, req : Requests,
                             pc : {"received", "checked"}, awaited : BOOLEAN]
  BY DEF TypeInv, TypeOK
<1>x. ASSUME NEW d \in Devices \ {a}, handlers' = Abandoned(d) PROVE Calls
  <2> DEFINE drop(h) == [h EXCEPT !.awaited = @ /\ h.from # d]
  <2>1. ASSUME NEW h \in handlers, h.from = a PROVE drop(h) = h
    <3>1. h.awaited /\ h.awaited \in BOOLEAN /\ h.from # d
      BY <1>t, <2>1 DEF AdminInv, OneCall, Mine
    <3>2. (h.awaited /\ h.from # d) = h.awaited
      BY <3>1
    <3>3. [h EXCEPT !.awaited = h.awaited] = h
      BY <1>t
    <3> QED
      BY <3>2, <3>3
  <2>2. \A h \in handlers : drop(h).from = h.from
    BY <1>t
  <2>3. handlers' = {drop(h) : h \in handlers}
    BY <1>x DEF Abandoned
  <2> HIDE DEF drop
  <2> QED
    BY <2>1, <2>2, <2>3 DEF Mine
<1>1. ASSUME NEW d \in Devices \ {a},
             Restart(d) \/ IngestCut(d) \/ \E m \in Members : RemoveMemberCut(d, m)
      PROVE  Mailbox /\ Tables /\ Calls
  <2>1. handlers' = Abandoned(d)
    BY <1>1 DEF Restart, IngestCut, RemoveMemberCut, Exit
  <2>2. Mailbox
    BY <1>1, <1>t DEF Restart, IngestCut, RemoveMemberCut, Exit, Go
  <2>3. Tables
    <3>1. CASE Restart(d)
      BY <3>1 DEF Restart, storeVars
    <3>2. CASE IngestCut(d)
      BY <1>t, <3>2 DEF IngestCut
    <3>3. ASSUME NEW m \in Members, RemoveMemberCut(d, m) PROVE Tables
      BY <1>t, <3>3 DEF RemoveMemberCut
    <3> QED
      BY <1>1, <3>1, <3>2, <3>3
  <2> QED
    BY <1>x, <2>1, <2>2, <2>3
<1>2. ASSUME NEW d \in Devices \ {a}, \/ Ingest(d)
                                      \/ \E m \in Invitees : AddMemberLocal(d, m)
                                      \/ \E m \in Members : RemoveMemberLocal(d, m)
      PROVE  Mailbox /\ Tables /\ Calls
  <2>1. Calls
    BY <1>2 DEF Ingest, AddMemberLocal, RemoveMemberLocal, Mine
  <2>2. Mailbox
    BY <1>2, <1>t DEF Ingest, AddMemberLocal, RemoveMemberLocal, Send
  <2>3. Tables
    BY <1>2, <1>t DEF Ingest, AddMemberLocal, RemoveMemberLocal
  <2> QED
    BY <2>1, <2>2, <2>3
<1>3. ASSUME NEW d \in Devices \ {a}, EngineNext(d) PROVE Mailbox /\ Tables /\ Calls
  <2>1. CASE \/ Start(d) \/ Discover(d) \/ ReadEpoch(d) \/ ReadMembers(d) \/ ReadKeys(d)
             \/ SyncFails(d)
    BY <2>1, <1>t DEF Start, Discover, ReadEpoch, ReadMembers, ReadKeys, SyncFails, Go,
       storeVars, Mine
  <2>2. CASE Call(d)
    <3>1. Mailbox /\ Tables
      BY <2>2, <1>t DEF Call, Go, storeVars
    <3>2. handlers' = handlers \cup {[from |-> d, req |-> Head(commands[d]),
                                      pc |-> "received", awaited |-> TRUE]}
      BY <2>2 DEF Call
    <3> QED
      BY <3>1, <3>2 DEF Mine
  <2>3. CASE CallLost(d)
    <3>1. Mailbox /\ Tables
      BY <2>3, <1>t DEF CallLost, Go, storeVars
    <3>2. handlers' = Abandoned(d) \/ handlers' = {h \in handlers : ~(h.from = d /\ h.awaited)}
      BY <2>3 DEF CallLost
    <3> QED
      BY <1>x, <3>1, <3>2 DEF Mine
  <2> QED
    BY <1>3, <2>1, <2>2, <2>3 DEF EngineNext
<1>4. ASSUME NEW h \in handlers \ Mine(a), CheckOwner(h) PROVE Mailbox /\ Tables /\ Calls
  <2>1. h.from \in Devices \ {a}
    BY <1>t DEF Mine
  <2>2. UNCHANGED <<commands, ingest, storeVars>> /\ engine'[a] = engine[a]
    BY <1>4, <1>t, <2>1 DEF CheckOwner, Finish
  <2>3. [h EXCEPT !.pc = "checked"].from = h.from
    BY <1>t
  <2>4. Calls
    BY <1>4, <2>1, <2>3 DEF CheckOwner, Finish, Mine
  <2> QED
    BY <2>2, <2>4 DEF storeVars
<1>5. CASE UNCHANGED vars
  BY <1>5 DEF vars, engineVars, storeVars, Mine
<1>6. Mailbox /\ Tables /\ Calls
  BY <1>1, <1>2, <1>3, <1>4, <1>5 DEF Elsewhere, StoreNext
<1>7. UNCHANGED serverVars
  <2>1. ASSUME NEW d \in Devices, StoreNext(d) \/ EngineNext(d) \/ Restart(d)
        PROVE  UNCHANGED serverVars
    BY <2>1 DEF StoreNext, AddMemberLocal, RemoveMemberLocal, RemoveMemberCut, Ingest,
       IngestCut, EngineNext, Start, Discover, ReadEpoch, ReadMembers, ReadKeys, SyncFails,
       Call, CallLost, Restart, Exit
  <2>2. ASSUME NEW h \in handlers, CheckOwner(h) PROVE UNCHANGED serverVars
    BY <2>2 DEF CheckOwner
  <2> QED
    BY <2>1, <2>2 DEF Elsewhere, vars
<1> QED
  BY <1>6, <1>7

\* A command extends the plan, a call takes its first request in hand, and the
\* commit makes the server's tables those after that request.
LEMMA PlanStep ==
  ASSUME NEW a \in Devices, SoleAdmin(a), TypeInv, AdminInv(a), [Next]_vars
  PROVE  OneCall(a)' /\ Planned(a)'
<1>t. /\ commands \in [Devices -> Seq(Requests)] /\ engine \in [Devices -> EngineStates]
      /\ epoch \in [Devices -> Epochs \cup {0}]
      /\ directory \in [Devices -> SUBSET Members] /\ directory[a] \in SUBSET Members
      /\ deks \in [Devices -> [Epochs -> Deks \cup {0}]]
      /\ handlers \subseteq [from : Devices, req : Requests,
                             pc : {"received", "checked"}, awaited : BOOLEAN]
      /\ srvEpoch \in Epochs /\ Seats \in SUBSET Members
      /\ \A d \in Devices : commands[d] \in Seq(Requests)
  BY DEF TypeInv, TypeOK, Seats
<1>o. AccountOf[a] = Owner /\ Owner \notin Invitees
  BY DEF SoleAdmin
<1>i. /\ engine[a] \in {"idle", "calling"} /\ ingest[a] = <<>>
      /\ \A h \in Mine(a) : h.awaited /\ engine[a] = "calling"
      /\ \A h, k \in Mine(a) : h = k
  BY DEF AdminInv, OneCall
<1>p. PICK e \in Epochs, S \in SUBSET Members :
        /\ Chain(commands[a], e, S, epoch[a], directory[a])
        /\ engine[a] = "idle" => e = srvEpoch /\ S = Seats
        /\ \A h \in Mine(a) : Fits(h.req, srvEpoch, Seats, e, S)
  BY DEF AdminInv, Planned
<1>1. CASE Elsewhere(a)
  <2>1. /\ commands'[a] = commands[a] /\ epoch'[a] = epoch[a]
        /\ directory'[a] = directory[a] /\ engine'[a] = engine[a] /\ ingest'[a] = ingest[a]
        /\ Mine(a)' = Mine(a) /\ UNCHANGED serverVars
    BY <1>1, ElsewhereKeeps
  <2>2. Seats' = Seats /\ srvEpoch' = srvEpoch
    BY <2>1 DEF Seats, serverVars
  <2>3. OneCall(a)'
    BY <1>i, <2>1 DEF OneCall
  <2>4. Planned(a)'
    BY <1>p, <2>1, <2>2 DEF Planned
  <2> QED
    BY <2>3, <2>4
<1>s. ASSUME NEW r \in Requests, NEW e2 \in Epochs, NEW S2 \in SUBSET Members,
             epoch[a] \in Epochs, Fits(r, epoch[a], directory[a], e2, S2),
             commands'[a] = Append(commands[a], r), epoch'[a] = e2, directory'[a] = S2,
             UNCHANGED <<serverVars, handlers, engine, ingest>>
      PROVE  OneCall(a)' /\ Planned(a)'
  <2>1. Chain(Append(commands[a], r), e, S, e2, S2)
    BY <1>t, <1>p, <1>s, ChainAppended
  <2>2. Seats' = Seats /\ srvEpoch' = srvEpoch /\ Mine(a)' = Mine(a)
    BY <1>s DEF Seats, serverVars, Mine
  <2>3. OneCall(a)'
    BY <1>i, <1>s, <2>2 DEF OneCall
  <2>4. Planned(a)'
    BY <1>p, <1>s, <2>1, <2>2 DEF Planned
  <2> QED
    BY <2>3, <2>4
<1>2. ASSUME NEW m \in Invitees, AddMemberLocal(a, m) PROVE OneCall(a)' /\ Planned(a)'
  <2> DEFINE r == [op |-> "add", member |-> m, epoch |-> epoch[a], to |-> {m},
                   dek |-> deks[a][epoch[a]]]
  <2>1. m \in Members /\ epoch[a] \in Epochs /\ deks[a][epoch[a]] \in Deks
    BY <1>2, <1>t, MembershipAssumption DEF AddMemberLocal
  <2>2. r \in Requests /\ directory[a] \cup {m} \in SUBSET Members
    BY <1>t, <2>1 DEF Requests
  <2>3. Fits(r, epoch[a], directory[a], epoch[a], directory[a] \cup {m})
    BY <1>o DEF Fits
  <2>4. /\ commands'[a] = Append(commands[a], r) /\ epoch'[a] = epoch[a]
        /\ directory'[a] = directory[a] \cup {m}
        /\ UNCHANGED <<serverVars, handlers, engine, ingest>>
    BY <1>2, <1>t DEF AddMemberLocal, Send
  <2> HIDE DEF r
  <2> QED
    BY <1>s, <2>1, <2>2, <2>3, <2>4
<1>3. ASSUME NEW m \in Members, RemoveMemberLocal(a, m) PROVE OneCall(a)' /\ Planned(a)'
  <2> DEFINE r == [op |-> "remove", member |-> m, epoch |-> epoch[a],
                   to |-> directory[a] \ {m}, dek |-> minted + 1]
  <2>1. epoch[a] \in Epochs /\ epoch[a] < MaxEpoch /\ m # AccountOf[a]
    BY <1>3, <1>t DEF RemoveMemberLocal
  <2>2. epoch[a] + 1 \in Epochs
    BY <2>1, MembershipAssumption DEF Epochs
  <2>3. minted + 1 \in Deks
    BY <1>3, MembershipAssumption
       DEF RemoveMemberLocal, Command, TypeInv, TypeOK, MintBounded, Deks
  <2>4. r \in Requests /\ directory[a] \ {m} \in SUBSET Members
    BY <1>t, <2>1, <2>3 DEF Requests
  <2>5. Fits(r, epoch[a], directory[a], epoch[a] + 1, directory[a] \ {m})
    BY <1>o, <2>1 DEF Fits
  <2>6. /\ commands'[a] = Append(commands[a], r) /\ epoch'[a] = epoch[a] + 1
        /\ directory'[a] = directory[a] \ {m}
        /\ UNCHANGED <<serverVars, handlers, engine, ingest>>
    BY <1>3, <1>t DEF RemoveMemberLocal, Send
  <2> HIDE DEF r
  <2> QED
    BY <1>s, <2>1, <2>2, <2>4, <2>5, <2>6
<1>4. CASE Call(a)
  <2> DEFINE k == [from |-> a, req |-> Head(commands[a]), pc |-> "received", awaited |-> TRUE]
  <2>1. /\ engine[a] = "idle" /\ commands[a] # <<>> /\ handlers' = handlers \cup {k}
        /\ commands'[a] = Tail(commands[a]) /\ engine'[a] = "calling"
        /\ UNCHANGED <<serverVars, epoch, directory, ingest>>
    BY <1>4, <1>t DEF Call, Go, storeVars
  <2>2. Mine(a) = {}
    BY <1>i, <2>1
  <2>3. k.from = a /\ k.awaited /\ k.req = Head(commands[a])
    OBVIOUS
  <2> HIDE DEF k
  <2>4. Mine(a)' = {k}
    BY <2>1, <2>2, <2>3 DEF Mine
  <2>5. epoch[a] \in Epochs
    <3>1. PICK E \in [0..Len(commands[a]) -> Epochs] : E[Len(commands[a])] = epoch[a]
      BY <1>p DEF Chain
    <3>2. Len(commands[a]) \in 0..Len(commands[a])
      BY <1>t
    <3> QED
      BY <3>1, <3>2
  <2>6. PICK e1 \in Epochs, S1 \in SUBSET Members :
          /\ Fits(Head(commands[a]), e, S, e1, S1)
          /\ Chain(Tail(commands[a]), e1, S1, epoch[a], directory[a])
    BY <1>t, <1>p, <2>1, <2>5, ChainDequeued
  <2>7. Seats' = Seats /\ srvEpoch' = srvEpoch
    BY <2>1 DEF Seats, serverVars
  <2>8. OneCall(a)'
    BY <1>i, <2>1, <2>3, <2>4 DEF OneCall
  <2>9. Planned(a)'
    BY <1>p, <2>1, <2>3, <2>4, <2>6, <2>7 DEF Planned
  <2> QED
    BY <2>8, <2>9
<1>5. ASSUME NEW h \in Mine(a), CheckOwner(h) PROVE OneCall(a)' /\ Planned(a)'
  <2> DEFINE k == [h EXCEPT !.pc = "checked"]
  <2>1. h \in handlers /\ h.from = a
    BY <1>5 DEF Mine
  <2>2. role[AccountOf[h.from]] = "owner"
    BY <1>o, <2>1 DEF AdminInv, OwnerSits
  <2>3. /\ handlers' = (handlers \ {h}) \cup {k} /\ UNCHANGED engine
        /\ UNCHANGED <<serverVars, epoch, directory, commands, ingest>>
    BY <1>5, <2>2 DEF CheckOwner, storeVars
  <2>4. k.from = a /\ k.awaited = h.awaited /\ k.req = h.req
    BY <1>t, <2>1
  <2> HIDE DEF k
  <2>5. Mine(a)' = {k}
    BY <1>i, <1>5, <2>3, <2>4 DEF Mine
  <2>6. Seats' = Seats /\ srvEpoch' = srvEpoch
    BY <2>3 DEF Seats, serverVars
  <2>7. OneCall(a)'
    BY <1>i, <1>5, <2>3, <2>4, <2>5 DEF OneCall
  <2>8. Planned(a)'
    BY <1>p, <1>5, <2>3, <2>4, <2>5, <2>6 DEF Planned
  <2> QED
    BY <2>7, <2>8
<1>6. ASSUME NEW h \in Mine(a), CommitAdd(h) \/ CommitRemove(h)
      PROVE  OneCall(a)' /\ Planned(a)'
  <2>1. h \in handlers
    BY <1>6 DEF Mine
  <2>2. srvEpoch' = e /\ Seats' = S
    BY <1>6, <1>p, <2>1, CommitEffect
  <2>3. engine'[a] = "idle"
    BY <1>6, <1>t, <2>1, CommitFits
  <2>4. handlers' = handlers \ {h} /\ UNCHANGED <<epoch, directory, commands, ingest>>
    BY <1>6 DEF CommitAdd, CommitRemove, Finish, storeVars
  <2>5. Mine(a)' = {}
    BY <1>i, <1>6, <2>4 DEF Mine
  <2>6. OneCall(a)'
    BY <1>i, <2>3, <2>4, <2>5 DEF OneCall
  <2>7. Planned(a)'
    BY <1>p, <2>2, <2>3, <2>4, <2>5 DEF Planned
  <2> QED
    BY <2>6, <2>7
<1> QED
  BY <1>1, <1>2, <1>3, <1>4, <1>5, <1>6, HereOrElsewhere DEF Here

LEMMA AdminStep ==
  ASSUME NEW a \in Devices, SoleAdmin(a), TypeInv, AdminInv(a), [Next]_vars
  PROVE  AdminInv(a)'
BY OwnerStep, CallersStep, PlanStep DEF AdminInv

LEMMA AdminInit ==
  ASSUME NEW a \in Devices, SoleAdmin(a), Init
  PROVE  AdminInv(a)
<1> USE MembershipAssumption DEF Init
<1>1. a \in Synced /\ AccountOf[a] = Owner
  BY DEF SoleAdmin
<1>2. OwnerSits
  BY DEF OwnerSits
<1>3. CallersKnown(a) /\ OneCall(a)
  BY <1>1 DEF CallersKnown, OneCall, Mine
<1>4. Planned(a)
  <2>1. Seats = Seated \cup {Owner}
    BY DEF Seats
  <2>2. 1 \in Epochs /\ Seats \in SUBSET Members
    BY DEF Epochs, Seats
  <2>3. Chain(<<>>, 1, Seats, 1, Seats)
    BY <2>2, ChainEmpty
  <2>4. /\ commands[a] = <<>> /\ epoch[a] = 1 /\ directory[a] = Seats /\ srvEpoch = 1
        /\ Mine(a) = {}
    BY <1>1, <2>1 DEF Mine
  <2> HIDE DEF Init
  <2> QED
    BY <2>2, <2>3, <2>4 DEF Planned
<1> QED
  BY <1>2, <1>3, <1>4 DEF AdminInv

-----------------------------------------------------------------------------
(* Key slots                                                               *)

\* No slot is ahead of the list's epoch, so that a rotation finds its own free.
NoFutureSlots ==
    \A e \in Epochs, m \in Members : slot[<<e, m>>] # 0 => e <= srvEpoch

KeysInv == NoFutureSlots /\ SlotsOnlyForMembers /\ SurvivorsRekeyed

\* An addition fills a slot of the current epoch, a rotation those of the next.
LEMMA KeysStep ==
  ASSUME NEW a \in Devices, SoleAdmin(a), TypeInv, AdminInv(a), KeysInv, [Next]_vars
  PROVE  KeysInv'
<1>t. /\ role \in [Members -> {"none", "member", "owner"}]
      /\ slot \in [Epochs \X Members -> Deks \cup {0}]
      /\ srvEpoch \in Epochs /\ \A e \in Epochs : e \in Nat
      /\ 0 \notin Deks
  BY DEF TypeInv, TypeOK, Epochs, Deks
<1>k. /\ \A e \in Epochs, m \in Members : slot[<<e, m>>] # 0 => e <= srvEpoch
      /\ \A e \in Epochs, m \in Members : role[m] = "none" => slot[<<e, m>>] = 0
      /\ \A m \in Members : role[m] # "none" => slot[<<srvEpoch, m>>] # 0
  BY DEF KeysInv, NoFutureSlots, SlotsOnlyForMembers, SurvivorsRekeyed
<1>1. ASSUME UNCHANGED serverVars PROVE KeysInv'
  BY <1>k, <1>1 DEF serverVars, KeysInv, NoFutureSlots, SlotsOnlyForMembers, SurvivorsRekeyed
<1>2. ASSUME NEW h \in handlers, CommitAdd(h) PROVE KeysInv'
  <2>1. /\ h.req.epoch = srvEpoch /\ h.req.to = {h.req.member} /\ h.req.member \in Members
        /\ h.req.dek \in Deks
    BY <1>2, CommitFits DEF CommitAdd, Requests
  <2>2. /\ UNCHANGED srvEpoch /\ role' = [role EXCEPT ![h.req.member] = "member"]
        /\ slot' = [s \in Epochs \X Members |->
                      IF s[1] = srvEpoch /\ s[2] = h.req.member /\ slot[s] = 0
                      THEN h.req.dek ELSE slot[s]]
    BY <1>2, <2>1 DEF CommitAdd, Filled
  <2>3. \A e \in Epochs, m \in Members :
           slot'[<<e, m>>] = IF e = srvEpoch /\ m = h.req.member /\ slot[<<e, m>>] = 0
                             THEN h.req.dek ELSE slot[<<e, m>>]
    BY <2>2
  <2>4. NoFutureSlots' /\ SlotsOnlyForMembers' /\ SurvivorsRekeyed'
    BY <1>t, <1>k, <2>1, <2>2, <2>3 DEF NoFutureSlots, SlotsOnlyForMembers, SurvivorsRekeyed
  <2> QED
    BY <2>4 DEF KeysInv
<1>3. ASSUME NEW h \in handlers, CommitRemove(h) PROVE KeysInv'
  <2>1. /\ h.req.epoch = srvEpoch /\ h.req.to = Seats \ {h.req.member}
        /\ h.req.member \in Members /\ h.req.dek \in Deks
    BY <1>3, CommitFits DEF CommitRemove, Requests
  <2>2. /\ srvEpoch' = srvEpoch + 1 /\ role' = [role EXCEPT ![h.req.member] = "none"]
        /\ slot' = [s \in Epochs \X Members |->
                      IF s[2] = h.req.member THEN 0
                      ELSE Filled(srvEpoch + 1, Seats \ {h.req.member}, h.req.dek)[s]]
    BY <1>3, <2>1 DEF CommitRemove
  <2>3. \A e \in Epochs, m \in Members :
           slot'[<<e, m>>] =
             IF m = h.req.member THEN 0
             ELSE IF e = srvEpoch + 1 /\ m \in Seats /\ slot[<<e, m>>] = 0
             THEN h.req.dek ELSE slot[<<e, m>>]
    BY <2>2 DEF Filled
  <2>4. /\ srvEpoch' = srvEpoch + 1 /\ srvEpoch' \in Epochs
        /\ \A m \in Members : m \in Seats <=> role[m] # "none"
        /\ \A m \in Members : role'[m] = IF m = h.req.member THEN "none" ELSE role[m]
    BY <1>t, <2>2, ServerTyped DEF Seats
  <2>5. NoFutureSlots'
    BY <1>t, <1>k, <2>3, <2>4 DEF NoFutureSlots
  <2>6. SlotsOnlyForMembers'
    BY <1>t, <1>k, <2>3, <2>4 DEF SlotsOnlyForMembers
  <2>7. SurvivorsRekeyed'
    BY <1>t, <1>k, <2>1, <2>3, <2>4 DEF SurvivorsRekeyed
  <2> QED
    BY <2>5, <2>6, <2>7 DEF KeysInv
<1> QED
  BY <1>1, <1>2, <1>3, OnlyCommits

\* Nobody but a removed member loses a seat or a slot.
LEMMA SlotsStay ==
  ASSUME TypeInv, [Next]_vars, NEW m \in Members, m \notin removed'
  PROVE  /\ m \notin removed
         /\ role[m] # "none" => role'[m] # "none"
         /\ \A e \in Epochs : slot[<<e, m>>] # 0 => slot'[<<e, m>>] = slot[<<e, m>>]
<1>t. /\ role \in [Members -> {"none", "member", "owner"}]
      /\ slot \in [Epochs \X Members -> Deks \cup {0}]
  BY DEF TypeInv, TypeOK
<1>1. ASSUME UNCHANGED serverVars
      PROVE  UNCHANGED <<role, slot, removed>>
  BY <1>1 DEF serverVars
<1>f. ASSUME NEW x, NEW to, NEW dek, NEW e \in Epochs, slot[<<e, m>>] # 0
      PROVE  Filled(x, to, dek)[<<e, m>>] = slot[<<e, m>>]
  BY <1>f DEF Filled
<1>2. ASSUME NEW h \in handlers, CommitAdd(h)
      PROVE  /\ UNCHANGED removed /\ (role[m] # "none" => role'[m] # "none")
             /\ \A e \in Epochs : slot[<<e, m>>] # 0 => slot'[<<e, m>>] = slot[<<e, m>>]
  BY <1>t, <1>f, <1>2 DEF CommitAdd
<1>3. ASSUME NEW h \in handlers, CommitRemove(h)
      PROVE  /\ m \notin removed /\ (role[m] # "none" => role'[m] # "none")
             /\ \A e \in Epochs : slot[<<e, m>>] # 0 => slot'[<<e, m>>] = slot[<<e, m>>]
  <2> DEFINE filled == Filled(h.req.epoch + 1, h.req.to, h.req.dek)
  <2>1. /\ removed' = removed \cup {h.req.member}
        /\ role' = [role EXCEPT ![h.req.member] = "none"]
        /\ slot' = [s \in Epochs \X Members |-> IF s[2] = h.req.member THEN 0 ELSE filled[s]]
    BY <1>3 DEF CommitRemove
  <2>2. m # h.req.member /\ m \notin removed
    BY <2>1
  <2>3. \A e \in Epochs : slot'[<<e, m>>] = filled[<<e, m>>]
    <3> HIDE DEF filled
    <3> QED
      BY <2>1, <2>2
  <2>4. \A e \in Epochs : slot[<<e, m>>] # 0 => filled[<<e, m>>] = slot[<<e, m>>]
    BY <1>f
  <2> HIDE DEF filled
  <2> QED
    BY <1>t, <2>1, <2>2, <2>3, <2>4
<1> QED
  BY <1>1, <1>2, <1>3, OnlyCommits

-----------------------------------------------------------------------------
(* What a device has read and ingested                                     *)

\* Seat and slot of a sync under way, of the answers on their way to the store,
\* and of the local epoch.
ReadsAt(d) ==
    AccountOf[d] \notin removed =>
        /\ engine[d] \in {"metadata", "members", "keys"} => role[AccountOf[d]] # "none"
        /\ engine[d] \in {"members", "keys"} => slot[<<probe[d].epoch, AccountOf[d]>>] # 0
        /\ \A got \in Range(ingest[d]) :
              /\ got.keys[got.epoch] # 0
              /\ \A e \in Epochs : got.keys[e] # 0 => slot[<<e, AccountOf[d]>>] = got.keys[e]
        /\ epoch[d] # 0 /\ d \notin torn => deks[d][epoch[d]] # 0

ReadsInv == \A d \in Devices : ReadsAt(d)

\* What a step of somebody else leaves of a device: at most, its engine is
\* answered.
Apart(d) ==
    /\ engine'[d] = engine[d] \/ engine'[d] = "idle"
    /\ probe'[d] = probe[d] /\ ingest'[d] = ingest[d]
    /\ epoch'[d] = epoch[d] /\ deks'[d] = deks[d]
    /\ d \in torn' <=> d \in torn

LEMMA OthersApart ==
  ASSUME TypeInv, [Next]_vars, NEW d \in Devices,
         ~StoreNext(d), ~EngineNext(d), ~Restart(d)
  PROVE  Apart(d)
<1>t. /\ engine \in [Devices -> EngineStates]
      /\ probe \in [Devices -> [epoch : Epochs \cup {0}, members : SUBSET Members]]
      /\ ingest \in [Devices -> Seq(Answers)]
      /\ epoch \in [Devices -> Epochs \cup {0}]
      /\ deks \in [Devices -> [Epochs -> Deks \cup {0}]]
  BY DEF TypeInv, TypeOK
<1>1. ASSUME NEW e \in Devices \ {d}, NEW m \in Members,
             AddMemberLocal(e, m) \/ RemoveMemberLocal(e, m)
      PROVE  Apart(d)
  BY <1>t, <1>1 DEF AddMemberLocal, RemoveMemberLocal, Apart
<1>2. ASSUME NEW e \in Devices \ {d}, NEW m \in Members, RemoveMemberCut(e, m) PROVE Apart(d)
  BY <1>t, <1>2 DEF RemoveMemberCut, Exit, Go, Apart
<1>3. ASSUME NEW e \in Devices \ {d}, Ingest(e) PROVE Apart(d)
  BY <1>t, <1>3 DEF Ingest, Apart
<1>4. ASSUME NEW e \in Devices \ {d}, IngestCut(e) PROVE Apart(d)
  BY <1>t, <1>4 DEF IngestCut, Exit, Go, Apart
<1>5. ASSUME NEW e \in Devices \ {d},
             Start(e) \/ Discover(e) \/ ReadEpoch(e) \/ ReadMembers(e) \/ ReadKeys(e)
      PROVE  Apart(d)
  BY <1>t, <1>5 DEF Start, Discover, ReadEpoch, ReadMembers, ReadKeys, Go, storeVars,
     boundVars, Apart
<1>6. ASSUME NEW e \in Devices \ {d}, SyncFails(e) \/ Call(e) \/ CallLost(e) PROVE Apart(d)
  BY <1>t, <1>6 DEF SyncFails, Call, CallLost, Go, storeVars, boundVars, Apart
<1>7. ASSUME NEW e \in Devices \ {d}, Restart(e) PROVE Apart(d)
  BY <1>t, <1>7 DEF Restart, Exit, Go, storeVars, Apart
<1>8. ASSUME NEW h \in handlers, CheckOwner(h) \/ CommitAdd(h) \/ CommitRemove(h)
      PROVE  Apart(d)
  <2>1. UNCHANGED <<storeVars, probe, ingest, torn>>
    BY <1>8 DEF CheckOwner, CommitAdd, CommitRemove, boundVars
  <2>2. \/ engine' = [engine EXCEPT ![h.from] = "idle"]
        \/ engine' = [engine EXCEPT ![h.from] = engine[h.from]]
        \/ UNCHANGED engine
    BY <1>8 DEF CheckOwner, CommitAdd, CommitRemove, Finish
  <2> QED
    BY <1>t, <2>1, <2>2 DEF storeVars, Apart
<1>9. UNCHANGED vars => Apart(d)
  BY DEF vars, storeVars, engineVars, boundVars, Apart
<1> QED
  BY <1>1, <1>2, <1>3, <1>4, <1>5, <1>6, <1>7, <1>8, <1>9, MembershipAssumption
     DEF Next, StoreNext, EngineNext

\* A seat seen at the start of a sync and a slot seen at its epoch are there
\* when the keys are read: only a removal takes them away.
LEMMA ReadsStep ==
  ASSUME NEW d \in Devices, TypeInv, KeysInv, ReadsAt(d), [Next]_vars
  PROVE  ReadsAt(d)'
<1> DEFINE m == AccountOf[d]
<1>t. /\ engine \in [Devices -> EngineStates]
      /\ probe \in [Devices -> [epoch : Epochs \cup {0}, members : SUBSET Members]]
      /\ ingest \in [Devices -> Seq(Answers)] /\ ingest[d] \in Seq(Answers)
      /\ epoch \in [Devices -> Epochs \cup {0}]
      /\ deks \in [Devices -> [Epochs -> Deks \cup {0}]]
      /\ minted \in Deks /\ srvEpoch \in Epochs
      /\ m \in Members /\ 0 \notin Deks /\ 0 \notin Epochs
  BY MembershipAssumption DEF TypeInv, TypeOK, Deks, Epochs
<1>p. engine[d] \in {"members", "keys"} => probe[d].epoch \in Epochs
  BY <1>t DEF TypeInv, ProbeRead
<1>g. \A got \in Range(ingest[d]) : got \in Answers
  BY <1>t DEF Range
<1>0. SUFFICES ASSUME m \notin removed' PROVE ReadsAt(d)'
  BY DEF ReadsAt
<1>s. /\ m \notin removed /\ (role[m] # "none" => role'[m] # "none")
      /\ \A e \in Epochs : slot[<<e, m>>] # 0 => slot'[<<e, m>>] = slot[<<e, m>>]
  BY <1>0, <1>t, SlotsStay
<1>r. /\ engine[d] \in {"metadata", "members", "keys"} => role[m] # "none"
      /\ engine[d] \in {"members", "keys"} => slot[<<probe[d].epoch, m>>] # 0
      /\ \A got \in Range(ingest[d]) :
            /\ got.keys[got.epoch] # 0
            /\ \A e \in Epochs : got.keys[e] # 0 => slot[<<e, m>>] = got.keys[e]
      /\ epoch[d] # 0 /\ d \notin torn => deks[d][epoch[d]] # 0
  BY <1>s DEF ReadsAt
<1> DEFINE Answered == \A got \in Range(ingest'[d]) :
                          /\ got.keys[got.epoch] # 0
                          /\ \A e \in Epochs :
                                got.keys[e] # 0 => slot'[<<e, m>>] = got.keys[e]
           Keyed == epoch'[d] # 0 /\ d \notin torn' => deks'[d][epoch'[d]] # 0
           Reading == /\ engine'[d] \in {"metadata", "members", "keys"} => role'[m] # "none"
                      /\ engine'[d] \in {"members", "keys"}
                            => slot'[<<probe'[d].epoch, m>>] # 0
<1>q. Answered /\ Keyed /\ Reading => ReadsAt(d)'
  BY DEF ReadsAt
<1>a. ASSUME Range(ingest'[d]) \subseteq Range(ingest[d]) PROVE Answered
  BY <1>a, <1>r, <1>s
<1>k. ASSUME epoch'[d] = epoch[d], deks'[d] = deks[d], d \in torn' <=> d \in torn PROVE Keyed
  BY <1>k, <1>r
<1>1. CASE Apart(d)
  <2>1. Answered
    BY <1>a, <1>1 DEF Apart
  <2>2. Keyed
    BY <1>k, <1>1 DEF Apart
  <2>3. Reading
    BY <1>1, <1>p, <1>r, <1>s DEF Apart
  <2> QED
    BY <1>q, <2>1, <2>2, <2>3
<1>2. ASSUME NEW n \in Members, AddMemberLocal(d, n) PROVE Apart(d)
  BY <1>2 DEF AddMemberLocal, Apart
<1>3. ASSUME NEW n \in Members, RemoveMemberLocal(d, n) PROVE ReadsAt(d)'
  <2>1. /\ UNCHANGED <<engine, probe, ingest>> /\ epoch'[d] = epoch[d] + 1
        /\ deks'[d] = [deks[d] EXCEPT ![epoch[d] + 1] = minted + 1]
        /\ epoch[d] # 0 /\ epoch[d] < MaxEpoch
    BY <1>t, <1>3 DEF RemoveMemberLocal
  <2>2. epoch[d] + 1 \in Epochs /\ minted + 1 # 0
    BY <1>t, <2>1, MembershipAssumption DEF Epochs, Deks
  <2>3. Answered
    BY <1>a, <2>1
  <2>4. Keyed
    BY <1>t, <2>1, <2>2
  <2>5. Reading
    BY <1>p, <1>r, <1>s, <2>1
  <2> QED
    BY <1>q, <2>3, <2>4, <2>5
<1>x. ASSUME Exit(d) PROVE Answered /\ Reading
  <2>1. engine'[d] = "discover" /\ ingest'[d] = <<>>
    BY <1>t, <1>x DEF Exit, Go
  <2>2. Range(<<>>) = {}
    BY DEF Range
  <2> QED
    BY <1>a, <2>1, <2>2
<1>4. ASSUME NEW n \in Members, RemoveMemberCut(d, n) PROVE ReadsAt(d)'
  <2>1. /\ Exit(d) /\ UNCHANGED torn
        /\ epoch'[d] = epoch[d] \/ epoch'[d] = epoch[d] + 1
        /\ deks'[d] = [deks[d] EXCEPT ![epoch[d] + 1] = minted + 1]
        /\ epoch[d] # 0 /\ epoch[d] < MaxEpoch
    BY <1>t, <1>4 DEF RemoveMemberCut
  <2>2. epoch[d] + 1 \in Epochs /\ minted + 1 # 0 /\ epoch[d] # epoch[d] + 1
    BY <1>t, <2>1, MembershipAssumption DEF Epochs, Deks
  <2>3. Keyed
    BY <1>t, <1>r, <2>1, <2>2
  <2> QED
    BY <1>q, <1>x, <2>1, <2>3
<1>5. CASE Ingest(d)
  <2> DEFINE got == Head(ingest[d])
  <2>1. /\ ingest[d] # <<>> /\ ingest'[d] = Tail(ingest[d]) /\ UNCHANGED <<engine, probe>>
        /\ epoch'[d] = got.epoch
        /\ deks'[d] = [e \in Epochs |-> IF got.keys[e] # 0 THEN got.keys[e] ELSE deks[d][e]]
    BY <1>t, <1>5 DEF Ingest
  <2>2. got \in Range(ingest[d]) /\ Range(Tail(ingest[d])) \subseteq Range(ingest[d])
    BY <1>t, <2>1, Dequeued
  <2>3. got.epoch \in Epochs /\ got.keys[got.epoch] # 0
    BY <1>g, <1>r, <2>2 DEF Answers
  <2> HIDE DEF got
  <2>4. Answered
    BY <1>a, <2>1, <2>2
  <2>5. Keyed
    BY <2>1, <2>3
  <2>6. Reading
    BY <1>p, <1>r, <1>s, <2>1
  <2> QED
    BY <1>q, <2>4, <2>5, <2>6
<1>6. CASE IngestCut(d)
  <2>1. Exit(d) /\ d \in torn'
    BY <1>6 DEF IngestCut
  <2> QED
    BY <1>q, <1>x, <2>1
<1>7. CASE Restart(d)
  <2>1. Exit(d) /\ Keyed
    BY <1>7, <1>k DEF Restart, storeVars
  <2> QED
    BY <1>q, <1>x, <2>1
<1>e. ASSUME EngineNext(d) PROVE Keyed
  <2>1. UNCHANGED <<storeVars, torn>>
    BY <1>e DEF EngineNext, Start, Discover, ReadEpoch, ReadMembers, ReadKeys, SyncFails, Call,
       CallLost, boundVars
  <2> QED
    BY <1>k, <2>1 DEF storeVars
<1>8. CASE Start(d) \/ SyncFails(d) \/ Call(d) \/ CallLost(d)
  <2>1. engine'[d] \in {"discover", "idle", "calling"} /\ ingest'[d] = ingest[d]
    BY <1>t, <1>8 DEF Start, SyncFails, Call, CallLost, Go
  <2>2. Answered /\ Reading
    BY <1>a, <2>1
  <2>3. Keyed
    BY <1>e, <1>8 DEF EngineNext
  <2> QED
    BY <1>q, <2>2, <2>3
<1>9. CASE Discover(d)
  <2>1. /\ engine'[d] = IF role[m] = "none" THEN "idle" ELSE "metadata"
        /\ ingest'[d] = ingest[d]
    BY <1>t, <1>9 DEF Discover, Go
  <2>2. Answered /\ Reading
    BY <1>a, <1>s, <2>1
  <2>3. Keyed
    BY <1>e, <1>9 DEF EngineNext
  <2> QED
    BY <1>q, <2>2, <2>3
<1>10. CASE ReadEpoch(d)
  <2>1. /\ engine[d] = "metadata" /\ engine'[d] = "members" /\ ingest'[d] = ingest[d]
        /\ probe'[d].epoch = srvEpoch
    BY <1>t, <1>10 DEF ReadEpoch, Go
  <2>2. role[m] # "none" /\ slot[<<srvEpoch, m>>] # 0
    BY <1>t, <1>r, <2>1 DEF KeysInv, SurvivorsRekeyed
  <2>3. Reading
    BY <1>t, <1>s, <2>1, <2>2
  <2>4. Answered
    BY <1>a, <2>1
  <2>5. Keyed
    BY <1>e, <1>10 DEF EngineNext
  <2> QED
    BY <1>q, <2>3, <2>4, <2>5
<1>11. CASE ReadMembers(d)
  <2>1. /\ engine[d] = "members" /\ engine'[d] = "keys" /\ ingest'[d] = ingest[d]
        /\ probe'[d].epoch = probe[d].epoch
    BY <1>t, <1>11 DEF ReadMembers, Go
  <2>2. Reading
    BY <1>p, <1>r, <1>s, <2>1
  <2>3. Answered
    BY <1>a, <2>1
  <2>4. Keyed
    BY <1>e, <1>11 DEF EngineNext
  <2> QED
    BY <1>q, <2>2, <2>3, <2>4
<1>12. CASE ReadKeys(d)
  <2> DEFINE got == [epoch |-> probe[d].epoch, members |-> probe[d].members,
                     keys |-> SlotsOf(m)]
  <2>1. /\ engine[d] = "keys" /\ engine'[d] = "idle"
        /\ ingest'[d] = Append(ingest[d], got)
    BY <1>t, <1>12 DEF ReadKeys, Go
  <2>2. probe[d] \in [epoch : Epochs \cup {0}, members : SUBSET Members]
    BY <1>t
  <2>3. got.epoch = probe[d].epoch /\ got.keys = SlotsOf(m) /\ probe[d].epoch \in Epochs
    BY <1>p, <2>1
  <2>4. \A e \in Epochs : got.keys[e] = slot[<<e, m>>]
    BY <2>3 DEF SlotsOf
  <2>5. got \in Answers
    <3>1. SlotsOf(m) \in [Epochs -> Deks \cup {0}]
      BY <1>t DEF SlotsOf, TypeInv, TypeOK
    <3> QED
      BY <2>2, <2>3, <3>1 DEF Answers
  <2> HIDE DEF got
  <2>6. Range(ingest'[d]) = Range(ingest[d]) \cup {got}
    BY <1>t, <2>1, <2>5, Appended
  <2>7. /\ got.keys[got.epoch] # 0
        /\ \A e \in Epochs : got.keys[e] # 0 => slot'[<<e, m>>] = got.keys[e]
    BY <1>r, <1>s, <2>1, <2>3, <2>4
  <2>8. Answered
    BY <1>r, <1>s, <2>6, <2>7
  <2>9. Keyed /\ Reading
    BY <1>e, <1>12, <2>1 DEF EngineNext
  <2> QED
    BY <1>q, <2>8, <2>9
<1>13. StoreNext(d) => ReadsAt(d)'
  BY <1>1, <1>2, <1>3, <1>4, <1>5, <1>6, MembershipAssumption DEF StoreNext
<1>14. EngineNext(d) => ReadsAt(d)'
  BY <1>8, <1>9, <1>10, <1>11, <1>12 DEF EngineNext
<1> QED
  BY <1>1, <1>7, <1>13, <1>14, OthersApart

-----------------------------------------------------------------------------
(* Cached slots                                                            *)

\* Rotations a has asked for and the server has not seen.
Asked(a) == Range(commands[a]) \cup {h.req : h \in Mine(a)}

\* A cached DEK is the server's, or that of a rotation on its way.
HeldAt(a, d) ==
    AccountOf[d] \notin removed =>
        \A e \in Epochs : deks[d][e] # 0 =>
            \/ slot[<<e, AccountOf[d]>>] = deks[d][e]
            \/ d = a /\ \E r \in Asked(a) :
                 r.op = "remove" /\ r.epoch + 1 = e /\ r.dek = deks[d][e]

HeldInv(a) == \A d \in Devices \ Hasty : HeldAt(a, d)

\* A device that gives no commands takes its DEKs from answers.
LEMMA HeldByOthers ==
  ASSUME NEW a \in Devices, SoleAdmin(a), TypeInv, NEW d \in Devices \ Hasty, d # a,
         ReadsAt(d), HeldAt(a, d), [Next]_vars
  PROVE  HeldAt(a, d)'
<1> DEFINE m == AccountOf[d]
<1>t. /\ deks \in [Devices -> [Epochs -> Deks \cup {0}]] /\ m \in Members
      /\ ingest \in [Devices -> Seq(Answers)] /\ ingest[d] \in Seq(Answers)
  BY MembershipAssumption DEF TypeInv, TypeOK
<1>0. SUFFICES ASSUME m \notin removed', NEW e \in Epochs, deks'[d][e] # 0
               PROVE  slot'[<<e, m>>] = deks'[d][e]
  BY DEF HeldAt
<1>s. m \notin removed /\ (slot[<<e, m>>] # 0 => slot'[<<e, m>>] = slot[<<e, m>>])
  BY <1>0, <1>t, SlotsStay
<1>h. deks[d][e] # 0 => slot[<<e, m>>] = deks[d][e]
  BY <1>s DEF HeldAt
<1>c. d \notin Admins
  BY DEF Hasty, SoleAdmin
<1>1. CASE deks'[d] = deks[d]
  BY <1>0, <1>h, <1>s, <1>1
<1>2. CASE Ingest(d)
  <2> DEFINE got == Head(ingest[d])
  <2>1. ingest[d] # <<>> /\ deks'[d][e] = IF got.keys[e] # 0 THEN got.keys[e] ELSE deks[d][e]
    BY <1>t, <1>2 DEF Ingest
  <2>2. got \in Range(ingest[d])
    BY <1>t, <2>1, Dequeued
  <2>3. got.keys[e] # 0 => slot[<<e, m>>] = got.keys[e]
    BY <1>s, <2>2 DEF ReadsAt
  <2> HIDE DEF got
  <2> QED
    BY <1>0, <1>h, <1>s, <2>1, <2>3
<1>3. StoreNext(d) => Ingest(d) \/ deks'[d] = deks[d]
  BY <1>c DEF StoreNext, AddMemberLocal, RemoveMemberLocal, RemoveMemberCut, Command, IngestCut
<1>4. EngineNext(d) \/ Restart(d) => deks'[d] = deks[d]
  BY DEF EngineNext, Start, Discover, ReadEpoch, ReadMembers, ReadKeys, SyncFails, Call,
     CallLost, Restart, storeVars
<1>5. Apart(d) => deks'[d] = deks[d]
  BY DEF Apart
<1> QED
  BY <1>1, <1>2, <1>3, <1>4, <1>5, OthersApart

\* The administrator's rotation is in its channel until the server has its slot.
LEMMA HeldByAdmin ==
  ASSUME NEW a \in Devices, SoleAdmin(a), TypeInv, AdminInv(a), KeysInv, HeldAt(a, a),
         [Next]_vars
  PROVE  HeldAt(a, a)'
<1>t. /\ deks \in [Devices -> [Epochs -> Deks \cup {0}]]
      /\ slot \in [Epochs \X Members -> Deks \cup {0}] /\ srvEpoch \in Epochs
      /\ commands \in [Devices -> Seq(Requests)] /\ commands[a] \in Seq(Requests)
      /\ epoch \in [Devices -> Epochs \cup {0}]
      /\ handlers \subseteq [from : Devices, req : Requests,
                             pc : {"received", "checked"}, awaited : BOOLEAN]
      /\ \A e \in Epochs : e \in Nat
  BY DEF TypeInv, TypeOK, Epochs
<1>o. AccountOf[a] = Owner /\ Owner \in Members /\ Owner \notin removed /\ Owner \notin removed'
  BY OwnerStep, MembershipAssumption DEF SoleAdmin, AdminInv, OwnerSits
<1>i. \A h, k \in Mine(a) : h = k
  BY DEF AdminInv, OneCall
<1>h. \A e \in Epochs : deks[a][e] # 0 =>
         \/ slot[<<e, Owner>>] = deks[a][e]
         \/ \E r \in Asked(a) : r.op = "remove" /\ r.epoch + 1 = e /\ r.dek = deks[a][e]
  BY <1>o DEF HeldAt
<1>s. \A e \in Epochs : slot[<<e, Owner>>] # 0 => slot'[<<e, Owner>>] = slot[<<e, Owner>>]
  BY <1>o, SlotsStay
<1>k. ASSUME Asked(a) \subseteq Asked(a)', deks'[a] = deks[a] PROVE HeldAt(a, a)'
  BY <1>h, <1>k, <1>o, <1>s DEF HeldAt
<1>1. CASE Elsewhere(a)
  <2>1. commands'[a] = commands[a] /\ deks'[a] = deks[a] /\ Mine(a)' = Mine(a)
    BY <1>1, ElsewhereKeeps
  <2> QED
    BY <1>k, <2>1 DEF Asked
<1>2. ASSUME NEW m \in Invitees, AddMemberLocal(a, m) PROVE HeldAt(a, a)'
  <2> DEFINE r == [op |-> "add", member |-> m, epoch |-> epoch[a], to |-> {m},
                   dek |-> deks[a][epoch[a]]]
  <2>1. m \in Members /\ epoch[a] \in Epochs /\ deks[a][epoch[a]] \in Deks
    BY <1>2, <1>t, MembershipAssumption DEF AddMemberLocal
  <2>2. r \in Requests
    BY <2>1 DEF Requests
  <2>3. /\ commands'[a] = Append(commands[a], r) /\ deks'[a] = deks[a] /\ UNCHANGED handlers
    BY <1>2, <1>t DEF AddMemberLocal, Send
  <2> HIDE DEF r
  <2>4. Range(Append(commands[a], r)) = Range(commands[a]) \cup {r}
    BY <1>t, <2>2, Appended
  <2> QED
    BY <1>k, <2>3, <2>4 DEF Asked, Mine
<1>3. ASSUME NEW m \in Members, RemoveMemberLocal(a, m) PROVE HeldAt(a, a)'
  <2> DEFINE r == [op |-> "remove", member |-> m, epoch |-> epoch[a],
                   to |-> directory[a] \ {m}, dek |-> minted + 1]
  <2>1. epoch[a] \in Epochs /\ directory[a] \ {m} \in SUBSET Members
    BY <1>3, <1>t DEF RemoveMemberLocal, TypeInv, TypeOK
  <2>2. minted + 1 \in Deks
    BY <1>3, MembershipAssumption
       DEF RemoveMemberLocal, Command, TypeInv, TypeOK, MintBounded, Deks
  <2>3. r \in Requests /\ r.op = "remove" /\ r.epoch = epoch[a] /\ r.dek = minted + 1
    BY <2>1, <2>2 DEF Requests
  <2>4. /\ commands'[a] = Append(commands[a], r) /\ UNCHANGED <<handlers, slot>>
        /\ deks'[a] = [deks[a] EXCEPT ![epoch[a] + 1] = minted + 1]
    BY <1>3, <1>t DEF RemoveMemberLocal, Send, serverVars
  <2> HIDE DEF r
  <2>5. Range(Append(commands[a], r)) = Range(commands[a]) \cup {r}
    BY <1>t, <2>3, Appended
  <2>6. Asked(a)' = Asked(a) \cup {r}
    BY <2>4, <2>5 DEF Asked, Mine
  <2>7. \A e \in Epochs : deks'[a][e] = IF e = epoch[a] + 1 THEN minted + 1 ELSE deks[a][e]
    BY <1>t, <2>4
  <2> QED
    BY <1>h, <1>o, <2>3, <2>4, <2>6, <2>7 DEF HeldAt
<1>4. CASE Call(a)
  <2> DEFINE k == [from |-> a, req |-> Head(commands[a]), pc |-> "received", awaited |-> TRUE]
  <2>1. /\ commands[a] # <<>> /\ handlers' = handlers \cup {k}
        /\ commands'[a] = Tail(commands[a]) /\ deks'[a] = deks[a]
    BY <1>4, <1>t DEF Call, storeVars
  <2>2. k.from = a /\ k.req = Head(commands[a])
    OBVIOUS
  <2> HIDE DEF k
  <2>3. Mine(a)' = Mine(a) \cup {k}
    BY <2>1, <2>2 DEF Mine
  <2>4. Range(commands[a]) = Range(Tail(commands[a])) \cup {Head(commands[a])}
    BY <1>t, <2>1, Dequeued
  <2> QED
    BY <1>k, <2>1, <2>2, <2>3, <2>4 DEF Asked
<1>5. ASSUME NEW h \in Mine(a), CheckOwner(h) PROVE HeldAt(a, a)'
  <2> DEFINE k == [h EXCEPT !.pc = "checked"]
  <2>1. h \in handlers /\ h.from = a
    BY <1>5 DEF Mine
  <2>2. role[AccountOf[h.from]] = "owner"
    BY <1>o, <2>1 DEF AdminInv, OwnerSits
  <2>3. handlers' = (handlers \ {h}) \cup {k} /\ UNCHANGED <<commands, deks>>
    BY <1>5, <2>2 DEF CheckOwner, storeVars
  <2>4. k.from = a /\ k.req = h.req
    BY <1>t, <2>1
  <2> HIDE DEF k
  <2>5. Mine(a)' = (Mine(a) \ {h}) \cup {k}
    BY <2>3, <2>4 DEF Mine
  <2> QED
    BY <1>k, <2>3, <2>4, <2>5 DEF Asked
<1>6. ASSUME NEW h \in Mine(a), CommitAdd(h) \/ CommitRemove(h) PROVE HeldAt(a, a)'
  <2>1. h \in handlers
    BY <1>6 DEF Mine
  <2>2. handlers' = handlers \ {h} /\ UNCHANGED <<commands, deks>>
    BY <1>6 DEF CommitAdd, CommitRemove, Finish, storeVars
  <2>3. Mine(a) = {h} /\ Mine(a)' = {}
    BY <1>i, <1>6, <2>2 DEF Mine
  <2>4. Asked(a) = Asked(a)' \cup {h.req}
    BY <2>2, <2>3 DEF Asked
  <2>5. CASE CommitAdd(h)
    <3>1. h.req.op # "remove"
      BY <2>5 DEF CommitAdd
    <3> QED
      BY <1>h, <1>o, <1>s, <2>2, <2>4, <3>1 DEF HeldAt
  <2>6. CASE CommitRemove(h)
    <3>1. /\ h.req.epoch = srvEpoch /\ h.req.to = Seats \ {h.req.member}
          /\ h.req.member # Owner
      BY <2>1, <2>6, CommitFits DEF CommitRemove
    <3>2. Owner \in h.req.to
      BY <1>o, <3>1 DEF Seats, AdminInv, OwnerSits
    <3>3. \A e \in Epochs :
             slot'[<<e, Owner>>] = IF e = srvEpoch + 1 /\ slot[<<e, Owner>>] = 0
                                   THEN h.req.dek ELSE slot[<<e, Owner>>]
      BY <1>o, <2>6, <3>1, <3>2 DEF CommitRemove, Filled
    <3>4. \A e \in Epochs : e = srvEpoch + 1 => slot'[<<e, Owner>>] = h.req.dek
      BY <1>o, <1>t, <3>3 DEF KeysInv, NoFutureSlots
    <3> QED
      BY <1>h, <1>o, <1>s, <2>2, <2>4, <3>1, <3>4 DEF HeldAt
  <2> QED
    BY <1>6, <2>5, <2>6
<1> QED
  BY <1>1, <1>2, <1>3, <1>4, <1>5, <1>6, HereOrElsewhere DEF Here

-----------------------------------------------------------------------------
(* Theorems                                                                *)

MembershipInv(a) ==
    TypeInv /\ AdminInv(a) /\ KeysInv /\ ReadsInv /\ HeldInv(a)

LEMMA MembershipInvInit ==
  ASSUME NEW a \in Devices, SoleAdmin(a), Init
  PROVE  MembershipInv(a)
<1>1. TypeInv /\ AdminInv(a)
  BY TypeInit, AdminInit
<1>2. KeysInv
  BY MembershipAssumption
     DEF Init, KeysInv, NoFutureSlots, SlotsOnlyForMembers, SurvivorsRekeyed, Epochs
<1>3. ReadsInv
  BY MembershipAssumption DEF Init, ReadsInv, ReadsAt, Range, Epochs
<1>4. HeldInv(a)
  BY MembershipAssumption DEF Init, HeldInv, HeldAt, Epochs
<1> QED
  BY <1>1, <1>2, <1>3, <1>4 DEF MembershipInv

LEMMA MembershipInvStep ==
  ASSUME NEW a \in Devices, SoleAdmin(a), MembershipInv(a), [Next]_vars
  PROVE  MembershipInv(a)'
<1> USE DEF MembershipInv
<1>1. TypeInv' /\ AdminInv(a)' /\ KeysInv'
  BY TypeStep, AdminStep, KeysStep
<1>2. ReadsInv'
  BY ReadsStep DEF ReadsInv
<1>3. HeldInv(a)'
  <2>1. ASSUME NEW d \in Devices \ Hasty PROVE HeldAt(a, d)'
    BY HeldByAdmin, HeldByOthers DEF HeldInv, ReadsInv
  <2> QED
    BY <2>1 DEF HeldInv
<1> QED
  BY <1>1, <1>2, <1>3

LEMMA MembershipInvGives ==
  ASSUME NEW a \in Devices, MembershipInv(a)
  PROVE  SlotsOnlyForMembers /\ SurvivorsRekeyed /\ IngestedHasKey /\ CachedSlotIsServers
<1> USE DEF MembershipInv
<1>1. SlotsOnlyForMembers /\ SurvivorsRekeyed
  BY DEF KeysInv
<1>2. IngestedHasKey
  BY DEF ReadsInv, ReadsAt, IngestedHasKey
<1>3. CachedSlotIsServers
  <2> SUFFICES ASSUME NEW d \in Devices \ Hasty, NEW e \in Epochs,
                      deks[d][e] # 0, AccountOf[d] \notin removed,
                      slot[<<e, AccountOf[d]>>] # deks[d][e]
               PROVE  \E r \in Requested(d) : r.op = "remove" /\ r.dek = deks[d][e]
    BY DEF CachedSlotIsServers
  <2>1. d = a /\ \E r \in Asked(a) : r.op = "remove" /\ r.dek = deks[d][e]
    BY DEF HeldInv, HeldAt
  <2>2. Asked(a) = Requested(a)
    BY DEF Asked, Mine, Requested, Range
  <2> QED
    BY <2>1, <2>2
<1> QED
  BY <1>1, <1>2, <1>3

\* The inductive invariant: what the server holds, followed by the requests of
\* the sole administrator, is what the administrator holds; from there on, who
\* has a slot, what a sync reads and what a device caches.
THEOREM MembershipIsInvariant ==
  ASSUME OneAdmin
  PROVE  \E a \in Devices : SoleAdmin(a) /\ (Spec => []MembershipInv(a))
<1>1. PICK a \in Devices : SoleAdmin(a)
  BY DEF OneAdmin
<1>2. Init => MembershipInv(a)
  BY <1>1, MembershipInvInit
<1>3. MembershipInv(a) /\ [Next]_vars => MembershipInv(a)'
  BY <1>1, MembershipInvStep
<1>4. Spec => []MembershipInv(a)
  BY <1>2, <1>3, PTL DEF Spec
<1> QED
  BY <1>1, <1>4

\* With one administrator, every member that is seated on the server has a key
\* slot for the current epoch, also after removals that were interrupted, lost
\* or retried: a rotation reseals for those who stay.
THEOREM MembersReadCurrentEpoch == ASSUME OneAdmin PROVE Spec => []SurvivorsRekeyed
<1>1. PICK a \in Devices : Spec => []MembershipInv(a)
  BY MembershipIsInvariant
<1>2. MembershipInv(a) => SurvivorsRekeyed
  BY MembershipInvGives
<1> QED
  BY <1>1, <1>2, PTL

\* With one administrator, the server keeps no key slot for an account that is
\* not seated, whatever rotations and additions are still on their way.
THEOREM SlotsFollowMembers == ASSUME OneAdmin PROVE Spec => []SlotsOnlyForMembers
<1>1. PICK a \in Devices : Spec => []MembershipInv(a)
  BY MembershipIsInvariant
<1>2. MembershipInv(a) => SlotsOnlyForMembers
  BY MembershipInvGives
<1> QED
  BY <1>1, <1>2, PTL

\* With one administrator, a member's device whose ingest was not cut short has
\* the key of the epoch it is at, although an initial sync reads epoch, members
\* and keys one after the other while the list is rotated.
THEOREM IngestedEpochsHaveKeys == ASSUME OneAdmin PROVE Spec => []IngestedHasKey
<1>1. PICK a \in Devices : Spec => []MembershipInv(a)
  BY MembershipIsInvariant
<1>2. MembershipInv(a) => IngestedHasKey
  BY MembershipInvGives
<1> QED
  BY <1>1, <1>2, PTL

\* With one administrator, a key cached by a member's device that waits for the
\* server before it rotates is the one in the account's slot, or the device has
\* the request that will put it there on its way.
THEOREM CachedSlotsAreServers == ASSUME OneAdmin PROVE Spec => []CachedSlotIsServers
<1>1. PICK a \in Devices : Spec => []MembershipInv(a)
  BY MembershipIsInvariant
<1>2. MembershipInv(a) => CachedSlotIsServers
  BY MembershipInvGives
<1> QED
  BY <1>1, <1>2, PTL
=============================================================================
