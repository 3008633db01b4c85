------------------------------- MODULE Download -------------------------------
(***************************************************************************)
(* The download half of synchronisation for one list.  The server's log    *)
(* (UpdateLog) grows; its Hub fans every stored update out to the sockets  *)
(* of the list; each device's sync engine pulls pages after the persistent *)
(* cursor and keeps one socket open; pages and frames meet in the store    *)
(* actor's command channel, and the actor merges what it can read.         *)
(*                                                                         *)
(* `cursor`, `merged`, `keys` and `known` are SQLite tables and survive a  *)
(* restart.  Everything else on a device lives in channels and tasks.      *)
(***************************************************************************)
EXTENDS Naturals, Sequences, FiniteSets

CONSTANTS Devices,       (* the devices modelled in full                     *)
          Peers,         (* devices seen only through the updates they write *)
          Updates,       (* the signed updates that may be uploaded          *)
          MemberOf,      (* MemberOf[d]: the account signed in on device d   *)
          AuthorOf,      (* AuthorOf[u]: the device that produced u          *)
          Deks,          (* the data keys the list has had or may get        *)
          DekOf,         (* DekOf[u]: the data key u is sealed under         *)
          PageSize,      (* updates per pull (BATCH = 500)                   *)
          RingCapacity,  (* frames a socket may lag (CHANNEL_CAPACITY = 256) *)
          Live,          (* whether sockets can be established at all        *)
          MaxSeq,        (* bound: numbers handed out by the server          *)
          MaxInbox,      (* bound: updates waiting for the store actor       *)
          MaxFaults      (* bound: failures and restarts                     *)

ASSUME DownloadAssumption ==
    /\ IsFiniteSet(Updates)
    /\ AuthorOf \in [Updates -> Devices \cup Peers]
    /\ DOMAIN MemberOf = Devices \cup Peers
    /\ DekOf \in [Updates -> Deks]
    /\ PageSize \in Nat \ {0}
    /\ RingCapacity \in Nat \ {0}
    /\ Live \in BOOLEAN
    /\ MaxSeq \in Nat
    /\ MaxInbox \in Nat
    /\ MaxFaults \in Nat

VARIABLES
    place, top,  \* the server's log, see UpdateLog
    published,   \* updates whose handler has run hub.publish
    socket,      \* socket[d]: state of the subscription task
    ring,        \* ring[d]: frames of the broadcast channel d has yet to read
    lagged,      \* lagged[d]: the ring has overwritten a frame d has not read
    live,        \* live[d]: history, updates published to d's current socket
    commands,    \* commands[d]: the sync engine's channel
    engine,      \* engine[d]: "idle", or "pulling" inside pull
    from,        \* from[d]: the local `cursor` of a running pull
    inbox,       \* inbox[d]: updates sent to the store actor, in order
    cursor,      \* cursor[d]: applied_through_seq
    merged,      \* merged[d]: updates in d's saved document
    applying,    \* applying[d]: the head of inbox[d] is saved, the cursor not yet
    keys,        \* keys[d]: the data keys d holds
    known,       \* known[d]: the members whose signing key d has
    skipped,     \* skipped[d]: history, updates d could not read and dropped
    torn,        \* torn[d]: history, updates d saved when its process ended
    faults       \* faults used up

serverVars == <<place, top, published>>
socketVars == <<socket, ring, lagged, live>>
engineVars == <<commands, engine, from>>
storeVars  == <<inbox, cursor, merged, applying, keys, known, skipped, torn>>
vars == <<serverVars, socketVars, engineVars, storeVars, faults>>

Log == INSTANCE UpdateLog

Members == {MemberOf[x] : x \in Devices \cup Peers}

SocketStates == {"off", "connecting", "open", "ended", "sleeping"}

ServerTyped ==
    /\ place \in [Updates -> 0..MaxSeq]
    /\ top \in 0..MaxSeq
    /\ published \subseteq Updates

SocketTyped ==
    /\ socket \in [Devices -> SocketStates]
    /\ ring \in [Devices -> Seq(Updates)]
    /\ \A d \in Devices : Len(ring[d]) <= RingCapacity
    /\ lagged \in [Devices -> BOOLEAN]
    /\ live \in [Devices -> SUBSET Updates]

EngineTyped ==
    /\ commands \in [Devices -> Seq({"Pull", "Subscribe"})]
    /\ engine \in [Devices -> {"idle", "pulling"}]
    /\ from \in [Devices -> 0..MaxSeq]

StoreTyped ==
    /\ inbox \in [Devices -> Seq(Updates)]
    /\ cursor \in [Devices -> 0..MaxSeq]
    /\ merged \in [Devices -> SUBSET Updates]
    /\ applying \in [Devices -> BOOLEAN]
    /\ keys \in [Devices -> SUBSET Deks]
    /\ known \in [Devices -> SUBSET Members]
    /\ skipped \in [Devices -> SUBSET Updates]
    /\ torn \in [Devices -> SUBSET Updates]

TypeOK ==
    /\ ServerTyped /\ SocketTyped /\ EngineTyped /\ StoreTyped
    /\ faults \in 0..MaxFaults

\* initial_sync after its metadata and keys are ingested.
Discovery == <<"Pull", "Subscribe">>

Written(d) == {u \in Updates : AuthorOf[u] = d}

\* Every device has just started and discovered the list, with the members and
\* key slots the server had for it; what a device writes is in its document
\* before it is anywhere else.
Init ==
    /\ Log!LogInit
    /\ published = {}
    /\ socket = [d \in Devices |-> "off"]
    /\ ring = [d \in Devices |-> <<>>]
    /\ lagged = [d \in Devices |-> FALSE]
    /\ live = [d \in Devices |-> {}]
    /\ commands = [d \in Devices |-> Discovery]
    /\ engine = [d \in Devices |-> "idle"]
    /\ from = [d \in Devices |-> 0]
    /\ inbox = [d \in Devices |-> <<>>]
    /\ cursor = [d \in Devices |-> 0]
    /\ merged = [d \in Devices |-> Written(d)]
    /\ applying = [d \in Devices |-> FALSE]
    /\ keys \in [Devices -> SUBSET Deks]
    /\ known \in {f \in [Devices -> SUBSET Members] :
                    \A d \in Devices : MemberOf[d] \in f[d]}
    /\ skipped = [d \in Devices |-> {}]
    /\ torn = [d \in Devices |-> {}]
    /\ faults = 0

Fault == faults < MaxFaults /\ faults' = faults + 1

-----------------------------------------------------------------------------
(* The server                                                              *)

Allocate ==
    /\ top < MaxSeq
    /\ Log!Allocate
    /\ UNCHANGED <<published, socketVars, engineVars, storeVars, faults>>

\* An append handler's INSERT commits, under a number handed out before and
\* whatever key the update is sealed with.
StoreRow(u) ==
    /\ \E s \in 1..top : Log!Store(u, s)
    /\ UNCHANGED <<published, socketVars, engineVars, storeVars, faults>>

\* Mutant of Broadcast: the channel has no capacity.
BroadcastUnbounded(u) ==
    LET open == {d \in Devices : socket[d] = "open"}
    IN  /\ ring' = [d \in Devices |->
                      IF d \in open THEN Append(ring[d], u) ELSE ring[d]]
        /\ live' = [d \in Devices |->
                      IF d \in open THEN live[d] \cup {u} ELSE live[d]]
        /\ UNCHANGED lagged

\* Hub::publish: every attached receiver gets the frame; a receiver whose
\* ring is full loses its oldest unread frame and will read Lagged next.
Broadcast(u) ==
    LET open == {d \in Devices : socket[d] = "open"}
        full == {d \in open : Len(ring[d]) = RingCapacity}
    IN  /\ ring' = [d \in Devices |->
                      IF d \in full THEN Append(Tail(ring[d]), u)
                      ELSE IF d \in open THEN Append(ring[d], u)
                      ELSE ring[d]]
        /\ lagged' = [d \in Devices |-> lagged[d] \/ d \in full]
        /\ live' = [d \in Devices |->
                      IF d \in open THEN live[d] \cup {u} ELSE live[d]]

\* The handler fans out after its commit, so two handlers may publish in the
\* opposite order of their rows.
Publish(u) ==
    /\ place[u] # 0
    /\ u \notin published
    /\ published' = published \cup {u}
    /\ Broadcast(u)
    /\ UNCHANGED <<place, top, socket, engineVars, storeVars, faults>>

\* A retried upload is published again with its original seq.
Republish(u) ==
    /\ u \in published
    /\ Fault
    /\ Broadcast(u)
    /\ UNCHANGED <<serverVars, socket, engineVars, storeVars>>

-----------------------------------------------------------------------------
(* The sync engine                                                         *)

ReceivePull(d) ==
    /\ engine[d] = "idle"
    /\ commands[d] # <<>> /\ Head(commands[d]) = "Pull"
    /\ commands' = [commands EXCEPT ![d] = Tail(@)]
    /\ engine' = [engine EXCEPT ![d] = "pulling"]
    /\ from' = [from EXCEPT ![d] = cursor[d]]
    /\ UNCHANGED <<serverVars, socketVars, storeVars, faults>>

\* subscribe spawns the task and returns at once.
ReceiveSubscribe(d) ==
    /\ engine[d] = "idle"
    /\ commands[d] # <<>> /\ Head(commands[d]) = "Subscribe"
    /\ commands' = [commands EXCEPT ![d] = Tail(@)]
    /\ socket' = [socket EXCEPT ![d] = "connecting"]
    /\ UNCHANGED <<serverVars, ring, lagged, live, engine, from, storeVars,
                   faults>>

After(s) == {u \in Log!Stored : place[u] > s}

\* Rows after s in seq order, at most PageSize of them.
Page(s) ==
    LET after == After(s)
        rank(u) == Cardinality({v \in after : place[v] <= place[u]})
        size == IF Cardinality(after) < PageSize THEN Cardinality(after)
                                                 ELSE PageSize
    IN  [i \in 1..size |-> CHOOSE u \in after : rank(u) = i]

FetchPage(d) ==
    /\ engine[d] = "pulling"
    /\ Len(inbox[d]) + PageSize <= MaxInbox
    /\ LET page == Page(from[d])
           more == Len(page) = PageSize
       IN  /\ inbox' = [inbox EXCEPT ![d] = @ \o page]
           /\ from' = [from EXCEPT ![d] =
                         IF more THEN place[page[Len(page)]] ELSE 0]
           /\ engine' = [engine EXCEPT ![d] = IF more THEN "pulling" ELSE "idle"]
    /\ UNCHANGED <<serverVars, socketVars, commands, cursor, merged, applying,
                   keys, known, skipped, torn, faults>>

\* The error only ends this pull; the command is not queued again.
PullFails(d) ==
    /\ engine[d] = "pulling"
    /\ Fault
    /\ engine' = [engine EXCEPT ![d] = "idle"]
    /\ from' = [from EXCEPT ![d] = 0]
    /\ UNCHANGED <<serverVars, socketVars, commands, storeVars>>

-----------------------------------------------------------------------------
(* The subscription task and the server's end of its socket                *)

\* The server has checked membership and attached a receiver.
Connect(d) ==
    /\ Live
    /\ socket[d] = "connecting"
    /\ socket' = [socket EXCEPT ![d] = "open"]
    /\ UNCHANGED <<serverVars, ring, lagged, live, engineVars, storeVars, faults>>

Detach(d) ==
    /\ ring' = [ring EXCEPT ![d] = <<>>]
    /\ lagged' = [lagged EXCEPT ![d] = FALSE]
    /\ live' = [live EXCEPT ![d] = {}]

CloseSocket(d) ==
    /\ socket' = [socket EXCEPT ![d] = "ended"]
    /\ Detach(d)

ConnectFails(d) ==
    /\ socket[d] = "connecting"
    /\ IF Live THEN Fault ELSE UNCHANGED faults
    /\ CloseSocket(d)
    /\ UNCHANGED <<serverVars, engineVars, storeVars>>

\* Mutant of Forward: a Lagged answer is ignored and reading goes on.
ForwardPastLag(d) ==
    /\ socket[d] = "open"
    /\ ring[d] # <<>>
    /\ ring' = [ring EXCEPT ![d] = Tail(@)]
    /\ lagged' = [lagged EXCEPT ![d] = FALSE]
    /\ inbox' = [inbox EXCEPT ![d] = Append(@, Head(ring[d]))]
    /\ UNCHANGED <<serverVars, socket, live, engineVars, cursor, merged, applying,
                   keys, known, skipped, torn, faults>>

\* A frame crosses the socket and becomes a one-element ApplyRemote.
Forward(d) ==
    /\ socket[d] = "open"
    /\ ~lagged[d]
    /\ ring[d] # <<>>
    /\ Len(inbox[d]) < MaxInbox
    /\ ring' = [ring EXCEPT ![d] = Tail(@)]
    /\ inbox' = [inbox EXCEPT ![d] = Append(@, Head(ring[d]))]
    /\ UNCHANGED <<serverVars, socket, lagged, live, engineVars, cursor, merged,
                   applying, keys, known, skipped, torn, faults>>

\* RecvError::Lagged: the server closes the socket.
LagClose(d) ==
    /\ socket[d] = "open"
    /\ lagged[d]
    /\ CloseSocket(d)
    /\ UNCHANGED <<serverVars, engineVars, storeVars, faults>>

SocketDrops(d) ==
    /\ socket[d] = "open"
    /\ Fault
    /\ CloseSocket(d)
    /\ UNCHANGED <<serverVars, engineVars, storeVars>>

\* Mutant of Reconcile: the task asks for the new socket at once.
ReconcileTwice(d) ==
    /\ socket[d] = "ended"
    /\ socket' = [socket EXCEPT ![d] = "sleeping"]
    /\ commands' = [commands EXCEPT ![d] = @ \o Discovery]
    /\ UNCHANGED <<serverVars, ring, lagged, live, engine, from, storeVars,
                   faults>>

\* Mutant of Reconcile: a new socket is expected to make up for the gap.
ReconcileWithoutPull(d) ==
    /\ socket[d] = "ended"
    /\ socket' = [socket EXCEPT ![d] = "sleeping"]
    /\ UNCHANGED <<serverVars, ring, lagged, live, engineVars, storeVars, faults>>

\* The socket ended: pull now, subscribe again after a pause.
Reconcile(d) ==
    /\ socket[d] = "ended"
    /\ socket' = [socket EXCEPT ![d] = "sleeping"]
    /\ commands' = [commands EXCEPT ![d] = Append(@, "Pull")]
    /\ UNCHANGED <<serverVars, ring, lagged, live, engine, from, storeVars,
                   faults>>

\* Mutant of Wake: the pull has reconciled, so nobody subscribes again.
WakeIdle(d) ==
    /\ socket[d] = "sleeping"
    /\ socket' = [socket EXCEPT ![d] = "off"]
    /\ UNCHANGED <<serverVars, ring, lagged, live, engineVars, storeVars, faults>>

Wake(d) ==
    /\ socket[d] = "sleeping"
    /\ socket' = [socket EXCEPT ![d] = "off"]
    /\ commands' = [commands EXCEPT ![d] = Append(@, "Subscribe")]
    /\ UNCHANGED <<serverVars, ring, lagged, live, engine, from, storeVars,
                   faults>>

-----------------------------------------------------------------------------
(* The store actor                                                         *)

Own(d, u) == MemberOf[AuthorOf[u]] = MemberOf[d]

\* Mutant of Advance: the cursor is set to the update just applied.
AdvancePlain(d, u) == cursor' = [cursor EXCEPT ![d] = place[u]]

\* set_applied_through_seq takes the maximum.
Advance(d, u) ==
    cursor' = [cursor EXCEPT ![d] = IF place[u] > @ THEN place[u] ELSE @]

Taken(d) == inbox' = [inbox EXCEPT ![d] = Tail(@)]

\* An update of our own member is not merged; the cursor passes it.
ApplyOwn(d) ==
    /\ inbox[d] # <<>>
    /\ Own(d, Head(inbox[d]))
    /\ Advance(d, Head(inbox[d]))
    /\ Taken(d)
    /\ UNCHANGED <<serverVars, socketVars, engineVars, merged, applying,
                   keys, known, skipped, torn, faults>>

\* The two lookups before an update can be verified: its DEK in the session,
\* its author among the members in the database.
HasDek(d, u) == DekOf[u] \in keys[d]
KnowsAuthor(d, u) == MemberOf[AuthorOf[u]] \in known[d]
Readable(d, u) == HasDek(d, u) /\ KnowsAuthor(d, u)

\* Without the one or the other the update is dropped, with a warning, and the
\* cursor stays.
ApplySkip(d) ==
    /\ inbox[d] # <<>>
    /\ ~Own(d, Head(inbox[d]))
    /\ ~Readable(d, Head(inbox[d]))
    /\ skipped' = [skipped EXCEPT ![d] = @ \cup {Head(inbox[d])}]
    /\ Taken(d)
    /\ UNCHANGED <<serverVars, socketVars, engineVars, cursor, merged, applying,
                   keys, known, torn, faults>>

\* The rest is imported and the document saved ...
ApplyMerge(d) ==
    /\ inbox[d] # <<>>
    /\ ~applying[d]
    /\ ~Own(d, Head(inbox[d]))
    /\ Readable(d, Head(inbox[d]))
    /\ merged' = [merged EXCEPT ![d] = @ \cup {Head(inbox[d])}]
    /\ applying' = [applying EXCEPT ![d] = TRUE]
    /\ UNCHANGED <<serverVars, socketVars, engineVars, inbox, cursor, keys, known,
                   skipped, torn, faults>>

\* ... and the cursor is a later statement of its own.
ApplyAdvance(d) ==
    /\ applying[d]
    /\ Advance(d, Head(inbox[d]))
    /\ applying' = [applying EXCEPT ![d] = FALSE]
    /\ Taken(d)
    /\ UNCHANGED <<serverVars, socketVars, engineVars, merged, keys, known, skipped,
                   torn, faults>>

\* remove_member_local: the device makes the next DEK, which nothing is sealed
\* under yet, and drops the removed member's row; updates of that member that
\* are still on their way find no author.
Rotate(d) ==
    /\ ~applying[d]
    /\ \E k \in Deks, m \in known[d] :
         /\ \A e \in Devices : k \notin keys[e]
         /\ \A u \in Log!Stored : DekOf[u] # k
         /\ keys' = [keys EXCEPT ![d] = @ \cup {k}]
         /\ known' = [known EXCEPT ![d] = @ \ {m}]
    /\ UNCHANGED <<serverVars, socketVars, engineVars, inbox, cursor, merged,
                   applying, skipped, torn, faults>>

\* add_member_local: the new member's row is there before the server is told.
Admit(d) ==
    /\ ~applying[d]
    /\ keys[d] # {}
    /\ \E m \in Members \ known[d] : known' = [known EXCEPT ![d] = @ \cup {m}]
    /\ UNCHANGED <<serverVars, socketVars, engineVars, inbox, cursor, merged,
                   applying, keys, skipped, torn, faults>>

-----------------------------------------------------------------------------
\* ingest_remote_list adds rows to the member directory and to the key slots
\* and takes none away.
Ingest(d) ==
    \E ks \in SUBSET Deks, ms \in SUBSET Members :
        /\ keys' = [keys EXCEPT ![d] = @ \cup ks]
        /\ known' = [known EXCEPT ![d] = @ \cup ms]

\* The process ends and starts again.  With the server in reach initial_sync
\* ingests members and keys before anything is applied; without it the
\* command fails and nothing pulls or subscribes in this run.
Restart(d) ==
    /\ Fault
    /\ Detach(d)
    /\ socket' = [socket EXCEPT ![d] = "off"]
    /\ engine' = [engine EXCEPT ![d] = "idle"]
    /\ from' = [from EXCEPT ![d] = 0]
    /\ inbox' = [inbox EXCEPT ![d] = <<>>]
    /\ applying' = [applying EXCEPT ![d] = FALSE]
    /\ torn' = [torn EXCEPT ![d] = IF applying[d] THEN @ \cup {Head(inbox[d])} ELSE @]
    /\ \/ /\ commands' = [commands EXCEPT ![d] = Discovery]
          /\ Ingest(d)
       \/ /\ commands' = [commands EXCEPT ![d] = <<>>]
          /\ UNCHANGED <<keys, known>>
    /\ UNCHANGED <<serverVars, cursor, merged, skipped>>

Apply(d) == ApplyOwn(d) \/ ApplySkip(d) \/ ApplyMerge(d) \/ ApplyAdvance(d)

ServerNext ==
    \/ Allocate
    \/ \E u \in Updates : StoreRow(u) \/ Publish(u) \/ Republish(u)

DeviceNext(d) ==
    \/ Rotate(d) \/ Admit(d)
    \/ ReceivePull(d) \/ ReceiveSubscribe(d)
    \/ FetchPage(d) \/ PullFails(d)
    \/ Connect(d) \/ ConnectFails(d)
    \/ Forward(d) \/ LagClose(d) \/ SocketDrops(d)
    \/ Reconcile(d) \/ Wake(d)
    \/ Apply(d)
    \/ Restart(d)

Next == ServerNext \/ \E d \in Devices : DeviceNext(d)

Spec == Init /\ [][Next]_vars

\* Tokio keeps polling the engine, the subscription task and the store actor,
\* and a connection attempt that cannot succeed fails.  Nothing is assumed of
\* writers, of the server's publishing, or of faults.
EngineSteps(d) == ReceivePull(d) \/ ReceiveSubscribe(d) \/ FetchPage(d)

SocketSteps(d) ==
    \/ Connect(d)
    \/ ~Live /\ ConnectFails(d)
    \/ Forward(d) \/ LagClose(d)
    \/ Reconcile(d) \/ Wake(d)

Fairness == \A d \in Devices :
    WF_vars(EngineSteps(d)) /\ WF_vars(SocketSteps(d)) /\ WF_vars(Apply(d))

FairSpec == Spec /\ Fairness

-----------------------------------------------------------------------------
(* Properties                                                              *)

Subscriptions(d) ==
    Cardinality({i \in DOMAIN commands[d] : commands[d][i] = "Subscribe"})
        + (IF socket[d] = "off" THEN 0 ELSE 1)

Online(d) == Subscriptions(d) > 0

\* Whatever was merged from the server is at or below the
\* cursor, so that no pull fetches it again, in whatever order pages and
\* frames reach the store actor (the MAX in set_applied_through_seq).  The
\* exceptions are the update being applied and those a process exit caught
\* between the two writes; they are fetched twice and merged twice.
MergedBehindCursor ==
    \A d \in Devices : \A u \in merged[d] :
        \/ Own(d, u)
        \/ place[u] # 0 /\ place[u] <= cursor[d]
        \/ applying[d] /\ u = Head(inbox[d])
        \/ u \in torn[d]

\* Nothing published to an open socket is dropped without closing it: the
\* frame is in the ring, in the store actor's channel, merged, the member's
\* own, or one the device could not read when it came to it, unless the socket
\* is about to be closed for lagging.
LiveNotDropped ==
    \A d \in Devices : \A u \in live[d] :
        \/ lagged[d]
        \/ \E i \in DOMAIN ring[d] : ring[d][i] = u
        \/ \E i \in DOMAIN inbox[d] : inbox[d][i] = u
        \/ u \in merged[d] \/ Own(d, u) \/ u \in skipped[d]

\* The chain socket -> Pull -> pause -> Subscribe -> socket never forks: a
\* list has at most one subscription, queued or running, per device.
OneSubscription == \A d \in Devices : Subscriptions(d) <= 1

\* After the last failure a subscription that ended is always tried again.
Reconnects ==
    \A d \in Devices :
        (socket[d] = "ended" /\ faults = MaxFaults) ~> socket[d] = "connecting"

\* A pull of d has u before it: u is in the store actor's channel, or above
\* the cursor and above everything that was fetched already.
InReach(d, u) ==
    \/ \E i \in DOMAIN inbox[d] : inbox[d][i] = u
    \/ /\ place[u] > cursor[d] /\ place[u] > from[d]
       /\ \A i \in DOMAIN inbox[d] : place[inbox[d][i]] < place[u]

\* With no sockets at all the reconnect loop is a polling loop: after the last
\* failure every stored update reaches the document of every other member's
\* device that was not left without a subscription, or is found unreadable.
\* It is so only for updates a pull still has before it: a row that becomes
\* visible below one that was fetched already is never asked for.
Delivered ==
    \A d \in Devices, u \in Updates :
        (InReach(d, u) /\ ~Own(d, u) /\ Online(d) /\ faults = MaxFaults)
            ~> (u \in merged[d] \/ ~Readable(d, u))
=============================================================================
