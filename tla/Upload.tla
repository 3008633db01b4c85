-------------------------------- MODULE Upload --------------------------------
(***************************************************************************)
(* The upload half of synchronisation for one list: the store actor seals  *)
(* local edits into the durable `outbound` table, the sync engine drains   *)
(* that table, and the server's append handler gives every update a place  *)
(* in the log.  Calls can fail on either side of the server's commit, the  *)
(* application can quit or crash between any two steps, and a handler that *)
(* its client gave up on keeps running next to the retry.                  *)
(*                                                                         *)
(* The store actor and the engine are two tasks joined by the unbounded    *)
(* FIFO `commands`.  Both die with the process; `row`, `attempts` and      *)
(* `hasList` are SQLite tables and survive it.                             *)
(***************************************************************************)
EXTENDS Naturals, Sequences, FiniteSets, FiniteSetsExt

CONSTANTS Clients,      (* one device per member                             *)
          Owner,        (* the client that creates the list                  *)
          MaxEdits,     (* bound: local edits of each client                 *)
          Batch,        (* rows claimed by one take_outbound (BATCH = 500)   *)
          MaxFaults,    (* bound: lost calls and process exits, all clients  *)
          Compaction    (* whether members call put_snapshot                 *)

ASSUME UploadAssumption ==
    /\ Owner \in Clients
    /\ MaxEdits \in Nat
    /\ Batch \in Nat \ {0}
    /\ MaxFaults \in Nat
    /\ Compaction \in BOOLEAN

Edits   == 1..MaxEdits
Updates == Clients \X Edits      \* edit n of c, in local_id order

VARIABLES
    hasList,    \* hasList[c]: c's SQLite has the list row
    editor,     \* editor[c]: where c's store actor stands in create_list/persist
    edits,      \* edits[c]: how many outbound rows c has produced
    row,        \* row[u]: status of u's outbound row; "acked" rows are deleted
    attempts,   \* attempts[u]: the row's attempts column
    commands,   \* commands[c]: the engine's command channel
    engine,     \* engine[c]: where the engine stands in handle/push
    batch,      \* batch[c]: claimed edits the running push has yet to settle,
                \* which it sends in local_id order
    created,    \* the list exists on the server
    calls,      \* append handlers running on the server, or answered
    seqOf,      \* seqOf[u]: seq of u's row in the updates table, 0 if none
    firstSeq,   \* firstSeq[u]: history, the seq u was first stored under
    top,        \* last value of the identity column
    mishap,     \* mishap[c]: history, the worst that c met so far
    faults      \* faults used up

storeVars  == <<hasList, editor, edits>>
tableVars  == <<row, attempts>>
engineVars == <<commands, engine, batch>>
serverVars == <<created, calls, seqOf, firstSeq, top>>
ghostVars  == <<mishap, faults>>
vars == <<storeVars, tableVars, engineVars, serverVars, ghostVars>>

EditorStates == {"idle", "seed", "queued"}
EngineStates == {"idle", "creating", "taking", "sending", "waiting"}
RowStates    == {"none", "pending", "inflight", "acked"}
Mishaps      == {"none", "failed", "exited"}
CallStates   == {"received", "allocated", "conflict", "replied"}

\* One append handler: the update, which attempt of the client it serves,
\* how far it got, and the seq it holds (0: none, or an error answer).
Call(u, a, pc, s) == [upd |-> u, att |-> a, pc |-> pc, seq |-> s]

TypeOK ==
    /\ hasList \in [Clients -> BOOLEAN]
    /\ editor \in [Clients -> EditorStates]
    /\ edits \in [Clients -> 0..MaxEdits]
    /\ row \in [Updates -> RowStates]
    /\ attempts \in [Updates -> Nat]
    /\ commands \in [Clients -> Seq({"CreateList", "Push"})]
    /\ engine \in [Clients -> EngineStates]
    /\ batch \in [Clients -> SUBSET Edits]
    /\ created \in BOOLEAN
    /\ calls \subseteq [upd : Updates, att : Nat \ {0}, pc : CallStates, seq : Nat]
    /\ seqOf \in [Updates -> Nat]
    /\ firstSeq \in [Updates -> Nat]
    /\ top \in Nat
    /\ mishap \in [Clients -> Mishaps]
    /\ faults \in 0..MaxFaults

Init ==
    /\ hasList = [c \in Clients |-> FALSE]
    /\ editor = [c \in Clients |-> "idle"]
    /\ edits = [c \in Clients |-> 0]
    /\ row = [u \in Updates |-> "none"]
    /\ attempts = [u \in Updates |-> 0]
    /\ commands = [c \in Clients |-> <<>>]
    /\ engine = [c \in Clients |-> "idle"]
    /\ batch = [c \in Clients |-> {}]
    /\ created = FALSE
    /\ calls = {}
    /\ seqOf = [u \in Updates |-> 0]
    /\ firstSeq = [u \in Updates |-> 0]
    /\ top = 0
    /\ mishap = [c \in Clients |-> "none"]
    /\ faults = 0

-----------------------------------------------------------------------------
(* The store actor                                                         *)

\* Mutant of CreateList: the engine is not told of the new list.
CreateListUnsent(c) ==
    /\ c = Owner
    /\ editor[c] = "idle"
    /\ ~hasList[c]
    /\ hasList' = [hasList EXCEPT ![c] = TRUE]
    /\ editor' = [editor EXCEPT ![c] = "seed"]
    /\ UNCHANGED <<edits, tableVars, engineVars, serverVars, ghostVars>>

\* Store::create_list up to its first await after the send: the list row is
\* local, the engine is told to create it remotely, the title edit follows.
CreateList(c) ==
    /\ c = Owner
    /\ editor[c] = "idle"
    /\ ~hasList[c]
    /\ hasList' = [hasList EXCEPT ![c] = TRUE]
    /\ editor' = [editor EXCEPT ![c] = "seed"]
    /\ commands' = [commands EXCEPT ![c] = Append(@, "CreateList")]
    /\ UNCHANGED <<edits, tableVars, engine, batch, serverVars, ghostVars>>

\* Another member, seated by the owner, ingests the list at its initial sync.
Join(c) ==
    /\ created
    /\ ~hasList[c]
    /\ hasList' = [hasList EXCEPT ![c] = TRUE]
    /\ UNCHANGED <<editor, edits, tableVars, engineVars, serverVars, ghostVars>>

\* The write half of an edit (or of create_list's title): persist seals the
\* delta and inserts the outbound row.
Enqueue(c) ==
    /\ hasList[c]
    /\ editor[c] \in {"idle", "seed"}
    /\ edits[c] < MaxEdits
    /\ edits' = [edits EXCEPT ![c] = @ + 1]
    /\ row' = [row EXCEPT ![<<c, edits[c] + 1>>] = "pending"]
    /\ editor' = [editor EXCEPT ![c] = "queued"]
    /\ UNCHANGED <<hasList, attempts, engineVars, serverVars, ghostVars>>

\* Mutant of Nudge: the nudge is dropped while the engine is busy.
NudgeIdleOnly(c) ==
    /\ editor[c] = "queued"
    /\ editor' = [editor EXCEPT ![c] = "idle"]
    /\ commands' = [commands EXCEPT ![c] =
                      IF engine[c] = "idle" THEN Append(@, "Push") ELSE @]
    /\ UNCHANGED <<hasList, edits, tableVars, engine, batch, serverVars,
                   ghostVars>>

\* persist nudges the engine after the insert has committed.
Nudge(c) ==
    /\ editor[c] = "queued"
    /\ editor' = [editor EXCEPT ![c] = "idle"]
    /\ commands' = [commands EXCEPT ![c] = Append(@, "Push")]
    /\ UNCHANGED <<hasList, edits, tableVars, engine, batch, serverVars,
                   ghostVars>>

-----------------------------------------------------------------------------
(* The sync engine: one command at a time, an error only ends the command  *)

Receive(c) ==
    /\ engine[c] = "idle"
    /\ commands[c] # <<>>
    /\ commands' = [commands EXCEPT ![c] = Tail(@)]
    /\ engine' = [engine EXCEPT ![c] =
                    IF Head(commands[c]) = "Push" THEN "taking" ELSE "creating"]
    /\ UNCHANGED <<storeVars, tableVars, batch, serverVars, ghostVars>>

Worse(c) == [mishap EXCEPT ![c] = IF @ = "none" THEN "failed" ELSE @]

CreateListDone(c) ==
    /\ engine[c] = "creating"
    /\ created' = TRUE
    /\ engine' = [engine EXCEPT ![c] = "idle"]
    /\ UNCHANGED <<storeVars, tableVars, commands, batch, calls, seqOf,
                   firstSeq, top, ghostVars>>

\* The call is lost before or after the server's commit; the command is gone.
CreateListFails(c) ==
    /\ engine[c] = "creating"
    /\ faults < MaxFaults
    /\ faults' = faults + 1
    /\ created' \in {created, TRUE}
    /\ engine' = [engine EXCEPT ![c] = "idle"]
    /\ mishap' = Worse(c)
    /\ UNCHANGED <<storeVars, tableVars, commands, batch, calls, seqOf,
                   firstSeq, top>>

\* Mutant of Pending: a row is only ever tried once.
PendingUntried(c) ==
    {n \in Edits : row[<<c, n>>] = "pending" /\ attempts[<<c, n>>] = 0}

Pending(c) == {n \in Edits : row[<<c, n>>] = "pending"}

\* The first Batch pending edits of c, in local_id order.
Claimed(c) == {n \in Pending(c) :
                 Cardinality({m \in Pending(c) : m < n}) < Batch}

\* Mutant of Counted: claiming a row does not count the attempt.
Uncounted(c) == attempts

Counted(c) ==
    [u \in Updates |-> IF u[1] = c /\ u[2] \in Claimed(c) THEN attempts[u] + 1
                                                       ELSE attempts[u]]

\* take_outbound: claim pending rows in one transaction; none left ends push.
TakeOutbound(c) ==
    /\ engine[c] = "taking"
    /\ batch' = [batch EXCEPT ![c] = Claimed(c)]
    /\ engine' = [engine EXCEPT ![c] =
                    IF Pending(c) = {} THEN "idle" ELSE "sending"]
    /\ row' = [u \in Updates |->
                 IF u[1] = c /\ u[2] \in Claimed(c) THEN "inflight" ELSE row[u]]
    /\ attempts' = Counted(c)
    /\ UNCHANGED <<storeVars, commands, serverVars, ghostVars>>

Current(c) == <<c, Min(batch[c])>>

\* The rest of the batch once the current row is settled.
Rest(c) == batch[c] \ {Min(batch[c])}

SendAppend(c) ==
    /\ engine[c] = "sending"
    /\ calls' = calls \cup
                {Call(Current(c), attempts[Current(c)], "received", 0)}
    /\ engine' = [engine EXCEPT ![c] = "waiting"]
    /\ UNCHANGED <<storeVars, tableVars, commands, batch, created, seqOf,
                   firstSeq, top, ghostVars>>

Awaited(c) == {k \in calls : k.upd = Current(c) /\ k.att = attempts[k.upd]}

\* The server answered with a seq: ack_outbound deletes the row.
Ack(c) ==
    /\ engine[c] = "waiting"
    /\ \E k \in Awaited(c) :
         /\ k.pc = "replied" /\ k.seq # 0
         /\ calls' = calls \ {k}
    /\ row' = [row EXCEPT ![Current(c)] = "acked"]
    /\ batch' = [batch EXCEPT ![c] = Rest(c)]
    /\ engine' = [engine EXCEPT ![c] =
                    IF Rest(c) = {} THEN "taking" ELSE "sending"]
    /\ UNCHANGED <<storeVars, attempts, commands, created, seqOf, firstSeq,
                   top, ghostVars>>

\* Mutant of GiveUp: the failed row is released and push goes on to the next.
GiveUpOnRow(c) ==
    /\ row' = [row EXCEPT ![Current(c)] = "pending"]
    /\ batch' = [batch EXCEPT ![c] = Rest(c)]
    /\ engine' = [engine EXCEPT ![c] =
                    IF Rest(c) = {} THEN "idle" ELSE "sending"]
    /\ mishap' = Worse(c)
    /\ UNCHANGED <<storeVars, attempts, commands, created, seqOf, firstSeq, top>>

\* Mutant of GiveUp: the row is deleted although the server never answered.
GiveUpDeleting(c) ==
    /\ row' = [row EXCEPT ![Current(c)] = "acked"]
    /\ batch' = [batch EXCEPT ![c] = {}]
    /\ engine' = [engine EXCEPT ![c] = "idle"]
    /\ mishap' = Worse(c)
    /\ UNCHANGED <<storeVars, attempts, commands, created, seqOf, firstSeq, top>>

\* push gives up: only the row it was sending is released, the rest of the
\* claimed batch stays as take_outbound left it.
GiveUp(c) ==
    /\ row' = [row EXCEPT ![Current(c)] = "pending"]
    /\ batch' = [batch EXCEPT ![c] = {}]
    /\ engine' = [engine EXCEPT ![c] = "idle"]
    /\ mishap' = Worse(c)
    /\ UNCHANGED <<storeVars, attempts, commands, created, seqOf, firstSeq, top>>

\* The server answered with an error.
AppendRejected(c) ==
    /\ engine[c] = "waiting"
    /\ \E k \in Awaited(c) :
         /\ k.pc = "replied" /\ k.seq = 0
         /\ calls' = calls \ {k}
    /\ GiveUp(c)
    /\ UNCHANGED faults

\* The connection broke; the handler may still run, or never have started.
AppendLost(c) ==
    /\ engine[c] = "waiting"
    /\ faults < MaxFaults
    /\ faults' = faults + 1
    /\ GiveUp(c)
    /\ UNCHANGED calls

-----------------------------------------------------------------------------
(* The server's append handler                                             *)

Step(k, pc, s) ==
    calls' = (calls \ {k}) \cup {Call(k.upd, k.att, pc, s)}

\* Membership and signature: without the list there is no author key.
RejectAuthor(k) ==
    /\ k.pc = "received"
    /\ ~created
    /\ Step(k, "replied", 0)
    /\ UNCHANGED <<storeVars, tableVars, engineVars, created, seqOf, firstSeq,
                   top, ghostVars>>

\* Mutant of AllocateSeq: the number is one more than the rows show.
AllocateFromRows(k) ==
    LET next == Max({seqOf[v] : v \in Updates}) + 1
    IN  /\ k.pc = "received"
        /\ created
        /\ top' = IF next > top THEN next ELSE top
        /\ Step(k, "allocated", next)
        /\ UNCHANGED <<storeVars, tableVars, engineVars, created, seqOf, firstSeq,
                       ghostVars>>

\* INSERT evaluates the identity default before it looks for a conflict.
AllocateSeq(k) ==
    /\ k.pc = "received"
    /\ created
    /\ top' = top + 1
    /\ Step(k, "allocated", top + 1)
    /\ UNCHANGED <<storeVars, tableVars, engineVars, created, seqOf, firstSeq,
                   ghostVars>>

InsertRow(k) ==
    /\ k.pc = "allocated"
    /\ seqOf[k.upd] = 0
    /\ seqOf' = [seqOf EXCEPT ![k.upd] = k.seq]
    /\ firstSeq' = [firstSeq EXCEPT ![k.upd] = IF @ = 0 THEN k.seq ELSE @]
    /\ Step(k, "replied", k.seq)
    /\ UNCHANGED <<storeVars, tableVars, engineVars, created, top, ghostVars>>

\* Mutant of InsertConflict: the number the INSERT burned is returned.
ReturnBurned(k) ==
    /\ k.pc = "allocated"
    /\ seqOf[k.upd] # 0
    /\ Step(k, "replied", k.seq)
    /\ UNCHANGED <<storeVars, tableVars, engineVars, created, seqOf, firstSeq,
                   top, ghostVars>>

\* ON CONFLICT (signature) DO NOTHING returned no row.
InsertConflict(k) ==
    /\ k.pc = "allocated"
    /\ seqOf[k.upd] # 0
    /\ Step(k, "conflict", 0)
    /\ UNCHANGED <<storeVars, tableVars, engineVars, created, seqOf, firstSeq,
                   top, ghostVars>>

\* The second statement reads the seq of the row that won; with the row gone
\* in between, fetch_one fails and the client gets an error.
ReturnExisting(k) ==
    /\ k.pc = "conflict"
    /\ Step(k, "replied", seqOf[k.upd])
    /\ UNCHANGED <<storeVars, tableVars, engineVars, created, seqOf, firstSeq,
                   top, ghostVars>>

\* put_snapshot: a member folds everything up to a stored row into a snapshot
\* and the same transaction deletes the rows.
PutSnapshot(u) ==
    /\ Compaction
    /\ seqOf[u] # 0
    /\ seqOf' = [v \in Updates |-> IF seqOf[v] <= seqOf[u] THEN 0 ELSE seqOf[v]]
    /\ UNCHANGED <<storeVars, tableVars, engineVars, created, calls, firstSeq,
                   top, ghostVars>>

-----------------------------------------------------------------------------
\* The process exits, by the quit key or a crash, and starts again: channels
\* and tasks are gone, the tables stay, and the new engine is told nothing
\* about rows left over from the earlier run.
Restart(c) ==
    /\ faults < MaxFaults
    /\ faults' = faults + 1
    /\ editor' = [editor EXCEPT ![c] = "idle"]
    /\ commands' = [commands EXCEPT ![c] = <<>>]
    /\ engine' = [engine EXCEPT ![c] = "idle"]
    /\ batch' = [batch EXCEPT ![c] = {}]
    /\ mishap' = [mishap EXCEPT ![c] = "exited"]
    /\ UNCHANGED <<hasList, edits, tableVars, serverVars>>

StoreNext(c) == CreateList(c) \/ Join(c) \/ Enqueue(c) \/ Nudge(c)

EngineNext(c) ==
    \/ Receive(c)
    \/ CreateListDone(c)
    \/ CreateListFails(c)
    \/ TakeOutbound(c)
    \/ SendAppend(c)
    \/ Ack(c)
    \/ AppendRejected(c)
    \/ AppendLost(c)

HandlerNext(k) ==
    \/ RejectAuthor(k)
    \/ AllocateSeq(k)
    \/ InsertRow(k)
    \/ InsertConflict(k)
    \/ ReturnExisting(k)

Next ==
    \/ \E c \in Clients : StoreNext(c) \/ EngineNext(c) \/ Restart(c)
    \/ \E k \in calls : HandlerNext(k)
    \/ \E u \in Updates : PutSnapshot(u)

Spec == Init /\ [][Next]_vars

\* Tokio keeps polling every task and every request handler: a started
\* persist, the engine's own steps and each update's handlers go on.  Nothing
\* is assumed of the user, of faults, or of compaction.
EngineSteps(c) ==
    \/ Receive(c)
    \/ CreateListDone(c)
    \/ TakeOutbound(c)
    \/ SendAppend(c)
    \/ Ack(c)
    \/ AppendRejected(c)

Fairness ==
    /\ \A c \in Clients : WF_vars(Nudge(c)) /\ WF_vars(EngineSteps(c))
    /\ \A u \in Updates :
         WF_vars(\E k \in calls : k.upd = u /\ HandlerNext(k))

FairSpec == Spec /\ Fairness

-----------------------------------------------------------------------------
(* Properties                                                              *)

PushQueued(c) == \E i \in DOMAIN commands[c] : commands[c][i] = "Push"

\* A local edit is only forgotten once the server holds it: an outbound row
\* is deleted on the answer of an append that found or made the update's row
\* (sync.rs push, db.rs ack_outbound), however many calls were lost before.
AckedIsStored ==
    \A u \in Updates : row[u] = "acked" => firstSeq[u] # 0

\* The log holds the edits of one client in the order they were made, across
\* retries, lost answers and handlers that outlive their call, for as long as
\* the client's process runs: push sends one row at a time and stops at the
\* first failure.  (A restart breaks it: the claimed row is never retried and
\* its handler may still be running when a later edit is uploaded.)
UploadOrder ==
    \A c \in Clients : \A m, n \in Edits :
        mishap[c] # "exited" /\ m < n /\ seqOf[<<c, m>>] # 0 /\ seqOf[<<c, n>>] # 0
            => seqOf[<<c, m>>] < seqOf[<<c, n>>]

\* insert_update is idempotent: every successful answer for an update, to the
\* first upload or a retry, is the seq it was first stored under, and a retry
\* of a stored update is never an error.
RetryReturnsOriginal ==
    \A k \in calls :
        k.pc = "replied" /\ firstSeq[k.upd] # 0 => k.seq = firstSeq[k.upd]

\* No lost wakeup: as long as nothing failed, a row waiting for upload has a
\* Push on the way to it, sent or about to be sent, or a drain in progress
\* that will look again before it ends.
NudgeNotLost ==
    \A c \in Clients : \A n \in Edits :
        row[<<c, n>>] = "pending" /\ mishap[c] = "none" =>
            \/ editor[c] = "queued"
            \/ PushQueued(c)
            \/ engine[c] \in {"taking", "sending", "waiting"}

\* No update of a list reaches the server before the list does, from whichever
\* member: without compaction, an append is only answered with an error if the
\* call that creates the list was lost.  (Then the list stays unknown for good, although
\* create_list speaks of a deferred upload: the command is not sent again.)
UploadsFindTheList ==
    \A k \in calls :
        k.pc = "replied" /\ k.seq = 0 => mishap[Owner] # "none"

\* The server's log is the abstract log: places are unique, permanent, and
\* taken once (without compaction, which removes rows).
Log == INSTANCE UpdateLog WITH place <- seqOf
LogImplemented == Log!LogSpec

\* Every edit reaches the server unless its client met a failure or exited.
Uploaded ==
    \A u \in Updates :
        row[u] = "pending" ~> (row[u] = "acked" \/ mishap[u[1]] # "none")

\* A released row is retried by the next Push: once calls stop failing and
\* the list exists, a waiting Push uploads every row that is pending.  The one
\* exception is a drain that stops at a retry whose update was stored earlier
\* and compacted just now.
RetriedByNextPush ==
    \A c \in Clients : \A n \in Edits :
        (faults = MaxFaults /\ created /\ row[<<c, n>>] = "pending" /\ PushQueued(c))
            ~> \/ row[<<c, n>>] = "acked"
               \/ \E m \in Edits : LET u == <<c, m>>
                                  IN  row[u] # "acked" /\ firstSeq[u] # 0 /\ seqOf[u] = 0

\* What the comment on push says of a drain that stopped: the failed upload,
\* and with it every row it had claimed, is pending again for the next Push.
DrainLeavesNothingInflight ==
    \A c \in Clients : \A n \in Edits :
        mishap[c] # "exited" /\ row[<<c, n>>] = "inflight"
            => engine[c] \in {"sending", "waiting"}
=============================================================================
