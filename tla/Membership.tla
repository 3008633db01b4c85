------------------------------ MODULE Membership ------------------------------
(***************************************************************************)
(* Members and key epochs of one list.  The server keeps who is seated,    *)
(* the current epoch and one wrapped DEK (a key slot) per epoch and        *)
(* member.  A device changes its own tables first, hands a request to its  *)
(* sync engine, and learns of other devices' changes only when its engine  *)
(* discovers the list at the start of the process.                         *)
(*                                                                         *)
(* A DEK is the number of the rotation that minted it, 1 being the list's  *)
(* first; 0 stands for no DEK and, in `epoch`, for no list row.            *)
(***************************************************************************)
EXTENDS Naturals, Sequences, FiniteSets

CONSTANTS Members,      (* accounts                                          *)
          Devices,
          AccountOf,    (* AccountOf[d]: the account signed in on device d   *)
          Owner,        (* the account that created the list                 *)
          Seated,       (* the other members when the behaviour starts       *)
          Synced,       (* devices that are up to date and running by then   *)
          Admins,       (* devices whose users share and unshare the list    *)
          Invitees,     (* accounts the list is ever shared with             *)
          Unreliable,   (* devices that lose calls or are restarted          *)
          MaxEpoch,     (* bound: epochs                                     *)
          MaxOps,       (* bound: share and unshare commands                 *)
          MaxFaults     (* bound: lost calls and restarts                    *)

ASSUME MembershipAssumption ==
    /\ AccountOf \in [Devices -> Members]
    /\ Owner \in Members
    /\ Seated \in SUBSET (Members \ {Owner})
    /\ Synced \in SUBSET {d \in Devices : AccountOf[d] \in Seated \cup {Owner}}
    /\ Admins \in SUBSET Devices
    /\ Invitees \in SUBSET Members
    /\ Unreliable \in SUBSET Devices
    /\ MaxEpoch \in Nat \ {0}
    /\ MaxOps \in Nat
    /\ MaxFaults \in Nat

Epochs == 1..MaxEpoch
Deks   == 1..(MaxOps + 1)

VARIABLES
    role,        \* role[m]: m's row in list_members on the server
    srvEpoch,    \* lists.current_epoch on the server
    slot,        \* slot[<<e, m>>]: the DEK in m's key slot of epoch e
    handlers,    \* add and remove handlers running on the server
    epoch,       \* epoch[d]: lists.current_epoch on device d
    directory,   \* directory[d]: d's local list_members rows
    deks,        \* deks[d][e]: d's cached key slot of epoch e
    commands,    \* commands[d]: requests waiting for d's sync engine
    engine,      \* engine[d]: where d's sync engine stands
    probe,       \* probe[d]: what an initial sync has read so far
    ingest,      \* ingest[d]: IngestRemoteList commands on their way to d's store
    minted,      \* the last DEK minted
    removed,     \* history: members that were ever removed
    torn,        \* history: devices whose process ended inside their last ingest
    ops, faults  \* commands given and faults met so far

serverVars == <<role, srvEpoch, slot, removed>>
storeVars  == <<epoch, directory, deks, minted>>
engineVars == <<commands, engine, probe, ingest>>
boundVars  == <<torn, ops, faults>>
vars == <<serverVars, handlers, storeVars, engineVars, boundVars>>

EngineStates == {"off", "discover", "metadata", "members", "keys", "idle", "calling"}

Requests == [op : {"add", "remove"}, member : Members, epoch : Epochs,
             to : SUBSET Members, dek : Deks]

Answers == [epoch : Epochs, members : SUBSET Members, keys : [Epochs -> Deks \cup {0}]]

SlotsOf(m) == [e \in Epochs |-> slot[<<e, m>>]]

TypeOK ==
    /\ role \in [Members -> {"none", "member", "owner"}]
    /\ srvEpoch \in Epochs
    /\ slot \in [Epochs \X Members -> Deks \cup {0}]
    /\ handlers \subseteq [from : Devices, req : Requests,
                           pc : {"received", "checked"}, awaited : BOOLEAN]
    /\ epoch \in [Devices -> Epochs \cup {0}]
    /\ directory \in [Devices -> SUBSET Members]
    /\ deks \in [Devices -> [Epochs -> Deks \cup {0}]]
    /\ commands \in [Devices -> Seq(Requests)]
    /\ engine \in [Devices -> EngineStates]
    /\ probe \in [Devices -> [epoch : Epochs \cup {0}, members : SUBSET Members]]
    /\ ingest \in [Devices -> Seq(Answers)]
    /\ minted \in Deks
    /\ removed \subseteq Members
    /\ torn \subseteq Devices
    /\ ops \in 0..MaxOps
    /\ faults \in 0..MaxFaults

NoProbe == [epoch |-> 0, members |-> {}]

\* The list was created and its first members added, one by one, under epoch
\* 1; some devices have seen that, the others have yet to be started.
Init ==
    /\ role = [m \in Members |-> IF m = Owner THEN "owner"
                                 ELSE IF m \in Seated THEN "member" ELSE "none"]
    /\ srvEpoch = 1
    /\ slot = [s \in Epochs \X Members |->
                 IF s[1] = 1 /\ s[2] \in Seated \cup {Owner} THEN 1 ELSE 0]
    /\ handlers = {}
    /\ epoch = [d \in Devices |-> IF d \in Synced THEN 1 ELSE 0]
    /\ directory = [d \in Devices |-> IF d \in Synced THEN Seated \cup {Owner} ELSE {}]
    /\ deks = [d \in Devices |-> [e \in Epochs |-> IF d \in Synced /\ e = 1 THEN 1 ELSE 0]]
    /\ commands = [d \in Devices |-> <<>>]
    /\ engine = [d \in Devices |-> IF d \in Synced THEN "idle" ELSE "off"]
    /\ probe = [d \in Devices |-> NoProbe]
    /\ ingest = [d \in Devices |-> <<>>]
    /\ minted = 1
    /\ removed = {}
    /\ torn = {}
    /\ ops = 0
    /\ faults = 0

Fault(d) == d \in Unreliable /\ faults < MaxFaults /\ faults' = faults + 1

Command(d) == d \in Admins /\ engine[d] # "off" /\ ops < MaxOps /\ ops' = ops + 1

Send(d, op, m, e, to, dek) ==
    commands' = [commands EXCEPT ![d] =
        Append(@, [op |-> op, member |-> m, epoch |-> e, to |-> to, dek |-> dek])]

-----------------------------------------------------------------------------
(* The store actor                                                         *)

\* Mutant of AddMemberLocal: the collaborator is not recorded locally.
AddMemberUnrecorded(d, m) ==
    /\ Command(d)
    /\ epoch[d] # 0 /\ deks[d][epoch[d]] # 0
    /\ Send(d, "add", m, epoch[d], {m}, deks[d][epoch[d]])
    /\ UNCHANGED <<serverVars, handlers, storeVars, engine, probe, ingest, torn,
                   faults>>

\* The current DEK, by the device's own reckoning, is sealed to the newcomer.
AddMemberLocal(d, m) ==
    /\ Command(d)
    /\ epoch[d] # 0 /\ deks[d][epoch[d]] # 0
    /\ directory' = [directory EXCEPT ![d] = @ \cup {m}]
    /\ Send(d, "add", m, epoch[d], {m}, deks[d][epoch[d]])
    /\ UNCHANGED <<serverVars, handlers, epoch, deks, minted, engine, probe, ingest,
                   torn, faults>>

\* Mutant of RemoveMemberLocal: the request carries the new epoch.
RemoveMemberEarly(d, m) ==
    /\ Command(d)
    /\ m \in directory[d] \ {AccountOf[d]}
    /\ epoch[d] # 0 /\ epoch[d] < MaxEpoch
    /\ LET e == epoch[d] + 1
           dek == minted + 1
       IN  /\ minted' = dek
           /\ deks' = [deks EXCEPT ![d][e] = dek]
           /\ epoch' = [epoch EXCEPT ![d] = e]
           /\ Send(d, "remove", m, e, directory[d] \ {m}, dek)
    /\ directory' = [directory EXCEPT ![d] = @ \ {m}]
    /\ UNCHANGED <<serverVars, handlers, engine, probe, ingest, torn, faults>>

\* Mutant of RemoveMemberLocal: the remover seals no copy to its own account.
RemoveMemberForgetful(d, m) ==
    /\ Command(d)
    /\ m \in directory[d] \ {AccountOf[d]}
    /\ epoch[d] # 0 /\ epoch[d] < MaxEpoch
    /\ LET e == epoch[d] + 1
           dek == minted + 1
       IN  /\ minted' = dek
           /\ deks' = [deks EXCEPT ![d][e] = dek]
           /\ epoch' = [epoch EXCEPT ![d] = e]
           /\ Send(d, "remove", m, epoch[d], directory[d] \ {m, AccountOf[d]}, dek)
    /\ directory' = [directory EXCEPT ![d] = @ \ {m}]
    /\ UNCHANGED <<serverVars, handlers, engine, probe, ingest, torn, faults>>

\* Rotation: a fresh DEK under the next local epoch, sealed to everybody left
\* in the local directory.  The members dialog never offers the user itself.
RemoveMemberLocal(d, m) ==
    /\ Command(d)
    /\ m \in directory[d] \ {AccountOf[d]}
    /\ epoch[d] # 0 /\ epoch[d] < MaxEpoch
    /\ LET e == epoch[d] + 1
           dek == minted + 1
       IN  /\ minted' = dek
           /\ deks' = [deks EXCEPT ![d][e] = dek]
           /\ epoch' = [epoch EXCEPT ![d] = e]
           /\ Send(d, "remove", m, epoch[d], directory[d] \ {m}, dek)
    /\ directory' = [directory EXCEPT ![d] = @ \ {m}]
    /\ UNCHANGED <<serverVars, handlers, engine, probe, ingest, torn, faults>>

\* ingest_remote_list: the epoch is taken over, members are only ever added,
\* every slot received replaces the cached one.
Ingest(d) ==
    /\ ingest[d] # <<>>
    /\ LET got == Head(ingest[d])
       IN  /\ epoch' = [epoch EXCEPT ![d] = got.epoch]
           /\ directory' = [directory EXCEPT ![d] = @ \cup got.members]
           /\ deks' = [deks EXCEPT ![d] =
                         [e \in Epochs |-> IF got.keys[e] # 0 THEN got.keys[e] ELSE @[e]]]
    /\ ingest' = [ingest EXCEPT ![d] = Tail(@)]
    /\ torn' = torn \ {d}
    /\ UNCHANGED <<serverVars, handlers, minted, commands, engine, probe, ops, faults>>

-----------------------------------------------------------------------------
(* The sync engine                                                         *)

Go(d, state) == engine' = [engine EXCEPT ![d] = state]

Start(d) ==
    /\ engine[d] = "off"
    /\ Go(d, "discover")
    /\ UNCHANGED <<serverVars, handlers, storeVars, commands, probe, ingest, boundVars>>

\* fetch_lists names the lists the account is seated in.
Discover(d) ==
    /\ engine[d] = "discover"
    /\ Go(d, IF role[AccountOf[d]] = "none" THEN "idle" ELSE "metadata")
    /\ UNCHANGED <<serverVars, handlers, storeVars, commands, probe, ingest, boundVars>>

\* get_metadata reads the epoch and the members in two statements.
ReadEpoch(d) ==
    /\ engine[d] = "metadata"
    /\ probe' = [probe EXCEPT ![d].epoch = srvEpoch]
    /\ Go(d, "members")
    /\ UNCHANGED <<serverVars, handlers, storeVars, commands, ingest, boundVars>>

ReadMembers(d) ==
    /\ engine[d] = "members"
    /\ probe' = [probe EXCEPT ![d].members = {m \in Members : role[m] # "none"}]
    /\ Go(d, "keys")
    /\ UNCHANGED <<serverVars, handlers, storeVars, commands, ingest, boundVars>>

\* Mutant of ReadKeys: only the slots of retired epochs are answered.
ReadKeysRetired(d) ==
    /\ engine[d] = "keys"
    /\ ingest' = [ingest EXCEPT ![d] =
         Append(@, [epoch |-> probe[d].epoch, members |-> probe[d].members,
                    keys |-> [e \in Epochs |->
                      IF e < srvEpoch THEN slot[<<e, AccountOf[d]>>] ELSE 0]])]
    /\ probe' = [probe EXCEPT ![d] = NoProbe]
    /\ Go(d, "idle")
    /\ UNCHANGED <<serverVars, handlers, storeVars, commands, boundVars>>

\* get_my_keys is a later request; its answer and the metadata travel together.
ReadKeys(d) ==
    /\ engine[d] = "keys"
    /\ ingest' = [ingest EXCEPT ![d] =
         Append(@, [epoch |-> probe[d].epoch, members |-> probe[d].members,
                    keys |-> SlotsOf(AccountOf[d])])]
    /\ probe' = [probe EXCEPT ![d] = NoProbe]
    /\ Go(d, "idle")
    /\ UNCHANGED <<serverVars, handlers, storeVars, commands, boundVars>>

SyncFails(d) ==
    /\ engine[d] \in {"discover", "metadata", "members", "keys"}
    /\ Fault(d)
    /\ probe' = [probe EXCEPT ![d] = NoProbe]
    /\ Go(d, "idle")
    /\ UNCHANGED <<serverVars, handlers, storeVars, commands, ingest, torn, ops>>

Call(d) ==
    /\ engine[d] = "idle"
    /\ commands[d] # <<>>
    /\ commands' = [commands EXCEPT ![d] = Tail(@)]
    /\ handlers' = handlers \cup {[from |-> d, req |-> Head(commands[d]),
                                   pc |-> "received", awaited |-> TRUE]}
    /\ Go(d, "calling")
    /\ UNCHANGED <<serverVars, storeVars, probe, ingest, boundVars>>

Abandoned(d) == {[h EXCEPT !.awaited = @ /\ h.from # d] : h \in handlers}

\* The connection broke: the command is gone, its handler may still run.
CallLost(d) ==
    /\ engine[d] = "calling"
    /\ Fault(d)
    /\ handlers' \in {Abandoned(d), {h \in handlers : ~(h.from = d /\ h.awaited)}}
    /\ Go(d, "idle")
    /\ UNCHANGED <<serverVars, storeVars, commands, probe, ingest, torn, ops>>

-----------------------------------------------------------------------------
(* The server's handlers                                                   *)

\* An answer, of whatever kind, frees the engine that waits for it.
Finish(h) ==
    /\ handlers' = handlers \ {h}
    /\ engine' = [engine EXCEPT ![h.from] = IF h.awaited THEN "idle" ELSE @]

\* require_owner is a statement of its own, before the transaction.
CheckOwner(h) ==
    /\ h.pc = "received"
    /\ IF role[AccountOf[h.from]] = "owner"
       THEN /\ handlers' = (handlers \ {h}) \cup {[h EXCEPT !.pc = "checked"]}
            /\ UNCHANGED engine
       ELSE Finish(h)
    /\ UNCHANGED <<serverVars, storeVars, commands, probe, ingest, boundVars>>

\* INSERT INTO key_slots ... ON CONFLICT DO NOTHING for each recipient.
Filled(e, to, dek) ==
    [s \in Epochs \X Members |->
       IF s[1] = e /\ s[2] \in to /\ slot[s] = 0 THEN dek ELSE slot[s]]

CommitAdd(h) ==
    /\ h.pc = "checked" /\ h.req.op = "add"
    /\ role' = [role EXCEPT ![h.req.member] = "member"]
    /\ slot' = Filled(h.req.epoch, h.req.to, h.req.dek)
    /\ Finish(h)
    /\ UNCHANGED <<srvEpoch, removed, storeVars, commands, probe, ingest, boundVars>>

\* Mutant of CommitRemove: the removed member's slots stay.
CommitRemoveKeepingSlots(h) ==
    /\ h.pc = "checked" /\ h.req.op = "remove"
    /\ srvEpoch' = h.req.epoch + 1
    /\ slot' = Filled(h.req.epoch + 1, h.req.to, h.req.dek)
    /\ role' = [role EXCEPT ![h.req.member] = "none"]
    /\ removed' = removed \cup {h.req.member}
    /\ Finish(h)
    /\ UNCHANGED <<storeVars, commands, probe, ingest, boundVars>>

\* One transaction: new slots, the requested epoch plus one, and the member
\* with all its slots dropped.
CommitRemove(h) ==
    /\ h.pc = "checked" /\ h.req.op = "remove"
    /\ srvEpoch' = h.req.epoch + 1
    /\ LET filled == Filled(h.req.epoch + 1, h.req.to, h.req.dek)
       IN  slot' = [s \in Epochs \X Members |->
                      IF s[2] = h.req.member THEN 0 ELSE filled[s]]
    /\ role' = [role EXCEPT ![h.req.member] = "none"]
    /\ removed' = removed \cup {h.req.member}
    /\ Finish(h)
    /\ UNCHANGED <<storeVars, commands, probe, ingest, boundVars>>

-----------------------------------------------------------------------------
\* The process ends and starts again with an initial sync.  Key slots, epoch
\* and directory are tables; requests and messages die with their channels.
Exit(d) ==
    /\ Fault(d)
    /\ Go(d, "discover")
    /\ commands' = [commands EXCEPT ![d] = <<>>]
    /\ probe' = [probe EXCEPT ![d] = NoProbe]
    /\ ingest' = [ingest EXCEPT ![d] = <<>>]
    /\ handlers' = Abandoned(d)
    /\ UNCHANGED serverVars

Restart(d) ==
    /\ engine[d] # "off"
    /\ Exit(d)
    /\ UNCHANGED <<storeVars, torn, ops>>

\* It ends inside remove_member_local: the new slot is saved, the epoch perhaps.
RemoveMemberCut(d, m) ==
    /\ Command(d)
    /\ m \in directory[d] \ {AccountOf[d]}
    /\ epoch[d] # 0 /\ epoch[d] < MaxEpoch
    /\ minted' = minted + 1
    /\ deks' = [deks EXCEPT ![d][epoch[d] + 1] = minted + 1]
    /\ epoch' \in {epoch, [epoch EXCEPT ![d] = @ + 1]}
    /\ Exit(d)
    /\ UNCHANGED <<directory, torn>>

\* It ends inside ingest_remote_list, which writes the epoch, then the
\* members, then the slots.
IngestCut(d) ==
    /\ ingest[d] # <<>>
    /\ LET got == Head(ingest[d])
       IN  /\ epoch' = [epoch EXCEPT ![d] = got.epoch]
           /\ directory' \in {directory, [directory EXCEPT ![d] = @ \cup got.members]}
    /\ torn' = torn \cup {d}
    /\ Exit(d)
    /\ UNCHANGED <<deks, minted, ops>>

StoreNext(d) ==
    \/ \E m \in Invitees : AddMemberLocal(d, m)
    \/ \E m \in Members : RemoveMemberLocal(d, m) \/ RemoveMemberCut(d, m)
    \/ Ingest(d) \/ IngestCut(d)

EngineNext(d) ==
    \/ Start(d)
    \/ Discover(d) \/ ReadEpoch(d) \/ ReadMembers(d) \/ ReadKeys(d) \/ SyncFails(d)
    \/ Call(d) \/ CallLost(d)

Next ==
    \/ \E d \in Devices : StoreNext(d) \/ EngineNext(d) \/ Restart(d)
    \/ \E h \in handlers : CheckOwner(h) \/ CommitAdd(h) \/ CommitRemove(h)

Spec == Init /\ [][Next]_vars

-----------------------------------------------------------------------------
(* Properties                                                              *)

Requested(d) ==
    {commands[d][i] : i \in DOMAIN commands[d]} \cup
    {h.req : h \in {k \in handlers : k.from = d}}

\* Devices whose rotations may never reach the server: a call is lost, or the
\* process ends, after the device has changed its own tables.
Hasty == Admins \cap Unreliable

\* Device a alone shares and unshares the list: it is its owner's, it was up to
\* date when the behaviour starts, and it neither restarts nor loses a call.
\* Requests of other members are refused, and other devices of the owner make
\* none.
SoleAdmin(a) ==
    /\ a \in Synced \ Unreliable
    /\ AccountOf[a] = Owner /\ Owner \notin Invitees
    /\ \A d \in Admins \ {a} : d \in Unreliable /\ AccountOf[d] # Owner

OneAdmin == \E a \in Devices : SoleAdmin(a)

\* A member's device that caches a DEK caches the one that the server keeps
\* for its account, as the comment on save_key_slot has it, unless the request
\* that will put it there is still on its way.  Otherwise what the device
\* writes can be read by nobody else.  (Nothing undoes a rotation of which the
\* request failed, so Hasty devices are excepted.)
CachedSlotIsServers ==
    \A d \in Devices \ Hasty, e \in Epochs :
        deks[d][e] # 0 /\ AccountOf[d] \notin removed =>
            \/ slot[<<e, AccountOf[d]>>] = deks[d][e]
            \/ \E r \in Requested(d) : r.op = "remove" /\ r.dek = deks[d][e]

\* The server keeps no key slot for somebody who is not seated: a rotation
\* seals nothing to a member removed earlier.
SlotsOnlyForMembers ==
    \A e \in Epochs, m \in Members : role[m] = "none" => slot[<<e, m>>] = 0

\* Every seated member can read what is written under the current epoch: who
\* is added before a rotation is among those it re-keys.
SurvivorsRekeyed ==
    \A m \in Members : role[m] # "none" => slot[<<srvEpoch, m>>] # 0

\* An initial sync never leaves a member's device at an epoch whose DEK it
\* lacks, although epoch, members and keys are read one after the other while
\* the list is rotated.  (ingest_remote_list is no transaction: a process that
\* ends inside it leaves such an epoch until the next sync succeeds.)
IngestedHasKey ==
    \A d \in Devices : epoch[d] # 0 /\ d \notin torn /\ AccountOf[d] \notin removed
        => deks[d][epoch[d]] # 0
=============================================================================
