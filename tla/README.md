# A TLA+ verification project for todoers

`todoers` is an end-to-end encrypted, local-first list application: a terminal
client and a relay server that stores what it cannot read. This directory
holds TLA+ models of its synchronisation protocol, its accounts, its encrypted
database and its terminal interface, TLC configurations that check them, and
TLAPS proofs about them. Every definition is read off the Rust and SQL sources;
`PROJECT.json` names the lines each one stands for.

## 1. Inventory of the system

### Parts

| Part | State it keeps | Operations |
|---|---|---|
| server, update log (`todoers-server/src/routes/updates.rs`, `db.rs`, `0001_init.sql`) | table `updates`, one global identity column `seq` | `append_update`: check author and signature, INSERT .. ON CONFLICT DO NOTHING, else SELECT, publish, answer; `pull_updates`: a page after a cursor |
| server, hub and sockets (`state.rs`, `routes/ws.rs`) | one broadcast ring of 256 frames per list, one forwarding task per socket | publish, attach, forward, close on lag |
| server, lists and members (`routes/lists.rs`, `db.rs`) | `lists.current_epoch`, `list_members`, `key_slots` | create, delete, add member, remove member (rotates the epoch), metadata, my keys |
| server, snapshots (`routes/snapshots.rs`) | one snapshot per list | put (deletes folded updates), get; no client calls either |
| server, accounts and sessions (`routes/auth.rs`, `crypto.rs`) | `users`, `login_cache`, `sessions` | OPAQUE registration and login in two calls, bearer sessions, logout |
| server, device keys (`routes/device.rs`) | `device_keys` | enrol, challenge login in two calls, list, revoke |
| server, cleanup (`workers.rs`) | none | deletes expired logins and sessions periodically |
| client, sync engine (`todoers-client/src/sync.rs`, `net/`) | a command channel; one task per subscription | initial sync, push, pull, subscribe, and the calls behind create, delete, add, remove |
| client, store actor (`store.rs`, `worker.rs`) | cached CRDT documents, DEK map, the targets and sort of the view | create, rename, delete a list; edit items; add and remove members; apply remote updates; ingest a discovered list; snapshots for the UI |
| client, database (`db.rs`, `0001_init.sql`) | `lists`, `list_members`, `key_slots`, `documents`, `outbound`, `todo_items`, `account` | single statements and short transactions |
| client, registration, login, unlock (`auth.rs`, `net/auth.rs`) | the account row and its device cache; keys and token in memory | register, log in by password or device, enrol this device, unlock offline, log out |
| client, keys (`session.rs`, `crypto.rs`) | account keys and DEKs in memory | seal and open |
| client, database encryption (`sqlcipher.rs`, `device_key/`) | an envelope file and a keyring or TPM entry | create, unlock with device, unlock with recovery key |
| document (`list_doc.rs`, `model.rs`) | a Loro CRDT | field edits, import, export, sort orders and views |
| wire types (`todoers-types`) | none | message records, binding bytes |
| TUI, shell (`todoers/src/app.rs`, `action.rs`, `tui.rs`) | mode, modal, authentication flags, action channel, background tasks, stashed worker replies | loop: events, ticks, worker replies; dispatch of actions; suspend and quit |
| TUI, workspace (`components/home.rs`, `view.rs`) | focus, rows, panes with targets and items | navigation, split, open, edit, delete, sort |
| TUI, forms (`components/{modal,register,login,unlock,todo_form,list_form,share_form,members,button,text_input,form_keys}.rs`) | focused field, texts, cursors, selections, Vim mode, calendar | focus moves, editing, submission |
| TUI, bindings, logging, command line (`config.rs`, `logging.rs`, `cli.rs`) | settings, the data directory | load, parse, create the directory |

### How they interact

The UI sends `StoreCommand`s over an unbounded channel to the store actor,
which runs one at a time. The actor writes SQLite and sends `SyncCommand`s over
a second unbounded channel to the sync engine, which also runs one at a time
and is the only part that talks HTTP. The engine sends pages of remote updates
back to the actor. Each subscription is a task of its own that forwards frames
to the actor and, when its socket ends, sends the engine a `Pull`, waits two
seconds and sends a `Subscribe`. On the server every request is a task; they
share Postgres and the hub. Tables survive a restart; channels, tasks, cached
documents and the DEK map do not.

Inside the UI one loop takes terminal events, ticks and worker messages, and
puts actions on a third channel; at the end of a turn it dispatches what is
queued, to itself, to the workspace and to the modal on top. Logins,
registrations, device unlocks and username lookups are spawned tasks that
send their results as actions. The database is opened once, before the loop,
with a key that an envelope file holds sealed for the device's keyring entry
and for a recovery key the user writes down.

### What is hard

- A call can fail before or after the server's commit, and the handler of a
  call the client gave up on keeps running beside the retry.
- Live frames and pulled pages reach the same actor in any order, while the
  cursor is a single number.
- `seq` is handed out before its row is visible.
- Membership changes are done locally first, and the server may refuse them,
  lose them, or have moved on because of another device.
- A command of the store actor makes several writes in separate transactions,
  and the process can end between any two.
- Wake-ups, reconnects and retries must neither be lost nor multiply.
- A login is half a dozen statements on two machines, with a revocation, an
  expiry, a second login or the end of the process between any two.
- Envelope, keyring, database and recovery key are written one after another
  by a process that may end anywhere.
- Every result, reply and key press of the UI is an action that is dispatched
  later, when the modal or pane it was meant for may be gone.
- The UI and the worker each keep a copy of the layout, and the snapshot that
  arrives was computed for an older one.

### What makes each part correct

- Upload: nothing is forgotten before it is stored, a retry changes nothing,
  one client's edits keep their order, no wake-up is lost, everything is
  uploaded in the end.
- Download: nothing merged is fetched for ever, nothing dropped silently from a
  live socket, one subscription per list, delivery.
- Membership: whoever is seated can read the current epoch, whoever is not
  holds no slot, a device's cached keys are the server's.
- Store: what is saved is also queued, the read model never runs ahead of the
  document, saving loses nothing.
- Sessions: a cached device is enrolled, a revoked one has no session, a session
  does not outlive its process without a reason, every login ends.
- Vault: a database always stands beside an envelope with its key, and whoever
  saved the recovery key gets in again.
- Shell: no reply is forgotten; whoever is not logged in is asked to.
- Workspace: the focus is on something shown, and once nothing is under way the
  screen shows the store.
- Forms: one field takes the keys, only editing changes a text, a selected date
  exists.

## 2. Modules

| Module | Models | Extended or instantiated by |
|---|---|---|
| `UpdateLog` | what the server promises of the log of one list | `Upload` (as refinement), `Download` (as its server) |
| `Upload` | store actor to server log: `outbound`, push, append handlers | `MCUpload`, `UploadProofs` |
| `Download` | server log to document: pull, hub, sockets, cursor | `MCDownload`, `DownloadProofs` |
| `Membership` | members, epochs and key slots across devices | `MCMembership`, `MembershipProofs` |
| `Store` | one device's copy of one list: cache, tables, crashes | `MCStore`, `StoreProofs` |
| `Sessions` | accounts, logins and trusted devices, client and server | `SessionsProofs` |
| `Vault` | starting the client: envelope, keyring, recovery key, database | `VaultProofs` |
| `Shell` | the application loop, authentication gate, modals, background tasks | `TuiProofs` |
| `Workspace` | the panes, their keys, the store worker and its snapshots | `MCWorkspace`, `WorkspaceProofs` |
| `Forms` | the modal on top: fields, editing, buttons, delivery | `MCForms`, `TuiProofs` |
| `*Proofs` | theorems about a module, or two (`TuiProofs`), and their proofs | |

`Upload`, `Download`, `Membership` and `Store` are about one list: lists share
no row and no channel order that matters except `seq`, and gaps in `seq` are
what a burned number gives anyway. Names follow the code where TLA+ allows
(`TakeOutbound` is `take_outbound`). A definition introduced by "Mutant of X"
is never used by a specification; it is X with a plausible mistake, and each
property is checked to fail when X is replaced by it.

### Upload and UpdateLog

`row[u]` and `attempts[u]` are the `outbound` columns of edit u; an acked row
is a deleted one. `editor` is where the actor stands between the insert of
`persist` and its nudge. `commands`, `engine` and `batch` are the engine's
channel, position in `handle`/`push` and claimed rows. `calls` is the set of
append handlers alive on the server, or whose answer is under way: each has a
program counter that passes the author check, the allocation of `seq`, the
insert or the conflict, and the second SELECT. `AppendLost` lets the client
give up while the handler goes on. `Restart` keeps the tables and drops the
rest; nothing pushes left-over rows, and nothing ever sets an `inflight` row
back, as in the code. `firstSeq` and `mishap` are history. `PutSnapshot` is only enabled with
`Compaction`: the route exists although no client calls it yet.

Simplifications: a failed create-list call commits at the moment of its
failure or not at all; the membership of the collaborator is one step `Join`;
SQLite itself does not fail; an abandoned answer stays in `calls`.
The `Subscribe` that follows a successful create belongs to `Download`.

### Download

`place` and `top` are the log of `UpdateLog`, `published` the updates whose
handler has run `hub.publish` (any order, and again after a retry). A row
becomes visible at any time after its number was handed out, below rows that
were visible before it, and whatever key it is sealed under: the server looks at
neither. `socket` walks the subscription task: connecting, open, ended,
sleeping. `ring` and `lagged` are the broadcast receiver. `engine` and `from`
are the position of a running `pull` and its local cursor; `inbox` is the
actor's channel.

`ApplyOwn`, `ApplySkip`, `ApplyMerge` and `ApplyAdvance` are the ways through
`apply_remote_update`. What another member wrote is merged when the device holds
its DEK (`HasDek`) and has its author among the local members (`KnowsAuthor`),
and dropped with a warning when either is missing (`skipped` remembers it).
Merging saves the document in one write and the cursor in another, and a restart
may come between (`torn` remembers it). `keys[d]` and `known[d]` start as
anything the server may have had and change by the device's own rotation and
removal (`Rotate`), its own addition (`Admit`), and what `initial_sync` ingests
after a restart, which never takes any away. Which members the server has is
the subject of `Membership`. The constant `Live` only says whether sockets can
be established. What devices in `Peers` do is seen through their updates.

### Membership

`role`, `srvEpoch` and `slot` are the server's three tables. A DEK is the
number of its rotation, so two rotations from one epoch mint different keys.
`AddMemberLocal` and `RemoveMemberLocal` do everything the actor does before
the request goes out; `Start` to `ReadKeys` are the reads of the initial sync,
one call each (`get_metadata` is two queries); `Ingest` writes what they found.
`CheckOwner` and `CommitAdd`/`CommitRemove` are the two database steps of a
handler, which goes on when its caller has given up. `RemoveMemberCut` and
`IngestCut` end the process between the writes of `remove_member_local` and
`ingest_remote_list`. `torn` and `removed` are history. The answer of a
handler and the engine's next command are one step. Only the devices in
`Admins` issue commands; those that are also `Unreliable` (`Hasty`) may have
theirs fail.

### Store

A document is the set of operations it holds. `todo` are the writes the
running command has yet to make, taken from `Persist` (enqueue, save, project)
or `Rebuild` (save, project); `Restart` may come before each. `Change` alters
the cached document before `persist` finds out whether it can seal the edit,
as `edit_doc` does. `Doc` is `ensure_doc`. The single-field edits of items and
`rename_list` are one action `Edit`, because they share that path; the column
`name_plaintext` is in `Workspace`. `Ingest` may or may not find our key for the
current epoch, which `Membership` shows is not certain.
Uploads are acknowledged in any order, since a stranded row may be overtaken.
Causal dependencies among remote operations are not tracked.

### Sessions

A conversation is one login task: a registration and the password login that
follows it, a password login, or a device login. It makes at most one
`login_cache` row, one session and one device, so its number names all three.
`task[i]` is where the client's task stands, one value per await of
`auth.rs`; `asked[i]` is how far the server got with it, one step per
statement: the stash, the SELECT and DELETE of the finish, the device check,
the INSERT of the session. The two halves are separate, so the server's goes on
when the client gave up (`Lost`), quit or crashed. `Offline` is the fallback
every failing arm of a login takes: the device cache that was opened first, or
the account row the task read when it began. `Save`, `Enroll` and
`SaveDeviceCache` are what an online password login adds. `Deliver` is
`Action::Keys`, which replaces whatever keys and token the application held.
`Quit` logs the held token out, `Crash` does not. `Age` and `Cleanup` are time
and the server's sweep; step-up is a password session that is still `"fresh"`.

Simplifications: a password opens what its user sealed, and an OPAQUE finish
succeeds exactly for a known user with the right password (a wrong password is
the name of another user); the two database calls of the finish that select and
delete the stash are one step, because a client sends one finish per login;
`CreateUser` is the register handshake's last statement; a device login uses the
device of the cache it opened.

### Vault

One number stands for everything generated together: the SQLCipher key, the
database id, the device key pair and the recovery key. `pc` follows
`main` through `get_data_dir` (`Launch`), `load_or_create_envelope` (`Read`,
`ReadTorn`, `FirstRun`, `Generate`, `BeginWrite`, `EndWrite`), the two unlocks,
`Db::init` (`Open`) and `show_recovery_key`. `fs::write` is two steps, so a
process can leave a torn file. `Exit` ends a process anywhere, as a kill, an
error or a refusal does. `WipeKeyring` is the operating system losing the
device key; `MakeDirectory` another program creating a data directory that is
looked for earlier. One process runs at a time.

### Shell

A turn of the loop handles events (`Tick`, keys, `WorkerReply`) and then
dispatches exactly the actions that were queued when it began (`Drain`,
`left`); what they send waits. `Gate` is the authentication check of a tick.
Keys are the classes the code tells apart: chords that act under any modal,
bare keys, the workspace's keys, and the buttons and Esc of the modal. Tasks
send their results one action at a time while the loop runs. `pending` are the
replies `handle_worker_msg` stashes until their `Open..Ready` is dispatched.
Errors only write the error bar and are left out, as are payloads; which keys
are bound to an action is a free choice.

### Workspace

The store is `held` (the lists), `keyed` (those whose current key the session
has), `name`, `docs` (the todos in the open documents) and `rows` (the table
the views are read from). `panes`, `sort` and `listed` are the UI's view model,
`wtargets` and `wsort` the worker's copy, `cmds` and `replies` the channels
between them. Each key of `home.rs` is an action and each action's handling a
disjunct of `Handle`, with the modals for creating, renaming, editing, deleting
and sharing; `LookupEnds` is the task that looks up the user to share with. Each
command of the worker is a disjunct of `Run`: an edit (`Edit`, with renaming,
adding, editing, toggling and deleting) changes the document first and the table
only when the current key is held, as `edit_doc` and `persist` do, and a rename
has written the name by then; the others are creating and deleting a list,
adding and removing members, discovery, remote updates, the view, and the two
fetches. A command that changed something answers with a snapshot for the
worker's own targets; one that failed with an error alone, which `behind` records
if tables had changed.

`LoadView`, `Summaries` and `SortItems` are the views and their order. The
code's sorts are stable and its tables are kept in the order of their keys, so a
row is placed by the sort key, then by its place in the query (a list's document
order, all todos by date, lists by name), then by its id (`Precedes`); `Rank` is
the order of the random ids and `Place` that of the document. A list's key in
the alphabetical order is its name in lower case (`Folded`), which need not be
the byte order the query uses.

Simplifications: "this week" and "this month" differ from "due today" in a date
only and are left out; todos are ordered by title, date and priority, and their
notes are left out; the operations of the store that no key reaches (tags,
subtasks, moving a todo) are left out, and so are errors of the database itself.
A user that is looked up and not found only writes the error bar. A session
starts with its first frame, or at rest on a layout of `Screens`, which saves
the keys to get there, with a store of `Starts`.

### Forms

`form` is what the modal shows. A text is its length, its cursor and the start
of its selection; `OnKey` gives every outcome a key can have in the field's
mode (a count or a word motion is any motion it may amount to). `SetFocus` and
`Reset` are the functions of that name in the forms. `inbox` are the actions on
their way to whatever modal is open, delivered in order and perhaps much later
than the key that caused them, one `Deliver..` action each.

A submission reaches the application as an action, which hands the store worker
a command and closes the modal, refuses, or spawns a task. `waiting` counts the
tasks by what they have still to send, and `TaskSend` is one send: a
registration's `StopCapture` and then, separately, its `Login`, both to the
register form that is still open; a login's or unlock's error, or its
`StopCapture` and then, separately, its `CloseModal`; the result of looking up a
user. `stopped` is history: a `StopCapture` came after a field last took the
focus. A modal is opened while at most `MaxEarlier` actions, and as many tasks,
of earlier modals are still on their way to it; they are any actions and any
tasks, because the modals before it are not modelled.

The calendar is given by the days its months end on (`ShiftDays`,
`ShiftMonth`). The specification is called `FormsSpec`, because one module
proves about `Shell` too. Undo, redo, registers, validation messages and drawing
are left out.

## 3. Runs

`CHECK_DEADLOCK FALSE` throughout: edits, keys, commands and faults are bounded,
and a system whose users have stopped is idle.

| Run | Shows | Bounds, and why they suffice |
|---|---|---|
| `UploadSafety` | `AckedIsStored`, `UploadOrder`, `RetryReturnsOriginal`, `NudgeNotLost`, `UploadsFindTheList`, and `LogImplemented`: the handlers refine `UpdateLog` | 2 clients, 2 edits each, batches of 2, 2 faults: a retry beside its first handler, a batch that fails on its first or second row, another client's number in between (662 535 states) |
| `UploadLiveness` | `Uploaded`: every healthy edit is uploaded; `RetriedByNextPush`: a released row is retried, also while rows are folded away | 1 client, 3 edits, batches of 2 (a full batch and a second one), 2 faults, compaction (72 234) |
| `UploadStranded` | finding, section 6 | 1 client, 1 fault |
| `DownloadLive` | `MergedBehindCursor`, `LiveNotDropped`, `OneSubscription` | ring of 1 so that one frame too many lags, pages of 2 (a full and a partial one), 3 numbers, 2 data keys of which one update needs the second, 1 fault (a lag is none): a drop, a failed call, a frame sent twice or a restart, in any order of rows, pages and frames (2 917 520) |
| `DownloadDelivery` | with pulls alone: `Delivered`, and `Reconnects`, a new attempt after every failed socket | pages of 1 (a full page, another, an empty one), 2 numbers, so that a row may appear below one that was fetched, 2 faults (249 476) |
| `MembershipOneAdmin` | `CachedSlotIsServers`, `SlotsOnlyForMembers`, `SurvivorsRekeyed`, `IngestedHasKey` | 3 accounts, 3 devices, 3 commands, 3 epochs, 1 fault; the owner's device administrates, and a plain member's device tries to and may fail (791 804) |
| `StoreDurability` | `SavedIsQueued`, `ItemsBehindDocument`, `SavedNeverShrinks` | 4 edits, 2 remote operations, 2 process exits (183 443) |
| `Sessions` | `CachedDeviceIsEnrolled`, `RevokedDeviceLocked`, `SessionEndsWithProcess`, `LoginEnds` | 1 machine, 1 user, 2 logins, 2 faults: a password login that enrols and a device login beside its revocation, two logins of one process, a login in a second process (145 194) |
| `Vault` | `KeyOpensDatabase`, `OpensAgain` | 2 directories, 2 attempts, 3 keys, 3 exits, 2 faults: an exit before, in and after the write of the envelope, a second envelope in another directory, a wiped keyring |
| `Shell` | `PendingIsAnnounced`, `Prompted` | 3 inputs, 3 queued actions: a modal, its submission and a chord on top of it (386 401) |
| `Workspace` | `QuietIsCurrent` | 2 lists, one of them without its key in one of the starts, 3 todos, 2 layouts (one pane on a list, two panes) and the first frame (one pane on all todos) to start from, then 2 keys and 1 remote command in every order with the snapshots; the modal a key opens is submitted by the next one (1 462 764) |
| `Forms` | `OneCapture`, `ValuesSurvive` | 8 bodies, both editing modes, texts of 2, months of 4, 2 and 4 days; 6 keys (what it takes to fill in a register form and submit it; its success then comes at any moment), or 2 (`LateKeys`) when one action and one task of earlier modals (`MaxEarlier`) may still be on their way to the one just opened (5 098 778) |

Every passing run but the two of liveness also checks the module's type
invariant. Symmetry is not used: clients and devices differ (owner,
administrators), and updates are ordered.

`UploadOrder` says "as long as the client's process runs": after a restart the
row claimed by the last process is never retried while its handler may still
be running. `MergedBehindCursor` excepts the update being applied and those a
crash caught between the two writes. `LiveNotDropped` excepts the member's own
updates, those dropped for want of a DEK or of a known author, and a socket that
has lagged and is about to be closed. `Delivered` promises only what a pull still
has before it (`InReach`): an update above everything that was fetched; a row
that becomes visible below one that was is never asked for again. It also
excepts what the device cannot read. `UploadsFindTheList` holds until the
owner's own calls fail. `SavedIsQueued` excepts edits that were refused.
`CachedSlotIsServers` is about devices whose commands are carried out: a plain
member's removal is refused by the server and kept locally.
`RevokedDeviceLocked` excepts a login whose key was read before the revocation
committed and whose session is inserted after it: the two are statements of
different transactions. `SessionEndsWithProcess` names what may leave a session
behind: an answer that was lost, a process that ended during the login or
crashed, a second login that took the place of the first. `Prompted` excepts a
device unlock that has been tried and answered, and keys without an account,
both described in section 6. `QuietIsCurrent` excepts the screen after a remote
batch that failed half-way and after a rename that was refused for want of a
key, until the next snapshot: both change tables and are answered with an error
alone. `OneCapture` excepts a form that the success of a task has stopped, until
a field takes the focus again, and one whose `StartCapture` is still on its way.

### Fairness

Tokio polls every task that is ready, so: weak fairness of the nudge of a
started `persist`, of each engine's own steps, of each update's handlers
(`Upload`), of each engine, subscription task and actor (`Download`), of each
login's handlers and task (`Sessions`), and of the loop, its ticks and its tasks
(`Shell`). In `Sessions` time passes and the sweep runs, both weakly fair.
Nothing is assumed of users, faults, compaction, publishing or the network:
calls may fail up to `MaxFaults` times and the liveness properties except the
clients that met a failure (`mishap[c] # "none"`), or speak of the time after
the last fault. In `DownloadDelivery` a connection attempt that cannot succeed is
assumed to fail at last, which its timeout or the server's close brings about.
`OpensAgain` speaks of a user who wants in: who starts the client again, and
confirms and types the recovery key. Typing it is strongly fair, because a
process may end before each prompt, and the exits are bounded.

## 4. Proofs

Each theorem holds for every value of the constants that satisfies the
module's assumption, whatever the bounds:

| Theorem | Property | Assumes besides |
|---|---|---|
| `UploadProofs!TypeCorrect` | `TypeOK` | |
| `UploadProofs!AcknowledgedIsStored` | `AckedIsStored` | |
| `UploadProofs!NoLostWakeup` | `NudgeNotLost` | |
| `UploadProofs!LogIsImplemented` | `LogImplemented` (refinement of `UpdateLog`) | no compaction |
| `UploadProofs!RetryIsIdempotent` | `RetryReturnsOriginal` | no compaction |
| `UploadProofs!AppendsFindTheirList` | `UploadsFindTheList` | no compaction |
| `UploadProofs!UploadsInOrder` | `UploadOrder` | no compaction |
| `VaultProofs!VaultTypeCorrect` | `TypeOK` | |
| `VaultProofs!DatabaseOpens` | `KeyOpensDatabase` | |
| `StoreProofs!StoreTypeCorrect` | `TypeOK` | |
| `StoreProofs!SavedEditsAreQueued` | `SavedIsQueued` | |
| `StoreProofs!ReadModelIsBehind` | `ItemsBehindDocument` | |
| `StoreProofs!SavingKeepsAll` | `SavedNeverShrinks` | |
| `SessionsProofs!SessionsTypeCorrect` | `TypeOK` | |
| `SessionsProofs!CacheMeansEnrolled` | `CachedDeviceIsEnrolled` | |
| `SessionsProofs!RevocationLocksOut` | `RevokedDeviceLocked` | |
| `SessionsProofs!SessionsDoNotOutlive` | `SessionEndsWithProcess` | |
| `DownloadProofs!DownloadTypeCorrect` | `TypeOK` | |
| `DownloadProofs!MergedIsBehind` | `MergedBehindCursor` | |
| `DownloadProofs!LiveFramesKept` | `LiveNotDropped` | |
| `DownloadProofs!SubscribesOnce` | `OneSubscription` | |
| `MembershipProofs!MembershipTypeCorrect` | `TypeOK` | |
| `MembershipProofs!MembersReadCurrentEpoch` | `SurvivorsRekeyed` | `OneAdmin` |
| `MembershipProofs!SlotsFollowMembers` | `SlotsOnlyForMembers` | `OneAdmin` |
| `MembershipProofs!IngestedEpochsHaveKeys` | `IngestedHasKey` | `OneAdmin` |
| `MembershipProofs!CachedSlotsAreServers` | `CachedSlotIsServers` | `OneAdmin` |
| `WorkspaceProofs!WorkspaceTypeCorrect` | `TypeOK` | |
| `WorkspaceProofs!QuietScreenIsCurrent` | `QuietIsCurrent` | |
| `TuiProofs!ShellTypeCorrect` | `TypeOK` of `Shell` | |
| `TuiProofs!StashIsAnnounced` | `PendingIsAnnounced` | |
| `TuiProofs!FormsTypeCorrect` | `FormsTypeOK` | |
| `TuiProofs!OneFieldCaptures` | `OneCapture` | |
| `TuiProofs!FormsKeepValues` | `ValuesSurvive` | |

Upload, from the bottom:

- `TypeInv` adds to `TypeOK` that an engine about to send has a row to send.
  Without it the minimum of the batch need not be an edit.
- `AckInv`: a successful answer implies that its update was stored once
  (`CallsBacked`), and so does a row in the log (`RowsRecorded`); acking reads
  such an answer.
- `NudgeNotLost` is inductive on a typed state: a nudge is appended by the
  step that ends `queued`, `Receive` turns a waiting Push into a drain, and a
  drain only ends when no row is pending.
- `SeqsApart`: numbers held by handlers and by rows are positive, at most
  `top`, and no two of them are equal unless they belong to the same update's
  settled answer. It is what makes `InsertRow` take a free number, so each
  step of `Upload` is a `Store`, an `Allocate` or a stutter of `UpdateLog`.
- `CreateFirst` and `AnswersKept`: handlers that got past the check know the
  list exists, and a handler past its conflict finds the row, which is only
  true while no row is removed. `RetryIsIdempotent` fails with compaction,
  because a folded row takes its signature with it and a retry is stored anew,
  so the assumption is needed.
- `CreationQueued`: until the owner meets a failure, the creation of a list
  that exists locally is queued, under way or done. With `CreateFirst` (while
  it is queued no append runs) it gives `UploadsFindTheList`.
- `OrderInv`: while a client's process runs, an edit is only sent when every
  earlier one is settled, rows in the log are ordered, and a handler that still
  holds a number was sent before anything later. This relates the outbound
  rows, the batch, the handlers and the log, and needs all the above.

Vault: `KeyOpensDatabase` alone does not survive the write of an envelope.
`EnvelopeFirst` says what the process knows at each stage: until the envelope
is written there is no database in its directory, and from then on what it
holds is what the envelope on disk holds. Exits keep it because it speaks of
running processes only.

Store: `StoreInv` follows a command through its writes. Until the first of
`Persist` is made, the edit in hand is in the cached document and not yet in the
queue (`InHand`); everything else of ours in the cache is queued, uploaded or
lost (`CachedIsQueued`). So the save, which writes the cache, saves nothing
unqueued. `SavedBehindDoc` (the document a command starts from includes the
saved one) gives `SavedNeverShrinks`, and `ProjectSaved` that the read model is
rewritten from what has just been saved.

Sessions: `Quiet` says that a session is the last thing a login's finish makes
and that no finish is sent before the start is answered; `Attended` that tasks
and tokens belong to a running process; `Accounted` that a task past its finish
holds its token, unless the server never minted one or history has a reason;
the end of a process then takes the session with the token, or leaves a reason.
`Enrolled` relates the cache to the task that wrote it, `Locked` extends
`RevokedDeviceLocked` to logins that passed the device check and have not
minted, which is where a revocation overtakes them.

Download: the type of an inbox already needs to know what a page holds, and
`PageOfRows` needs the log. `LogSound` says that a number carries one row and
that what was published is stored; with it the rank of a row is a bijection onto
`1..n`, so every `CHOOSE` of `Page` finds a row. `FramesStored` follows frames
and pages from there into rings, inboxes and `live`. `HeadInHand` keeps the
update between its two writes at the head of the channel, unread by the other
branches; `MergedBehindCursor` is inductive beside these two, because the update
in hand has a place when the cursor is offered it. `LiveNotDropped` follows a
frame from ring to channel to document; what becomes of it at the end depends on
the keys and members of that moment, so the invariant names the update that was
dropped (`skipped`) and needs nothing about how keys and members come and go.
`OneChain` strengthens `OneSubscription` to positions of the channel, which a
counted set does not give.

Membership: `OneAdmin` says that one device of the owner does all sharing, was
up to date when the behaviour starts and meets no fault; other devices of the
administrators' set are plain members' and are refused by the server. Any number
of devices read, sync, restart and fail meanwhile. `MCMembership` states as an
assumption that its instance is such a one. The code has no such restriction,
and section 6 says what happens without it. `TypeInv` bounds the keys minted by
the commands given. `AdminInv` is the core: `Planned` says that
the server's tables, taken through the call in flight and then through the
channel (`Chain`, by way of one epoch and one member set per request), are the
tables of the administrator, so every request that commits was sealed for
exactly the epoch and members the server has at that moment (`CommitFits`).
`KeysInv` then follows the slots, with `NoFutureSlots` so that a rotation starts
from an empty row. `ReadsInv` follows a sync from epoch to members to keys: the
slot read is still there when the answer is ingested, because slots of a seated
member are never rewritten (`SlotsStay`). `HeldInv` adds what a device caches,
and names the rotation that is on its way with the epoch it leads to, which
`CachedSlotIsServers` leaves out and its step needs.

Workspace: `QuietIsCurrent` says nothing while something is under way, so the
invariant says what is owed at every moment. `Told`: an action that will announce
the layout is queued, or the layout drawn is on its way to the worker and no
command behind it changes the targets, or the worker holds it. `LastReply`: when
snapshots are under way, and no error kept one back (`behind`), the last of them
is what the worker would answer now. `Displayed`: with no snapshot, announcement
or layout under way, and none kept back, sidebar and panes show what the worker
would answer; what was fetched for a modal may follow the last snapshot, since it
carries no view. Commands that only wait for a key change documents and no
table, but for a rename, which counts as kept back. When the channels are empty
the three meet. The types need two more
facts: `RowsBounded`, that nothing shown or sent has more rows than there are
lists or items, so that a selection is within bounds, and `TurnHasActions`. Views
are sequences chosen by a predicate, so that they have a type rests on a lemma,
`SortItemsSorts`: any finite set can be arranged in the order of its triples of
sort key, query order and id (`Sortable`). That is an induction over data, which
the library's induction rules cannot be used for here; it goes by a smallest set
without an arrangement instead (`SmallestOf`). `Extremes` does the same for the
least date and the greatest priority of a list.

Shell: a stashed reply and its announcement are made in one step, but the
announcement may then wait behind others while a turn ends or the modal is
replaced. `AnnouncedInTurn` says that the announcement is among the actions the
turn under way still dispatches, or, between turns, anywhere in the queue; a
turn that ends has dispatched its share, so nothing stashed is left. `TypeOK`
needs `LoadedIsOnDisk`: an account in memory is on disk.

Forms: `OneCapture` says what excuses an unfocused field, a `StartCapture` on
its way or a `StopCapture` that came last, so it is inductive on a typed state:
delivering the one gives the first field the focus and resets `stopped`,
delivering the other sets it, and nothing else takes the capture from the
focused field without the focus leaving the body. What is on its way is
otherwise arbitrary, which is why actions and tasks of earlier modals need no
invariant. `FormsOnly` keeps the member list, whose rows are no fields, from
being reset as a form. Every way a key edits a text
(`OnKey`) leaves cursor and selection in it and capture as it was (`Edited`), and
every date of the calendar lies in the first month that ends on or after it
(`DaysAreDates`), so that saturating and clamping stay within it.

Every safety property and every action property that a passing run checks is a
theorem. Only model-checked are the liveness properties (`Uploaded`,
`RetriedByNextPush`, `Delivered`, `Reconnects`, `LoginEnds`, `OpensAgain`,
`Prompted`): they rest on fairness and on which steps are enabled, which is
beyond the prover.

## 5. What is left

- Composition: `Store` with `Upload` as its `outbound`, so that `SavedIsQueued`
  and `AckedIsStored` meet in one run.
- Key chords and the layering of settings (`config.rs`).
- Deleting a list on the server, an initial sync that fails half-way through
  several lists, and the stored snapshot.

## 6. What the checks found

`UploadStranded` violates a statement that a comment of the code makes;
`PROJECT.json` quotes it: a failed upload leaves the rest of the claimed batch
`inflight` for good.

The passing properties are stated around further behaviour that the models
reach and that a maintainer should know of. Synchronisation:

- one live frame can put the cursor past rows that were not pulled yet, and
  `pull` starts from the cursor: what is published between the last page and the
  attachment of the socket is in no page and no frame, and is lost to the device
  without any failure, although `API.md` (128-129) lets it catch up;
- a row that becomes visible after one with a higher `seq` was pulled is lost to
  that device (hence `InReach` in `Delivered`);
- a device skips every update of its own account, so a second device of one
  user never sees what the first wrote;
- a create-list call that fails is never repeated, and every update of that
  list is refused afterwards (hence `mishap` in `UploadsFindTheList`);
- compaction forgets the signatures by which a retry is recognised (hence no
  compaction for `RetryReturnsOriginal`; no client compacts yet);
- an update whose key or whose author is not known yet is lost to a device once
  a later one is merged; a member removed here is such an author at once, also
  for updates from before the removal;
- rows the last process left in `outbound` wait for the first edit of this one.

Membership and store:

- a device whose member list is stale seals the next epoch to a member another
  device has removed;
- a plain member's removal is refused by the server and kept locally; a list a
  member deletes is discovered again at the next start, without the edits that
  were not sent;
- a removal made while the first discovery is under way has its epoch set back
  by it (hence devices that are up to date in `MembershipOneAdmin`);
- an edit refused by `persist` stays in the cached document, is saved with the
  next one and is never sent (`lost` in `SavedIsQueued`);
- a process exit after an edit is queued and before it is saved leaves this
  device without its own edit for good, and one before the read model is
  rewritten leaves the read model behind (hence inclusions and not equalities
  in `SavedIsQueued` and `ItemsBehindDocument`).

Accounts and start-up:

- with two users on one machine the account row and the keys in memory may be
  of different users;
- a failed `save_account` leaves keys without an account: no workspace and no
  prompt, and the password prompt that follows a failed device unlock is not
  shown again once closed (both excepted in `Prompted`);
- the recovery key is shown only by the process that created the envelope; if
  that one ends first, a lost keyring makes the database unreadable;
- `fs::write` is not atomic: a torn envelope ends every later start;
- the data directory moves when another program creates a candidate that is
  looked for earlier;
- a keyring entry lost once means a prompt at every start, and one written by a
  process that ended before the envelope is never removed.

Interface:

- a snapshot computed for two panes fills the one that was kept with the
  other's items, if the wrong one was closed meanwhile, until the next arrives;
- the selected row is clamped when it is drawn and not when it is used, and
  Enter on a row whose list has gone opens a dead list;
- `OpenView` for the second pane is dropped if that pane closes in the same
  burst of keys;
- an error in the middle of a batch of remote updates leaves the screen behind,
  and so does a rename on a device without the list's current key, which writes
  the name before it fails, although the worker's comment (`worker.rs:96-97`)
  speaks of a snapshot after every mutating command (`behind` in
  `QuietIsCurrent`);
- a selection made in Visual mode survives leaving and re-entering the field;
- two quick Enters on a submit button submit twice;
- a successful registration stops the capture of its form, whose login may then
  fail: a field left in Insert mode keeps Esc from closing the modal and does not
  take it until the focus is moved, although the modal's comment
  (`modal.rs:234`) calls Esc always a safe way out (`stopped` in `OneCapture`);
- a login's `StopCapture` and `CloseModal` are two sends: between them, or when a
  modal opened meanwhile gets the first, a form has the focus and no field takes
  a key;
- keys typed before a queued `StartCapture` is delivered are lost, and a late
  `StartCapture` makes a field capture while the buttons have the focus.

## 7. Not modelled, and why

Cryptography, OPAQUE arithmetic, CRDT merging, serialisation and HTTP are
libraries or pure functions; the models keep which key opens what and whether a
call got through. SQLite and Postgres errors other than lost calls are left
out, except where the code handles one and goes on. The keyrings and the TPM
are the operating system's. Parsing of key names, layering of settings and
chords of several keys decide which key is bound to an action, and every model
lets any bound key be pressed at any time. The server's settings, start-up and
error mapping, and the drawing, logging and command line of the client have no
state that a later step depends on, but for the data directory, which is in
`Vault`. The `Sidebar` component is never created. Deleting a list on the
server, lists that fail half-way through an initial sync and the stored snapshot
are listed with their components in `PROJECT.json`.
