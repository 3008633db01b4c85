-------------------------------- MODULE Store --------------------------------
(***************************************************************************)
(* One device's copy of one list: the cached document of the store actor,  *)
(* the SQLite tables behind it, and what becomes of both when a command is *)
(* refused, the list is deleted, or the process ends between two writes.   *)
(*                                                                         *)
(* A document is the set of operations it holds.  `listed`, `keyed`,       *)
(* `outbound`, `saved` and `items` are tables; `open`, `mem` and `todo`    *)
(* die with the process.  The actor runs one command at a time, so only    *)
(* the sync engine, which uploads, and a process exit come between its     *)
(* writes.                                                                 *)
(***************************************************************************)
EXTENDS Naturals, Sequences

CONSTANTS MaxEdits,   (* bound: local edits                                  *)
          Remote,     (* operations of other members that come in            *)
          MaxFaults   (* bound: process exits                                *)

ASSUME StoreAssumption ==
    /\ MaxEdits \in Nat
    /\ Remote \cap Nat = {}
    /\ MaxFaults \in Nat

Own == 1..MaxEdits
Ops == Own \cup Remote

VARIABLES
    born,      \* the list exists somewhere
    syncing,   \* this process's initial sync has yet to report on the list
    listed,    \* the lists row is there
    keyed,     \* the DEK of its current epoch is cached
    open,      \* docs holds the list's document
    mem,       \* the cached document
    todo,      \* writes the running command has yet to make
    edits,     \* local edits made so far
    outbound,  \* edits in the outbound table
    uploaded,  \* edits the server has acknowledged
    saved,     \* the documents row
    items,     \* what todo_items was derived from
    lost,      \* history: edits refused, dropped, or cut off before any write
    faults

tableVars == <<listed, keyed, outbound, saved, items>>
cacheVars == <<open, mem, todo>>
ghostVars == <<born, edits, uploaded, lost, faults>>
vars == <<syncing, tableVars, cacheVars, ghostVars>>

Writes == {"enqueue", "save", "project"}

TypeOK ==
    /\ born \in BOOLEAN /\ syncing \in BOOLEAN
    /\ listed \in BOOLEAN /\ keyed \in BOOLEAN /\ open \in BOOLEAN
    /\ {mem, saved, items} \subseteq SUBSET Ops
    /\ {outbound, uploaded, lost} \subseteq SUBSET Own
    /\ todo \in Seq(Writes)
    /\ todo # <<>> => open /\ listed
    /\ open \/ mem = {}
    /\ edits \in 0..MaxEdits
    /\ faults \in 0..MaxFaults

\* The process has just started.
Init ==
    /\ born = FALSE /\ syncing = TRUE
    /\ listed = FALSE /\ keyed = FALSE
    /\ open = FALSE /\ mem = {} /\ todo = <<>>
    /\ edits = 0 /\ outbound = {} /\ uploaded = {}
    /\ saved = {} /\ items = {} /\ lost = {}
    /\ faults = 0

-----------------------------------------------------------------------------
(* The order of a command's writes                                         *)

\* Mutants of Persist: two of its writes change places.
PersistSaveFirst  == <<"save", "enqueue", "project">>
PersistItemsFirst == <<"enqueue", "project", "save">>

\* persist: the sealed delta, the snapshot, the read model.
Persist == <<"enqueue", "save", "project">>

\* rebuild_read_model, after a merge.
Rebuild == <<"save", "project">>

Idle == todo = <<>>

Upcoming(write) == todo # <<>> /\ Head(todo) = write /\ todo' = Tail(todo)

\* Mutant of Doc: a list that is not cached is opened empty.
DocFresh == IF open THEN mem ELSE {}

\* ensure_doc: the cached document, else the saved one.
Doc == IF open THEN mem ELSE saved

-----------------------------------------------------------------------------
(* Commands of the store actor                                             *)

\* edit_doc: the document is changed first; without the list's row or its DEK
\* persist then fails, and nothing takes the change back.
Change ==
    /\ Idle
    /\ edits < MaxEdits
    /\ edits' = edits + 1
    /\ mem' = Doc \cup {edits + 1}
    /\ open' = TRUE
    /\ IF listed /\ keyed
       THEN todo' = Persist /\ UNCHANGED lost
       ELSE lost' = lost \cup {edits + 1} /\ UNCHANGED todo

\* rename_list and the edits of items.
Edit ==
    /\ born
    /\ Change
    /\ UNCHANGED <<syncing, tableVars, born, uploaded, faults>>

\* create_list: the row, the key slot, then the title edit.
CreateList ==
    /\ Idle /\ ~born
    /\ edits < MaxEdits
    /\ born' = TRUE /\ syncing' = FALSE
    /\ listed' = TRUE /\ keyed' = TRUE
    /\ open' = TRUE /\ mem' = {edits + 1} /\ todo' = Persist
    /\ edits' = edits + 1
    /\ UNCHANGED <<outbound, saved, items, uploaded, lost, faults>>

\* The delta of the one edit that is under way.
Enqueue ==
    /\ Upcoming("enqueue")
    /\ outbound' = outbound \cup {edits}
    /\ UNCHANGED <<syncing, listed, keyed, saved, items, open, mem,
                   ghostVars>>

Save ==
    /\ Upcoming("save")
    /\ saved' = mem
    /\ UNCHANGED <<syncing, listed, keyed, outbound, items, open, mem,
                   ghostVars>>

Project ==
    /\ Upcoming("project")
    /\ items' = mem
    /\ UNCHANGED <<syncing, listed, keyed, outbound, saved, open, mem,
                   ghostVars>>

\* apply_remote_update of another member's update that can be read, whatever
\* epoch it was sealed under.  Without the list there is no author to verify it
\* against and it is skipped.
MergeRemote(r) ==
    /\ Idle
    /\ listed
    /\ r \notin Doc
    /\ mem' = Doc \cup {r}
    /\ open' = TRUE
    /\ todo' = Rebuild
    /\ UNCHANGED <<syncing, tableVars, ghostVars>>

\* Mutant of DeleteList: the list is deleted in the middle of a command.
DeleteListConcurrent ==
    /\ listed
    /\ listed' = FALSE
    /\ outbound' = {} /\ saved' = {} /\ items' = {}
    /\ lost' = lost \cup outbound
    /\ open' = FALSE /\ mem' = {}
    /\ UNCHANGED <<syncing, keyed, todo, born, edits, uploaded, faults>>

\* delete_list: everything cascades from the row, the cached document goes;
\* the DEK stays with the session.
DeleteList ==
    /\ Idle
    /\ listed
    /\ listed' = FALSE
    /\ outbound' = {} /\ saved' = {} /\ items' = {}
    /\ lost' = lost \cup outbound
    /\ open' = FALSE /\ mem' = {}
    /\ UNCHANGED <<syncing, keyed, todo, born, edits, uploaded, faults>>

\* ingest_remote_list, once per process: the server knows the list, or, for
\* one that was only deleted here, still knows it.  It may keep no slot for us
\* in the current epoch (see Membership).
Ingest ==
    /\ Idle
    /\ syncing
    /\ syncing' = FALSE
    /\ born' = TRUE
    /\ listed' = TRUE
    /\ keyed' \in BOOLEAN
    /\ UNCHANGED <<outbound, saved, items, cacheVars, edits, uploaded,
                   lost, faults>>

\* remove_member_local mints the next epoch's DEK and needs no earlier one.
Rotate ==
    /\ Idle
    /\ listed /\ ~keyed
    /\ keyed' = TRUE
    /\ UNCHANGED <<syncing, listed, outbound, saved, items, cacheVars,
                   ghostVars>>

-----------------------------------------------------------------------------
\* The sync engine: see Upload.  A row may be stranded, hence any order.
Upload(n) ==
    /\ n \in outbound
    /\ outbound' = outbound \ {n}
    /\ uploaded' = uploaded \cup {n}
    /\ UNCHANGED <<syncing, listed, keyed, saved, items, cacheVars, born,
                   edits, lost, faults>>

Exit ==
    /\ faults < MaxFaults
    /\ faults' = faults + 1
    /\ open' = FALSE /\ mem' = {} /\ todo' = <<>>
    /\ syncing' = TRUE
    /\ UNCHANGED <<outbound, saved, items, uploaded>>

Restart ==
    /\ Exit
    /\ lost' = lost \cup ((mem \cap Own) \ (outbound \cup uploaded \cup saved))
    /\ UNCHANGED <<listed, keyed, born, edits>>

\* The process ends inside create_list, with or without a key slot.
CreateListCut ==
    /\ Idle /\ ~born
    /\ born' = TRUE
    /\ listed' = TRUE /\ keyed' \in BOOLEAN
    /\ Exit
    /\ UNCHANGED <<edits, lost>>

Next ==
    \/ CreateList \/ CreateListCut
    \/ Edit
    \/ Enqueue \/ Save \/ Project
    \/ \E r \in Remote : MergeRemote(r)
    \/ DeleteList
    \/ Ingest \/ Rotate
    \/ \E n \in Own : Upload(n)
    \/ Restart

Spec == Init /\ [][Next]_vars

-----------------------------------------------------------------------------
(* Properties                                                              *)

Queued == outbound \cup uploaded

\* A process exit between two writes of persist never leaves an edit that is
\* saved on this device and unknown to everybody else: whatever the saved
\* document holds of our own was queued for upload before, or is an edit that
\* persist refused.
SavedIsQueued == saved \cap Own \subseteq Queued \cup lost

\* The read model never shows what the saved document does not hold.
ItemsBehindDocument == items \subseteq saved

\* The saved document never loses an operation, as long as the list is not
\* deleted: what save_document overwrites it with was opened from it.
SavedNeverShrinks == [][listed /\ listed' => saved \subseteq saved']_vars
=============================================================================
