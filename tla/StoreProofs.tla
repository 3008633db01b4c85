------------------------------ MODULE StoreProofs ------------------------------
(***************************************************************************)
(* Theorems about Store, for any number of edits, remote operations and    *)
(* process exits.  StoreInv is the inductive invariant: it follows one     *)
(* command through its writes and says, at each of them, what the cached   *)
(* document, the tables and the channel to the server hold of each other.  *)
(***************************************************************************)
EXTENDS Store, TLAPS

\* The writes a command may still have to make.
Stages == {<<>>, Persist, Rebuild, <<"project">>}

\* Nothing of a list is on this device before it exists.
BornFirst ==
    /\ listed => born
    /\ ~born => todo = <<>> /\ saved = {} /\ items = {} /\ outbound = {}

\* The edit persist has yet to queue.
InHand == IF todo = Persist THEN {edits} ELSE {}

\* Every edit of ours in the cached document is queued, uploaded, known to be
\* lost, or the one in hand.
CachedIsQueued == mem \cap Own \subseteq Queued \cup lost \cup InHand

\* What is saved is in the document the next command starts from.
SavedBehindDoc == saved \subseteq Doc

\* The read model is rewritten only from what has just been saved.
ProjectSaved == todo = <<"project">> => mem = saved

StoreInv ==
    /\ TypeOK
    /\ todo \in Stages
    /\ todo = Persist => edits \in Own
    /\ BornFirst
    /\ CachedIsQueued
    /\ SavedIsQueued
    /\ SavedBehindDoc
    /\ ProjectSaved
    /\ ItemsBehindDocument

-----------------------------------------------------------------------------
\* The stages of a command are different, and each write leads to the next.
LEMMA StageSteps ==
    /\ Persist # <<>> /\ Rebuild # <<>> /\ <<"project">> # <<>>
    /\ Persist # Rebuild /\ Persist # <<"project">> /\ Rebuild # <<"project">>
    /\ Head(Persist) = "enqueue" /\ Tail(Persist) = Rebuild
    /\ Head(Rebuild) = "save" /\ Tail(Rebuild) = <<"project">>
    /\ Head(<<"project">>) = "project" /\ Tail(<<"project">>) = <<>>
  BY DEF Persist, Rebuild

LEMMA StagesTyped == Stages \subseteq Seq(Writes)
  BY DEF Stages, Persist, Rebuild, Writes

LEMMA StoreInit == Init => StoreInv
<1> SUFFICES ASSUME Init PROVE StoreInv
  OBVIOUS
<1>1. TypeOK
  <2>1. born \in BOOLEAN /\ syncing \in BOOLEAN /\ listed \in BOOLEAN
           /\ keyed \in BOOLEAN /\ open \in BOOLEAN
    BY StoreAssumption, StageSteps, StagesTyped DEF Init, Stages
  <2>2. {mem, saved, items} \subseteq SUBSET Ops /\ {outbound, uploaded, lost} \subseteq SUBSET Own
    BY StoreAssumption, StageSteps, StagesTyped DEF Init, Stages
  <2>3. todo \in Seq(Writes) /\ (todo # <<>> => open /\ listed) /\ (open \/ mem = {})
    BY StoreAssumption, StageSteps, StagesTyped DEF Init, Stages
  <2>4. edits \in 0..MaxEdits /\ faults \in 0..MaxFaults
    BY StoreAssumption, StageSteps, StagesTyped DEF Init, Stages
  <2> QED
    BY <2>1, <2>2, <2>3, <2>4 DEF TypeOK
<1> QED
  BY <1>1, StageSteps, StagesTyped
     DEF Init, StoreInv, Stages, BornFirst, CachedIsQueued, SavedIsQueued,
         SavedBehindDoc, ProjectSaved, ItemsBehindDocument, Queued, InHand, Doc

LEMMA StoreStep == StoreInv /\ [Next]_vars => StoreInv'
<1> USE StoreAssumption DEF StoreInv, TypeOK, BornFirst, CachedIsQueued, SavedIsQueued,
        SavedBehindDoc, ProjectSaved, ItemsBehindDocument, Queued, InHand, Doc, Own, Ops,
        tableVars, cacheVars, ghostVars, Idle, Stages
<1> SUFFICES ASSUME StoreInv, [Next]_vars PROVE StoreInv'
    OBVIOUS
<1>1. CASE CreateList
  <2>1. TypeOK'
    <3>1. born' \in BOOLEAN /\ syncing' \in BOOLEAN /\ listed' \in BOOLEAN
           /\ keyed' \in BOOLEAN /\ open' \in BOOLEAN
      BY <1>1, StageSteps, StagesTyped DEF CreateList
    <3>2. {mem, saved, items}' \subseteq SUBSET Ops /\ {outbound, uploaded, lost}' \subseteq SUBSET Own
      BY <1>1, StageSteps, StagesTyped DEF CreateList
    <3>3. todo' \in Seq(Writes) /\ (todo' # <<>> => open' /\ listed') /\ (open' \/ mem' = {})
      BY <1>1, StageSteps, StagesTyped DEF CreateList
    <3>4. edits' \in 0..MaxEdits /\ faults' \in 0..MaxFaults
      BY <1>1, StageSteps, StagesTyped DEF CreateList
    <3> QED
      BY <3>1, <3>2, <3>3, <3>4 DEF TypeOK
  <2>2. todo' \in Stages /\ (todo' = Persist => edits' \in Own)
    BY <1>1, StageSteps, StagesTyped DEF CreateList
  <2>3. BornFirst'
    BY <1>1, StageSteps, StagesTyped DEF CreateList
  <2>4. CachedIsQueued' /\ SavedIsQueued'
    BY <1>1, StageSteps, StagesTyped DEF CreateList
  <2>5. SavedBehindDoc' /\ ProjectSaved' /\ ItemsBehindDocument'
    BY <1>1, StageSteps, StagesTyped DEF CreateList
  <2> QED
    BY <2>1, <2>2, <2>3, <2>4, <2>5
<1>2. CASE CreateListCut
  <2>1. TypeOK'
    <3>1. born' \in BOOLEAN /\ syncing' \in BOOLEAN /\ listed' \in BOOLEAN
           /\ keyed' \in BOOLEAN /\ open' \in BOOLEAN
      BY <1>2, StageSteps, StagesTyped DEF CreateListCut, Exit
    <3>2. {mem, saved, items}' \subseteq SUBSET Ops /\ {outbound, uploaded, lost}' \subseteq SUBSET Own
      BY <1>2, StageSteps, StagesTyped DEF CreateListCut, Exit
    <3>3. todo' \in Seq(Writes) /\ (todo' # <<>> => open' /\ listed') /\ (open' \/ mem' = {})
      BY <1>2, StageSteps, StagesTyped DEF CreateListCut, Exit
    <3>4. edits' \in 0..MaxEdits /\ faults' \in 0..MaxFaults
      BY <1>2, StageSteps, StagesTyped DEF CreateListCut, Exit
    <3> QED
      BY <3>1, <3>2, <3>3, <3>4 DEF TypeOK
  <2>2. todo' \in Stages /\ (todo' = Persist => edits' \in Own)
    BY <1>2, StageSteps, StagesTyped DEF CreateListCut, Exit
  <2>3. BornFirst'
    BY <1>2, StageSteps, StagesTyped DEF CreateListCut, Exit
  <2>4. CachedIsQueued' /\ SavedIsQueued'
    BY <1>2, StageSteps, StagesTyped DEF CreateListCut, Exit
  <2>5. SavedBehindDoc' /\ ProjectSaved' /\ ItemsBehindDocument'
    BY <1>2, StageSteps, StagesTyped DEF CreateListCut, Exit
  <2> QED
    BY <2>1, <2>2, <2>3, <2>4, <2>5
<1>3. CASE Edit
  <2>1. TypeOK'
    <3>1. born' \in BOOLEAN /\ syncing' \in BOOLEAN /\ listed' \in BOOLEAN
           /\ keyed' \in BOOLEAN /\ open' \in BOOLEAN
      BY <1>3, StageSteps, StagesTyped DEF Edit, Change
    <3>2. {mem, saved, items}' \subseteq SUBSET Ops /\ {outbound, uploaded, lost}' \subseteq SUBSET Own
      BY <1>3, StageSteps, StagesTyped DEF Edit, Change
    <3>3. todo' \in Seq(Writes) /\ (todo' # <<>> => open' /\ listed') /\ (open' \/ mem' = {})
      BY <1>3, StageSteps, StagesTyped DEF Edit, Change
    <3>4. edits' \in 0..MaxEdits /\ faults' \in 0..MaxFaults
      BY <1>3, StageSteps, StagesTyped DEF Edit, Change
    <3> QED
      BY <3>1, <3>2, <3>3, <3>4 DEF TypeOK
  <2>2. todo' \in Stages /\ (todo' = Persist => edits' \in Own)
    BY <1>3, StageSteps, StagesTyped DEF Edit, Change
  <2>3. BornFirst'
    BY <1>3, StageSteps, StagesTyped DEF Edit, Change
  <2>4. CachedIsQueued' /\ SavedIsQueued'
    BY <1>3, StageSteps, StagesTyped DEF Edit, Change
  <2>5. SavedBehindDoc' /\ ProjectSaved' /\ ItemsBehindDocument'
    BY <1>3, StageSteps, StagesTyped DEF Edit, Change
  <2> QED
    BY <2>1, <2>2, <2>3, <2>4, <2>5
<1>4. CASE Enqueue
  BY <1>4, StageSteps, StagesTyped DEF Enqueue, Upcoming
<1>5. CASE Save
  BY <1>5, StageSteps, StagesTyped DEF Save, Upcoming
<1>6. CASE Project
  BY <1>6, StageSteps, StagesTyped DEF Project, Upcoming
<1>7. CASE \E r \in Remote : MergeRemote(r)
  BY <1>7, StageSteps, StagesTyped DEF MergeRemote
<1>8. CASE DeleteList
  BY <1>8, StageSteps, StagesTyped DEF DeleteList
<1>9. CASE Ingest
  BY <1>9, StageSteps, StagesTyped DEF Ingest
<1>10. CASE Rotate
  BY <1>10, StageSteps, StagesTyped DEF Rotate
<1>11. CASE \E n \in Own : Upload(n)
  BY <1>11, StageSteps, StagesTyped DEF Upload
<1>12. CASE Restart
  <2>1. TypeOK'
    <3>1. born' \in BOOLEAN /\ syncing' \in BOOLEAN /\ listed' \in BOOLEAN
           /\ keyed' \in BOOLEAN /\ open' \in BOOLEAN
      BY <1>12, StageSteps, StagesTyped DEF Restart, Exit
    <3>2. {mem, saved, items}' \subseteq SUBSET Ops /\ {outbound, uploaded, lost}' \subseteq SUBSET Own
      BY <1>12, StageSteps, StagesTyped DEF Restart, Exit
    <3>3. todo' \in Seq(Writes) /\ (todo' # <<>> => open' /\ listed') /\ (open' \/ mem' = {})
      BY <1>12, StageSteps, StagesTyped DEF Restart, Exit
    <3>4. edits' \in 0..MaxEdits /\ faults' \in 0..MaxFaults
      BY <1>12, StageSteps, StagesTyped DEF Restart, Exit
    <3> QED
      BY <3>1, <3>2, <3>3, <3>4 DEF TypeOK
  <2>2. todo' \in Stages /\ (todo' = Persist => edits' \in Own)
    BY <1>12, StageSteps, StagesTyped DEF Restart, Exit
  <2>3. BornFirst'
    BY <1>12, StageSteps, StagesTyped DEF Restart, Exit
  <2>4. CachedIsQueued' /\ SavedIsQueued'
    BY <1>12, StageSteps, StagesTyped DEF Restart, Exit
  <2>5. SavedBehindDoc' /\ ProjectSaved' /\ ItemsBehindDocument'
    BY <1>12, StageSteps, StagesTyped DEF Restart, Exit
  <2> QED
    BY <2>1, <2>2, <2>3, <2>4, <2>5
<1>13. CASE UNCHANGED vars
  BY <1>13 DEF vars
<1> QED
  BY <1>1, <1>2, <1>3, <1>4, <1>5, <1>6, <1>7, <1>8, <1>9, <1>10, <1>11, <1>12,
     <1>13 DEF Next

THEOREM StoreIsInvariant == Spec => []StoreInv
<1>1. Init => StoreInv
  BY StoreInit
<1>2. StoreInv /\ [Next]_vars => StoreInv'
  BY StoreStep
<1> QED
  BY <1>1, <1>2, PTL DEF Spec

-----------------------------------------------------------------------------
\* The tables, the cached document and the writes to come always have the
\* shape that store.rs and its schema give them.
THEOREM StoreTypeCorrect == Spec => []TypeOK
<1>1. StoreInv => TypeOK
  BY DEF StoreInv
<1> QED
  BY <1>1, StoreIsInvariant, PTL

\* However many edits, merges, deletions and process exits there are, no edit
\* is saved on this device that was neither queued for upload nor refused by
\* persist.
THEOREM SavedEditsAreQueued == Spec => []SavedIsQueued
<1>1. StoreInv => SavedIsQueued
  BY DEF StoreInv
<1> QED
  BY <1>1, StoreIsInvariant, PTL

\* The read model never runs ahead of the saved document, wherever a command
\* is cut off.
THEOREM ReadModelIsBehind == Spec => []ItemsBehindDocument
<1>1. StoreInv => ItemsBehindDocument
  BY DEF StoreInv
<1> QED
  BY <1>1, StoreIsInvariant, PTL

\* No save overwrites the document of a list that stays with one that holds
\* less: the cached copy was opened from it in this process.
THEOREM SavingKeepsAll == Spec => SavedNeverShrinks
<1>1. StoreInv /\ [Next]_vars => [listed /\ listed' => saved \subseteq saved']_vars
  <2> SUFFICES ASSUME StoreInv, Next, listed, listed'
               PROVE  saved \subseteq saved'
    OBVIOUS
  <2> USE DEF StoreInv, BornFirst, tableVars
  <2>1. CASE CreateList \/ CreateListCut
    BY <2>1 DEF CreateList, CreateListCut
  <2>2. CASE Save
    BY <2>2 DEF Save, Upcoming, SavedBehindDoc, Doc, TypeOK
  <2>3. CASE DeleteList
    BY <2>3 DEF DeleteList
  <2>4. CASE Edit \/ Enqueue \/ Project \/ Ingest \/ Rotate \/ Restart
    BY <2>4 DEF Edit, Enqueue, Project, Ingest, Rotate, Restart, Exit
  <2>5. CASE (\E r \in Remote : MergeRemote(r)) \/ (\E n \in Own : Upload(n))
    BY <2>5 DEF MergeRemote, Upload
  <2> QED
    BY <2>1, <2>2, <2>3, <2>4, <2>5 DEF Next
<1> QED
  BY <1>1, StoreIsInvariant, PTL DEF Spec, SavedNeverShrinks
=============================================================================
