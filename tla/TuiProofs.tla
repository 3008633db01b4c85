------------------------------- MODULE TuiProofs -------------------------------
(***************************************************************************)
(* Theorems about the two modules of the user interface that keep no       *)
(* store.  Of Shell, for any number of inputs and any length of the action *)
(* channel: its types, and that no reply of the store worker is stashed    *)
(* without being announced.  Of Forms, for any calendar and any length of  *)
(* a text: its types, that one field captures keystrokes at a time, and    *)
(* that only editing changes what was typed.                               *)
(***************************************************************************)
EXTENDS Shell, Forms, SequenceTheorems, FiniteSetTheorems, WellFoundedInduction, TLAPS

-----------------------------------------------------------------------------
(* SHELL                                                                   *)

\* Only an account that is on disk is loaded.
LoadedIsOnDisk == account => onDisk

TypeInv == TypeOK /\ LoadedIsOnDisk

-----------------------------------------------------------------------------
(* What a step does to the queue and to the stash                          *)

\* Events and tasks append to the queue, a turn takes what is there, the
\* dispatch of its first action takes that and appends what it sends.
Quiet == UNCHANGED <<queue, left, turn, pending>>

Queued == /\ \E a \in Actions : queue' = Append(queue, a)
          /\ UNCHANGED <<left, turn, pending>>

Stashed == /\ turn = "events" /\ UNCHANGED <<left, turn>>
           /\ \E x \in {"edit", "members"} :
                 /\ queue' = Append(queue, ReadyFor(x))
                 /\ pending' = pending \cup {x}

Dispatched ==
    /\ left # 0 /\ left' = left - 1 /\ UNCHANGED turn
    /\ \E s \in Seq(Actions) : queue' = Tail(queue) \o s
    /\ \/ UNCHANGED pending /\ \A x \in {"edit", "members"} : Head(queue) # ReadyFor(x)
       \/ \E x \in {"edit", "members"} : Head(queue) = ReadyFor(x) /\ pending' = pending \ {x}

LEMMA Sequels ==
  /\ <<>> \in Seq(Actions) /\ \A a \in Actions : <<a>> \in Seq(Actions)
  /\ \A x \in {"edit", "members"} : ReadyFor(x) \in {"OpenEditReady", "OpenMembersReady"}
  /\ ReadyFor("edit") # ReadyFor("members")
  /\ \A x \in {"edit", "members"} : ReadyFor(x) \in Actions
BY DEF ReadyFor, Actions

\* An action of the loop that is not an announcement leaves the stash.
LEMMA PlainDispatch ==
  ASSUME NEW a, a \notin {"OpenEditReady", "OpenMembersReady"}, Dispatching(a),
         NEW s \in Seq(Actions), Done(s), UNCHANGED pending
  PROVE  Dispatched
<1>1. \A x \in {"edit", "members"} : Head(queue) # ReadyFor(x)
  BY Sequels DEF Dispatching
<1> QED
  BY <1>1 DEF Dispatching, Done, Dispatched

LEMMA Shown ==
  ASSUME NEW m, Show(m)
  PROVE  \E s \in Seq(Actions) : Done(s)
BY Sequels DEF Show, Actions

LEMMA DispatchKinds == Dispatch => Dispatched
<1> SUFFICES ASSUME Dispatch PROVE Dispatched
  OBVIOUS
<1> USE Sequels
<1>1. ASSUME NEW a \in {"Quit", "Suspend", "Resume"}, Flag(a) PROVE Dispatched
  BY <1>1, PlainDispatch DEF Flag, uiVars
<1>2. ASSUME NEW a \in {"StartCapture", "StopCapture"}, Capture(a) PROVE Dispatched
  BY <1>2, PlainDispatch DEF Capture
<1>3. CASE SetMode
  BY <1>3, PlainDispatch DEF SetMode
<1>4. CASE NewKeys
  BY <1>4, PlainDispatch DEF NewKeys, uiVars
<1>5. CASE ShowChooser
  BY <1>5, Shown, PlainDispatch DEF ShowChooser
<1>6. CASE ShowUnlock
  BY <1>6, Shown, PlainDispatch DEF ShowUnlock
<1>7. CASE ShowCredentials
  BY <1>7, Shown, PlainDispatch DEF ShowCredentials
<1>8. CASE ShowOverlay
  BY <1>8, Shown, PlainDispatch DEF ShowOverlay
<1>9. CASE CloseModal
  BY <1>9, PlainDispatch DEF CloseModal
<1>10. CASE Spawn
  <2>1. PICK a \in {"Login", "Register", "ShareList", "DeviceUnlock"} : Dispatching(a)
    BY <1>10 DEF Spawn
  <2> QED
    BY <1>10, <2>1, PlainDispatch DEF Spawn, uiVars
<1>11. CASE Submit
  <2>1. PICK s \in Seq(Actions) : Done(s)
    BY <1>11 DEF Submit, Actions
  <2> QED
    BY <1>11, <2>1, PlainDispatch DEF Submit, uiVars
<1>12. CASE Store
  BY <1>12, PlainDispatch DEF Store, uiVars, Actions
<1>13. CASE Fetch
  BY <1>13, PlainDispatch DEF Fetch, uiVars
<1>14. CASE OpenReady
  <2>1. PICK x \in {"edit", "members"} :
           /\ Dispatching(ReadyFor(x)) /\ pending' = pending \ {x}
           /\ \E s \in Seq(Actions) : Done(s)
    BY <1>14, Shown DEF OpenReady
  <2> QED
    BY <2>1 DEF Dispatching, Done, Dispatched
<1> QED
  BY <1>1, <1>2, <1>3, <1>4, <1>5, <1>6, <1>7, <1>8, <1>9, <1>10, <1>11, <1>12, <1>13, <1>14
     DEF Dispatch

LEMMA StepKinds ==
  ASSUME TypeInv, [Next]_vars
  PROVE  Quiet \/ Queued \/ Stashed \/ Dispatched \/ Drain \/ EndTurn
<1>1. CASE Tick
  <2>1. UNCHANGED queue \/ \E a \in Actions : queue' = Append(queue, a)
    BY <1>1 DEF Tick, Gate, Send, Actions
  <2> QED
    BY <1>1, <2>1 DEF Tick, uiVars, Quiet, Queued
<1>2. CASE UserNext
  <2>1. PICK a \in Actions : Input(a)
    BY <1>2 DEF UserNext, Chord, BareKey, WorkspaceKey, ModalKey, EscAction, ButtonActions,
                Actions
  <2> QED
    BY <2>1 DEF Input, Send, uiVars, Queued
<1>3. CASE TaskNext
  <2>1. CASE TaskSends
    <3>1. Head(sending) \in Actions
      BY <2>1, HeadTailProperties DEF TaskSends, TypeInv, TypeOK
    <3> QED
      BY <2>1, <3>1 DEF TaskSends, Send, uiVars, Queued
  <2>2. ASSUME NEW k, NEW results, End(k, results) PROVE Quiet
    BY <2>2 DEF End, uiVars, loopVars, Quiet
  <2> QED
    BY <1>3, <2>1, <2>2 DEF TaskNext, LoginSucceeds, RegisterSucceeds, DeviceUnlockEnds,
                            ShareResolves, TaskFails
<1>4. ASSUME NEW x \in {"edit", "members"}, WorkerReply(x) PROVE Stashed
  BY <1>4 DEF WorkerReply, Listening, Send, Stashed
<1>5. CASE UNCHANGED vars
  BY <1>5 DEF vars, uiVars, loopVars, Quiet
<1> QED
  BY <1>1, <1>2, <1>3, <1>4, <1>5, DispatchKinds DEF Next, Loop

-----------------------------------------------------------------------------
(* Types                                                                   *)

AuthTyped ==
    /\ enabled \in BOOLEAN /\ onDisk \in BOOLEAN /\ account \in BOOLEAN
    /\ checked \in BOOLEAN /\ attempted \in BOOLEAN
    /\ keys \in BOOLEAN /\ verified \in BOOLEAN
    /\ verified => keys /\ account /\ onDisk
    /\ account => onDisk

LEMMA AuthStep == ASSUME AuthTyped, [Next]_vars PROVE AuthTyped'
<1>1. CASE Tick
  <2>1. UNCHANGED <<enabled, onDisk, keys>> /\ ~verified
    BY <1>1 DEF Tick
  <2>2. Gate
    BY <1>1 DEF Tick
  <2>3. account' = (account \/ (~checked /\ onDisk)) /\ checked' = (checked \/ ~account)
    BY <2>2, Zenon DEF Gate
  <2>4. account' \in BOOLEAN /\ checked' \in BOOLEAN /\ (account' => onDisk)
    BY <2>3, Zenon DEF AuthTyped
  <2>5. /\ attempted' = attempted \/ attempted' = TRUE
        /\ \/ verified' = verified
           \/ /\ verified' = TRUE /\ keys
              /\ account \/ (~checked /\ onDisk)
    BY <2>2, Zenon DEF Gate
  <2>6. \/ verified' = verified
        \/ verified' = TRUE /\ keys /\ account' /\ onDisk
    BY <2>3, <2>5, Zenon DEF AuthTyped
  <2> QED
    BY <2>1, <2>4, <2>5, <2>6 DEF AuthTyped
<1>2. CASE onDisk' \in {TRUE, onDisk}
           /\ UNCHANGED <<enabled, account, checked, attempted, keys, verified>>
  BY <1>2 DEF AuthTyped
<1>3. CASE NewKeys
  <2>1. keys' = TRUE /\ checked' = (checked /\ account)
        /\ UNCHANGED <<enabled, onDisk, account, attempted, verified>>
    BY <1>3 DEF NewKeys
  <2>2. checked' \in BOOLEAN
    BY <2>1, Zenon
  <2> QED
    BY <2>1, <2>2 DEF AuthTyped
<1>4. CASE UNCHANGED authVars
  BY <1>4 DEF authVars, AuthTyped
<1>5. CASE TaskNext
  <2>1. ASSUME NEW k, NEW results, End(k, results)
        PROVE  UNCHANGED <<enabled, account, checked, attempted, keys, verified>>
    BY <2>1 DEF End
  <2> QED
    BY <1>2, <1>4, <1>5, <2>1 DEF TaskNext, LoginSucceeds, RegisterSucceeds,
                                  DeviceUnlockEnds, ShareResolves, TaskFails, TaskSends
<1>6. CASE UserNext \/ \E x \in {"edit", "members"} : WorkerReply(x)
  BY <1>4, <1>6 DEF UserNext, Chord, BareKey, WorkspaceKey, ModalKey, Input, WorkerReply
<1>7. CASE Drain \/ EndTurn
  BY <1>4, <1>7 DEF Drain, EndTurn
<1>8. ASSUME NEW m, Show(m) PROVE UNCHANGED authVars
  BY <1>8 DEF Show
<1>9. CASE Dispatch /\ ~NewKeys
  <2>1. UNCHANGED authVars
    BY <1>8, <1>9 DEF Dispatch, Flag, Capture, SetMode, ShowChooser, ShowUnlock,
                      ShowCredentials, ShowOverlay, CloseModal, Spawn, Submit, Store, Fetch,
                      OpenReady
  <2> QED
    BY <1>4, <2>1
<1> QED
  BY <1>1, <1>3, <1>4, <1>5, <1>6, <1>7, <1>9 DEF Next, Loop, vars

UiTyped ==
    /\ modal \in Modals /\ capturing \in BOOLEAN
    /\ mode \in Modes /\ prev \in Modes
    /\ pending \subseteq {"edit", "members"}

LEMMA UiStep == ASSUME UiTyped, [Next]_vars PROVE UiTyped'
<1>1. CASE UNCHANGED uiVars
  BY <1>1 DEF uiVars, UiTyped
<1>2. ASSUME NEW m \in Modals, Show(m) PROVE modal' \in Modals
  BY <1>2 DEF Show
<1>3. "Home" \in Modes /\ "Login" \in Modes /\ "Register" \in Modes /\ "none" \in Modals
  BY DEF Modes, Modals
<1>4. CASE (\E a \in {"StartCapture", "StopCapture"} : Capture(a)) \/ SetMode \/ CloseModal
  BY <1>3, <1>4 DEF Capture, SetMode, CloseModal, SwitchMode, UiTyped
<1>5. CASE ShowChooser \/ ShowUnlock \/ ShowCredentials \/ ShowOverlay
  BY <1>3, <1>5 DEF ShowChooser, ShowUnlock, ShowCredentials, ShowOverlay, Show, SwitchMode,
                    UiTyped, Modals
<1>6. CASE OpenReady
  <2>1. modal' \in Modals
    BY <1>6 DEF OpenReady, Show, UiTyped, Modals
  <2>2. pending' \subseteq pending /\ UNCHANGED <<capturing, mode, prev>>
    BY <1>6 DEF OpenReady
  <2> QED
    BY <2>1, <2>2 DEF UiTyped
<1>7. CASE \E x \in {"edit", "members"} : WorkerReply(x)
  BY <1>7 DEF WorkerReply, UiTyped
<1>8. CASE Tick \/ UserNext \/ Drain \/ EndTurn \/ UNCHANGED vars
  BY <1>1, <1>8 DEF Tick, UserNext, Chord, BareKey, WorkspaceKey, ModalKey, Input, Drain,
                    EndTurn, vars
<1>9. CASE TaskNext
  <2>1. ASSUME NEW k, NEW results, End(k, results) PROVE UNCHANGED uiVars
    BY <2>1 DEF End
  <2> QED
    BY <1>1, <1>9, <2>1 DEF TaskNext, LoginSucceeds, RegisterSucceeds, DeviceUnlockEnds,
                            ShareResolves, TaskFails, TaskSends
<1>10. CASE (\E a \in {"Quit", "Suspend", "Resume"} : Flag(a)) \/ NewKeys \/ Spawn \/ Submit
            \/ Store \/ Fetch
  BY <1>1, <1>10 DEF Flag, NewKeys, Spawn, Submit, Store, Fetch
<1> QED
  BY <1>4, <1>5, <1>6, <1>7, <1>8, <1>9, <1>10 DEF Next, Loop, Dispatch

BgTyped ==
    /\ tasks \in [Kinds -> Nat]
    /\ sending \in Seq(Actions)
    /\ fetching \in [{"edit", "members"} -> Nat]
    /\ inputs \in 0..MaxInputs

LEMMA BgStep == ASSUME BgTyped, [Next]_vars PROVE BgTyped'
<1> USE DEF BgTyped
<1>1. CASE UNCHANGED <<bgVars, inputs>>
  BY <1>1 DEF bgVars
<1>2. CASE UserNext
  <2>1. inputs < MaxInputs /\ inputs' = inputs + 1 /\ UNCHANGED bgVars
    BY <1>2 DEF UserNext, Chord, BareKey, WorkspaceKey, ModalKey, Input
  <2> QED
    BY <2>1, ShellAssumption DEF bgVars
<1>3. CASE TaskNext
  <2>1. ASSUME NEW k \in Kinds, NEW results \in Seq(Actions), End(k, results) PROVE BgTyped'
    <3>1. tasks[k] \in Nat \ {0} /\ tasks' = [tasks EXCEPT ![k] = @ - 1]
      BY <2>1 DEF End
    <3>2. sending' = results /\ UNCHANGED <<fetching, inputs>>
      BY <2>1 DEF End
    <3> QED
      BY <3>1, <3>2
  <2>2. /\ {"login", "register", "device", "share"} \subseteq Kinds
        /\ LoginResults \in Seq(Actions) /\ <<"StopCapture", "Login">> \in Seq(Actions)
        /\ <<"Keys", "SetMode">> \in Seq(Actions) /\ <<"UnlockModal">> \in Seq(Actions)
        /\ <<"AddResolvedMember">> \in Seq(Actions) /\ <<>> \in Seq(Actions)
    BY DEF Kinds, LoginResults, Actions
  <2>3. CASE TaskSends
    <3>1. Tail(sending) \in Seq(Actions)
      BY <2>3, HeadTailProperties DEF TaskSends
    <3> QED
      BY <2>3, <3>1 DEF TaskSends
  <2> QED
    BY <1>3, <2>1, <2>2, <2>3 DEF TaskNext, LoginSucceeds, RegisterSucceeds, DeviceUnlockEnds,
                                  ShareResolves, TaskFails
<1>4. ASSUME NEW x \in {"edit", "members"}, WorkerReply(x) PROVE BgTyped'
  <2>1. fetching[x] \in Nat \ {0} /\ fetching' = [fetching EXCEPT ![x] = @ - 1]
    BY <1>4 DEF WorkerReply
  <2> QED
    BY <1>4, <2>1 DEF WorkerReply
<1>5. CASE Spawn
  BY <1>5 DEF Spawn
<1>6. CASE Fetch
  BY <1>6 DEF Fetch
<1>7. CASE EndTurn
  <2>1. tasks' = tasks \/ tasks' = [k \in Kinds |-> 0]
    BY <1>7 DEF EndTurn
  <2>2. fetching' = fetching \/ fetching' = [x \in {"edit", "members"} |-> 0]
    BY <1>7 DEF EndTurn
  <2>3. sending' = sending \/ sending' = <<>>
    BY <1>7 DEF EndTurn
  <2>4. sending' \in Seq(Actions)
    BY <2>3, EmptySeq
  <2> QED
    BY <1>7, <2>1, <2>2, <2>4 DEF EndTurn
<1>8. CASE Tick \/ Drain \/ UNCHANGED vars
  BY <1>1, <1>8 DEF Tick, Drain, vars
<1>9. ASSUME NEW m, Show(m) PROVE UNCHANGED <<bgVars, inputs>>
  BY <1>9 DEF Show
<1>10. CASE Dispatch /\ ~Spawn /\ ~Fetch
  <2>1. UNCHANGED <<bgVars, inputs>>
    BY <1>9, <1>10 DEF Dispatch, Flag, Capture, SetMode, NewKeys, ShowChooser, ShowUnlock,
                       ShowCredentials, ShowOverlay, CloseModal, Submit, Store, OpenReady
  <2> QED
    BY <1>1, <2>1
<1> QED
  BY <1>2, <1>3, <1>4, <1>5, <1>6, <1>7, <1>8, <1>10 DEF Next, Loop

QueueTyped ==
    /\ queue \in Seq(Actions) /\ left \in 0..Len(queue)
    /\ turn \in {"events", "actions", "ended"}
    /\ left # 0 => turn = "actions"

LEMMA QueueStep == ASSUME TypeInv, [Next]_vars PROVE QueueTyped'
<1> USE DEF QueueTyped
<1>t. QueueTyped
  BY DEF TypeInv, TypeOK
<1>1. CASE Quiet
  BY <1>t, <1>1 DEF Quiet
<1>2. CASE Queued
  BY <1>t, <1>2 DEF Queued
<1>3. CASE Stashed
  BY <1>t, <1>3, Sequels DEF Stashed
<1>4. CASE Dispatched
  <2>1. PICK s \in Seq(Actions) : queue' = Tail(queue) \o s
    BY <1>4 DEF Dispatched
  <2>2. queue # <<>>
    BY <1>t, <1>4 DEF Dispatched
  <2>3. Tail(queue) \in Seq(Actions) /\ Len(Tail(queue)) = Len(queue) - 1
    BY <1>t, <2>2, HeadTailProperties
  <2>4. queue' \in Seq(Actions) /\ Len(queue') = Len(queue) - 1 + Len(s) /\ Len(s) \in Nat
    BY <2>1, <2>3, ConcatProperties
  <2> QED
    BY <1>t, <1>4, <2>4 DEF Dispatched
<1>5. CASE Drain
  <2>1. Len(queue) \in Nat
    BY <1>t
  <2> QED
    BY <1>t, <1>5, <2>1 DEF Drain
<1>6. CASE EndTurn
  <2>1. queue' = queue \/ queue' = <<>> \/ queue' = Append(queue, "Resume")
    BY <1>6 DEF EndTurn, Send
  <2>a. "Resume" \in Actions
    BY DEF Actions
  <2>b. <<>> \in Seq(Actions) /\ Append(queue, "Resume") \in Seq(Actions)
    BY <1>t, <2>a, EmptySeq, AppendProperties
  <2>2. queue' \in Seq(Actions)
    BY <1>t, <2>b, <2>1
  <2>3. Len(queue') \in Nat
    BY <2>2
  <2>4. left' = 0 /\ turn' \in {"events", "ended"}
    BY <1>6 DEF EndTurn
  <2> QED
    BY <2>2, <2>3, <2>4
<1> QED
  BY <1>1, <1>2, <1>3, <1>4, <1>5, <1>6, StepKinds

LEMMA FlagStep ==
  ASSUME suspend \in BOOLEAN, quit \in BOOLEAN, [Next]_vars
  PROVE  suspend' \in BOOLEAN /\ quit' \in BOOLEAN
<1>1. CASE UNCHANGED <<suspend, quit>>
  BY <1>1
<1>2. ASSUME NEW a, Flag(a) PROVE suspend' \in BOOLEAN /\ quit' \in BOOLEAN
  <2>1. quit' = (quit \/ a = "Quit") /\ suspend' = (a = "Suspend" \/ (suspend /\ a # "Resume"))
    BY <1>2 DEF Flag
  <2> QED
    BY <2>1, Zenon
<1>3. ASSUME NEW m, Show(m) PROVE UNCHANGED <<suspend, quit>>
  BY <1>3 DEF Show
<1>4. CASE TaskNext
  <2>1. ASSUME NEW k, NEW results, End(k, results) PROVE UNCHANGED <<suspend, quit>>
    BY <2>1 DEF End, loopVars
  <2> QED
    BY <1>1, <1>4, <2>1 DEF TaskNext, LoginSucceeds, RegisterSucceeds, DeviceUnlockEnds,
                            ShareResolves, TaskFails, TaskSends
<1>5. CASE Dispatch /\ ~\E a \in {"Quit", "Suspend", "Resume"} : Flag(a)
  <2>1. UNCHANGED <<suspend, quit>>
    BY <1>3, <1>5 DEF Dispatch, Capture, SetMode, NewKeys, ShowChooser, ShowUnlock,
                      ShowCredentials, ShowOverlay, CloseModal, Spawn, Submit, Store, Fetch,
                      OpenReady
  <2> QED
    BY <1>1, <2>1
<1>6. CASE \/ Tick \/ UserNext \/ Drain \/ EndTurn \/ UNCHANGED vars
           \/ \E x \in {"edit", "members"} : WorkerReply(x)
  BY <1>1, <1>6 DEF Tick, UserNext, Chord, BareKey, WorkspaceKey, ModalKey, Input, Drain,
                    EndTurn, WorkerReply, vars, loopVars
<1> QED
  BY <1>2, <1>4, <1>5, <1>6 DEF Next, Loop

LEMMA TypeInit == Init => TypeInv
<1> SUFFICES ASSUME Init PROVE TypeInv
  OBVIOUS
<1>1. queue = <<>> /\ sending = <<>> /\ left = 0 /\ <<>> \in Seq(Actions) /\ Len(<<>>) = 0
  BY EmptySeq DEF Init
<1>2. 0 \in 0..MaxInputs
  BY ShellAssumption
<1>3. tasks \in [Kinds -> Nat] /\ fetching \in [{"edit", "members"} -> Nat]
  BY DEF Init
<1>4. AuthTyped
  BY DEF Init, AuthTyped
<1>5. UiTyped /\ QueueTyped /\ suspend \in BOOLEAN /\ quit \in BOOLEAN
  <2>1. UiTyped /\ suspend \in BOOLEAN /\ quit \in BOOLEAN
    BY DEF Init, UiTyped, Modals, Modes
  <2>2. Len(queue) = 0 /\ queue \in Seq(Actions)
    BY <1>1
  <2>3. QueueTyped
    BY <1>1, <2>2 DEF Init, QueueTyped
  <2> QED
    BY <2>1, <2>3
<1>6. BgTyped
  BY <1>1, <1>2, <1>3 DEF Init, BgTyped
<1> QED
  BY <1>4, <1>5, <1>6, Zenon DEF TypeInv, TypeOK, LoadedIsOnDisk, AuthTyped, UiTyped, BgTyped,
                                 QueueTyped

LEMMA TypeStep == TypeInv /\ [Next]_vars => TypeInv'
<1> SUFFICES ASSUME TypeInv, [Next]_vars PROVE TypeInv'
  OBVIOUS
<1>1. AuthTyped' /\ UiTyped' /\ BgTyped'
  BY AuthStep, UiStep, BgStep DEF TypeInv, TypeOK, LoadedIsOnDisk, AuthTyped, UiTyped, BgTyped
<1>2. QueueTyped' /\ suspend' \in BOOLEAN /\ quit' \in BOOLEAN
  BY QueueStep, FlagStep DEF TypeInv, TypeOK
<1> QED
  BY <1>1, <1>2 DEF TypeInv, TypeOK, LoadedIsOnDisk, AuthTyped, UiTyped, BgTyped, QueueTyped

\* TypeOK: however ticks, keys, task results and replies interleave, the
\* workspace is only unlocked with keys and with an account that is loaded and
\* on disk, and a turn dispatches no more than is queued (app.rs
\* check_account, handle_actions).
THEOREM ShellTypeCorrect == Spec => []TypeOK
<1>1. TypeInv => TypeOK
  BY DEF TypeInv
<1> QED
  BY <1>1, TypeInit, TypeStep, PTL DEF Spec

-----------------------------------------------------------------------------
(* The stash                                                               *)

\* The announcement of what is stashed is among the actions this turn still
\* dispatches: so none is left when the turn, or the application, ends.
AnnouncedInTurn ==
    \A x \in pending :
        \E n \in 1..(IF turn = "actions" THEN left ELSE Len(queue)) : queue[n] = ReadyFor(x)

LEMMA AnnouncedStep ==
  ASSUME TypeInv, AnnouncedInTurn, [Next]_vars
  PROVE  AnnouncedInTurn'
<1> DEFINE ahead == IF turn = "actions" THEN left ELSE Len(queue)
<1>t. /\ queue \in Seq(Actions) /\ left \in 0..Len(queue)
      /\ left # 0 => turn = "actions"
      /\ pending \subseteq {"edit", "members"} /\ Len(queue) \in Nat
  BY DEF TypeInv, TypeOK
<1>q. \A x \in pending : \E n \in 1..ahead : queue[n] = ReadyFor(x)
  BY DEF AnnouncedInTurn
<1>1. CASE Quiet
  BY <1>q, <1>1 DEF Quiet, AnnouncedInTurn
<1>a. ASSUME NEW a \in Actions, queue' = Append(queue, a), UNCHANGED <<left, turn>>
      PROVE  \A x \in pending :
                \E n \in 1..(IF turn' = "actions" THEN left' ELSE Len(queue')) :
                   queue'[n] = ReadyFor(x)
  <2>1. Len(queue') = Len(queue) + 1 /\ \A n \in 1..Len(queue) : queue'[n] = queue[n]
    BY <1>t, <1>a
  <2>2. 1..ahead \subseteq 1..(IF turn' = "actions" THEN left' ELSE Len(queue'))
    BY <1>t, <1>a, <2>1
  <2>3. 1..ahead \subseteq 1..Len(queue)
    BY <1>t
  <2> QED
    BY <1>q, <2>1, <2>2, <2>3
<1>2. CASE Queued
  BY <1>a, <1>2 DEF Queued, AnnouncedInTurn
<1>3. CASE Stashed
  <2>1. PICK x \in {"edit", "members"} :
           queue' = Append(queue, ReadyFor(x)) /\ pending' = pending \cup {x}
    BY <1>3 DEF Stashed
  <2>2. turn' # "actions" /\ UNCHANGED <<left, turn>> /\ ReadyFor(x) \in Actions
    BY <1>3, Sequels DEF Stashed
  <2>3. \A y \in pending : \E n \in 1..Len(queue') : queue'[n] = ReadyFor(y)
    BY <1>a, <2>1, <2>2
  <2>4. Len(queue) + 1 \in 1..Len(queue') /\ queue'[Len(queue) + 1] = ReadyFor(x)
    BY <1>t, <2>1, <2>2, AppendProperties
  <2> QED
    BY <2>1, <2>2, <2>3, <2>4 DEF AnnouncedInTurn
<1>4. CASE Dispatched
  <2>1. PICK s \in Seq(Actions) : queue' = Tail(queue) \o s
    BY <1>4 DEF Dispatched
  <2>2. queue # <<>> /\ turn = "actions" /\ left \in 1..Len(queue) /\ turn' = turn
        /\ left' = left - 1
    BY <1>t, <1>4 DEF Dispatched
  <2>3. /\ Tail(queue) \in Seq(Actions) /\ Len(Tail(queue)) = Len(queue) - 1
        /\ \A n \in 1..Len(Tail(queue)) : Tail(queue)[n] = queue[n + 1]
        /\ Head(queue) = queue[1]
    BY <1>t, <2>2, HeadTailProperties
  <2>4. \A n \in 1..(left - 1) : queue'[n] = queue[n + 1]
    <3>1. Len(s) \in Nat /\ \A n \in 1..(Len(queue) - 1) + Len(s) :
             queue'[n] = IF n <= Len(queue) - 1 THEN Tail(queue)[n]
                         ELSE s[n - (Len(queue) - 1)]
      BY <2>1, <2>3, ConcatProperties
    <3>2. ASSUME NEW n \in 1..(left - 1) PROVE queue'[n] = queue[n + 1]
      <4>1. n \in 1..(Len(queue) - 1) + Len(s) /\ n <= Len(queue) - 1
            /\ n \in 1..Len(Tail(queue))
        BY <1>t, <2>2, <2>3, <3>1
      <4> QED
        BY <2>3, <3>1, <4>1
    <3> QED
      BY <3>2
  <2>5. ASSUME NEW x \in pending' PROVE \E n \in 1..left' : queue'[n] = ReadyFor(x)
    <3>1. x \in pending /\ Head(queue) # ReadyFor(x)
      BY <1>t, <1>4, <2>5, Sequels DEF Dispatched
    <3>2. PICK n \in 1..left : queue[n] = ReadyFor(x)
      BY <1>q, <2>2, <3>1
    <3>3. n # 1
      BY <2>3, <3>1, <3>2
    <3>4. n - 1 \in 1..(left - 1) /\ queue[n - 1 + 1] = queue[n]
      BY <2>2, <3>3
    <3> QED
      BY <2>2, <2>4, <3>2, <3>4
  <2> QED
    BY <2>2, <2>5 DEF AnnouncedInTurn
<1>5. CASE Drain
  BY <1>q, <1>5 DEF Drain, uiVars, AnnouncedInTurn
<1>6. CASE EndTurn
  <2>1. pending' = {}
    BY <1>q, <1>6 DEF EndTurn, uiVars
  <2> QED
    BY <2>1 DEF AnnouncedInTurn
<1> QED
  BY <1>1, <1>2, <1>3, <1>4, <1>5, <1>6, StepKinds

\* PendingIsAnnounced: whatever modals come and go, however replies, keys and
\* turns interleave, a reply that is stashed has its announcement in the queue,
\* and none is stashed once the application has ended (app.rs
\* handle_worker_msg and handle_actions).
THEOREM StashIsAnnounced == Spec => []PendingIsAnnounced
<1>1. Init => AnnouncedInTurn
  BY DEF Init, AnnouncedInTurn
<1>2. TypeInv /\ AnnouncedInTurn => PendingIsAnnounced
  <2> SUFFICES ASSUME TypeInv, AnnouncedInTurn PROVE PendingIsAnnounced
    OBVIOUS
  <2>1. 1..left \subseteq 1..Len(queue)
    BY DEF TypeInv, TypeOK
  <2> QED
    BY <2>1 DEF AnnouncedInTurn, PendingIsAnnounced
<1>3. TypeInv /\ AnnouncedInTurn /\ [Next]_vars => AnnouncedInTurn'
  BY AnnouncedStep
<1> QED
  BY <1>1, <1>2, <1>3, TypeInit, TypeStep, PTL DEF Spec

-----------------------------------------------------------------------------
(* FORMS                                                                   *)

-----------------------------------------------------------------------------
(* The texts of a form                                                      *)

LEMMA Extremes ==
  \A a, b \in Int : /\ Max({a, b}) = (IF a >= b THEN a ELSE b)
                    /\ Min({a, b}) = (IF a <= b THEN a ELSE b)
<1> SUFFICES ASSUME NEW a \in Int, NEW b \in Int
             PROVE  /\ Max({a, b}) = (IF a >= b THEN a ELSE b)
                    /\ Min({a, b}) = (IF a <= b THEN a ELSE b)
  OBVIOUS
<1>1. Max({a, b}) = (IF a >= b THEN a ELSE b)
  BY SMT DEF Max
<1>2. Min({a, b}) = (IF a <= b THEN a ELSE b)
  BY SMT DEF Min
<1> QED
  BY <1>1, <1>2

\* Whatever edits a text leaves the cursor and the selection in it, and leaves
\* the field capturing or not.
Edited(r, s) == s \in Texts /\ s.cap = r.cap

LEMMA EditedTrans ==
  \A r, s, t : Edited(r, s) /\ Edited(s, t) => Edited(r, t)
BY DEF Edited

Text(cap, vim, len, cur, sel) ==
  [cap |-> cap, vim |-> vim, len |-> len, cur |-> cur, sel |-> sel]

LEMMA TextParts ==
  ASSUME NEW r \in Texts
  PROVE  /\ r.len \in 0..MaxLen /\ r.cur \in 0..r.len /\ r.sel \in NoSel..r.len
         /\ r.len \in Int /\ r.cur \in Int /\ r.sel \in Int /\ NoSel \in Int
         /\ r.cap \in BOOLEAN /\ r.vim \in VimModes
         /\ r = Text(r.cap, r.vim, r.len, r.cur, r.sel)
BY FormsAssumption DEF Texts, Field, NoSel, Text

LEMMA TextMade ==
  ASSUME NEW r \in Texts, NEW v \in VimModes,
         NEW l \in 0..MaxLen, NEW c \in 0..l, NEW s \in NoSel..l
  PROVE  Edited(r, Text(r.cap, v, l, c, s))
<1>1. c \in 0..MaxLen /\ s \in NoSel..MaxLen /\ c <= l /\ s <= l
  BY FormsAssumption DEF NoSel
<1>2. Text(r.cap, v, l, c, s) \in Field
  BY <1>1, TextParts DEF Field, Text
<1> QED
  BY <1>1, <1>2 DEF Edited, Texts, Text

LEMMA ToEdited ==
  ASSUME NEW r \in Texts, NEW v \in VimModes
  PROVE  Edited(r, To(r, v))
<1>1. To(r, v) = Text(r.cap, v, r.len, r.cur, r.sel)
  BY TextParts DEF To, Text
<1> QED
  BY <1>1, TextMade, TextParts

LEMMA UnselectEdited ==
  ASSUME NEW r \in Texts
  PROVE  Edited(r, Unselect(r)) /\ Unselect(r) = Text(r.cap, r.vim, r.len, r.cur, NoSel)
<1>1. Unselect(r) = Text(r.cap, r.vim, r.len, r.cur, NoSel)
  BY TextParts DEF Unselect, Text
<1>2. NoSel \in NoSel..r.len
  BY TextParts DEF NoSel
<1> QED
  BY <1>1, <1>2, TextMade, TextParts

LEMMA MotionsEdited ==
  ASSUME NEW r \in Texts, NEW p \in 0..r.len
  PROVE  Edited(r, MoveTo(r, p))
<1>1. MoveTo(r, p) = Text(r.cap, r.vim, r.len, p, r.sel)
  BY TextParts DEF MoveTo, Text
<1> QED
  BY <1>1, TextMade, TextParts

LEMMA SelectEdited ==
  ASSUME NEW r \in Texts, NEW p \in 0..r.len
  PROVE  Edited(r, [r EXCEPT !.sel = p]) /\ [r EXCEPT !.sel = p].len = r.len
<1>1. [r EXCEPT !.sel = p] = Text(r.cap, r.vim, r.len, r.cur, p)
  BY TextParts DEF Text
<1>2. p \in NoSel..r.len
  BY TextParts DEF NoSel
<1>3. Edited(r, Text(r.cap, r.vim, r.len, r.cur, p))
  BY <1>2, TextMade, TextParts
<1> QED
  BY <1>1, <1>3 DEF Text

LEMMA CutEdited ==
  ASSUME NEW r \in Texts
  PROVE  Edited(r, Cut(r)) /\ Cut(r).sel = NoSel
<1>1. CASE Selected(r)
  <2> DEFINE a == Min({r.sel, r.cur})
             b == Max({r.sel, r.cur})
             l == r.len - b + a
  <2>1. a \in 0..r.len /\ b \in a..r.len
    BY <1>1, TextParts, Extremes DEF Selected, NoSel
  <2>2. Cut(r) = [r EXCEPT !.len = l, !.cur = a, !.sel = NoSel]
    BY <1>1 DEF Cut
  <2> HIDE DEF a, b
  <2>3. Cut(r) = Text(r.cap, r.vim, l, a, NoSel)
    BY <2>2, TextParts DEF Text
  <2>4. l \in 0..MaxLen /\ a \in 0..l /\ NoSel \in NoSel..l
    BY <2>1, TextParts, FormsAssumption DEF NoSel
  <2> HIDE DEF l
  <2>5. Edited(r, Cut(r))
    BY <2>3, <2>4, TextMade, TextParts
  <2> QED
    BY <2>3, <2>5 DEF Text
<1>2. CASE ~Selected(r)
  <2>1. Cut(r) = Unselect(r) /\ Unselect(r).sel = NoSel
    BY <1>2, UnselectEdited DEF Cut, Unselect, Text
  <2> QED
    BY <2>1, UnselectEdited
<1> QED
  BY <1>1, <1>2

LEMMA InsertEdited ==
  ASSUME NEW r \in Texts
  PROVE  Edited(r, Insert(r))
<1> DEFINE s == Cut(r)
<1>1. Edited(r, s) /\ s.sel = NoSel
  BY CutEdited
<1>2. Insert(r) = IF s.len < MaxLen THEN [s EXCEPT !.len = s.len + 1, !.cur = s.cur + 1] ELSE s
  BY DEF Insert
<1> HIDE DEF s
<1>3. s \in Texts
  BY <1>1 DEF Edited
<1>4. CASE s.len < MaxLen
  <2>1. Insert(r) = Text(s.cap, s.vim, s.len + 1, s.cur + 1, NoSel)
    BY <1>1, <1>2, <1>3, <1>4, TextParts DEF Text
  <2>2. /\ s.len + 1 \in 0..MaxLen /\ s.cur + 1 \in 0..(s.len + 1)
        /\ NoSel \in NoSel..(s.len + 1)
    BY <1>3, <1>4, TextParts, FormsAssumption DEF NoSel
  <2>3. Edited(s, Insert(r))
    BY <1>3, <2>1, <2>2, TextMade, TextParts
  <2> QED
    BY <1>1, <2>3, EditedTrans
<1> QED
  BY <1>1, <1>2, <1>4

\* Deleting what is not selected shortens the text and drops the selection.
LEMMA ShortenEdited ==
  ASSUME NEW r \in Texts, NEW l \in 0..r.len, NEW c \in 0..l
  PROVE  Edited(r, [Unselect(r) EXCEPT !.len = l, !.cur = c])
<1> DEFINE u == Unselect(r)
           t == [u EXCEPT !.len = l, !.cur = c]
<1>1. /\ l \in 0..MaxLen /\ c \in 0..MaxLen /\ NoSel \in NoSel..l /\ NoSel <= l /\ c <= l
  BY TextParts, FormsAssumption DEF NoSel
<1>2. u \in Field /\ u.cap = r.cap /\ u.sel = NoSel
  BY UnselectEdited DEF Edited, Text, Texts
<1> HIDE DEF u
<1>3. t \in Field /\ t.cap = r.cap /\ t.len = l /\ t.cur = c /\ t.sel = NoSel
  BY <1>1, <1>2 DEF Field
<1> HIDE DEF t
<1>4. Edited(r, t)
  BY <1>1, <1>3 DEF Edited, Texts
<1> QED
  BY <1>4 DEF t, u

LEMMA DeletionsEdited ==
  ASSUME NEW r \in Texts
  PROVE  Edited(r, DeleteNext(r)) /\ Edited(r, DeletePrev(r)) /\ Edited(r, DeleteToEnd(r))
<1>1. CASE Selected(r)
  BY <1>1, CutEdited DEF DeleteNext, DeletePrev, DeleteToEnd
<1>2. CASE ~Selected(r)
  <2> DEFINE s == Unselect(r)
             n == IF r.cur < r.len THEN r.len - 1 ELSE r.len
             p == IF r.cur > 0 THEN r.len - 1 ELSE r.len
             c == IF r.cur > 0 THEN r.cur - 1 ELSE 0
  <2>1. s.cur = r.cur /\ s = Text(r.cap, r.vim, r.len, r.cur, NoSel)
    BY UnselectEdited DEF Text
  <2>2. DeleteNext(r) = [s EXCEPT !.len = n, !.cur = r.cur]
    BY <1>2, <2>1 DEF DeleteNext, Text
  <2>3. DeletePrev(r) = [s EXCEPT !.len = p, !.cur = c]
    BY <1>2 DEF DeletePrev
  <2>4. DeleteToEnd(r) = [s EXCEPT !.len = r.cur, !.cur = r.cur]
    BY <1>2, <2>1 DEF DeleteToEnd, Text
  <2>5. /\ n \in 0..r.len /\ r.cur \in 0..n
        /\ p \in 0..r.len /\ c \in 0..p
        /\ r.cur \in 0..r.len /\ r.cur \in 0..r.cur
    BY TextParts
  <2> HIDE DEF n, p, c
  <2>6. Edited(r, DeleteNext(r))
    <3>1. Edited(r, [s EXCEPT !.len = n, !.cur = r.cur])
      BY <2>5, ShortenEdited
    <3> QED
      BY <2>2, <3>1
  <2>7. Edited(r, DeletePrev(r))
    <3>1. Edited(r, [s EXCEPT !.len = p, !.cur = c])
      BY <2>5, ShortenEdited
    <3> QED
      BY <2>3, <3>1
  <2>8. Edited(r, DeleteToEnd(r))
    <3>1. Edited(r, [s EXCEPT !.len = r.cur, !.cur = r.cur])
      BY <2>5, ShortenEdited
    <3> QED
      BY <2>4, <3>1
  <2> QED
    BY <2>6, <2>7, <2>8
<1> QED
  BY <1>1, <1>2

-----------------------------------------------------------------------------
(* What a key makes of a field                                              *)

\* All that a motion may make of a text.
LEMMA AllMotionsEdited ==
  ASSUME NEW r \in Texts, NEW s \in Motions(r)
  PROVE  Edited(r, s)
BY MotionsEdited DEF Motions

LEMMA InsertKeyEdited ==
  ASSUME NEW r \in Texts, NEW s \in InsertKey(r)
  PROVE  Edited(r, s)
BY InsertEdited, DeletionsEdited DEF InsertKey

LEMMA FinishedEdited ==
  ASSUME NEW r \in Texts
  PROVE  Edited(r, Finished(r))
<1>1. Edited(Cut(r), To(Cut(r), "Normal")) /\ Edited(Cut(r), To(Cut(r), "Insert"))
  BY CutEdited, ToEdited DEF Edited, VimModes
<1>2. Edited(Unselect(r), To(Unselect(r), "Normal"))
  BY UnselectEdited, ToEdited DEF Edited, VimModes
<1> QED
  BY <1>1, <1>2, CutEdited, UnselectEdited, EditedTrans DEF Finished

LEMMA NormalKeyEdited ==
  ASSUME NEW r \in Texts, NEW s \in NormalKey(r)
  PROVE  Edited(r, s)
<1>1. ASSUME NEW t, Edited(r, t), NEW v \in VimModes PROVE Edited(r, To(t, v))
  BY <1>1, ToEdited, EditedTrans DEF Edited
<1>2. 0 \in 0..r.len /\ r.len \in 0..r.len /\ Min({r.cur + 1, r.len}) \in 0..r.len
  <2>1. r.cur + 1 \in Int /\ r.len \in Int
    BY TextParts
  <2>2. Min({r.cur + 1, r.len}) = IF r.cur + 1 <= r.len THEN r.cur + 1 ELSE r.len
    BY <2>1, Extremes
  <2> QED
    BY <2>2, TextParts
<1>3. /\ Edited(r, MoveTo(r, 0)) /\ Edited(r, MoveTo(r, r.len))
      /\ Edited(r, MoveTo(r, Min({r.cur + 1, r.len})))
  BY <1>2, MotionsEdited
<1>4. Edited(r, [r EXCEPT !.sel = r.cur])
  BY SelectEdited, TextParts
<1>5. Edited(r, r)
  BY DEF Edited
<1>6. {"Insert", "Visual", "Operator d", "Operator c", "Operator y"} \subseteq VimModes
  BY DEF VimModes
<1>7. CASE s \in Motions(r)
  BY <1>7, AllMotionsEdited
<1>8. CASE s \in {DeleteNext(r), DeleteToEnd(r), Insert(r)}
  BY <1>8, DeletionsEdited, InsertEdited
<1>9. CASE \E t, v : Edited(r, t) /\ v \in VimModes /\ s = To(t, v)
  BY <1>1, <1>9
<1>10. s \in Motions(r) \cup {DeleteNext(r), DeleteToEnd(r), Insert(r)}
         \/ \E t, v : Edited(r, t) /\ v \in VimModes /\ s = To(t, v)
  BY <1>3, <1>4, <1>5, <1>6, DeletionsEdited DEF NormalKey
<1> QED
  BY <1>7, <1>8, <1>9, <1>10

LEMMA VisualKeyEdited ==
  ASSUME NEW r \in Texts, NEW s \in VisualKey(r)
  PROVE  Edited(r, s)
<1>1. Cut(r) \in Texts /\ Unselect(r) \in Texts /\ {"Normal", "Insert"} \subseteq VimModes
  BY CutEdited, UnselectEdited DEF Edited, VimModes
<1>2. /\ Edited(Cut(r), To(Cut(r), "Normal")) /\ Edited(Cut(r), To(Cut(r), "Insert"))
      /\ Edited(Unselect(r), To(Unselect(r), "Normal"))
  BY <1>1, ToEdited
<1> QED
  BY <1>2, AllMotionsEdited, CutEdited, UnselectEdited, EditedTrans DEF VisualKey

LEMMA OperatorKeyEdited ==
  ASSUME NEW r \in Texts, NEW s \in OperatorKey(r)
  PROVE  Edited(r, s)
<1> DEFINE sel == [r EXCEPT !.sel = r.cur]
           all == [r EXCEPT !.sel = 0, !.cur = r.len]
<1>1. Edited(r, sel)
  BY SelectEdited, TextParts
<1>2. Edited(r, all)
  <2>1. r \in Field /\ r.len \in 0..MaxLen /\ 0 \in NoSel..MaxLen /\ 0 <= r.len /\ r.len <= r.len
    BY TextParts, FormsAssumption DEF NoSel, Texts
  <2>2. all \in Field /\ all.cap = r.cap /\ all.len = r.len /\ all.cur = r.len /\ all.sel = 0
    BY <2>1 DEF Field
  <2> HIDE DEF all
  <2> QED
    BY <2>1, <2>2 DEF Edited, Texts
<1> HIDE DEF sel, all
<1>3. ASSUME NEW m, Edited(r, m) PROVE Edited(r, Finished(m))
  BY <1>3, FinishedEdited, EditedTrans DEF Edited
<1>4. ASSUME NEW m \in Motions(sel) PROVE Edited(r, m)
  BY <1>1, <1>4, AllMotionsEdited, EditedTrans DEF Edited
<1>5. Edited(r, To(Unselect(r), "Normal")) /\ Edited(r, To(r, "Normal"))
  <2>1. Unselect(r) \in Texts /\ "Normal" \in VimModes
    BY UnselectEdited DEF Edited, VimModes
  <2>2. Edited(Unselect(r), To(Unselect(r), "Normal"))
    BY <2>1, ToEdited
  <2> QED
    BY <2>1, <2>2, ToEdited, UnselectEdited, EditedTrans
<1>6. \/ \E m \in Motions(sel) : s = Finished(m)
      \/ s \in {Finished(all), To(Unselect(r), "Normal"), To(r, "Normal")}
  BY DEF OperatorKey, sel, all
<1> QED
  BY <1>2, <1>3, <1>4, <1>5, <1>6

LEMMA EmacsKeyEdited ==
  ASSUME NEW r \in Texts, NEW s \in EmacsKey(r)
  PROVE  Edited(r, s)
<1> DEFINE sel == [r EXCEPT !.sel = IF r.sel = NoSel THEN r.cur ELSE r.sel]
<1>1. Edited(r, sel)
  <2>1. (IF r.sel = NoSel THEN r.cur ELSE r.sel) \in 0..r.len
    BY TextParts DEF NoSel
  <2> QED
    BY <2>1, SelectEdited
<1>2. s \in InsertKey(r) \/ s = DeleteToEnd(r) \/ s \in Motions(Unselect(r)) \/ s \in Motions(sel)
  BY DEF EmacsKey
<1> HIDE DEF sel
<1>3. CASE s \in Motions(sel)
  BY <1>1, <1>3, AllMotionsEdited, EditedTrans DEF Edited
<1>4. CASE s \in Motions(Unselect(r))
  BY <1>4, UnselectEdited, AllMotionsEdited, EditedTrans DEF Edited
<1> QED
  BY <1>2, <1>3, <1>4, InsertKeyEdited, DeletionsEdited

LEMMA KeysEdit ==
  ASSUME NEW r \in Texts
  PROVE  \A s \in OnKey(r) \cup {Insert(r), VimEscape(r)} : Edited(r, s)
<1>1. ASSUME NEW s \in OnKey(r) PROVE Edited(r, s)
  BY EmacsKeyEdited, InsertKeyEdited, NormalKeyEdited, VisualKeyEdited, OperatorKeyEdited
  DEF OnKey
<1>2. Edited(r, VimEscape(r))
  <2>1. Max({r.cur - 1, 0}) \in 0..r.len
    BY TextParts, Extremes
  <2>2. "Normal" \in VimModes
    BY DEF VimModes
  <2>3. ASSUME NEW t, Edited(r, t) PROVE Edited(r, To(t, "Normal"))
    BY <2>2, <2>3, ToEdited, EditedTrans DEF Edited
  <2>4. Edited(r, MoveTo(r, Max({r.cur - 1, 0}))) /\ Edited(r, r)
    BY <2>1, MotionsEdited DEF Edited
  <2> QED
    BY <2>3, <2>4, UnselectEdited DEF VimEscape
<1> QED
  BY <1>1, <1>2, InsertEdited

\* Focus and blur change who captures, and no text.
LEMMA FocusKeeps ==
  ASSUME NEW r \in Texts
  PROVE  /\ Focused(r) \in Texts /\ Focused(r).cap /\ Focused(r).len = r.len
         /\ Blurred(r) \in Texts /\ ~Blurred(r).cap /\ Blurred(r).len = r.len
<1>1. /\ r \in Field /\ r.len \in 0..MaxLen /\ r.cur <= r.len /\ r.sel <= r.len /\ r.len <= r.len
  BY TextParts DEF Texts
<1>2. Focused(r) \in Texts /\ Focused(r).cap /\ Focused(r).len = r.len
  <2> DEFINE t == [MoveTo(r, r.len) EXCEPT !.cap = TRUE]
             u == To(t, "Normal")
  <2>1. t \in Field /\ t.cap = TRUE /\ t.len = r.len /\ t.cur = r.len /\ t.sel = r.sel
    BY <1>1 DEF MoveTo, Field
  <2> HIDE DEF t
  <2>2. "Normal" \in VimModes
    BY DEF VimModes
  <2>3. u \in Field /\ u.cap = TRUE /\ u.len = r.len /\ u.cur = r.len /\ u.sel = r.sel
    BY <2>1, <2>2 DEF To, Field
  <2>4. u = Focused(r)
    BY DEF Focused, t
  <2> HIDE DEF u
  <2> QED
    BY <1>1, <2>3, <2>4 DEF Texts
<1>3. Blurred(r) \in Texts /\ ~Blurred(r).cap /\ Blurred(r).len = r.len
  <2> DEFINE t == [r EXCEPT !.cap = FALSE]
  <2>1. t \in Field /\ t.cap = FALSE /\ t.len = r.len /\ t.cur = r.cur /\ t.sel = r.sel
    BY <1>1 DEF Field
  <2>2. t = Blurred(r)
    BY DEF Blurred
  <2> HIDE DEF t
  <2> QED
    BY <1>1, <2>1, <2>2 DEF Texts
<1> QED
  BY <1>2, <1>3

-----------------------------------------------------------------------------
(* The calendar                                                             *)

ValidDate(d) == d \in [month : Months, day : Nat] /\ d.day \in 1..DaysIn(d.month)

LEMMA SmallestOf ==
  ASSUME NEW S \in SUBSET Nat, S # {}
  PROVE  \E n \in S : \A m \in S : n <= m
<1> DEFINE Less == OpToRel(<, Nat)
<1>1. IsWellFoundedOn(Less, Nat)
  BY NatLessThanWellFounded
<1>2. \A m, n \in Nat : m < n => <<m, n>> \in Less
  BY SMT DEF OpToRel
<1> HIDE DEF Less
<1>3. PICK n \in S : \A m \in S : <<m, n>> \notin Less
  BY <1>1, WFMin
<1>4. ASSUME NEW m \in S PROVE n <= m
  <2>1. m \in Nat /\ n \in Nat /\ ~(m < n)
    BY <1>2, <1>3
  <2> QED
    BY <2>1
<1> QED
  BY <1>4

LEMMA MonthFacts ==
  /\ Months \subseteq Nat \ {0} /\ 1 \in Months /\ Len(MonthEnds) \in Months
  /\ \A m \in Months : MonthEnd(m) \in Nat /\ MonthEnd(m - 1) \in Nat
                      /\ DaysIn(m) \in Nat \ {0}
  /\ \A m \in Months : m # 1 => m - 1 \in Months
  /\ MonthEnd(0) = 0
<1>1. Len(MonthEnds) \in Nat \ {0} /\ \A m \in Months : MonthEnds[m] \in Nat
  BY FormsAssumption, EmptySeq, LenProperties DEF Months
<1>2. /\ Months \subseteq Nat \ {0} /\ 1 \in Months /\ Len(MonthEnds) \in Months
      /\ \A m \in Months : m # 1 => m - 1 \in Months
  BY <1>1 DEF Months
<1>3. \A m \in Months : MonthEnd(m) \in Nat /\ MonthEnd(m - 1) \in Nat
  BY <1>1, <1>2 DEF MonthEnd
<1>4. \A m \in Months : MonthEnd(m - 1) < MonthEnd(m)
  BY FormsAssumption
<1>5. \A m \in Months : DaysIn(m) \in Nat \ {0}
  BY <1>3, <1>4 DEF DaysIn
<1> QED
  BY <1>2, <1>3, <1>5 DEF MonthEnd

\* Every day of the calendar is a date: it is in the first month that ends on
\* or after it.
LEMMA DaysAreDates ==
  ASSUME NEW n \in 1..MonthEnd(Len(MonthEnds))
  PROVE  ValidDate(DateOf(n))
<1> DEFINE Ends == {k \in Months : n <= MonthEnd(k)}
           P(k) == n \in (MonthEnd(k - 1) + 1)..MonthEnd(k)
<1>n. n \in Nat \ {0} /\ n <= MonthEnd(Len(MonthEnds))
  BY MonthFacts
<1>1. PICK k \in Ends : \A j \in Ends : k <= j
  <2>1. Ends \in SUBSET Nat /\ Ends # {}
    BY <1>n, MonthFacts
  <2> QED
    BY <2>1, SmallestOf
<1>2. MonthEnd(k - 1) < n
  <2>1. CASE k = 1
    BY <1>n, <2>1, MonthFacts
  <2>2. CASE k # 1
    <3>1. k - 1 \in Months /\ k - 1 \notin Ends
      BY <1>1, <2>2, MonthFacts
    <3> QED
      BY <1>n, <3>1, MonthFacts
  <2> QED
    BY <2>1, <2>2
<1>3. k \in Months /\ P(k)
  BY <1>n, <1>1, <1>2, MonthFacts
<1> DEFINE m == CHOOSE j \in Months : P(j)
<1>4. m \in Months /\ P(m)
  BY <1>3
<1>5. DateOf(n) = [month |-> m, day |-> n - MonthEnd(m - 1)]
  BY DEF DateOf
<1> HIDE DEF m
<1>6. n - MonthEnd(m - 1) \in Nat /\ n - MonthEnd(m - 1) \in 1..DaysIn(m)
  <2>1. MonthEnd(m - 1) \in Nat /\ MonthEnd(m) \in Nat
    BY <1>4, MonthFacts
  <2> QED
    BY <1>n, <1>4, <2>1 DEF DaysIn
<1> QED
  BY <1>4, <1>5, <1>6 DEF ValidDate

LEMMA ShiftDaysValid ==
  ASSUME NEW d, ValidDate(d), NEW n \in Int
  PROVE  ValidDate(ShiftDays(d, n))
<1> DEFINE last == MonthEnd(Len(MonthEnds))
           x == MonthEnd(d.month - 1) + d.day + n
<1>1. last \in Nat \ {0}
  <2>1. DaysIn(Len(MonthEnds)) \in Nat \ {0}
    BY MonthFacts
  <2>2. MonthEnd(Len(MonthEnds)) \in Nat /\ MonthEnd(Len(MonthEnds) - 1) \in Nat
    BY MonthFacts
  <2> QED
    BY <2>1, <2>2 DEF DaysIn
<1>2. x \in Int
  <2>1. d.month \in Months /\ d.day \in Nat
    BY DEF ValidDate
  <2>2. MonthEnd(d.month - 1) \in Nat
    BY <2>1, MonthFacts
  <2> QED
    BY <2>1, <2>2
<1>3. ShiftDays(d, n) = DateOf(Max({1, Min({last, x})}))
  BY DEF ShiftDays
<1> DEFINE y == Min({last, x})
<1> HIDE DEF last, x
<1>4. y = IF last <= x THEN last ELSE x
  BY <1>1, <1>2, Extremes
<1>5. y \in Int /\ y <= last
  BY <1>1, <1>2, <1>4
<1>6. Max({1, y}) \in 1..last
  <2> HIDE DEF y
  <2>1. Max({1, y}) = IF 1 >= y THEN 1 ELSE y
    BY <1>5, Extremes
  <2> QED
    BY <1>1, <1>5, <2>1
<1> QED
  BY <1>3, <1>6, DaysAreDates DEF last

LEMMA ShiftMonthValid ==
  ASSUME NEW d, ValidDate(d), NEW n \in Int
  PROVE  ValidDate(ShiftMonth(d, n))
<1>1. CASE d.month + n \in Months
  <2> DEFINE m == d.month + n
             k == Min({d.day, DaysIn(m)})
  <2>1. m \in Months /\ d.day \in Nat \ {0} /\ DaysIn(m) \in Nat \ {0}
    <3>1. m \in Months /\ d.month \in Months /\ d.day \in 1..DaysIn(d.month)
      BY <1>1 DEF ValidDate
    <3> HIDE DEF m
    <3>2. DaysIn(d.month) \in Nat \ {0} /\ DaysIn(m) \in Nat \ {0}
      BY <3>1, MonthFacts
    <3> QED
      BY <3>1, <3>2
  <2>2. ShiftMonth(d, n) = [month |-> m, day |-> k]
    BY <1>1 DEF ShiftMonth
  <2> HIDE DEF m
  <2>3. k \in 1..DaysIn(m) /\ k \in Nat
    <3>1. d.day \in Int /\ DaysIn(m) \in Int
      BY <2>1
    <3>2. k = IF d.day <= DaysIn(m) THEN d.day ELSE DaysIn(m)
      BY <3>1, Extremes
    <3> HIDE DEF k
    <3> QED
      BY <2>1, <3>2
  <2> QED
    BY <2>1, <2>2, <2>3 DEF ValidDate
<1> QED
  BY <1>1 DEF ShiftMonth

-----------------------------------------------------------------------------
(* The invariant                                                            *)

\* Only a form or a prompt lets its buttons have the focus.
FormsOnly == ~focusBody => form # "members"

FormsInv == FormsTypeOK /\ FormsOnly /\ OneCapture

LEMMA Shape ==
  /\ TextCount \in 0..3 /\ TextFields \subseteq 1..3 /\ TextFields \subseteq 1..FieldCount
  /\ FieldCount \in 1..5
  /\ IsForm => Captures /\ 1 \in TextFields /\ form \notin {"members", "prompt"}
  /\ ~IsForm => TextFields = {}
<1>1. TextCount \in 0..3
  BY DEF TextCount
<1>2. Max({TextCount, 1}) = IF TextCount >= 1 THEN TextCount ELSE 1
  BY <1>1, Extremes
<1>3. FieldCount \in 1..5 /\ TextCount <= FieldCount
  BY <1>1, <1>2 DEF FieldCount, TextCount, MemberCount
<1> QED
  BY <1>1, <1>3 DEF TextFields, IsForm, Captures, TextCount

\* The modal stays the one that was opened.
LEMMA SameForm ==
  ASSUME [FormsNext]_formVars
  PROVE  form' = form /\ vimming' = vimming
BY DEF FormsNext, formVars, FieldKey, EnterNext, FocusButtons, EditKey, Paste, EscKey,
       CalendarKey, PriorityKey, MemberKey, ButtonKey, Click, DeliverStart, DeliverStop,
       DeliverSubmit, DeliverRequest, Spawns, DeliverSave, DeliverNoAccount, Replies,
       DeliverError, DeliverClose, TaskSend, Pressed, Delivered

LEMMA SameShape ==
  ASSUME form' = form
  PROVE  /\ TextFields' = TextFields /\ FieldCount' = FieldCount /\ Captures' = Captures
         /\ Buttons' = Buttons /\ (IsForm' <=> IsForm)
<1>1. TextCount' = TextCount
  BY DEF TextCount
<1> QED
  BY <1>1 DEF TextFields, FieldCount, Captures, Buttons, IsForm

-----------------------------------------------------------------------------
(* Fields                                                                   *)

Blur == focused' = focused /\ field' = [g \in 1..3 |-> Blurred(field[g])]

\* A text is edited by a key or a paste, or only its cursor moves.
Edit ==
  /\ OnText /\ field[focused].cap /\ focused' = focused
  /\ \E r : /\ Edited(field[focused], r)
            /\ field' = [field EXCEPT ![focused] = r]
            /\ EditKey \/ Paste \/ r.len = field[focused].len

\* The ways a step changes the fields.
FieldKinds ==
  \/ UNCHANGED <<focused, field, stopped>>
  \/ \E f \in 1..FieldCount : SetFocus(f)
  \/ IsForm /\ Reset
  \/ Blur /\ (FocusButtons \/ DeliverStop)
  \/ Edit
  \/ form = "members" /\ focused' \in 1..FieldCount /\ UNCHANGED field

FieldsOK ==
  /\ focused \in 1..FieldCount
  /\ field \in [1..3 -> Texts]
  /\ \A f \in (1..3) \ TextFields : ~field[f].cap
  /\ \A f \in 1..3 : field[f].cap => f = focused

LEMMA EscapeEdited ==
  ASSUME NEW r \in Texts
  PROVE  Edited(r, VimEscape(r)) /\ VimEscape(r).len = r.len
<1>1. ASSUME NEW t \in Texts PROVE To(t, "Normal").len = t.len
  BY <1>1 DEF To, Texts, Field
<1>2. MoveTo(r, Max({r.cur - 1, 0})).len = r.len /\ Unselect(r).len = r.len
  BY DEF MoveTo, Unselect, Texts, Field
<1>3. MoveTo(r, Max({r.cur - 1, 0})) \in Texts /\ Unselect(r) \in Texts
  <2>1. Max({r.cur - 1, 0}) = IF r.cur - 1 >= 0 THEN r.cur - 1 ELSE 0
    <3>1. r.cur - 1 \in Int
      BY TextParts
    <3> QED
      BY <3>1, Extremes
  <2>2. Max({r.cur - 1, 0}) \in 0..r.len
    BY <2>1, TextParts
  <2> QED
    BY <2>2, MotionsEdited, UnselectEdited DEF Edited
<1>4. VimEscape(r).len = r.len
  BY <1>1, <1>2, <1>3 DEF VimEscape
<1> QED
  BY <1>4, KeysEdit

LEMMA StepFields ==
  ASSUME FormsInv, FormsNext
  PROVE  FieldKinds
<1> USE DEF FieldKinds
<1>s. field \in [1..3 -> Texts] /\ focused \in 1..FieldCount
  BY DEF FormsInv, FormsTypeOK
<1>e. OnText => field[focused] \in Texts
  BY <1>s, Shape DEF OnText
<1>1. ASSUME NEW step \in {1, -1}, FieldKey(step) PROVE FieldKinds
  <2>1. ((focused - 1 + step) % FieldCount) + 1 \in 1..FieldCount
    BY <1>s, Shape
  <2> QED
    BY <1>1, <2>1 DEF FieldKey
<1>2. CASE EnterNext
  <2>1. (focused % FieldCount) + 1 \in 1..FieldCount
    BY <1>s, Shape
  <2> QED
    BY <1>2, <2>1 DEF EnterNext
<1>3. CASE FocusButtons
  BY <1>3 DEF FocusButtons, Blur
<1>4. CASE EditKey
  <2>1. PICK r \in OnKey(field[focused]) : field' = [field EXCEPT ![focused] = r]
    BY <1>4 DEF EditKey
  <2>2. OnText /\ field[focused].cap /\ focused' = focused
    BY <1>4 DEF EditKey
  <2>3. Edited(field[focused], r)
    BY <1>e, <2>1, <2>2, KeysEdit
  <2> QED
    BY <1>4, <2>1, <2>2, <2>3 DEF Edit
<1>5. CASE Paste
  <2>1. /\ field' = [field EXCEPT ![focused] = Insert(field[focused])]
        /\ OnText /\ field[focused].cap /\ focused' = focused
    BY <1>5 DEF Paste
  <2>2. Edited(field[focused], Insert(field[focused]))
    BY <1>e, <2>1, InsertEdited
  <2> QED
    BY <1>5, <2>1, <2>2 DEF Edit
<1>6. CASE EscKey
  <2>1. focused' = focused /\ stopped' = stopped
    BY <1>6 DEF EscKey
  <2>2. \/ UNCHANGED field
        \/ /\ OnText /\ field[focused].cap
           /\ field' = [field EXCEPT ![focused] = VimEscape(field[focused])]
    BY <1>6 DEF EscKey, ConsumesEscape
  <2>3. OnText => /\ Edited(field[focused], VimEscape(field[focused]))
                  /\ VimEscape(field[focused]).len = field[focused].len
    BY <1>e, EscapeEdited
  <2> QED
    BY <2>1, <2>2, <2>3 DEF Edit
<1>7. CASE CalendarKey \/ PriorityKey \/ Click
  BY <1>7 DEF CalendarKey, PriorityKey, Click, bodyVars
<1>8. CASE MemberKey
  <2>1. form = "members" /\ UNCHANGED field /\ focused' \in {(focused % MemberCount) + 1, focused}
    BY <1>8 DEF MemberKey
  <2>2. FieldCount = MemberCount
    BY <2>1 DEF FieldCount
  <2>3. (focused % MemberCount) + 1 \in 1..FieldCount
    BY <1>s, <2>2, Shape
  <2> QED
    BY <1>s, <2>1, <2>3
<1>9. CASE ButtonKey
  <2>1. ~focusBody /\ (UNCHANGED <<focused, field, stopped>> \/ (Captures /\ Reset))
    BY <1>9 DEF ButtonKey
  <2>2. ~focusBody /\ Captures => IsForm
    BY FormsAssumption DEF FormsInv, FormsOnly, FormsTypeOK, Captures, IsForm, TextCount
  <2> QED
    BY <2>1, <2>2
<1>10. CASE DeliverStart
  BY <1>10 DEF DeliverStart
<1>11. CASE DeliverStop
  BY <1>11 DEF DeliverStop, Delivered, Blur
<1>12. CASE DeliverSubmit \/ DeliverError \/ DeliverClose
  BY <1>12 DEF DeliverSubmit, DeliverError, DeliverClose
<1>13. CASE DeliverRequest \/ DeliverSave \/ DeliverNoAccount
  BY <1>13 DEF DeliverRequest, Spawns, DeliverSave, DeliverNoAccount, Replies
<1>14. CASE TaskSend
  BY <1>14 DEF TaskSend, bodyVars
<1> QED
  BY <1>1, <1>2, <1>3, <1>4, <1>5, <1>6, <1>7, <1>8, <1>9, <1>10, <1>11, <1>12, <1>13, <1>14
  DEF FormsNext

LEMMA FieldsStep ==
  ASSUME FieldsOK, FieldKinds, form' = form
  PROVE  /\ FieldsOK'
         /\ EditKey \/ Paste \/ \A f \in 1..3 : field'[f].len = field[f].len
<1> USE SameShape, Shape DEF FieldsOK
<1>1. CASE UNCHANGED <<focused, field, stopped>>
  BY <1>1
<1>2. ASSUME NEW f \in 1..FieldCount, SetFocus(f)
      PROVE  FieldsOK' /\ \A g \in 1..3 : field'[g].len = field[g].len
  <2>1. ASSUME NEW g \in 1..3
        PROVE  /\ field'[g] \in Texts /\ field'[g].len = field[g].len
               /\ field'[g].cap => g = f /\ g \in TextFields
    BY <1>2, FocusKeeps DEF SetFocus
  <2>2. field' \in [1..3 -> Texts] /\ focused' = f
    BY <1>2, <2>1 DEF SetFocus
  <2> QED
    BY <2>1, <2>2
<1>3. ASSUME IsForm, Reset
      PROVE  FieldsOK' /\ \A g \in 1..3 : field'[g].len = field[g].len
  <2>1. ASSUME NEW g \in 1..3
        PROVE  /\ field'[g] \in Texts /\ field'[g].len = field[g].len
               /\ field'[g].cap => g = 1
    BY <1>3, FocusKeeps DEF Reset
  <2>2. field' \in [1..3 -> Texts] /\ focused' = 1
    BY <1>3, <2>1 DEF Reset
  <2> QED
    BY <1>3, <2>1, <2>2
<1>4. ASSUME Blur, FocusButtons \/ DeliverStop
      PROVE  FieldsOK' /\ \A g \in 1..3 : field'[g].len = field[g].len
  <2>1. ASSUME NEW g \in 1..3
        PROVE  field'[g] \in Texts /\ field'[g].len = field[g].len /\ ~field'[g].cap
    BY <1>4, FocusKeeps DEF Blur
  <2>2. field' \in [1..3 -> Texts] /\ focused' = focused
    BY <1>4, <2>1 DEF Blur
  <2> QED
    BY <2>1, <2>2
<1>5. CASE Edit
  <2>1. PICK r : /\ Edited(field[focused], r)
                 /\ field' = [field EXCEPT ![focused] = r]
                 /\ EditKey \/ Paste \/ r.len = field[focused].len
    BY <1>5 DEF Edit
  <2>2. focused \in TextFields /\ field[focused].cap /\ focused' = focused
    BY <1>5 DEF Edit, OnText
  <2>3. r \in Texts /\ r.cap = field[focused].cap
    BY <2>1 DEF Edited
  <2>4. ASSUME NEW g \in 1..3
        PROVE  /\ field'[g] \in Texts /\ field'[g].cap = field[g].cap
               /\ EditKey \/ Paste \/ field'[g].len = field[g].len
    BY <2>1, <2>2, <2>3
  <2>5. field' \in [1..3 -> Texts]
    BY <2>1, <2>2, <2>3
  <2> QED
    BY <2>2, <2>4, <2>5
<1>6. CASE form = "members" /\ focused' \in 1..FieldCount /\ UNCHANGED field
  <2>1. TextFields = {}
    BY <1>6
  <2> QED
    BY <1>6, <2>1
<1> QED
  BY <1>1, <1>2, <1>3, <1>4, <1>5, <1>6 DEF FieldKinds

-----------------------------------------------------------------------------
(* Delivery                                                                 *)

\* The ways a step changes what is on its way to the modal.
InboxKinds ==
  \/ UNCHANGED inbox
  \/ \E a \in Messages : inbox' = Append(inbox, a)
  \/ /\ inbox # <<>> /\ inbox' = Tail(inbox)
     /\ Head(inbox) = "StartCapture" => DeliverStart
  \/ /\ inbox # <<>> /\ Head(inbox) # "StartCapture"
     /\ \E a \in Messages : inbox' = Append(Tail(inbox), a)
  \/ inbox' = <<>> /\ ~open'

LEMMA StepInbox ==
  ASSUME FormsNext
  PROVE  InboxKinds
<1> USE DEF InboxKinds
<1>1. {"SubmitForm", "Cancel", "Error", "CloseModal", "Save", "Register", "Login", "Unlock",
       "ShareList", "AddResolvedMember", "StopCapture"} \subseteq Messages
  BY DEF Messages
<1>2. \A b : Pressing(b) \subseteq Messages
  BY <1>1 DEF Pressing
<1>3. ASSUME NEW step, FieldKey(step) PROVE InboxKinds
  BY <1>3 DEF FieldKey
<1>4. CASE EnterNext \/ FocusButtons \/ EditKey \/ Paste \/ CalendarKey \/ PriorityKey
  BY <1>4 DEF EnterNext, FocusButtons, EditKey, Paste, CalendarKey, PriorityKey
<1>5. CASE EscKey
  BY <1>1, <1>5 DEF EscKey, Emit
<1>6. CASE MemberKey
  BY <1>1, <1>6 DEF MemberKey, Emit
<1>7. CASE ButtonKey
  BY <1>2, <1>7 DEF ButtonKey, Emit
<1>8. CASE Click
  BY <1>2, <1>8 DEF Click, Emit
<1>9. CASE DeliverStart \/ DeliverStop \/ DeliverError
  BY <1>9 DEF DeliverStart, DeliverStop, DeliverError, Delivered
<1>10. CASE DeliverSubmit
  <2>1. Submission \in Messages
    BY <1>1 DEF Submission
  <2> QED
    BY <1>10, <2>1 DEF DeliverSubmit, Delivered
<1>11. CASE DeliverClose
  BY <1>11 DEF DeliverClose, Delivered
<1>12. CASE DeliverRequest
  BY <1>12 DEF DeliverRequest, Spawns, Delivered
<1>13. CASE DeliverSave \/ DeliverNoAccount
  BY <1>1, <1>13 DEF DeliverSave, DeliverNoAccount, Replies, Delivered
<1>14. CASE TaskSend
  <2>1. \A t \in Tasks : \A s \in Sends(t) : s[1] \in Messages
    BY <1>1 DEF Tasks, Sends
  <2> QED
    BY <1>14, <2>1 DEF TaskSend, Emit
<1> QED
  BY <1>3, <1>4, <1>5, <1>6, <1>7, <1>8, <1>9, <1>10, <1>11, <1>12, <1>13, <1>14 DEF FormsNext

Begins(s) == \E k \in 1..Len(s) : s[k] = "StartCapture"

LEMMA AppendBegins ==
  ASSUME NEW s \in Seq(Messages), NEW a \in Messages
  PROVE  /\ Append(s, a) \in Seq(Messages)
         /\ Begins(s) => Begins(Append(s, a))
<1> DEFINE t == Append(s, a)
<1>1. /\ t \in Seq(Messages) /\ Len(s) \in Nat /\ Len(t) = Len(s) + 1
      /\ \A k \in 1..Len(s) : t[k] = s[k]
  BY AppendProperties, LenProperties
<1> HIDE DEF t
<1> QED
  BY <1>1 DEF t, Begins

LEMMA TailBegins ==
  ASSUME NEW s \in Seq(Messages), s # <<>>
  PROVE  /\ Tail(s) \in Seq(Messages)
         /\ Begins(s) => Begins(Tail(s)) \/ Head(s) = "StartCapture"
<1> DEFINE t == Tail(s)
<1>1. /\ t \in Seq(Messages) /\ Len(t) \in Nat /\ Len(s) = Len(t) + 1
      /\ \A k \in 1..Len(t) : t[k] = s[k + 1]
      /\ Head(s) = s[1]
  BY HeadTailProperties, LenProperties
<1> HIDE DEF t
<1>2. \A k \in 1..Len(s) : k = 1 \/ (k - 1 \in 1..Len(t) /\ t[k - 1] = s[k])
  BY <1>1
<1> QED
  BY <1>1, <1>2 DEF t, Begins

\* A capture still to start starts, or the modal is closed before.
LEMMA InboxStep ==
  ASSUME inbox \in Seq(Messages), InboxKinds
  PROVE  inbox' \in Seq(Messages) /\ (Starting => Starting' \/ DeliverStart \/ ~open')
<1>1. Starting = Begins(inbox) /\ Starting' = Begins(inbox')
  BY DEF Starting, Begins
<1>2. CASE UNCHANGED inbox
  BY <1>1, <1>2
<1>3. CASE \E a \in Messages : inbox' = Append(inbox, a)
  BY <1>1, <1>3, AppendBegins
<1>4. CASE /\ inbox # <<>> /\ inbox' = Tail(inbox)
           /\ Head(inbox) = "StartCapture" => DeliverStart
  BY <1>1, <1>4, TailBegins
<1>5. CASE /\ inbox # <<>> /\ Head(inbox) # "StartCapture"
           /\ \E a \in Messages : inbox' = Append(Tail(inbox), a)
  BY <1>1, <1>5, TailBegins, AppendBegins
<1>6. CASE inbox' = <<>> /\ ~open'
  BY <1>6, EmptySeq
<1> QED
  BY <1>2, <1>3, <1>4, <1>5, <1>6 DEF InboxKinds

-----------------------------------------------------------------------------
(* Theorems                                                                 *)

\* The rest of the modal.
RestOK ==
  /\ form \in Forms /\ vimming \in BOOLEAN
  /\ focusBody \in BOOLEAN /\ button \in Buttons
  /\ focusBody => Captures
  /\ ready \in BOOLEAN /\ ValidDate(due)
  /\ dueSet \in BOOLEAN /\ priority \in 0..3
  /\ waiting \in [Tasks -> Nat] /\ open \in BOOLEAN /\ stopped \in BOOLEAN
  /\ presses \in 0..MaxKeys

LEMMA InvParts ==
  FormsInv <=> RestOK /\ FieldsOK /\ inbox \in Seq(Messages) /\ FormsOnly
               /\ (open /\ focusBody /\ OnText /\ ~Starting /\ ~stopped
                     => field[focused].cap)
BY DEF FormsInv, FormsTypeOK, RestOK, FieldsOK, ValidDate, OneCapture

LEMMA RestStep ==
  ASSUME RestOK, FormsOnly, FormsNext
  PROVE  RestOK' /\ FormsOnly'
<1> DEFINE Kept == /\ focusBody' \in BOOLEAN /\ button' \in Buttons
                   /\ focusBody' => Captures
                   /\ ready' \in BOOLEAN /\ ValidDate(due')
                   /\ dueSet' \in BOOLEAN /\ priority' \in 0..3
                   /\ waiting' \in [Tasks -> Nat] /\ open' \in BOOLEAN
                   /\ stopped' \in BOOLEAN /\ presses' \in 0..MaxKeys
                   /\ ~focusBody' => form # "members"
<1> SUFFICES Kept
  <2>1. /\ UNCHANGED <<form, vimming>> /\ Captures' = Captures /\ Buttons' = Buttons
        /\ (ValidDate(due)' <=> ValidDate(due'))
    BY SameForm, SameShape DEF ValidDate, DaysIn, MonthEnd, Months
  <2> QED
    BY <2>1 DEF RestOK, FormsOnly
<1> USE DEF RestOK, FormsOnly
<1>p. ASSUME Pressed PROVE presses' \in 0..MaxKeys /\ UNCHANGED <<waiting, open>>
  BY <1>p, FormsAssumption DEF Pressed
<1>1. ASSUME NEW step, FieldKey(step) PROVE Kept
  BY <1>p, <1>1 DEF FieldKey, SetFocus
<1>2. CASE EnterNext
  BY <1>p, <1>2 DEF EnterNext, SetFocus
<1>3. CASE EditKey \/ Paste \/ Click
  BY <1>p, <1>3 DEF EditKey, Paste, Click, bodyVars
<1>4. CASE EscKey
  BY <1>p, <1>4 DEF EscKey
<1>5. CASE MemberKey
  BY <1>p, <1>5 DEF MemberKey
<1>6. CASE FocusButtons
  <2>1. form # "members" /\ focusBody' = FALSE /\ button' = 1
    BY <1>6, Shape DEF FocusButtons
  <2>2. 1 \in Buttons
    BY DEF Buttons
  <2> QED
    BY <1>p, <1>6, <2>1, <2>2 DEF FocusButtons
<1>7. CASE CalendarKey
  <2>1. ValidDate(due')
    BY <1>7, ShiftDaysValid, ShiftMonthValid DEF CalendarKey
  <2> QED
    BY <1>p, <1>7, <2>1 DEF CalendarKey
<1>8. CASE PriorityKey
  BY <1>p, <1>8 DEF PriorityKey
<1>9. CASE ButtonKey
  <2>1. Buttons = 1..2 /\ ~focusBody /\ form # "members"
    BY <1>9 DEF ButtonKey, Buttons
  <2>2. Cardinality(1..2) = 2
    <3>1. \A n \in Nat : Cardinality(1..n) = n
      BY FS_Interval
    <3> QED
      BY <3>1
  <2>3. button' \in Buttons
    BY <1>9, <2>1, <2>2 DEF ButtonKey
  <2>4. UNCHANGED <<due, dueSet, priority>> /\ Pressed
    BY <1>9 DEF ButtonKey
  <2>5. (focusBody' = TRUE /\ Captures) \/ focusBody' = focusBody
    BY <1>9 DEF ButtonKey
  <2>6. ready' = TRUE \/ ready' = ready
    BY <1>9 DEF ButtonKey
  <2>7. focusBody' \in BOOLEAN /\ (focusBody' => Captures) /\ (~focusBody' => form # "members")
    <3>1. CASE focusBody' = TRUE /\ Captures
      BY <3>1
    <3>2. CASE focusBody' = focusBody
      BY <2>1, <3>2
    <3> QED
      BY <2>5, <3>1, <3>2
  <2>8. ready' \in BOOLEAN
    BY <2>6
  <2>9. stopped' \in BOOLEAN
    BY <1>9 DEF ButtonKey, Reset
  <2> QED
    BY <1>p, <2>3, <2>4, <2>7, <2>8, <2>9
<1>10. CASE DeliverStart
  BY <1>10 DEF DeliverStart, Delivered, Reset
<1>11. CASE DeliverStop
  <2>1. UNCHANGED <<focusBody, button, due, dueSet, priority, presses, ready, waiting, open>>
    BY <1>11 DEF DeliverStop, Delivered
  <2>2. stopped' = TRUE
    BY <1>11 DEF DeliverStop
  <2> QED
    BY <2>1, <2>2
<1>18. CASE DeliverError
  BY <1>18 DEF DeliverError, Delivered
<1>12. CASE DeliverSubmit
  <2>1. UNCHANGED <<focusBody, button, due, dueSet, priority, presses, open>>
    BY <1>12 DEF DeliverSubmit, Delivered
  <2>2. ready' \in BOOLEAN /\ UNCHANGED <<waiting, stopped>>
    BY <1>12 DEF DeliverSubmit
  <2> QED
    BY <2>1, <2>2
<1>13. CASE DeliverClose
  <2>1. UNCHANGED <<focusBody, button, due, dueSet, priority, presses, ready, waiting, stopped>>
    BY <1>13 DEF DeliverClose, Delivered
  <2>2. open' = FALSE
    BY <1>13 DEF DeliverClose
  <2> QED
    BY <2>1, <2>2
<1>14. ASSUME NEW a, NEW t \in Tasks, Spawns(a, t) PROVE Kept
  BY <1>14 DEF Spawns, Delivered
<1>15. CASE DeliverRequest
  BY <1>14, <1>15 DEF DeliverRequest, Tasks
<1>16. CASE DeliverSave \/ DeliverNoAccount
  BY <1>16 DEF DeliverSave, DeliverNoAccount, Replies, Delivered
<1>17. CASE TaskSend
  <2>1. PICK t \in Tasks : \E s \in Sends(t) :
          /\ waiting[t] > 0
          /\ waiting' = [u \in Tasks |-> waiting[u] - (IF u = t THEN 1 ELSE 0)
                                                  + (IF u = s[2] THEN 1 ELSE 0)]
    BY <1>17 DEF TaskSend
  <2>s. PICK s \in Sends(t) :
          /\ waiting[t] > 0
          /\ waiting' = [u \in Tasks |-> waiting[u] - (IF u = t THEN 1 ELSE 0)
                                                  + (IF u = s[2] THEN 1 ELSE 0)]
    BY <2>1
  <2>2. ASSUME NEW u \in Tasks
        PROVE  waiting[u] - (IF u = t THEN 1 ELSE 0) + (IF u = s[2] THEN 1 ELSE 0) \in Nat
    BY <2>s
  <2>3. waiting' \in [Tasks -> Nat]
    BY <2>s, <2>2
  <2> QED
    BY <1>17, <2>3 DEF TaskSend, bodyVars
<1> QED
  BY <1>1, <1>2, <1>3, <1>4, <1>5, <1>6, <1>7, <1>8, <1>9, <1>10, <1>11, <1>12, <1>13, <1>15,
     <1>16, <1>17, <1>18
  DEF FormsNext

\* The focused field captures once capture has begun, unless it was stopped.
LEMMA CaptureStep ==
  ASSUME FormsInv, FormsNext
  PROVE  open' /\ focusBody' /\ OnText' /\ ~Starting' /\ ~stopped' => field'[focused'].cap
<1> SUFFICES ASSUME open', focusBody', focused' \in TextFields, ~Starting', ~stopped'
             PROVE  field'[focused'].cap
  BY SameForm, SameShape DEF OnText
<1>1. /\ field \in [1..3 -> Texts] /\ inbox \in Seq(Messages)
      /\ TextFields \subseteq 1..3 /\ IsForm
  BY Shape DEF FormsInv, FormsTypeOK
<1>2. Starting => DeliverStart
  BY <1>1, StepInbox, InboxStep
<1>3. CASE \E f \in 1..FieldCount : SetFocus(f)
  BY <1>1, <1>3, FocusKeeps DEF SetFocus
<1>4. CASE Reset
  BY <1>1, <1>4, FocusKeeps DEF Reset
<1>5. CASE FocusButtons
  BY <1>5 DEF FocusButtons
<1>6. CASE DeliverStop
  BY <1>6 DEF DeliverStop
<1>7. CASE Edit
  <2>1. PICK r : Edited(field[focused], r) /\ field' = [field EXCEPT ![focused] = r]
    BY <1>7 DEF Edit
  <2>2. focused \in 1..3 /\ field[focused].cap /\ focused' = focused
    BY <1>1, <1>7 DEF Edit, OnText
  <2> QED
    BY <1>1, <2>1, <2>2 DEF Edited
<1>8. CASE UNCHANGED <<focused, field, stopped>>
  <2>1. open /\ (focusBody \/ Reset)
    BY DEF FormsNext, FieldKey, EnterNext, FocusButtons, EditKey, Paste, EscKey, CalendarKey,
           PriorityKey, MemberKey, ButtonKey, Click, DeliverStart, DeliverStop, DeliverSubmit,
           DeliverRequest, Spawns, DeliverSave, DeliverNoAccount, Replies,
           DeliverError, DeliverClose, TaskSend, Delivered, Pressed
  <2>2. Starting => Reset
    BY <1>1, <1>2 DEF DeliverStart
  <2> QED
    BY <1>4, <1>8, <2>1, <2>2 DEF FormsInv, OneCapture, OnText
<1>9. CASE form = "members" /\ focused' \in 1..FieldCount /\ UNCHANGED field
  BY <1>9, Shape
<1> QED
  BY <1>3, <1>4, <1>5, <1>6, <1>7, <1>8, <1>9, StepFields DEF FieldKinds

LEMMA FormsInvStep == FormsInv /\ [FormsNext]_formVars => FormsInv'
<1>1. ASSUME FormsInv, FormsNext PROVE FormsInv'
  <2>1. RestOK /\ FieldsOK /\ inbox \in Seq(Messages) /\ FormsOnly
    BY <1>1, InvParts
  <2>2. form' = form
    BY <1>1, SameForm
  <2>3. RestOK' /\ FormsOnly'
    BY <1>1, <2>1, RestStep
  <2>4. FieldsOK'
    BY <1>1, <2>1, <2>2, StepFields, FieldsStep
  <2>5. inbox' \in Seq(Messages)
    BY <1>1, <2>1, StepInbox, InboxStep
  <2>6. (open /\ focusBody /\ OnText /\ ~Starting /\ ~stopped => field[focused].cap)'
    BY <1>1, CaptureStep
  <2> QED
    BY <2>3, <2>4, <2>5, <2>6
    DEF FormsInv, FormsTypeOK, RestOK, FieldsOK, ValidDate, OneCapture
<1>2. CASE UNCHANGED formVars
  BY <1>2 DEF formVars, bodyVars, FormsInv, FormsTypeOK, FormsOnly,
     OneCapture, Starting, OnText, TextFields, TextCount, FieldCount, Captures, Buttons, IsForm
<1> QED
  BY <1>1, <1>2

LEMMA FormsInvInit == FormsInit => FormsInv
<1> SUFFICES ASSUME FormsInit PROVE FormsInv
  OBVIOUS
<1>1. /\ 1 \in 1..FieldCount /\ 1 \in Buttons
      /\ 1 \in Months /\ DaysIn(1) \in Nat \ {0}
  BY Shape, MonthFacts DEF Buttons
<1>2. field \in [1..3 -> Texts] /\ \A f \in 1..3 : ~field[f].cap
  <2>1. PICK n \in {0, MaxLen} :
           field = [f \in 1..3 |-> IF f = 1 THEN [Blank EXCEPT !.len = n, !.cur = n] ELSE Blank]
    BY DEF FormsInit
  <2> DEFINE t == [Blank EXCEPT !.len = n, !.cur = n]
  <2>2. n \in 0..MaxLen /\ NoSel <= n /\ n <= n
    BY FormsAssumption DEF NoSel
  <2>3. Blank \in Field /\ Blank.cap = FALSE /\ Blank.sel = NoSel
        /\ Blank.cur <= Blank.len /\ Blank.sel <= Blank.len
    BY FormsAssumption DEF Blank, Field, VimModes, NoSel
  <2>4. t \in Field /\ t.cap = FALSE /\ t.cur = n /\ t.len = n /\ t.sel = NoSel
    BY <2>2, <2>3 DEF Field
  <2> HIDE DEF t
  <2>5. Blank \in Texts /\ t \in Texts
    BY <2>2, <2>3, <2>4 DEF Texts
  <2> QED
    BY <2>1, <2>3, <2>4, <2>5 DEF t
<1>3. inbox \in Seq(Messages) /\ (IsForm => Starting)
  <2>1. PICK s \in Seq(Messages) : inbox = IF IsForm THEN Append(s, "StartCapture") ELSE s
    <3>1. PICK n \in 0..MaxEarlier : \E s \in [1..n -> Messages] :
             inbox = IF IsForm THEN Append(s, "StartCapture") ELSE s
      BY DEF FormsInit
    <3>2. n \in Nat
      BY FormsAssumption
    <3>3. PICK s \in [1..n -> Messages] : inbox = IF IsForm THEN Append(s, "StartCapture") ELSE s
      BY <3>1
    <3>4. s \in Seq(Messages)
      BY <3>2, <3>3, SeqDef
    <3> QED
      BY <3>3, <3>4
  <2>2. "StartCapture" \in Messages
    BY DEF Messages
  <2> DEFINE t == Append(s, "StartCapture")
  <2>4. t \in Seq(Messages) /\ Len(t) \in Nat /\ t[Len(t)] = "StartCapture" /\ Len(t) >= 1
    BY <2>2, AppendProperties, LenProperties
  <2>5. ASSUME IsForm PROVE Starting
    <3>1. inbox = t
      BY <2>1, <2>5
    <3> QED
      BY <2>4, <3>1 DEF Starting
  <2> QED
    BY <2>1, <2>2, <2>4, <2>5
<1>4. focusBody /\ OnText => Starting
  BY <1>3, Shape DEF OnText
<1>5. ValidDate(due)
  BY <1>1 DEF FormsInit, ValidDate
<1>6. RestOK /\ FormsOnly
  <2>1. /\ focusBody \in BOOLEAN /\ (focusBody => Captures)
        /\ (~focusBody => form # "members") /\ ready \in BOOLEAN
    BY DEF FormsInit, Captures
  <2>2. /\ form \in Forms /\ vimming \in BOOLEAN /\ button \in Buttons
        /\ dueSet \in BOOLEAN /\ priority \in 0..3 /\ waiting \in [Tasks -> Nat]
        /\ open \in BOOLEAN /\ stopped \in BOOLEAN /\ presses \in 0..MaxKeys
    <3>1. /\ form \in Forms /\ vimming \in BOOLEAN /\ button = 1 /\ dueSet = FALSE
          /\ priority = 0 /\ open = TRUE /\ stopped = FALSE
          /\ presses \in {0, MaxKeys - LateKeys}
          /\ \E running \in SUBSET Tasks :
                waiting = [t \in Tasks |-> IF t \in running THEN 1 ELSE 0]
      BY DEF FormsInit
    <3>2. 0 \in 0..3 /\ {0, MaxKeys - LateKeys} \subseteq 0..MaxKeys /\ 0 \in Nat /\ 1 \in Nat
      BY FormsAssumption
    <3> QED
      BY <1>1, <3>1, <3>2
  <2> QED
    BY <1>5, <2>1, <2>2 DEF RestOK, FormsOnly
<1>7. FieldsOK
  BY <1>1, <1>2 DEF FormsInit, FieldsOK
<1> QED
  BY <1>3, <1>4, <1>6, <1>7, InvParts

LEMMA FormsInvAlways == FormsSpec => []FormsInv
BY FormsInvInit, FormsInvStep, PTL DEF FormsSpec

\* Whatever is typed, pasted or clicked, and in whatever order the modal gets
\* its actions: the cursor and the selection are in their text, the date that
\* is picked exists, and the focus is on a field of the form.
THEOREM FormsTypeCorrect == FormsSpec => []FormsTypeOK
<1>1. FormsInv => FormsTypeOK
  BY DEF FormsInv
<1> QED
  BY <1>1, FormsInvAlways, PTL

\* "Exactly one field captures keystrokes at a time", whatever earlier modals
\* left on its way to this one: never two, and none while the focus is in the
\* body only after the StopCapture of a task that succeeded.
THEOREM OneFieldCaptures == FormsSpec => []OneCapture
<1>1. FormsInv => OneCapture
  BY DEF FormsInv
<1> QED
  BY <1>1, FormsInvAlways, PTL

\* Moving the focus, starting and stopping the capture and failed submissions
\* leave what was typed.
THEOREM FormsKeepValues == FormsSpec => ValuesSurvive
<1>1. FormsInv /\ [FormsNext]_formVars
        => [(\E f \in 1..3 : field'[f].len # field[f].len) => EditKey \/ Paste]_formVars
  <2> SUFFICES ASSUME FormsInv, FormsNext
               PROVE  EditKey \/ Paste \/ \A f \in 1..3 : field'[f].len = field[f].len
    OBVIOUS
  <2> QED
    BY InvParts, SameForm, StepFields, FieldsStep
<1> QED
  BY <1>1, FormsInvAlways, PTL DEF FormsSpec, ValuesSurvive
==============================================================================
