-------------------------------- MODULE Shell --------------------------------
(***************************************************************************)
(* The application shell: one loop that turns terminal events, ticks, the  *)
(* store worker's replies and the results of background tasks into actions *)
(* on one queue, and dispatches them to itself and to the modal on top of  *)
(* the workspace.  The authentication gate runs on every tick.             *)
(*                                                                         *)
(* A loop turn handles events, then dispatches what was queued before it   *)
(* began to dispatch; what those actions send waits for the next turn.     *)
(* Errors only write the error bar, payloads are left out, and which       *)
(* fields a form has is the subject of Forms.                              *)
(***************************************************************************)
EXTENDS Naturals, Sequences

CONSTANTS MaxInputs,      (* bound: keys and clicks of the user              *)
          MaxQueue        (* bound: actions queued when an event is handled  *)

ASSUME ShellAssumption ==
    /\ MaxInputs \in Nat
    /\ MaxQueue \in Nat \ {0}

VARIABLES
    enabled,     \* config: device_unlock.enabled
    onDisk,      \* the account row exists
    account,     \* App.account is loaded
    checked,     \* App.account_checked
    attempted,   \* App.device_unlock_attempted
    keys,        \* App.acct_keys is present
    verified,    \* App.account_verified; the session is built in the same step
    modal,       \* App.modal, by what it shows
    capturing,   \* App.capturing
    mode, prev,  \* App.mode and App.prev_mode
    pending,     \* App.pending_edit, App.pending_members: what is stashed
    queue,       \* the action channel
    left,        \* actions this turn still dispatches
    turn,        \* where the loop stands
    suspend, quit,   \* App.should_suspend, App.should_quit
    tasks,       \* background tasks that have not answered
    sending,     \* what the task that just answered has still to send
    fetching,    \* replies the store worker owes
    inputs       \* inputs used up

authVars == <<enabled, onDisk, account, checked, attempted, keys, verified>>
uiVars   == <<modal, capturing, mode, prev, pending>>
loopVars == <<queue, left, turn, suspend, quit>>
bgVars   == <<tasks, sending, fetching>>
vars == <<authVars, uiVars, loopVars, bgVars, inputs>>

Modes  == {"Home", "Register", "Login"}
Modals == {"none", "chooser", "login", "register", "unlock", "help", "confirm",
           "form", "share", "members"}
CapturingForms == {"login", "register", "unlock", "form", "share"}
Actions == {"Quit", "Suspend", "Resume", "AuthChooser", "UnlockModal", "DeviceUnlock",
            "LoginModal", "RegisterModal", "HelpModal", "CloseModal", "StartCapture",
            "StopCapture", "SubmitForm", "Login", "Register", "Keys", "SetMode",
            "FormModal", "ShareModal", "ConfirmDelete", "Save", "ShareList",
            "AddResolvedMember", "Fetch", "OpenEditReady", "OpenMembersReady"}
Kinds == {"login", "register", "device", "share"}

TypeOK ==
    /\ enabled \in BOOLEAN /\ onDisk \in BOOLEAN /\ account \in BOOLEAN
    /\ checked \in BOOLEAN /\ attempted \in BOOLEAN
    /\ keys \in BOOLEAN /\ verified \in BOOLEAN
    /\ suspend \in BOOLEAN /\ quit \in BOOLEAN
    /\ modal \in Modals /\ capturing \in BOOLEAN
    /\ mode \in Modes /\ prev \in Modes
    /\ pending \subseteq {"edit", "members"}
    /\ queue \in Seq(Actions) /\ left \in 0..Len(queue)
    /\ turn \in {"events", "actions", "ended"}
    /\ left # 0 => turn = "actions"
    /\ tasks \in [Kinds -> Nat]
    /\ sending \in Seq(Actions)
    /\ fetching \in [{"edit", "members"} -> Nat]
    /\ inputs \in 0..MaxInputs
    /\ verified => keys /\ account /\ onDisk   \* the gate opens for both

\* main has loaded the account row if there is one.
Init ==
    /\ enabled \in BOOLEAN
    /\ onDisk \in BOOLEAN
    /\ account = onDisk
    /\ checked = FALSE /\ attempted = FALSE /\ keys = FALSE /\ verified = FALSE
    /\ modal = "none" /\ capturing = FALSE
    /\ mode = "Home" /\ prev = "Home"
    /\ pending = {}
    /\ queue = <<>> /\ left = 0 /\ turn = "events"
    /\ suspend = FALSE /\ quit = FALSE
    /\ tasks = [k \in Kinds |-> 0]
    /\ sending = <<>>
    /\ fetching = [x \in {"edit", "members"} |-> 0]
    /\ inputs = 0

Send(a) == queue' = Append(queue, a)

-----------------------------------------------------------------------------
(* Events                                                                  *)

Listening == turn = "events" /\ Len(queue) < MaxQueue

\* Mutant of Gate: the row that was found is not kept.
GateForgetful ==
    LET found == account \/ (~checked /\ onDisk) IN
    /\ checked' = (checked \/ ~account)
    /\ \/ ~found /\ ~keys /\ Send("AuthChooser") /\ UNCHANGED verified
       \/ found /\ ~keys /\ Send("UnlockModal") /\ UNCHANGED verified
       \/ found /\ keys /\ verified' = TRUE /\ UNCHANGED queue
    /\ UNCHANGED <<account, attempted>>

\* Ticks: the authentication gate.  The one look at the disk and the branch
\* that follows it happen on the same tick.
Gate ==
    LET found == account \/ (~checked /\ onDisk) IN
    /\ account' = found
    /\ checked' = (checked \/ ~account)
    /\ \/ ~found /\ ~keys
          /\ Send("AuthChooser") /\ UNCHANGED <<attempted, verified>>
       \/ found /\ ~keys /\ enabled /\ ~attempted
          /\ attempted' = TRUE
          /\ Send("DeviceUnlock") /\ UNCHANGED verified
       \/ found /\ ~keys /\ ~enabled /\ ~attempted
          /\ Send("UnlockModal") /\ UNCHANGED <<attempted, verified>>
       \/ found /\ ~keys /\ attempted /\ UNCHANGED <<queue, attempted, verified>>
       \/ found /\ keys /\ verified' = TRUE /\ UNCHANGED <<queue, attempted>>
       \/ ~found /\ keys /\ UNCHANGED <<queue, attempted, verified>>

Tick ==
    /\ Listening
    /\ ~verified /\ modal = "none"
    /\ Gate
    /\ UNCHANGED <<enabled, onDisk, keys, uiVars, left, turn, suspend, quit, bgVars, inputs>>

Input(a) ==
    /\ Listening
    /\ inputs < MaxInputs
    /\ inputs' = inputs + 1
    /\ Send(a)
    /\ UNCHANGED <<authVars, uiVars, left, turn, suspend, quit, bgVars>>

\* A Ctrl or Alt chord is the application's whatever is on top.
Chord == \E a \in {"Quit", "Suspend", "LoginModal", "RegisterModal"} : Input(a)

\* Bare global keys act only with no modal and while nothing captures.
BareKey == modal = "none" /\ ~capturing /\ \E a \in {"Quit", "HelpModal"} : Input(a)

\* The workspace's own keys; it never asks whether somebody captures, nor
\* whether anybody is logged in.
WorkspaceKey ==
    /\ modal = "none"
    /\ \E a \in {"FormModal", "ShareModal", "ConfirmDelete", "Fetch"} : Input(a)

\* What Esc and the Cancel button send, and what the other buttons do.
EscAction ==
    CASE modal = "chooser" -> "Quit"
      [] modal \in {"login", "register", "unlock"} -> "AuthChooser"
      [] OTHER -> "CloseModal"

ButtonActions ==
    CASE modal = "chooser" -> {"LoginModal", "RegisterModal"}
      [] modal \in CapturingForms -> {"SubmitForm"}
      [] modal \in {"confirm", "members"} -> {"Save"}
      [] OTHER -> {"CloseModal"}

ModalKey ==
    /\ modal # "none"
    /\ \E a \in ButtonActions \cup {EscAction} : Input(a)

\* The action that announces a stashed reply.
ReadyFor(x) == IF x = "edit" THEN "OpenEditReady" ELSE "OpenMembersReady"

\* handle_worker_msg: stash the reply and announce it.
WorkerReply(x) ==
    /\ Listening
    /\ fetching[x] # 0
    /\ fetching' = [fetching EXCEPT ![x] = @ - 1]
    /\ pending' = pending \cup {x}
    /\ Send(ReadyFor(x))
    /\ UNCHANGED <<authVars, modal, capturing, mode, prev, left, turn, suspend, quit,
                   tasks, sending, inputs>>

-----------------------------------------------------------------------------
(* Background tasks                                                        *)

\* A task ends and starts to send its results; none sends while another does.
End(kind, results) ==
    /\ tasks[kind] # 0 /\ sending = <<>>
    /\ tasks' = [tasks EXCEPT ![kind] = @ - 1]
    /\ sending' = results
    /\ UNCHANGED <<enabled, account, checked, attempted, keys, verified, uiVars, loopVars,
                   fetching, inputs>>

LoginResults == <<"Keys", "StopCapture", "CloseModal", "SetMode">>

\* A login that worked has saved the account, or has only said that it could
\* not; one that failed shows an error.
LoginSucceeds ==
    /\ End("login", LoginResults)
    /\ onDisk' \in {TRUE, onDisk}

RegisterSucceeds == End("register", <<"StopCapture", "Login">>) /\ onDisk' = TRUE

DeviceUnlockEnds ==
    /\ \/ End("device", <<"Keys", "SetMode">>)
       \/ End("device", <<"UnlockModal">>)
    /\ UNCHANGED onDisk

ShareResolves == End("share", <<"AddResolvedMember">>) /\ UNCHANGED onDisk

TaskFails ==
    /\ \E k \in {"login", "register", "share"} : End(k, <<>>)
    /\ UNCHANGED onDisk

\* The channel takes one action at a time, whatever the loop is doing.
TaskSends ==
    /\ sending # <<>>
    /\ Send(Head(sending))
    /\ sending' = Tail(sending)
    /\ UNCHANGED <<authVars, uiVars, left, turn, suspend, quit, tasks, fetching, inputs>>

-----------------------------------------------------------------------------
(* Dispatch                                                                *)

\* handle_actions takes what is queued by now.
Drain ==
    /\ turn = "events" /\ queue # <<>>
    /\ turn' = "actions"
    /\ left' = Len(queue)
    /\ UNCHANGED <<authVars, uiVars, queue, suspend, quit, bgVars, inputs>>

Dispatching(a) == left # 0 /\ Head(queue) = a

\* The first action is done, and sent these.
Done(sent) == queue' = Tail(queue) \o sent /\ left' = left - 1 /\ UNCHANGED turn

Flag(a) ==
    /\ Dispatching(a)
    /\ Done(<<>>)
    /\ quit' = (quit \/ a = "Quit")
    /\ suspend' = (a = "Suspend" \/ (suspend /\ a # "Resume"))
    /\ UNCHANGED <<authVars, uiVars, bgVars, inputs>>

\* SetMode and CloseModal: the mode map only holds Home, whose component does
\* not capture.
SwitchMode(m) == prev' = mode /\ mode' = m

SetMode ==
    /\ Dispatching("SetMode")
    /\ SwitchMode("Home")
    /\ Done(<<>>)
    /\ UNCHANGED <<authVars, modal, capturing, pending, suspend, quit, bgVars, inputs>>

Capture(a) ==
    /\ Dispatching(a)
    /\ capturing' = (a = "StartCapture")
    /\ Done(<<>>)
    /\ UNCHANGED <<authVars, modal, mode, prev, pending, suspend, quit, bgVars, inputs>>

\* Mutant of NewKeys: the look at the disk is not repeated.
NewKeysUnchecked ==
    /\ Dispatching("Keys")
    /\ keys' = TRUE
    /\ Done(<<>>)
    /\ UNCHANGED <<enabled, onDisk, account, checked, attempted, verified, uiVars, suspend, quit,
                   bgVars, inputs>>

\* Keys arrived: with no account in memory, the disk is looked at again.
NewKeys ==
    /\ Dispatching("Keys")
    /\ keys' = TRUE
    /\ checked' = (checked /\ account)
    /\ Done(<<>>)
    /\ UNCHANGED <<enabled, onDisk, account, attempted, verified, uiVars, suspend, quit, bgVars,
                   inputs>>

\* Open a modal in place of whatever was on top; a form asks to capture.
Show(m) ==
    /\ modal' = m
    /\ Done(IF m \in CapturingForms THEN <<"StartCapture">> ELSE <<>>)
    /\ UNCHANGED <<authVars, suspend, quit, bgVars, inputs>>

\* The unlock form and the chooser belong to the workspace.
ShowChooser ==
    /\ Dispatching("AuthChooser")
    /\ Show("chooser")
    /\ SwitchMode("Home")
    /\ capturing' = FALSE
    /\ UNCHANGED pending

ShowUnlock ==
    /\ Dispatching("UnlockModal")
    /\ Show("unlock")
    /\ SwitchMode("Home")
    /\ UNCHANGED <<capturing, pending>>

\* Login and registration have a mode, and leave the one to return to alone.
ShowCredentials ==
    /\ \/ Dispatching("LoginModal") /\ Show("login") /\ mode' = "Login"
       \/ Dispatching("RegisterModal") /\ Show("register") /\ mode' = "Register"
    /\ UNCHANGED <<capturing, prev, pending>>

ShowOverlay ==
    /\ \/ Dispatching("HelpModal") /\ Show("help")
       \/ Dispatching("FormModal") /\ Show("form")
       \/ Dispatching("ShareModal") /\ Show("share")
       \/ Dispatching("ConfirmDelete") /\ Show("confirm")
    /\ UNCHANGED <<capturing, mode, prev, pending>>

CloseModal ==
    /\ Dispatching("CloseModal")
    /\ modal' = "none"
    /\ capturing' = FALSE
    /\ SwitchMode(prev)
    /\ Done(<<>>)
    /\ UNCHANGED <<authVars, pending, suspend, quit, bgVars, inputs>>

\* Actions that start a task.
Spawn ==
    /\ \E k \in Kinds :
          /\ Dispatching(CASE k = "login" -> "Login"     [] k = "register" -> "Register"
                           [] k = "share" -> "ShareList" [] OTHER -> "DeviceUnlock")
          /\ tasks' = [tasks EXCEPT ![k] = @ + 1]
    /\ Done(<<>>)
    /\ UNCHANGED <<authVars, uiVars, suspend, quit, sending, fetching, inputs>>

\* SubmitForm is handed to whatever is on top.  A form that does not validate
\* stays as it is; no form asks whether it has been submitted already.
Submit ==
    /\ Dispatching("SubmitForm")
    /\ \/ Done(<<>>)
       \/ modal = "login" /\ Done(<<"Login">>)
       \/ modal = "register" /\ Done(<<"Register">>)
       \/ modal = "unlock" /\ Done(IF account THEN <<"Login">> ELSE <<>>)
       \/ modal = "form" /\ Done(<<"Save">>)
       \/ modal = "share" /\ Done(<<"ShareList">>)
    /\ UNCHANGED <<authVars, uiVars, suspend, quit, bgVars, inputs>>

\* Every action that stands for a store command: the command goes to the worker
\* if there is one, and the modal is closed on the next turn.
Store ==
    /\ Dispatching("Save") \/ Dispatching("AddResolvedMember")
    /\ Done(<<"CloseModal">>)
    /\ UNCHANGED <<authVars, uiVars, suspend, quit, bgVars, inputs>>

\* EditTodoModal and MembersModal ask the worker, if there is one.
Fetch ==
    /\ Dispatching("Fetch")
    /\ \/ ~verified /\ UNCHANGED fetching
       \/ verified /\ \E x \in {"edit", "members"} : fetching' = [fetching EXCEPT ![x] = @ + 1]
    /\ Done(<<>>)
    /\ UNCHANGED <<authVars, uiVars, suspend, quit, tasks, sending, inputs>>

\* Mutant of OpenReady: a reply that finds a modal is left for later.
OpenReadyPolitely ==
    /\ \/ /\ Dispatching("OpenEditReady")
          /\ IF "edit" \in pending /\ modal = "none"
             THEN Show("form") /\ pending' = pending \ {"edit"}
             ELSE UNCHANGED <<modal, pending, authVars, suspend, quit, bgVars, inputs>>
                  /\ Done(<<>>)
       \/ /\ Dispatching("OpenMembersReady")
          /\ Show("members") /\ pending' = pending \ {"members"}
    /\ UNCHANGED <<capturing, mode, prev>>

\* The stashed reply is taken; of two replies the second finds nothing.
OpenReady ==
    /\ \E x \in {"edit", "members"} :
          /\ Dispatching(ReadyFor(x))
          /\ pending' = pending \ {x}
          /\ IF x \in pending
             THEN Show(IF x = "edit" THEN "form" ELSE "members")
             ELSE Done(<<>>) /\ UNCHANGED <<modal, authVars, suspend, quit, bgVars, inputs>>
    /\ UNCHANGED <<capturing, mode, prev>>

\* The end of a turn: the terminal is given back and taken again, or the
\* application ends and its background tasks with it.
EndTurn ==
    /\ turn = "actions" /\ left = 0
    /\ \/ suspend /\ Send("Resume") /\ turn' = "events" /\ UNCHANGED <<tasks, sending, fetching>>
       \/ ~suspend /\ ~quit /\ turn' = "events" /\ UNCHANGED <<queue, tasks, sending, fetching>>
       \/ /\ ~suspend /\ quit
          /\ turn' = "ended"
          /\ queue' = <<>> /\ sending' = <<>> /\ fetching' = [x \in DOMAIN fetching |-> 0]
          /\ tasks' = [k \in Kinds |-> 0]
    /\ UNCHANGED <<authVars, uiVars, left, suspend, quit, inputs>>

-----------------------------------------------------------------------------
Dispatch ==
    \/ \E a \in {"Quit", "Suspend", "Resume"} : Flag(a)
    \/ \E a \in {"StartCapture", "StopCapture"} : Capture(a)
    \/ SetMode \/ NewKeys \/ ShowChooser \/ ShowUnlock \/ ShowCredentials
    \/ ShowOverlay \/ CloseModal \/ Spawn \/ Submit \/ Store \/ Fetch \/ OpenReady

Loop == Drain \/ Dispatch \/ EndTurn

TaskNext ==
    \/ LoginSucceeds \/ RegisterSucceeds \/ DeviceUnlockEnds \/ ShareResolves
    \/ TaskFails \/ TaskSends

UserNext == Chord \/ BareKey \/ WorkspaceKey \/ ModalKey

Next ==
    \/ Tick \/ UserNext \/ Loop \/ TaskNext
    \/ \E x \in {"edit", "members"} : WorkerReply(x)

Spec == Init /\ [][Next]_vars

\* The loop runs, ticks keep coming, and every call of a task is answered, if
\* only by the time-out of the client; the user owes nothing.
Fairness == WF_vars(Loop) /\ WF_vars(Tick) /\ WF_vars(TaskNext)

FairSpec == Spec /\ Fairness

-----------------------------------------------------------------------------
(* Properties                                                              *)

\* A reply of the worker that is stashed has its OpenEditReady or
\* OpenMembersReady on the way: no reply is forgotten, whatever modal comes and
\* goes in between.
PendingIsAnnounced ==
    \A x \in pending : \E n \in 1..Len(queue) : queue[n] = ReadyFor(x)

\* Device unlock has been asked for and not been answered.
Unlocking == tasks["device"] # 0 \/ \E n \in 1..Len(queue) : queue[n] = "DeviceUnlock"

\* "No local account -> prompt the user to log in or register", and "on any
\* failure, fall back to the password prompt": whoever is not logged in gets the
\* workspace or a modal, in whatever order keys, results and ticks are handled.
\* Two cases get neither.  A device unlock prompts once, and what closes that
\* prompt is not noticed; and a login whose account could not be saved leaves
\* keys without an account.
Prompted ==
    turn # "ended" /\ (attempted => Unlocking)
        ~> (verified \/ modal # "none" \/ turn = "ended" \/ (keys /\ ~onDisk))
==============================================================================
