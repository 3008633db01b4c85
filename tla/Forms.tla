--------------------------------- MODULE Forms ---------------------------------
(***************************************************************************)
(* The modal on top of the workspace: a body, a row of buttons, and the    *)
(* focus that moves between them.  The body is a form of text fields, the  *)
(* member list, or a prompt; the todo form also has a calendar and a list  *)
(* of priorities.  A text field is edited with a small Vim machine or with *)
(* the widget's Emacs keys.                                                *)
(*                                                                         *)
(* Everything goes through the application's queue and is delivered to the *)
(* modal that is open then: what a form sends, what the application sends  *)
(* for it, and what the tasks it spawned send one by one, long after the   *)
(* modal that asked may have been replaced.  A text is its length, the     *)
(* cursor and the start of the widget's selection; a count or a word       *)
(* motion is any motion it may amount to; undo, redo and the messages a    *)
(* form draws are left out.                                                *)
(***************************************************************************)
EXTENDS Integers, FiniteSets, Sequences, FiniteSetsExt

CONSTANTS MaxLen,     (* bound: characters in a field                        *)
          MaxKeys,    (* bound: keys, pastes and clicks                      *)
          LateKeys,   (* bound: the same, with something of an earlier modal *)
          MaxEarlier, (* bound: actions, and tasks, of earlier modals        *)
          Forms,      (* the modals that may be opened                       *)
          MonthEnds   (* the calendar: the days up to the end of each month  *)

Months == 1..Len(MonthEnds)
MonthEnd(m) == IF m = 0 THEN 0 ELSE MonthEnds[m]
DaysIn(m) == MonthEnd(m) - MonthEnd(m - 1)

ASSUME FormsAssumption ==
    /\ MaxLen \in Nat \ {0} /\ MaxEarlier \in Nat
    /\ MaxKeys \in Nat /\ LateKeys \in 0..MaxKeys
    /\ Forms \subseteq {"register", "login", "unlock", "list", "share", "todo",
                        "members", "prompt"}
    /\ MonthEnds \in Seq(Nat) /\ MonthEnds # <<>>
    /\ \A m \in Months : MonthEnd(m - 1) < MonthEnd(m)

VARIABLES
    form,        \* what the modal shows
    vimming,     \* config.editing_mode
    focusBody, button,   \* Modal.focus_body and Modal.focused
    focused,     \* the form's focused field, or Members.selected
    ready,       \* Unlock.focused
    field,       \* the text fields
    due, dueSet, priority,   \* TodoForm.due_cursor, due_enabled, priority
    inbox,       \* actions on their way to the modal
    waiting,     \* tasks that have still something to send
    open,
    stopped,     \* history: a StopCapture came after a field last took the focus
    presses      \* bound used up

bodyVars == <<focused, ready, field, due, dueSet, priority>>
formVars == <<form, vimming, focusBody, button, bodyVars, inbox, waiting, open, stopped,
              presses>>

TextCount == CASE form \in {"register", "todo"} -> 3
               [] form = "login"                -> 2
               [] form \in {"unlock", "list", "share"} -> 1
               [] OTHER                         -> 0
TextFields == 1..TextCount
IsForm == TextCount > 0
DUE == 4
PRIORITY == 5
MemberCount == 2
FieldCount == CASE form = "todo" -> 5
                [] form = "members" -> MemberCount
                [] OTHER -> Max({TextCount, 1})
Captures == form # "prompt"        \* captures_input of the body
OnText == focused \in TextFields

NoSel == -1
VimModes == {"Normal", "Insert", "Visual", "Operator d", "Operator c", "Operator y"}

\* "Cancel" also stands for whatever else closes or replaces the modal, "Save"
\* for the actions that hand the store worker a command and close it.
Messages == {"StartCapture", "StopCapture", "SubmitForm", "Cancel", "CloseModal", "Error",
             "Register", "Login", "Unlock", "ShareList", "AddResolvedMember", "Save"}

\* A task, by what it has done: "registered" has still to send its Login, a login
\* that is "unsaved" (it could not save the account) its StopCapture, one that has
\* "entered" its CloseModal.
Tasks == {"register", "registered", "login", "unsaved", "entered", "share"}
Buttons == IF form = "members" THEN 1..1 ELSE 1..2

Field == [cap : BOOLEAN, vim : VimModes,
          len : 0..MaxLen, cur : 0..MaxLen, sel : NoSel..MaxLen]

\* The cursor is in the text, and so is the start of the selection.
Texts == {r \in Field : r.cur <= r.len /\ r.sel <= r.len}

FormsTypeOK ==
    /\ form \in Forms /\ vimming \in BOOLEAN
    /\ focusBody \in BOOLEAN /\ button \in Buttons
    /\ focusBody => Captures
    /\ focused \in 1..FieldCount /\ ready \in BOOLEAN
    /\ field \in [1..3 -> Texts]
    /\ \A f \in (1..3) \ TextFields : ~field[f].cap
    /\ due \in [month : Months, day : Nat]
    /\ due.day \in 1..DaysIn(due.month)      \* "always a valid date"
    /\ dueSet \in BOOLEAN /\ priority \in 0..3
    /\ inbox \in Seq(Messages)
    /\ waiting \in [Tasks -> Nat] /\ open \in BOOLEAN /\ stopped \in BOOLEAN
    /\ presses \in 0..MaxKeys

Blank == [cap |-> FALSE, len |-> 0, cur |-> 0, sel |-> NoSel, vim |-> "Normal"]

\* Nothing of an earlier modal is on its way to this one.
Alone == /\ inbox = IF IsForm THEN <<"StartCapture">> ELSE <<>>
         /\ \A t \in Tasks : waiting[t] = 0

\* A modal just opened.  Forms get StartCapture through the queue, behind what
\* was already in it; tasks of earlier modals may still be running.
FormsInit ==
    /\ form \in Forms /\ vimming \in BOOLEAN
    /\ focusBody = Captures /\ button = 1
    /\ focused = 1 /\ ready = (form # "unlock")
    /\ \E n \in IF form \in {"todo", "list"} THEN {0, MaxLen} ELSE {0} :
          field = [f \in 1..3 |-> IF f = 1 THEN [Blank EXCEPT !.len = n, !.cur = n]
                                  ELSE Blank]
    /\ due = [month |-> 1, day |-> DaysIn(1)] /\ dueSet = FALSE /\ priority = 0
    /\ \E n \in 0..MaxEarlier : \E s \in [1..n -> Messages] :
          inbox = IF IsForm THEN Append(s, "StartCapture") ELSE s
    /\ \E running \in SUBSET Tasks :
          /\ Cardinality(running) <= MaxEarlier
          /\ waiting = [t \in Tasks |-> IF t \in running THEN 1 ELSE 0]
    /\ open = TRUE /\ stopped = FALSE
    /\ presses = IF Alone THEN 0 ELSE MaxKeys - LateKeys

-----------------------------------------------------------------------------
(* The text widget (ratatui-textarea)                                       *)

Selected(r) == r.sel # NoSel /\ r.sel # r.cur
Cut(r) == IF Selected(r)
          THEN [r EXCEPT !.len = r.len - Max({r.sel, r.cur}) + Min({r.sel, r.cur}),
                         !.cur = Min({r.sel, r.cur}), !.sel = NoSel]
          ELSE [r EXCEPT !.sel = NoSel]
Unselect(r) == [r EXCEPT !.sel = NoSel]
Insert(r)   == LET s == Cut(r) IN
               IF s.len < MaxLen THEN [s EXCEPT !.len = s.len + 1, !.cur = s.cur + 1] ELSE s
DeleteNext(r) == IF Selected(r) THEN Cut(r)
                 ELSE [Unselect(r) EXCEPT !.len = IF r.cur < r.len THEN r.len - 1 ELSE r.len]
DeletePrev(r) == IF Selected(r) THEN Cut(r)
                 ELSE [Unselect(r) EXCEPT !.len = IF r.cur > 0 THEN r.len - 1 ELSE r.len,
                                          !.cur = IF r.cur > 0 THEN r.cur - 1 ELSE 0]
DeleteToEnd(r) == IF Selected(r) THEN Cut(r) ELSE [Unselect(r) EXCEPT !.len = r.cur]
MoveTo(r, p)   == [r EXCEPT !.cur = p]         \* a selection is extended
Motions(r)     == {MoveTo(r, p) : p \in 0..r.len}

-----------------------------------------------------------------------------
(* The Vim machine: what one key may make of a field                        *)

To(r, v) == [r EXCEPT !.vim = v]

InsertKey(r) == {Insert(r), DeletePrev(r), DeleteNext(r)}
NormalKey(r) ==
    Motions(r)
      \cup {To(r, "Insert"), To(MoveTo(r, 0), "Insert"), To(MoveTo(r, r.len), "Insert"),
            To(MoveTo(r, Min({r.cur + 1, r.len})), "Insert")}       \* i I A a
      \cup {DeleteNext(r), DeleteToEnd(r), Insert(r)}               \* x D p
      \cup {To(DeleteToEnd(r), "Insert"), To(DeleteNext(r), "Insert")}   \* C s
      \cup {To([r EXCEPT !.sel = r.cur], "Visual")}
      \cup {To(r, v) : v \in {"Operator d", "Operator c", "Operator y"}}
VisualKey(r) ==
    Motions(r) \cup {To(Cut(r), "Normal"), To(Cut(r), "Insert"), To(Unselect(r), "Normal")}

\* The operator is applied to a selection made by its motion, or to the line.
Finished(r) == CASE r.vim = "Operator d" -> To(Cut(r), "Normal")
                 [] r.vim = "Operator c" -> To(Cut(r), "Insert")
                 [] OTHER                -> To(Unselect(r), "Normal")
OperatorKey(r) ==
    {Finished(m) : m \in Motions([r EXCEPT !.sel = r.cur])}
      \cup {Finished([r EXCEPT !.sel = 0, !.cur = r.len])}
      \cup {To(Unselect(r), "Normal"), To(r, "Normal")}   \* no motion; an ignored key

VimEscape(r) ==
    CASE r.vim = "Insert" -> To(MoveTo(r, Max({r.cur - 1, 0})), "Normal")
      [] r.vim = "Visual" -> To(Unselect(r), "Normal")
      [] OTHER            -> To(r, "Normal")

\* The widget's own keys: a motion drops the selection, with shift it makes one.
EmacsKey(r) ==
    InsertKey(r) \cup {DeleteToEnd(r)} \cup Motions(Unselect(r))
      \cup Motions([r EXCEPT !.sel = IF r.sel = NoSel THEN r.cur ELSE r.sel])

OnKey(r) == CASE ~vimming         -> EmacsKey(r)
              [] r.vim = "Insert" -> InsertKey(r)
              [] r.vim = "Normal" -> NormalKey(r)
              [] r.vim = "Visual" -> VisualKey(r)
              [] OTHER            -> OperatorKey(r)

\* TextInput::focus and blur: the text stays, and so does the selection.
Focused(r) == To([MoveTo(r, r.len) EXCEPT !.cap = TRUE], "Normal")
Blurred(r) == [r EXCEPT !.cap = FALSE]

-----------------------------------------------------------------------------
(* The form's focus                                                         *)

\* Mutant of SetFocus: the field that had the focus is not blurred.
SetFocusOnly(f) ==
    /\ focused' = f /\ stopped' = FALSE
    /\ field' = [g \in 1..3 |-> IF g = f /\ g \in TextFields
                                THEN Focused(field[g]) ELSE field[g]]

SetFocus(f) ==
    /\ focused' = f /\ stopped' = FALSE
    /\ field' = [g \in 1..3 |-> CASE g = f /\ g \in TextFields -> Focused(field[g])
                                  [] g = focused /\ g # f      -> Blurred(field[g])
                                  [] OTHER                     -> field[g]]

\* Mutant of Reset: capture restarts the fields themselves, which clears them.
ResetFields ==
    /\ focused' = 1 /\ stopped' = FALSE
    /\ field' = [g \in 1..3 |-> IF g = 1 THEN Focused(Blank) ELSE Blank]

Reset ==
    /\ focused' = 1 /\ stopped' = FALSE
    /\ field' = [g \in 1..3 |-> IF g = 1 THEN Focused(field[g]) ELSE Blurred(field[g])]

-----------------------------------------------------------------------------
(* Keys                                                                     *)

Pressed == /\ open /\ presses < MaxKeys /\ presses' = presses + 1
           /\ UNCHANGED <<form, vimming, waiting, open>>

Emit(a) == inbox' = Append(inbox, a)

\* Tab and back-tab.  Of the forms with one field, unlock takes the focus again
\* and the others do nothing.
FieldKey(step) ==
    /\ Pressed /\ focusBody /\ IsForm
    /\ IF form \in {"list", "share"} THEN UNCHANGED <<focused, field, stopped>>
       ELSE SetFocus(((focused - 1 + step) % FieldCount) + 1)
    /\ ready' = TRUE
    /\ UNCHANGED <<focusBody, button, due, dueSet, priority, inbox>>

\* Enter: the next field, or the buttons from the last one.
ToButtons == IF form = "todo" THEN focused \in {DUE, PRIORITY}
             ELSE ready /\ focused = FieldCount

EnterNext ==
    /\ Pressed /\ focusBody /\ IsForm /\ ~ToButtons
    /\ SetFocus((focused % FieldCount) + 1)
    /\ ready' = TRUE
    /\ UNCHANGED <<focusBody, button, due, dueSet, priority, inbox>>

FocusButtons ==
    /\ Pressed /\ focusBody /\ IsForm /\ ToButtons
    /\ focusBody' = FALSE /\ button' = 1
    /\ field' = [g \in 1..3 |-> Blurred(field[g])]
    /\ UNCHANGED <<focused, ready, due, dueSet, priority, inbox, stopped>>

\* Any other key goes to the focused field, which takes it only if it captures.
EditKey ==
    /\ Pressed /\ focusBody /\ OnText /\ field[focused].cap
    /\ \E r \in OnKey(field[focused]) : field' = [field EXCEPT ![focused] = r]
    /\ UNCHANGED <<focusBody, button, focused, ready, due, dueSet, priority, inbox, stopped>>

\* A bracketed paste is inserted in every Vim mode.
Paste ==
    /\ Pressed /\ focusBody /\ OnText /\ field[focused].cap
    /\ field' = [field EXCEPT ![focused] = Insert(field[focused])]
    /\ UNCHANGED <<focusBody, button, focused, ready, due, dueSet, priority, inbox, stopped>>

\* A field mid-edit consumes Esc, if it captures; else the modal is cancelled.
ConsumesEscape == focusBody /\ OnText /\ vimming /\ field[focused].vim # "Normal"

EscKey ==
    /\ Pressed
    /\ \/ /\ ConsumesEscape
          /\ field' = IF field[focused].cap
                      THEN [field EXCEPT ![focused] = VimEscape(field[focused])]
                      ELSE field
          /\ UNCHANGED inbox
       \/ ~ConsumesEscape /\ Emit("Cancel") /\ UNCHANGED field
    /\ UNCHANGED <<focusBody, button, focused, ready, due, dueSet, priority, stopped>>

\* The calendar: days and weeks saturate at its ends, months clamp the day.
DateOf(n) == LET m == CHOOSE k \in Months : n \in (MonthEnd(k - 1) + 1)..MonthEnd(k)
             IN  [month |-> m, day |-> n - MonthEnd(m - 1)]
ShiftDays(d, n) ==
    DateOf(Max({1, Min({MonthEnd(Len(MonthEnds)), MonthEnd(d.month - 1) + d.day + n})}))

\* Mutant of ShiftMonth: the day is kept whatever the month's length.
ShiftMonthSameDay(d, n) ==
    IF d.month + n \in Months THEN [d EXCEPT !.month = d.month + n] ELSE d

ShiftMonth(d, n) ==
    IF d.month + n \in Months
    THEN [month |-> d.month + n, day |-> Min({d.day, DaysIn(d.month + n)})] ELSE d

CalendarKey ==
    /\ Pressed /\ focusBody /\ form = "todo" /\ focused = DUE
    /\ \/ /\ due' \in {ShiftDays(due, n) : n \in {-7, -1, 1, 7}}
                        \cup {ShiftMonth(due, n) : n \in {-1, 1}}
          /\ UNCHANGED dueSet
       \/ dueSet' = ~dueSet /\ UNCHANGED due
    /\ UNCHANGED <<focusBody, button, focused, ready, field, priority, inbox, stopped>>

PriorityKey ==
    /\ Pressed /\ focusBody /\ form = "todo" /\ focused = PRIORITY
    /\ priority' \in {(priority + 1) % 4, (priority + 3) % 4}
    /\ UNCHANGED <<focusBody, button, focused, ready, field, due, dueSet, inbox, stopped>>

\* The member list keeps its focus; a member other than oneself is removed.
MemberKey ==
    /\ Pressed /\ form = "members"
    /\ \/ focused' = (focused % MemberCount) + 1 /\ UNCHANGED inbox
       \/ focused = 2 /\ Emit("Save") /\ UNCHANGED focused         \* row 1 is oneself
    /\ UNCHANGED <<focusBody, button, ready, field, due, dueSet, priority, stopped>>

\* A form's first button submits it; a prompt's opens a form or deletes.
Pressing(b) == CASE IsForm /\ b = 1          -> {"SubmitForm"}
                 [] form = "prompt" /\ b = 1 -> {"Cancel", "Save"}
                 [] OTHER                    -> {"Cancel"}

ButtonKey ==
    /\ Pressed /\ ~focusBody
    /\ \/ /\ button' = (button % Cardinality(Buttons)) + 1
          /\ UNCHANGED <<focusBody, focused, field, ready, inbox, stopped>>
       \/ /\ button = 1 /\ Captures        \* before the first button: the form
          /\ focusBody' = TRUE /\ Reset /\ ready' = TRUE
          /\ UNCHANGED <<button, inbox>>
       \/ /\ ~(button = 1 /\ Captures)
          /\ button' = IF button = 1 THEN 2 ELSE 1
          /\ UNCHANGED <<focusBody, focused, field, ready, inbox, stopped>>
       \/ /\ \E a \in Pressing(button) : Emit(a)
          /\ UNCHANGED <<focusBody, button, focused, field, ready, stopped>>
    /\ UNCHANGED <<due, dueSet, priority>>

\* A click hits any button, wherever the focus is.
Click == /\ Pressed
         /\ \E b \in Buttons : \E a \in Pressing(b) : Emit(a)
         /\ UNCHANGED <<focusBody, button, bodyVars, stopped>>

-----------------------------------------------------------------------------
(* Delivery                                                                 *)

Delivered(a) == /\ open /\ inbox # <<>> /\ Head(inbox) = a
                /\ UNCHANGED <<form, vimming, focusBody, button, due, dueSet, priority, presses>>

DeliverStart ==
    /\ Delivered("StartCapture") /\ inbox' = Tail(inbox)
    /\ IF IsForm THEN Reset /\ ready' = TRUE ELSE UNCHANGED <<focused, field, ready, stopped>>
    /\ UNCHANGED <<waiting, open>>

DeliverStop ==
    /\ Delivered("StopCapture") /\ inbox' = Tail(inbox)
    /\ field' = [g \in 1..3 |-> Blurred(field[g])] /\ stopped' = TRUE
    /\ UNCHANGED <<focused, ready, waiting, open>>

\* The values are checked; a text of blanks is trimmed away.
Valid == CASE form \in {"list", "share", "unlock", "todo"} -> field[1].len > 0
           [] form = "login"    -> field[1].len > 0 /\ field[2].len > 0
           [] form = "register" -> /\ field[1].len > 0 /\ field[2].len > 0
                                   /\ field[2].len = field[3].len
           [] OTHER -> FALSE

Submission == CASE form = "register" -> "Register"
                [] form = "login"    -> "Login"
                [] form = "unlock"   -> "Unlock"
                [] form = "share"    -> "ShareList"
                [] OTHER             -> "Save"

DeliverSubmit ==
    /\ Delivered("SubmitForm")
    /\ \/ /\ Valid
          /\ inbox' = Append(Tail(inbox), Submission) /\ ready' = (form # "unlock")
       \/ /\ ~Valid \/ form # "unlock"
          /\ inbox' = Tail(inbox) /\ UNCHANGED ready
    /\ UNCHANGED <<focused, field, waiting, open, stopped>>

\* The application spawns the task, or, without a local account, refuses the unlock.
Spawns(a, t) ==
    /\ Delivered(a) /\ inbox' = Tail(inbox)
    /\ waiting' = [waiting EXCEPT ![t] = @ + 1]
    /\ UNCHANGED <<focused, ready, field, open, stopped>>

DeliverRequest == \/ Spawns("Register", "register") \/ Spawns("Login", "login")
                  \/ Spawns("Unlock", "login")      \/ Spawns("ShareList", "share")

Replies(a, sent) ==
    /\ Delivered(a) /\ inbox' = Append(Tail(inbox), sent)
    /\ UNCHANGED <<focused, ready, field, waiting, open, stopped>>

DeliverSave == Replies("Save", "CloseModal") \/ Replies("AddResolvedMember", "CloseModal")
DeliverNoAccount == Replies("Unlock", "Error")

DeliverError == /\ Delivered("Error") /\ inbox' = Tail(inbox)
                /\ UNCHANGED <<focused, ready, field, waiting, open, stopped>>

DeliverClose == /\ Delivered("CloseModal") \/ Delivered("Cancel")
                /\ open' = FALSE /\ inbox' = <<>>
                /\ UNCHANGED <<focused, ready, field, waiting, stopped>>

\* What a task may send next, and where it stands then.
Sends(t) ==
    CASE t = "register"   -> {<<"Error", "done">>, <<"StopCapture", "registered">>}
      [] t = "registered" -> {<<"Login", "done">>}
      [] t = "login"      -> {<<"Error", "done">>, <<"Error", "unsaved">>,
                              <<"StopCapture", "entered">>}
      [] t = "unsaved"    -> {<<"StopCapture", "entered">>}
      [] t = "entered"    -> {<<"CloseModal", "done">>}
      [] t = "share"      -> {<<"Error", "done">>, <<"AddResolvedMember", "done">>}

TaskSend ==
    /\ open
    /\ \E t \in Tasks : \E s \in Sends(t) :
          /\ waiting[t] > 0
          /\ Emit(s[1])
          /\ waiting' = [u \in Tasks |-> waiting[u] - (IF u = t THEN 1 ELSE 0)
                                                  + (IF u = s[2] THEN 1 ELSE 0)]
    /\ UNCHANGED <<form, vimming, focusBody, button, bodyVars, open, stopped, presses>>

FormsNext == \/ \E step \in {1, -1} : FieldKey(step)
        \/ EnterNext \/ FocusButtons \/ EditKey \/ Paste \/ EscKey
        \/ CalendarKey \/ PriorityKey \/ MemberKey \/ ButtonKey \/ Click
        \/ DeliverStart \/ DeliverStop \/ DeliverSubmit \/ DeliverRequest \/ DeliverSave
        \/ DeliverNoAccount \/ DeliverError \/ DeliverClose
        \/ TaskSend

FormsSpec == FormsInit /\ [][FormsNext]_formVars

-----------------------------------------------------------------------------
Starting == \E k \in 1..Len(inbox) : inbox[k] = "StartCapture"

\* "Exactly one field captures keystrokes at a time": never two, never another
\* than the focused one, and the focused text field does once capture has begun
\* and while the focus is in the form (register.rs, login.rs, todo_form.rs
\* set_focus, reset and update).  One exception: the StopCapture a task sends on
\* success (app.rs:676, app.rs:1225) is delivered to the form that is open, and
\* leaves it with none until a field takes the focus again.
OneCapture ==
    /\ \A f \in 1..3 : field[f].cap => f = focused
    /\ open /\ focusBody /\ OnText /\ ~Starting /\ ~stopped => field[focused].cap

\* A form keeps each field's value while the focus moves, while capture starts
\* and stops, and through a failed submission: only a key or a paste into the
\* focused field changes a text (text_input.rs focus and blur).
ValuesSurvive ==
    [][ (\E f \in 1..3 : field'[f].len # field[f].len) => EditKey \/ Paste ]_formVars
=============================================================================
