------------------------------- MODULE Sessions -------------------------------
(***************************************************************************)
(* Accounts, logins and trusted devices: the login task of the application *)
(* and the server handlers it talks to.  A conversation is one login task: *)
(* a password login (after a registration or on its own) or a device       *)
(* login.  It mints at most one session and enrols at most one device, so  *)
(* its number serves as login_id, bearer token and device id.  The server  *)
(* half of a conversation is several statements and outlives a client that *)
(* gave up or exited.                                                      *)
(*                                                                         *)
(* Passwords, OPAQUE messages and sealed keys are abstracted to the user   *)
(* they belong to: a password opens what its user sealed and nothing else. *)
(* Time is abstracted to the age of each row.                              *)
(***************************************************************************)
EXTENDS Naturals

CONSTANTS Clients,       (* machines, each with one data directory           *)
          Users,         (* usernames; a username determines its member id   *)
          NoUser,        (* no account, no keys                              *)
          MaxLogins,     (* bound: conversations of all machines             *)
          MaxFaults,     (* bound: lost calls, failed writes and crashes     *)
          DeviceUnlock   (* config: device_unlock.enabled, with a recipient  *)

ASSUME SessionsAssumption ==
    /\ Clients # {}
    /\ NoUser \notin Users
    /\ MaxLogins \in Nat
    /\ MaxFaults \in Nat
    /\ DeviceUnlock \in BOOLEAN

Logins == 1..MaxLogins

VARIABLES
    users,      \* usernames with a row in the server's users table
    stash,      \* stash[i]: age of login i's row in login_cache
    session,    \* session[i]: age of the sessions row minted by login i
    trusted,    \* trusted[i]: the device enrolled by login i
    asked,      \* asked[i]: how far the server got with login i
    task,       \* task[i]: where the client's task of login i stands
    about,      \* about[i]: the machine, user and kind of login i
    online,     \* online[i]: the task holds the token of its session
    account,    \* account[c]: user of the account row on disk
    cache,      \* cache[c]: device id of the sealed cache in that row, 0: NULL
    app,        \* app[c]: the process: its account, keys and token in memory
    outlived,   \* outlived[i]: history, why nobody may log session i out
    overtaken,  \* history, device logins whose check a revocation overtook
    faults      \* faults used up

serverVars == <<users, stash, session, trusted, asked>>
diskVars   == <<account, cache>>
ghostVars  == <<outlived, overtaken>>
vars == <<serverVars, task, about, online, diskVars, app, ghostVars, faults>>

AskedStates == {"no", "stashed", "finish", "consumed", "checked", "minted", "refused"}
TaskStates  == {"free", "registering", "registered", "starting", "finishing",
                "saving", "enrolling", "caching", "delivering", "ended"}
Reasons     == {"none", "lost", "cut", "replaced"}

Nobody == [by |-> CHOOSE c \in Clients : TRUE, user |-> NoUser, row |-> NoUser,
           device |-> 0]
Closed == [open |-> FALSE, account |-> NoUser, user |-> NoUser, token |-> 0,
           tried |-> FALSE]

TypeOK ==
    /\ users \subseteq Users
    /\ stash \in [Logins -> {"none", "fresh", "expired"}]
    /\ session \in [Logins -> {"none", "fresh", "old", "expired"}]
    /\ trusted \in [Logins -> {"none", "active", "revoked"}]
    /\ asked \in [Logins -> AskedStates]
    /\ task \in [Logins -> TaskStates]
    /\ about \in [Logins -> [by : Clients, user : Users \cup {NoUser},
                             row : Users \cup {NoUser}, device : 0..MaxLogins]]
    /\ online \in [Logins -> BOOLEAN]
    /\ account \in [Clients -> Users \cup {NoUser}]
    /\ cache \in [Clients -> 0..MaxLogins]
    /\ \A c \in Clients : account[c] = NoUser => cache[c] = 0   \* one row
    /\ app \in [Clients -> [open : BOOLEAN, account : Users \cup {NoUser},
                            user : Users \cup {NoUser}, token : 0..MaxLogins,
                            tried : BOOLEAN]]
    /\ outlived \in [Logins -> Reasons]
    /\ overtaken \subseteq Logins
    /\ faults \in 0..MaxFaults

Init ==
    /\ users = {}
    /\ stash = [i \in Logins |-> "none"]
    /\ session = [i \in Logins |-> "none"]
    /\ trusted = [i \in Logins |-> "none"]
    /\ asked = [i \in Logins |-> "no"]
    /\ task = [i \in Logins |-> "free"]
    /\ about = [i \in Logins |-> Nobody]
    /\ online = [i \in Logins |-> FALSE]
    /\ account = [c \in Clients |-> NoUser]
    /\ cache = [c \in Clients |-> 0]
    /\ app = [c \in Clients |-> Closed]
    /\ outlived = [i \in Logins |-> "none"]
    /\ overtaken = {}
    /\ faults = 0

Client(i) == about[i].by
Owner(i)  == about[i].user
ByDevice(i) == about[i].device # 0

To(i, t) == task' = [task EXCEPT ![i] = t]
Reach(i, a) == asked' = [asked EXCEPT ![i] = a]
Fault == faults < MaxFaults /\ faults' = faults + 1

\* Login numbers are taken in order.
Fresh(i) == task[i] = "free" /\ \A j \in 1..(i - 1) : task[j] # "free"

-----------------------------------------------------------------------------
(* Starting a task                                                         *)

Open(i, c, u, d, t) ==
    /\ Fresh(i)
    /\ app[c].open
    /\ about' = [about EXCEPT ![i] = [by |-> c, user |-> u, row |-> account[c],
                                      device |-> d]]
    /\ To(i, t)
    /\ UNCHANGED <<serverVars, online, diskVars, ghostVars, faults>>

\* The login or unlock form: the task reads the account row, as the offline
\* copy to fall back on, and starts the handshake.  The form may be reached,
\* and submitted, while an earlier task is still running.
Login(i, c, u) == Open(i, c, u, 0, "starting") /\ UNCHANGED app

\* The register form.
Register(i, c, u) == Open(i, c, u, 0, "registering") /\ UNCHANGED app

\* First tick of a process that found an account and a device cache: once per
\* process, the cache is opened with the local identity key.
UnlockByDevice(i, c) ==
    /\ DeviceUnlock
    /\ cache[c] # 0
    /\ app[c].account # NoUser /\ app[c].user = NoUser /\ ~app[c].tried
    /\ app' = [app EXCEPT ![c].tried = TRUE]
    /\ Open(i, c, Owner(cache[c]), cache[c], "starting")

-----------------------------------------------------------------------------
(* Registration                                                            *)

\* register/finish: one INSERT; a username that is taken is an error.
CreateUser(i) ==
    /\ task[i] = "registering"
    /\ users' = users \cup {Owner(i)}
    /\ To(i, IF Owner(i) \in users THEN "ended" ELSE "registered")
    /\ UNCHANGED <<stash, session, trusted, asked, about, online, diskVars, app,
                   ghostVars, faults>>

CreateUserLost(i) ==
    /\ task[i] = "registering"
    /\ Fault
    /\ users' \in {users, users \cup {Owner(i)}}
    /\ To(i, "ended")
    /\ UNCHANGED <<stash, session, trusted, asked, about, online, diskVars, app,
                   ghostVars>>

\* INSERT OR REPLACE of the singleton row: its device columns become NULL.
SaveAccount(c, u) ==
    /\ account' = [account EXCEPT ![c] = u]
    /\ cache' = [cache EXCEPT ![c] = 0]

\* The account is saved, and a password login follows.
SaveRegistered(i) ==
    /\ task[i] = "registered"
    /\ SaveAccount(Client(i), Owner(i))
    /\ about' = [about EXCEPT ![i].row = Owner(i)]
    /\ To(i, "starting")
    /\ UNCHANGED <<serverVars, online, app, ghostVars, faults>>

-----------------------------------------------------------------------------
(* The server's half of a login                                            *)

Unanswered(i) == asked[i] = "no" /\ task[i] \notin {"free", "registering", "registered"}

\* One INSERT: the state of the handshake, or the challenge, for a minute.
Stash(i) ==
    /\ stash' = [stash EXCEPT ![i] = "fresh"]
    /\ Reach(i, "stashed")
    /\ UNCHANGED <<users, session, trusted, task, about, online, diskVars, app,
                   ghostVars, faults>>

\* login/start: an unknown user gets a row too, but one that no finish can use.
LoginStart(i) == Unanswered(i) /\ ~ByDevice(i) /\ Stash(i)

\* device-login/start: an unknown or revoked device gets no challenge.
DeviceLoginStart(i) ==
    /\ Unanswered(i) /\ ByDevice(i)
    /\ \/ trusted[about[i].device] = "active" /\ Stash(i)
       \/ /\ trusted[about[i].device] # "active"
          /\ Reach(i, "refused")
          /\ UNCHANGED <<users, stash, session, trusted, task, about, online,
                         diskVars, app, ghostVars, faults>>

\* login/finish, first transaction: select the row if unexpired, delete it.
Consume(i) ==
    /\ asked[i] = "finish"
    /\ Reach(i, IF stash[i] = "fresh" THEN "consumed" ELSE "refused")
    /\ stash' = [stash EXCEPT ![i] = "none"]
    /\ UNCHANGED <<users, session, trusted, task, about, online, diskVars, app,
                   ghostVars, faults>>

\* device-login/finish: the device must still be enrolled and not revoked.
CheckDevice(i) ==
    /\ asked[i] = "consumed" /\ ByDevice(i)
    /\ Reach(i, IF trusted[about[i].device] = "active" THEN "checked" ELSE "refused")
    /\ UNCHANGED <<users, stash, session, trusted, task, about, online, diskVars,
                   app, ghostVars, faults>>

\* create_session, the last statement of both finishes: a row that carries the
\* device, and is good for thirty days.
CreateSession(i) ==
    /\ Reach(i, "minted")
    /\ session' = [session EXCEPT ![i] = "fresh"]
    /\ UNCHANGED <<users, stash, trusted, task, about, online, diskVars, app,
                   ghostVars, faults>>

\* login/finish of a password has nothing left to check but the handshake.
MintByPassword(i) == asked[i] = "consumed" /\ ~ByDevice(i) /\ CreateSession(i)

MintByDevice(i) == asked[i] = "checked" /\ CreateSession(i)

-----------------------------------------------------------------------------
(* The client's half                                                       *)

\* The start's answer arrived and proves that the password is the user's (an
\* unknown user's does not): send the finish.
SendFinish(i) ==
    /\ task[i] = "starting"
    /\ asked[i] = "stashed"
    /\ Owner(i) \in users
    /\ To(i, "finishing")
    /\ Reach(i, "finish")
    /\ UNCHANGED <<users, stash, session, trusted, about, online, diskVars, app,
                   ghostVars, faults>>

Answered(i) ==
    /\ task[i] = "finishing"
    /\ asked[i] = "minted"
    /\ online' = [online EXCEPT ![i] = TRUE]
    /\ To(i, IF ByDevice(i) THEN "delivering" ELSE "saving")
    /\ UNCHANGED <<serverVars, about, diskVars, app, ghostVars, faults>>

\* The account row the task read, if the password opens it.
LocalUnlock(i) == ~ByDevice(i) /\ about[i].row = Owner(i)

\* What a login does when the server said no or nothing: the keys come from the
\* device cache that was opened first, or from the account row.
Offline(i) ==
    To(i, IF ByDevice(i) \/ LocalUnlock(i) THEN "delivering" ELSE "ended")

\* Mutant of Refused: the fallback is missing where the finish is refused.
RefusedAtStart(i) ==
    /\ task[i] = "starting"
    /\ \/ asked[i] = "refused"
       \/ asked[i] = "stashed" /\ Owner(i) \notin users
    /\ Offline(i)
    /\ UNCHANGED <<serverVars, about, online, diskVars, app, ghostVars, faults>>

Refused(i) ==
    /\ task[i] \in {"starting", "finishing"}
    /\ \/ asked[i] = "refused"
       \/ asked[i] = "stashed" /\ Owner(i) \notin users
    /\ Offline(i)
    /\ UNCHANGED <<serverVars, about, online, diskVars, app, ghostVars, faults>>

\* The request or the answer is lost; the server's half may go on.
Lost(i) ==
    /\ task[i] \in {"starting", "finishing"}
    /\ Fault
    /\ Offline(i)
    /\ outlived' = [outlived EXCEPT ![i] = "lost"]
    /\ UNCHANGED <<serverVars, about, online, diskVars, app, overtaken>>

\* After an online password login: with no account row, one is written (a
\* failed write is reported and ignored); then the device is enrolled if that
\* is configured and no cache is found.
Save(i) ==
    /\ task[i] = "saving"
    /\ \/ about[i].row = NoUser
          /\ SaveAccount(Client(i), Owner(i)) /\ UNCHANGED faults
       \/ about[i].row = NoUser /\ Fault /\ UNCHANGED diskVars
       \/ about[i].row # NoUser /\ UNCHANGED <<diskVars, faults>>
    /\ To(i, IF DeviceUnlock /\ cache'[Client(i)] = 0 THEN "enrolling"
                                                      ELSE "delivering")
    /\ UNCHANGED <<serverVars, about, online, app, ghostVars>>

\* A password session minted minutes ago: all that may enrol or revoke.
StepUp(i) == session[i] = "fresh" /\ ~ByDevice(i)

\* POST auth/devices: needs a live password session, minted minutes ago.
Enroll(i) ==
    /\ task[i] = "enrolling"
    /\ IF StepUp(i)
       THEN trusted' = [trusted EXCEPT ![i] = "active"] /\ To(i, "caching")
       ELSE UNCHANGED trusted /\ To(i, "delivering")
    /\ UNCHANGED <<users, stash, session, asked, about, online, diskVars, app,
                   ghostVars, faults>>

\* Mutant of EnrollLost: the blob is kept although the server never answered.
EnrollLostCaching(i) ==
    /\ task[i] = "enrolling"
    /\ Fault
    /\ \/ UNCHANGED trusted
       \/ StepUp(i) /\ trusted' = [trusted EXCEPT ![i] = "active"]
    /\ To(i, "caching")
    /\ UNCHANGED <<users, stash, session, asked, about, online, diskVars, app,
                   ghostVars>>

EnrollLost(i) ==
    /\ task[i] = "enrolling"
    /\ Fault
    /\ \/ UNCHANGED trusted
       \/ StepUp(i) /\ trusted' = [trusted EXCEPT ![i] = "active"]
    /\ To(i, "delivering")
    /\ UNCHANGED <<users, stash, session, asked, about, online, diskVars, app,
                   ghostVars>>

\* Mutant of SaveDeviceCache: the cache is inserted without an account.
SaveDeviceCacheAlways(i) ==
    /\ task[i] = "caching"
    /\ cache' = [cache EXCEPT ![Client(i)] = i]
    /\ To(i, "delivering")
    /\ UNCHANGED <<serverVars, about, online, account, app, ghostVars, faults>>

\* UPDATE account: without the row nothing is stored and nobody is told.
SaveDeviceCache(i) ==
    /\ task[i] = "caching"
    /\ cache' = [cache EXCEPT ![Client(i)] =
                    IF account[Client(i)] # NoUser THEN i ELSE @]
    /\ To(i, "delivering")
    /\ UNCHANGED <<serverVars, about, online, account, app, ghostVars, faults>>

\* Action::Keys: the keys replace the ones in memory; an application that knew
\* no account looks for the row again.
Deliver(i) ==
    LET c    == Client(i)
        keys == [app[c] EXCEPT !.user = Owner(i),
                               !.token = IF online[i] THEN i ELSE 0,
                               !.account = IF @ = NoUser THEN account[c] ELSE @]
    IN
    /\ task[i] = "delivering"
    /\ app' = [app EXCEPT ![c] = keys]
    /\ outlived' = [j \in Logins |->
                      IF j = app[c].token THEN "replaced" ELSE outlived[j]]
    /\ To(i, "ended")
    /\ UNCHANGED <<serverVars, about, online, diskVars, overtaken, faults>>

-----------------------------------------------------------------------------
(* The process                                                             *)

Launch(c) ==
    /\ ~app[c].open
    /\ app' = [app EXCEPT ![c] = [Closed EXCEPT !.open = TRUE, !.account = account[c]]]
    /\ UNCHANGED <<serverVars, task, about, online, diskVars, ghostVars, faults>>

Running(c) == {i \in Logins : Client(i) = c /\ task[i] \notin {"free", "ended"}}

\* The tasks die with the process, their requests do not.
Die(c) ==
    /\ app' = [app EXCEPT ![c] = Closed]
    /\ task' = [i \in Logins |-> IF i \in Running(c) THEN "ended" ELSE task[i]]

\* Mutant of Quit: no logout.
QuitSilently(c) ==
    /\ app[c].open
    /\ Die(c)
    /\ outlived' = [i \in Logins |-> IF i \in Running(c) THEN "cut" ELSE outlived[i]]
    /\ UNCHANGED <<serverVars, about, online, diskVars, overtaken, faults>>

\* The quit key: the session of the keys in memory is logged out first.
Quit(c) ==
    /\ app[c].open
    /\ Die(c)
    /\ session' = [i \in Logins |-> IF i = app[c].token THEN "none" ELSE session[i]]
    /\ outlived' = [i \in Logins |-> IF i \in Running(c) THEN "cut" ELSE outlived[i]]
    /\ UNCHANGED <<users, stash, trusted, asked, about, online, diskVars, overtaken,
                   faults>>

\* The logout is best effort, and a crash sends none.
Crash(c) ==
    /\ app[c].open
    /\ Fault
    /\ Die(c)
    /\ outlived' = [i \in Logins |->
                      IF i \in Running(c) \cup {app[c].token} THEN "cut" ELSE outlived[i]]
    /\ UNCHANGED <<serverVars, about, online, diskVars, overtaken>>

-----------------------------------------------------------------------------
(* Time and the rest of the server                                         *)

\* A minute ends a login's row; five minutes a session's step-up; thirty days
\* the session.
Age(i) ==
    /\ \/ stash[i] = "fresh" /\ stash' = [stash EXCEPT ![i] = "expired"]
          /\ UNCHANGED session
       \/ session[i] \in {"fresh", "old"}
          /\ session' = [session EXCEPT ![i] = IF @ = "fresh" THEN "old" ELSE "expired"]
          /\ UNCHANGED stash
    /\ UNCHANGED <<users, trusted, asked, task, about, online, diskVars, app,
                   ghostVars, faults>>

\* DbWorker's sweep.
Cleanup ==
    /\ session' = [i \in Logins |-> IF session[i] = "expired" THEN "none" ELSE session[i]]
    /\ stash' = [i \in Logins |-> IF stash[i] = "expired" THEN "none" ELSE stash[i]]
    /\ UNCHANGED <<users, trusted, asked, task, about, online, diskVars, app,
                   ghostVars, faults>>

\* Mutant of Revoke: the device's sessions stay.
RevokeKeyOnly(d) ==
    /\ trusted[d] = "active"
    /\ \E i \in Logins : StepUp(i) /\ Owner(i) = Owner(d)
    /\ trusted' = [trusted EXCEPT ![d] = "revoked"]
    /\ overtaken' = overtaken \cup
                    {i \in Logins : about[i].device = d /\ asked[i] = "checked"}
    /\ UNCHANGED <<users, stash, session, asked, task, about, online, diskVars, app,
                   outlived, faults>>

\* DELETE auth/devices, by the owner on any machine with a recent password
\* login: revoke the key and delete the sessions it minted, in one transaction.
Revoke(d) ==
    /\ trusted[d] = "active"
    /\ \E i \in Logins : StepUp(i) /\ Owner(i) = Owner(d)
    /\ trusted' = [trusted EXCEPT ![d] = "revoked"]
    /\ session' = [i \in Logins |->
                     IF about[i].device = d THEN "none" ELSE session[i]]
    /\ overtaken' = overtaken \cup
                    {i \in Logins : about[i].device = d /\ asked[i] = "checked"}
    /\ UNCHANGED <<users, stash, asked, task, about, online, diskVars, app, outlived,
                   faults>>

-----------------------------------------------------------------------------
ServerNext(i) ==
    \/ LoginStart(i) \/ DeviceLoginStart(i) \/ Consume(i) \/ CheckDevice(i)
    \/ MintByPassword(i) \/ MintByDevice(i)

TaskNext(i) ==
    \/ CreateUser(i) \/ CreateUserLost(i) \/ SaveRegistered(i)
    \/ SendFinish(i) \/ Answered(i) \/ Refused(i) \/ Lost(i)
    \/ Save(i) \/ Enroll(i) \/ EnrollLost(i) \/ SaveDeviceCache(i) \/ Deliver(i)

Next ==
    \/ \E i \in Logins, c \in Clients :
         \/ UnlockByDevice(i, c)
         \/ \E u \in Users : Login(i, c, u) \/ Register(i, c, u)
    \/ \E i \in Logins : ServerNext(i) \/ TaskNext(i) \/ Age(i) \/ Revoke(i)
    \/ \E c \in Clients : Launch(c) \/ Quit(c) \/ Crash(c)
    \/ Cleanup

Spec == Init /\ [][Next]_vars

\* The steps of a task that need no fault.
TaskSteps(i) ==
    \/ CreateUser(i) \/ SaveRegistered(i) \/ SendFinish(i) \/ Answered(i)
    \/ Refused(i) \/ Save(i) \/ Enroll(i) \/ SaveDeviceCache(i) \/ Deliver(i)

\* Tokio keeps polling tasks and handlers, time passes, and DbWorker's interval
\* keeps ticking.
Fairness ==
    /\ \A i \in Logins : /\ WF_vars(ServerNext(i))
                         /\ WF_vars(TaskSteps(i))
                         /\ WF_vars(Age(i))
    /\ WF_vars(Cleanup)

FairSpec == Spec /\ Fairness

-----------------------------------------------------------------------------
(* Properties                                                              *)

\* A machine only keeps a device cache that the server enrolled: whatever is
\* lost or crashes, the enrolment is answered before save_device_cache, so a
\* cached device id is never one the server does not know.
CachedDeviceIsEnrolled ==
    \A c \in Clients : cache[c] # 0 => trusted[cache[c]] # "none"

\* revoke_trusted_device_key: "a lost/compromised device loses access
\* immediately".  A revoked device has no session but one whose finish had read
\* the key before the revocation and inserted the row after it.
RevokedDeviceLocked ==
    \A i \in Logins :
        session[i] # "none" /\ ByDevice(i) /\ trusted[about[i].device] = "revoked"
            => i \in overtaken

\* "Best-effort server logout on exit": a session outlives the process it was
\* minted for only if its own call or the process was cut short, or if a second
\* login of the same process took its place (logout revokes one token).
SessionEndsWithProcess ==
    \A i \in Logins :
        session[i] # "none" /\ task[i] = "ended" /\ app[Client(i)].token # i
            => outlived[i] # "none"

\* Whatever is lost, a login task comes to an end and its form gets an answer.
LoginEnds ==
    \A i \in Logins : task[i] # "free" ~> task[i] = "ended"
=============================================================================
