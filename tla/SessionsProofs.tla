----------------------------- MODULE SessionsProofs -----------------------------
(***************************************************************************)
(* Theorems about Sessions, for any number of machines, users, logins and  *)
(* faults, with and without device unlock.                                 *)
(***************************************************************************)
EXTENDS Sessions, TLAPS

\* What TypeOK says of one entry of about and of app.
AboutType == [by : Clients, user : Users \cup {NoUser}, row : Users \cup {NoUser},
              device : 0..MaxLogins]
AppType == [open : BOOLEAN, account : Users \cup {NoUser},
            user : Users \cup {NoUser}, token : 0..MaxLogins, tried : BOOLEAN]

\* A task is about a user, and a cached device was enrolled by a task.
Named ==
    /\ \A i \in Logins : task[i] # "free" => Owner(i) \in Users
    /\ \A c \in Clients : cache[c] # 0 => task[cache[c]] # "free"

\* The server has not been asked to finish login i, so it minted no session.
Unsent(i) == asked[i] \in {"no", "stashed", "refused"}

\* No finish is sent before the task has the start's answer, and a session is
\* the last thing a finish makes.
Quiet ==
    \A i \in Logins :
        /\ task[i] \in {"free", "registering", "registered", "starting"} => Unsent(i)
        /\ session[i] # "none" => asked[i] = "minted"

\* Tasks run in a process, and only a process holds a token.
Attended ==
    /\ \A i \in Logins : task[i] \notin {"free", "ended"} => app[Client(i)].open
    /\ \A c \in Clients : ~app[c].open => app[c].token = 0

\* Why login i may leave a session behind, or that it leaves none.
Written(i) == outlived[i] # "none" \/ Unsent(i)

\* A task past its finish holds the token, or the server never minted one, or
\* history says why nobody holds it; one that ended left the token with its
\* process, and with the token goes the session.
Accounted ==
    \A i \in Logins :
        /\ task[i] \in {"saving", "enrolling", "caching", "delivering"}
              => Written(i) \/ (online[i] /\ asked[i] = "minted")
        /\ task[i] = "ended"
              => \/ Written(i)
                 \/ /\ asked[i] = "minted"
                    /\ \/ session[i] = "none"
                       \/ app[Client(i)].token = i

\* A device is enrolled before its cache is written.
Enrolled ==
    /\ CachedDeviceIsEnrolled
    /\ \A i \in Logins : task[i] = "caching" => trusted[i] # "none"

\* A device login that was checked, like one that was answered, either had its
\* revocation still to come or was overtaken by it.
Locked ==
    \A i \in Logins :
        /\ session[i] # "none" \/ asked[i] = "checked"
        /\ ByDevice(i)
        /\ trusted[about[i].device] = "revoked"
        => i \in overtaken

SessionInv == TypeOK /\ Named /\ Quiet /\ Attended /\ Accounted /\ Enrolled /\ Locked

-----------------------------------------------------------------------------
\* UnlockByDevice touches one flag of the process.
LEMMA Tried ==
  ASSUME NEW r \in AppType
  PROVE  LET q == [r EXCEPT !.tried = TRUE]
         IN  q \in AppType /\ q.open = r.open /\ q.token = r.token
  BY DEF AppType

\* Deliver leaves a well-formed process.
LEMMA Delivered ==
  ASSUME NEW r \in AppType, NEW t \in 0..MaxLogins,
         NEW u \in Users \cup {NoUser}, NEW a \in Users \cup {NoUser}
  PROVE  [r EXCEPT !.user = u, !.token = t, !.account = IF @ = NoUser THEN a ELSE @]
            \in AppType
  BY DEF AppType

\* SaveRegistered leaves a well-formed task.
LEMMA Recorded ==
  ASSUME NEW r \in AboutType, NEW u \in Users \cup {NoUser}
  PROVE  [r EXCEPT !.row = u] \in AboutType
  BY DEF AboutType

\* A step keeps the types.  Who a task is about matters where its user becomes
\* an account or a row of users.
LEMMA TypeStep ==
  ASSUME TypeOK, Named, [Next]_vars
  PROVE  TypeOK'
<1> USE SessionsAssumption DEF TypeOK, Nobody, AskedStates, TaskStates, Reasons, Logins,
   serverVars, diskVars, ghostVars,
        To, Reach, Client, Owner, ByDevice
<1>t. /\ users \subseteq Users
      /\ stash \in [Logins -> {"none", "fresh", "expired"}]
      /\ session \in [Logins -> {"none", "fresh", "old", "expired"}]
      /\ trusted \in [Logins -> {"none", "active", "revoked"}]
      /\ asked \in [Logins -> AskedStates]
      /\ task \in [Logins -> TaskStates]
      /\ about \in [Logins -> AboutType]
      /\ \A j \in Logins : about[j].by \in Clients
      /\ \A j \in Logins : about[j].user \in Users \cup {NoUser}
      /\ online \in [Logins -> BOOLEAN]
      /\ account \in [Clients -> Users \cup {NoUser}]
      /\ cache \in [Clients -> 0..MaxLogins]
      /\ \A d \in Clients : cache[d] # 0 => cache[d] \in Logins
      /\ \A d \in Clients : account[d] = NoUser => cache[d] = 0
      /\ app \in [Clients -> AppType]
      /\ outlived \in [Logins -> Reasons]
      /\ faults \in 0..MaxFaults
      /\ 0 \in 0..MaxLogins
  BY DEF TypeOK, AboutType, AppType
<1>1. ASSUME NEW i \in Logins, NEW c \in Clients, UnlockByDevice(i, c) PROVE TypeOK'
  <2> HIDE DEF TypeOK, Nobody, AskedStates, TaskStates, Reasons
  <2>1. about' \in [Logins -> AboutType]
    BY <1>t, <1>1 DEF AboutType, UnlockByDevice, Open
  <2>2. task' \in [Logins -> TaskStates]
    BY <1>t, <1>1 DEF UnlockByDevice, Open, AskedStates, TaskStates, Reasons
  <2>3. app[c] \in AppType
    BY <1>t DEF AppType
  <2>4. [app[c] EXCEPT !.tried = TRUE] \in AppType
    BY <1>t, <2>3, Tried
  <2>5. app' = [app EXCEPT ![c] = [app[c] EXCEPT !.tried = TRUE]]
    BY <1>t, <1>1 DEF UnlockByDevice
  <2>6. app' \in [Clients -> AppType]
    BY <1>t, <2>4, <2>5 DEF AppType
  <2> QED
    BY <1>1, <2>1, <2>2, <2>6 DEF AboutType, AppType, UnlockByDevice, Open, TypeOK,
       Nobody, AskedStates, TaskStates, Reasons
<1>2. ASSUME NEW i \in Logins, NEW c \in Clients, NEW u \in Users, Login(i, c, u)
      PROVE TypeOK'
  <2> HIDE DEF TypeOK, Nobody, AskedStates, TaskStates, Reasons
  <2>1. about' \in [Logins -> AboutType]
    BY <1>t, <1>2 DEF AboutType, Open, Login
  <2>2. task' \in [Logins -> TaskStates]
    BY <1>t, <1>2 DEF Open, TaskStates, Login, AskedStates, Reasons
  <2> QED
    BY <1>2, <2>1, <2>2 DEF AboutType, Open, Login, TypeOK, Nobody, AskedStates,
       TaskStates, Reasons
<1>3. ASSUME NEW i \in Logins, NEW c \in Clients, NEW u \in Users, Register(i, c, u)
      PROVE TypeOK'
  <2> HIDE DEF TypeOK, Nobody, AskedStates, TaskStates, Reasons
  <2>1. about' \in [Logins -> AboutType]
    BY <1>t, <1>3 DEF AboutType, Open, Register
  <2>2. task' \in [Logins -> TaskStates]
    BY <1>t, <1>3 DEF Open, TaskStates, Register, AskedStates, Reasons
  <2> QED
    BY <1>3, <2>1, <2>2 DEF AboutType, Open, Register, TypeOK, Nobody, AskedStates,
       TaskStates, Reasons
<1>4. ASSUME NEW i \in Logins, LoginStart(i) PROVE TypeOK'
  BY <1>t, <1>4 DEF LoginStart, Unanswered, Stash
<1>5. ASSUME NEW i \in Logins, DeviceLoginStart(i) PROVE TypeOK'
  <2> HIDE DEF TypeOK, Nobody, AskedStates, TaskStates, Reasons
  <2>1. \/ asked' = [asked EXCEPT ![i] = "stashed"] /\ stash' = [stash EXCEPT ![i] = "fresh"]
        \/ asked' = [asked EXCEPT ![i] = "refused"] /\ stash' = stash
    BY <1>t, <1>5 DEF DeviceLoginStart, Unanswered, Stash
  <2>2. UNCHANGED <<users, session, trusted, task, about, online, diskVars, app, ghostVars, faults>>
    BY <1>t, <1>5 DEF DeviceLoginStart, Unanswered, Stash
  <2>3. asked' \in [Logins -> AskedStates]
    BY <1>t, <2>1 DEF AskedStates, TaskStates, Reasons
  <2>4. stash' \in [Logins -> {"none", "fresh", "expired"}]
    BY <1>t, <2>1
  <2> QED
    BY <2>2, <2>3, <2>4 DEF TypeOK, Nobody, AskedStates, TaskStates, Reasons
<1>6. ASSUME NEW i \in Logins, Consume(i) PROVE TypeOK'
  BY <1>t, <1>6 DEF Consume
<1>7. ASSUME NEW i \in Logins, CheckDevice(i) PROVE TypeOK'
  BY <1>t, <1>7 DEF CheckDevice
<1>8. ASSUME NEW i \in Logins, MintByPassword(i) PROVE TypeOK'
  BY <1>t, <1>8 DEF MintByPassword, CreateSession
<1>9. ASSUME NEW i \in Logins, MintByDevice(i) PROVE TypeOK'
  BY <1>t, <1>9 DEF MintByDevice, CreateSession
<1>10. ASSUME NEW i \in Logins, CreateUser(i) PROVE TypeOK'
  <2> HIDE DEF TypeOK, Nobody, AskedStates, TaskStates, Reasons
  <2>1. users' \subseteq Users
    BY <1>t, <1>10 DEF Named, CreateUser
  <2>2. task' \in [Logins -> TaskStates]
    BY <1>t, <1>10 DEF CreateUser, AskedStates, TaskStates, Reasons
  <2> QED
    BY <1>10, <2>1, <2>2 DEF CreateUser, TypeOK, Nobody, AskedStates, TaskStates, Reasons
<1>11. ASSUME NEW i \in Logins, CreateUserLost(i) PROVE TypeOK'
  <2> HIDE DEF TypeOK, Nobody, AskedStates, TaskStates, Reasons
  <2>1. users' \subseteq Users
    BY <1>t, <1>11 DEF Named, CreateUserLost
  <2>2. task' \in [Logins -> TaskStates]
    BY <1>t, <1>11 DEF CreateUserLost, Fault, AskedStates, TaskStates, Reasons
  <2> QED
    BY <1>11, <2>1, <2>2 DEF CreateUserLost, Fault, TypeOK, Nobody, AskedStates,
       TaskStates, Reasons
<1>12. ASSUME NEW i \in Logins, SaveRegistered(i) PROVE TypeOK'
  <2> HIDE DEF TypeOK, Nobody, AskedStates, TaskStates, Reasons
  <2>1. Client(i) \in Clients /\ Owner(i) \in Users \cup {NoUser}
    BY <1>t
  <2>2. /\ account' = [account EXCEPT ![Client(i)] = Owner(i)]
        /\ cache' = [cache EXCEPT ![Client(i)] = 0]
    BY <1>t, <1>12 DEF SaveRegistered, SaveAccount
  <2>3. account' \in [Clients -> Users \cup {NoUser}] /\ cache' \in [Clients -> 0..MaxLogins]
    BY <1>t, <2>1, <2>2
  <2>4. \A d \in Clients : account'[d] = NoUser => cache'[d] = 0
    BY <1>t, <2>1, <2>2
  <2>5. about[i] \in AboutType /\ about' = [about EXCEPT ![i] = [about[i] EXCEPT !.row = Owner(i)]]
    BY <1>t, <1>12 DEF AboutType, SaveRegistered
  <2>6. about' \in [Logins -> AboutType]
    BY <1>t, <2>1, <2>5, Recorded DEF AboutType
  <2>7. task' \in [Logins -> TaskStates]
    BY <1>t, <1>12 DEF SaveRegistered, SaveAccount, AskedStates, TaskStates, Reasons
  <2> QED
    BY <1>12, <2>3, <2>4, <2>6, <2>7 DEF AboutType, SaveRegistered, TypeOK, Nobody,
       AskedStates, TaskStates, Reasons
<1>13. ASSUME NEW i \in Logins, SendFinish(i) PROVE TypeOK'
  BY <1>t, <1>13 DEF SendFinish
<1>14. ASSUME NEW i \in Logins, Answered(i) PROVE TypeOK'
  BY <1>t, <1>14 DEF Answered
<1>15. ASSUME NEW i \in Logins, Refused(i) PROVE TypeOK'
  BY <1>t, <1>15 DEF Refused, Offline, LocalUnlock
<1>16. ASSUME NEW i \in Logins, Lost(i) PROVE TypeOK'
  BY <1>t, <1>16 DEF Lost, Offline, LocalUnlock, Fault
<1>17. ASSUME NEW i \in Logins, Save(i) PROVE TypeOK'
  <2> HIDE DEF TypeOK, Nobody, AskedStates, TaskStates, Reasons
  <2>1. Client(i) \in Clients /\ Owner(i) \in Users \cup {NoUser} /\ 0 \in 0..MaxLogins
    BY <1>t
  <2>2. \/ /\ account' = [account EXCEPT ![Client(i)] = Owner(i)]
           /\ cache' = [cache EXCEPT ![Client(i)] = 0]
        \/ account' = account /\ cache' = cache
    BY <1>t, <1>17 DEF Save, SaveAccount
  <2>3. account' \in [Clients -> Users \cup {NoUser}]
    BY <1>t, <2>1, <2>2
  <2>4. cache' \in [Clients -> 0..MaxLogins]
    BY <1>t, <2>1, <2>2
  <2>5. \A d \in Clients : account'[d] = NoUser => cache'[d] = 0
    BY <1>t, <2>1, <2>2
  <2>6. \E t \in {"enrolling", "delivering"} : task' = [task EXCEPT ![i] = t]
    BY <1>t, <1>17 DEF Save
  <2>7. task' \in [Logins -> TaskStates]
    BY <1>t, <2>6 DEF AskedStates, TaskStates, Reasons
  <2>8. faults' \in 0..MaxFaults
    BY <1>t, <1>17 DEF Save, Fault
  <2>9. UNCHANGED <<serverVars, about, online, app, ghostVars>>
    BY <1>t, <1>17 DEF Save
  <2> QED
    BY <2>3, <2>4, <2>5, <2>7, <2>8, <2>9 DEF TypeOK, Nobody, AskedStates, TaskStates,
       Reasons
<1>18. ASSUME NEW i \in Logins, Enroll(i) PROVE TypeOK'
  <2> HIDE DEF TypeOK, Nobody, AskedStates, TaskStates, Reasons
  <2>1. \/ trusted' = trusted
        \/ trusted' = [trusted EXCEPT ![i] = "active"]
    BY <1>t, <1>18 DEF Enroll
  <2>2. trusted' \in [Logins -> {"none", "active", "revoked"}]
    BY <1>t, <2>1
  <2>3. \E t \in {"caching", "delivering"} : task' = [task EXCEPT ![i] = t]
    BY <1>t, <1>18 DEF Enroll
  <2>4. task' \in [Logins -> TaskStates]
    BY <1>t, <2>3 DEF TaskStates, AskedStates, Reasons
  <2>5. UNCHANGED <<users, stash, session, asked, about, online, diskVars, app, ghostVars, faults>>
    BY <1>t, <1>18 DEF Enroll
  <2> QED
    BY <2>2, <2>4, <2>5 DEF TypeOK, Nobody, AskedStates, TaskStates, Reasons
<1>19. ASSUME NEW i \in Logins, EnrollLost(i) PROVE TypeOK'
  <2> HIDE DEF TypeOK, Nobody, AskedStates, TaskStates, Reasons
  <2>1. trusted' = trusted \/ trusted' = [trusted EXCEPT ![i] = "active"]
    BY <1>t, <1>19 DEF EnrollLost
  <2>2. trusted' \in [Logins -> {"none", "active", "revoked"}]
    BY <1>t, <2>1
  <2>3. task' = [task EXCEPT ![i] = "delivering"] /\ faults' \in 0..MaxFaults
    BY <1>t, <1>19 DEF EnrollLost, Fault
  <2>4. task' \in [Logins -> TaskStates]
    BY <1>t, <2>3 DEF TaskStates, AskedStates, Reasons
  <2>5. UNCHANGED <<users, stash, session, asked, about, online, diskVars, app, ghostVars>>
    BY <1>t, <1>19 DEF EnrollLost
  <2> QED
    BY <2>2, <2>3, <2>4, <2>5 DEF TypeOK, Nobody, AskedStates, TaskStates, Reasons
<1>20. ASSUME NEW i \in Logins, SaveDeviceCache(i) PROVE TypeOK'
  <2> HIDE DEF TypeOK, Nobody, AskedStates, TaskStates, Reasons
  <2>1. Client(i) \in Clients /\ i \in 0..MaxLogins
    BY <1>t
  <2>2. \/ cache' = [cache EXCEPT ![Client(i)] = i] /\ account[Client(i)] # NoUser
        \/ cache' = [cache EXCEPT ![Client(i)] = cache[Client(i)]]
    BY <1>t, <1>20 DEF SaveDeviceCache
  <2>3. cache' \in [Clients -> 0..MaxLogins]
    BY <1>t, <2>1, <2>2
  <2>4. \A d \in Clients : account[d] = NoUser => cache'[d] = 0
    BY <2>1, <2>2 DEF TypeOK
  <2>5. task' \in [Logins -> TaskStates]
    BY <1>t, <1>20 DEF SaveDeviceCache, AskedStates, TaskStates, Reasons
  <2>6. UNCHANGED <<serverVars, about, online, account, app, ghostVars, faults>>
    BY <1>t, <1>20 DEF SaveDeviceCache
  <2> QED
    BY <2>3, <2>4, <2>5, <2>6 DEF TypeOK, Nobody, AskedStates, TaskStates, Reasons
<1>21. ASSUME NEW i \in Logins, Deliver(i) PROVE TypeOK'
  <2> HIDE DEF TypeOK, Nobody, AskedStates, TaskStates, Reasons
  <2> DEFINE c == Client(i)
  <2>1. c \in Clients /\ app[c] \in AppType
    BY <1>t DEF AppType
  <2> DEFINE new == [app[c] EXCEPT !.user = Owner(i), !.token = IF online[i] THEN i ELSE 0,
                             !.account = IF @ = NoUser THEN account[c] ELSE @]
  <2>2. Owner(i) \in Users \cup {NoUser} /\ account[c] \in Users \cup {NoUser}
        /\ (IF online[i] THEN i ELSE 0) \in 0..MaxLogins
    BY <1>t, <2>1
  <2>3. new \in AppType
    BY <1>t, <2>1, <2>2, Delivered
  <2>4. app' = [app EXCEPT ![c] = new]
    BY <1>t, <1>21 DEF Deliver
  <2>5. app' \in [Clients -> AppType]
    BY <1>t, <2>1, <2>3, <2>4 DEF AppType
  <2>6. task' \in [Logins -> TaskStates] /\ outlived' \in [Logins -> Reasons]
    BY <1>t, <1>21 DEF Deliver, AskedStates, TaskStates, Reasons
  <2> QED
    BY <1>21, <2>5, <2>6 DEF AppType, Deliver, TypeOK, Nobody, AskedStates, TaskStates,
       Reasons
<1>22. ASSUME NEW i \in Logins, Age(i) PROVE TypeOK'
  <2> HIDE DEF TypeOK, Nobody, AskedStates, TaskStates, Reasons
  <2>1. stash' \in [Logins -> {"none", "fresh", "expired"}]
    BY <1>t, <1>22 DEF Age
  <2>2. session' \in [Logins -> {"none", "fresh", "old", "expired"}]
    BY <1>t, <1>22 DEF Age
  <2>3. UNCHANGED <<users, trusted, asked, task, about, online, diskVars, app, ghostVars, faults>>
    BY <1>t, <1>22 DEF Age
  <2> QED
    BY <2>1, <2>2, <2>3 DEF TypeOK, Nobody, AskedStates, TaskStates, Reasons
<1>23. ASSUME NEW i \in Logins, Revoke(i) PROVE TypeOK'
  BY <1>t, <1>23 DEF Revoke, StepUp
<1>24. ASSUME NEW c \in Clients, Launch(c) PROVE TypeOK'
  <2> HIDE DEF TypeOK, Nobody, AskedStates, TaskStates, Reasons
  <2> DEFINE new == [Closed EXCEPT !.open = TRUE, !.account = account[c]]
  <2>1. Closed \in AppType
    BY <1>t DEF AppType, Closed
  <2>2. new \in AppType
    BY <1>t, <2>1 DEF AppType
  <2>3. app' = [app EXCEPT ![c] = new]
    BY <1>t, <1>24 DEF Launch
  <2>4. app' \in [Clients -> AppType]
    BY <1>t, <2>2, <2>3 DEF AppType
  <2> QED
    BY <1>24, <2>4 DEF AppType, Launch, TypeOK, Nobody, AskedStates, TaskStates, Reasons
<1>25. ASSUME NEW c \in Clients, Quit(c) PROVE TypeOK'
  BY <1>t, <1>25 DEF Quit, Die, Running, Closed
<1>26. ASSUME NEW c \in Clients, Crash(c) PROVE TypeOK'
  <2> HIDE DEF TypeOK, Nobody, AskedStates, TaskStates, Reasons
  <2>1. Closed \in AppType
    BY <1>t DEF AppType, Closed
  <2>2. app' \in [Clients -> AppType]
    BY <1>t, <1>26, <2>1 DEF Crash, Die
  <2>3. task' \in [Logins -> TaskStates]
    BY <1>t, <1>26 DEF Crash, Die, TaskStates, AskedStates, Reasons
  <2>4. outlived' \in [Logins -> Reasons] /\ faults' \in 0..MaxFaults
    BY <1>t, <1>26 DEF Crash, Fault, Reasons, AskedStates, TaskStates
  <2>5. UNCHANGED <<serverVars, about, online, diskVars, overtaken>>
    BY <1>t, <1>26 DEF Crash
  <2> QED
    BY <2>2, <2>3, <2>4, <2>5 DEF AppType, TypeOK, Nobody, AskedStates, TaskStates, Reasons
<1>27. CASE Cleanup
  BY <1>t, <1>27 DEF Cleanup
<1>28. CASE UNCHANGED vars
  BY <1>t, <1>28 DEF vars
<1> QED
  BY <1>1, <1>2, <1>3, <1>4, <1>5, <1>6, <1>7, <1>8, <1>9, <1>10, <1>11, <1>12, <1>13,
     <1>14, <1>15, <1>16, <1>17, <1>18, <1>19, <1>20, <1>21, <1>22, <1>23, <1>24, <1>25,
     <1>26, <1>27, <1>28 DEF Next, ServerNext, TaskNext

\* A step keeps Named: a number is about a user from the moment it is taken.
LEMMA NamedStep ==
  ASSUME TypeOK, Named, [Next]_vars
  PROVE  Named'
<1> USE SessionsAssumption DEF Named, Logins, serverVars, diskVars, ghostVars,
        To, Reach, Client, Owner, ByDevice
<1>t. /\ task \in [Logins -> TaskStates]
      /\ about \in [Logins -> AboutType]
      /\ cache \in [Clients -> 0..MaxLogins]
      /\ \A j \in Logins : about[j].by \in Clients
      /\ \A d \in Clients : cache[d] # 0 => cache[d] \in Logins
  BY DEF TypeOK, AboutType, AppType
<1>1. ASSUME NEW i \in Logins, NEW c \in Clients, UnlockByDevice(i, c) PROVE Named'
  <2> HIDE DEF Named
  <2>1. about[cache[c]].user \in Users /\ UNCHANGED cache
    BY <1>1 DEF UnlockByDevice, Open, Named, TypeOK
  <2>2. \A j \in Logins : task'[j] = "free" => j # i /\ task[j] = "free"
    BY <1>t, <1>1 DEF UnlockByDevice, Open
  <2>3. \A j \in Logins : task[j] = "free" => j = i \/ task'[j] = "free"
    BY <1>t, <1>1 DEF UnlockByDevice, Open
  <2>4. \A j \in Logins : about'[j].user = IF j = i THEN about[cache[c]].user ELSE about[j].user
    BY <1>t, <1>1 DEF UnlockByDevice, Open
  <2>5. \A d \in Clients : cache[d] # 0 => cache[d] \in Logins
    BY <1>t
  <2> QED
    BY <1>t, <2>1, <2>2, <2>3, <2>4, <2>5 DEF Named
<1>2. ASSUME NEW i \in Logins, NEW c \in Clients, NEW u \in Users, Login(i, c, u)
      PROVE Named'
  BY <1>t, <1>2 DEF Login, Open, Fresh
<1>3. ASSUME NEW i \in Logins, NEW c \in Clients, NEW u \in Users, Register(i, c, u)
      PROVE Named'
  BY <1>t, <1>3 DEF Register, Open, Fresh
<1>4. ASSUME NEW i \in Logins, LoginStart(i) PROVE Named'
  BY <1>t, <1>4 DEF LoginStart, Unanswered, Stash
<1>5. ASSUME NEW i \in Logins, DeviceLoginStart(i) PROVE Named'
  BY <1>t, <1>5 DEF DeviceLoginStart, Unanswered, Stash
<1>6. ASSUME NEW i \in Logins, Consume(i) PROVE Named'
  BY <1>t, <1>6 DEF Consume
<1>7. ASSUME NEW i \in Logins, CheckDevice(i) PROVE Named'
  BY <1>t, <1>7 DEF CheckDevice
<1>8. ASSUME NEW i \in Logins, MintByPassword(i) PROVE Named'
  BY <1>t, <1>8 DEF MintByPassword, CreateSession
<1>9. ASSUME NEW i \in Logins, MintByDevice(i) PROVE Named'
  BY <1>t, <1>9 DEF MintByDevice, CreateSession
<1>10. ASSUME NEW i \in Logins, CreateUser(i) PROVE Named'
  BY <1>t, <1>10 DEF CreateUser
<1>11. ASSUME NEW i \in Logins, CreateUserLost(i) PROVE Named'
  BY <1>t, <1>11 DEF CreateUserLost, Fault
<1>12. ASSUME NEW i \in Logins, SaveRegistered(i) PROVE Named'
  BY <1>t, <1>12 DEF SaveRegistered, SaveAccount
<1>13. ASSUME NEW i \in Logins, SendFinish(i) PROVE Named'
  BY <1>t, <1>13 DEF SendFinish
<1>14. ASSUME NEW i \in Logins, Answered(i) PROVE Named'
  BY <1>t, <1>14 DEF Answered
<1>15. ASSUME NEW i \in Logins, Refused(i) PROVE Named'
  BY <1>t, <1>15 DEF Refused, Offline, LocalUnlock
<1>16. ASSUME NEW i \in Logins, Lost(i) PROVE Named'
  BY <1>t, <1>16 DEF Lost, Offline, LocalUnlock, Fault
<1>17. ASSUME NEW i \in Logins, Save(i) PROVE Named'
  <2> HIDE DEF Named
  <2>1. \A j \in Logins : task'[j] = "free" <=> task[j] = "free"
    BY <1>17 DEF Save, TypeOK, TaskStates
  <2>2. \A d \in Clients : cache'[d] \in {0, cache[d]}
    BY <1>t, <1>17 DEF Save, SaveAccount
  <2>3. \A d \in Clients : cache[d] # 0 => cache[d] \in Logins
    BY <1>t
  <2>4. UNCHANGED about
    BY <1>t, <1>17 DEF Save
  <2> QED
    BY <1>t, <2>1, <2>2, <2>3, <2>4 DEF Named
<1>18. ASSUME NEW i \in Logins, Enroll(i) PROVE Named'
  <2> HIDE DEF Named
  <2>1. \E t \in {"caching", "delivering"} : task' = [task EXCEPT ![i] = t]
    BY <1>t, <1>18 DEF Enroll
  <2>2. UNCHANGED <<about, cache>> /\ task[i] # "free"
    BY <1>t, <1>18 DEF Enroll
  <2> QED
    BY <1>t, <2>1, <2>2 DEF Named
<1>19. ASSUME NEW i \in Logins, EnrollLost(i) PROVE Named'
  BY <1>t, <1>19 DEF EnrollLost, StepUp, Fault
<1>20. ASSUME NEW i \in Logins, SaveDeviceCache(i) PROVE Named'
  BY <1>t, <1>20 DEF SaveDeviceCache
<1>21. ASSUME NEW i \in Logins, Deliver(i) PROVE Named'
  BY <1>t, <1>21 DEF Deliver
<1>22. ASSUME NEW i \in Logins, Age(i) PROVE Named'
  BY <1>t, <1>22 DEF Age
<1>23. ASSUME NEW i \in Logins, Revoke(i) PROVE Named'
  BY <1>t, <1>23 DEF Revoke, StepUp
<1>24. ASSUME NEW c \in Clients, Launch(c) PROVE Named'
  BY <1>t, <1>24 DEF Launch, Closed
<1>25. ASSUME NEW c \in Clients, Quit(c) PROVE Named'
  BY <1>t, <1>25 DEF Quit, Die, Running, Closed
<1>26. ASSUME NEW c \in Clients, Crash(c) PROVE Named'
  BY <1>t, <1>26 DEF Crash, Die, Running, Closed, Fault
<1>27. CASE Cleanup
  BY <1>t, <1>27 DEF Cleanup
<1>28. CASE UNCHANGED vars
  BY <1>t, <1>28 DEF vars
<1> QED
  BY <1>1, <1>2, <1>3, <1>4, <1>5, <1>6, <1>7, <1>8, <1>9, <1>10, <1>11, <1>12, <1>13,
     <1>14, <1>15, <1>16, <1>17, <1>18, <1>19, <1>20, <1>21, <1>22, <1>23, <1>24, <1>25,
     <1>26, <1>27, <1>28 DEF Next, ServerNext, TaskNext

\* A step keeps Quiet: SendFinish leaves the early states, and only CreateSession
\* makes a session.
LEMMA EarlyStep ==
  ASSUME TypeOK, Quiet, [Next]_vars
  PROVE  Quiet'
<1> USE SessionsAssumption DEF Quiet, Unsent, Logins, serverVars, diskVars, ghostVars,
        To, Reach, Client, Owner, ByDevice
<1>t. /\ task \in [Logins -> TaskStates]
      /\ asked \in [Logins -> AskedStates]
      /\ session \in [Logins -> {"none", "fresh", "old", "expired"}]
  BY DEF TypeOK, AboutType, AppType
<1>1. ASSUME NEW i \in Logins, NEW c \in Clients, UnlockByDevice(i, c) PROVE Quiet'
  BY <1>t, <1>1 DEF UnlockByDevice, Open, Fresh
<1>2. ASSUME NEW i \in Logins, NEW c \in Clients, NEW u \in Users, Login(i, c, u)
      PROVE Quiet'
  BY <1>t, <1>2 DEF Login, Open, Fresh
<1>3. ASSUME NEW i \in Logins, NEW c \in Clients, NEW u \in Users, Register(i, c, u)
      PROVE Quiet'
  BY <1>t, <1>3 DEF Register, Open, Fresh
<1>4. ASSUME NEW i \in Logins, LoginStart(i) PROVE Quiet'
  BY <1>t, <1>4 DEF LoginStart, Unanswered, Stash
<1>5. ASSUME NEW i \in Logins, DeviceLoginStart(i) PROVE Quiet'
  <2> HIDE DEF Quiet, Unsent
  <2>1. asked'[i] \in {"stashed", "refused"} /\ \A j \in Logins \ {i} : asked'[j] = asked[j]
    BY <1>t, <1>5 DEF DeviceLoginStart, Stash
  <2>2. asked[i] = "no" /\ UNCHANGED <<task, session>>
    BY <1>t, <1>5 DEF DeviceLoginStart, Stash, Unanswered
  <2> QED
    BY <1>t, <2>1, <2>2 DEF Quiet, Unsent
<1>6. ASSUME NEW i \in Logins, Consume(i) PROVE Quiet'
  <2> HIDE DEF Quiet, Unsent
  <2>1. asked[i] = "finish" /\ UNCHANGED <<task, session>>
    BY <1>t, <1>6 DEF Consume
  <2>2. \A j \in Logins \ {i} : asked'[j] = asked[j]
    BY <1>t, <1>6 DEF Consume
  <2> QED
    BY <1>t, <2>1, <2>2 DEF Quiet, Unsent
<1>7. ASSUME NEW i \in Logins, CheckDevice(i) PROVE Quiet'
  BY <1>t, <1>7 DEF CheckDevice
<1>8. ASSUME NEW i \in Logins, MintByPassword(i) PROVE Quiet'
  BY <1>t, <1>8 DEF MintByPassword, CreateSession
<1>9. ASSUME NEW i \in Logins, MintByDevice(i) PROVE Quiet'
  BY <1>t, <1>9 DEF MintByDevice, CreateSession
<1>10. ASSUME NEW i \in Logins, CreateUser(i) PROVE Quiet'
  BY <1>t, <1>10 DEF CreateUser
<1>11. ASSUME NEW i \in Logins, CreateUserLost(i) PROVE Quiet'
  BY <1>t, <1>11 DEF CreateUserLost, Fault
<1>12. ASSUME NEW i \in Logins, SaveRegistered(i) PROVE Quiet'
  BY <1>t, <1>12 DEF SaveRegistered, SaveAccount
<1>13. ASSUME NEW i \in Logins, SendFinish(i) PROVE Quiet'
  BY <1>t, <1>13 DEF SendFinish
<1>14. ASSUME NEW i \in Logins, Answered(i) PROVE Quiet'
  BY <1>t, <1>14 DEF Answered
<1>15. ASSUME NEW i \in Logins, Refused(i) PROVE Quiet'
  BY <1>t, <1>15 DEF Refused, Offline, LocalUnlock
<1>16. ASSUME NEW i \in Logins, Lost(i) PROVE Quiet'
  BY <1>t, <1>16 DEF Lost, Offline, LocalUnlock, Fault
<1>17. ASSUME NEW i \in Logins, Save(i) PROVE Quiet'
  BY <1>t, <1>17 DEF Save, SaveAccount, Fault
<1>18. ASSUME NEW i \in Logins, Enroll(i) PROVE Quiet'
  BY <1>t, <1>18 DEF Enroll, StepUp
<1>19. ASSUME NEW i \in Logins, EnrollLost(i) PROVE Quiet'
  BY <1>t, <1>19 DEF EnrollLost, StepUp, Fault
<1>20. ASSUME NEW i \in Logins, SaveDeviceCache(i) PROVE Quiet'
  BY <1>t, <1>20 DEF SaveDeviceCache
<1>21. ASSUME NEW i \in Logins, Deliver(i) PROVE Quiet'
  BY <1>t, <1>21 DEF Deliver
<1>22. ASSUME NEW i \in Logins, Age(i) PROVE Quiet'
  BY <1>t, <1>22 DEF Age
<1>23. ASSUME NEW i \in Logins, Revoke(i) PROVE Quiet'
  BY <1>t, <1>23 DEF Revoke, StepUp
<1>24. ASSUME NEW c \in Clients, Launch(c) PROVE Quiet'
  BY <1>t, <1>24 DEF Launch, Closed
<1>25. ASSUME NEW c \in Clients, Quit(c) PROVE Quiet'
  BY <1>t, <1>25 DEF Quit, Die, Running, Closed
<1>26. ASSUME NEW c \in Clients, Crash(c) PROVE Quiet'
  BY <1>t, <1>26 DEF Crash, Die, Running, Closed, Fault
<1>27. CASE Cleanup
  BY <1>t, <1>27 DEF Cleanup
<1>28. CASE UNCHANGED vars
  BY <1>t, <1>28 DEF vars
<1> QED
  BY <1>1, <1>2, <1>3, <1>4, <1>5, <1>6, <1>7, <1>8, <1>9, <1>10, <1>11, <1>12, <1>13,
     <1>14, <1>15, <1>16, <1>17, <1>18, <1>19, <1>20, <1>21, <1>22, <1>23, <1>24, <1>25,
     <1>26, <1>27, <1>28 DEF Next, ServerNext, TaskNext

\* A step keeps Attended: Die ends the tasks of a process with its token.
LEMMA AttendedStep ==
  ASSUME TypeOK, Attended, [Next]_vars
  PROVE  Attended'
<1> USE SessionsAssumption DEF Attended, Logins, serverVars, diskVars, ghostVars,
        To, Reach, Client, Owner, ByDevice
<1>t. /\ task \in [Logins -> TaskStates]
      /\ about \in [Logins -> AboutType]
      /\ app \in [Clients -> AppType]
      /\ \A j \in Logins : about[j].by \in Clients
  BY DEF TypeOK, AboutType, AppType
<1>1. ASSUME NEW i \in Logins, NEW c \in Clients, UnlockByDevice(i, c) PROVE Attended'
  <2> HIDE DEF Attended
  <2>1. app \in [Clients -> AppType]
    BY <1>t DEF AppType
  <2>2. app' = [app EXCEPT ![c] = [app[c] EXCEPT !.tried = TRUE]]
    BY <1>t, <1>1 DEF UnlockByDevice
  <2>3. app'[c].open = app[c].open /\ app'[c].token = app[c].token
    BY <1>t, <2>1, <2>2, Tried
  <2>4. \A d \in Clients : d # c => app'[d] = app[d]
    BY <1>t, <2>1, <2>2
  <2>5. app[c].open
    BY <1>t, <1>1 DEF UnlockByDevice, Open
  <2>6. \A j \in Logins : task'[j] \notin {"free", "ended"} =>
           j = i \/ task[j] \notin {"free", "ended"}
    BY <1>t, <1>1 DEF UnlockByDevice, Open
  <2>7. \A j \in Logins : about'[j].by = IF j = i THEN c ELSE about[j].by
    BY <1>t, <1>1 DEF UnlockByDevice, Open
  <2>8. \A j \in Logins : about[j].by \in Clients
    BY <1>t
  <2> QED
    BY <1>t, <2>3, <2>4, <2>5, <2>6, <2>7, <2>8 DEF Attended
<1>2. ASSUME NEW i \in Logins, NEW c \in Clients, NEW u \in Users, Login(i, c, u)
      PROVE Attended'
  BY <1>t, <1>2 DEF Login, Open, Fresh
<1>3. ASSUME NEW i \in Logins, NEW c \in Clients, NEW u \in Users, Register(i, c, u)
      PROVE Attended'
  BY <1>t, <1>3 DEF Register, Open, Fresh
<1>4. ASSUME NEW i \in Logins, LoginStart(i) PROVE Attended'
  BY <1>t, <1>4 DEF LoginStart, Unanswered, Stash
<1>5. ASSUME NEW i \in Logins, DeviceLoginStart(i) PROVE Attended'
  BY <1>t, <1>5 DEF DeviceLoginStart, Unanswered, Stash
<1>6. ASSUME NEW i \in Logins, Consume(i) PROVE Attended'
  BY <1>t, <1>6 DEF Consume
<1>7. ASSUME NEW i \in Logins, CheckDevice(i) PROVE Attended'
  BY <1>t, <1>7 DEF CheckDevice
<1>8. ASSUME NEW i \in Logins, MintByPassword(i) PROVE Attended'
  BY <1>t, <1>8 DEF MintByPassword, CreateSession
<1>9. ASSUME NEW i \in Logins, MintByDevice(i) PROVE Attended'
  BY <1>t, <1>9 DEF MintByDevice, CreateSession
<1>10. ASSUME NEW i \in Logins, CreateUser(i) PROVE Attended'
  BY <1>t, <1>10 DEF CreateUser
<1>11. ASSUME NEW i \in Logins, CreateUserLost(i) PROVE Attended'
  BY <1>t, <1>11 DEF CreateUserLost, Fault
<1>12. ASSUME NEW i \in Logins, SaveRegistered(i) PROVE Attended'
  BY <1>t, <1>12 DEF SaveRegistered, SaveAccount
<1>13. ASSUME NEW i \in Logins, SendFinish(i) PROVE Attended'
  BY <1>t, <1>13 DEF SendFinish
<1>14. ASSUME NEW i \in Logins, Answered(i) PROVE Attended'
  BY <1>t, <1>14 DEF Answered
<1>15. ASSUME NEW i \in Logins, Refused(i) PROVE Attended'
  BY <1>t, <1>15 DEF Refused, Offline, LocalUnlock
<1>16. ASSUME NEW i \in Logins, Lost(i) PROVE Attended'
  BY <1>t, <1>16 DEF Lost, Offline, LocalUnlock, Fault
<1>17. ASSUME NEW i \in Logins, Save(i) PROVE Attended'
  BY <1>t, <1>17 DEF Save, SaveAccount, Fault
<1>18. ASSUME NEW i \in Logins, Enroll(i) PROVE Attended'
  BY <1>t, <1>18 DEF Enroll, StepUp
<1>19. ASSUME NEW i \in Logins, EnrollLost(i) PROVE Attended'
  BY <1>t, <1>19 DEF EnrollLost, StepUp, Fault
<1>20. ASSUME NEW i \in Logins, SaveDeviceCache(i) PROVE Attended'
  BY <1>t, <1>20 DEF SaveDeviceCache
<1>21. ASSUME NEW i \in Logins, Deliver(i) PROVE Attended'
  <2> HIDE DEF Attended
  <2>1. Client(i) \in Clients /\ app[Client(i)].open
    BY <1>t, <1>21 DEF Deliver, Attended
  <2>2. \A d \in Clients : app'[d].open = app[d].open
    BY <1>t, <1>21 DEF Deliver
  <2>3. \A d \in Clients : d # Client(i) => app'[d].token = app[d].token
    BY <1>t, <1>21 DEF Deliver
  <2>4. task' = [task EXCEPT ![i] = "ended"] /\ UNCHANGED about
    BY <1>t, <1>21 DEF Deliver
  <2> QED
    BY <1>t, <2>1, <2>2, <2>3, <2>4 DEF Attended
<1>22. ASSUME NEW i \in Logins, Age(i) PROVE Attended'
  BY <1>t, <1>22 DEF Age
<1>23. ASSUME NEW i \in Logins, Revoke(i) PROVE Attended'
  BY <1>t, <1>23 DEF Revoke, StepUp
<1>24. ASSUME NEW c \in Clients, Launch(c) PROVE Attended'
  BY <1>t, <1>24 DEF Launch, Closed
<1>25. ASSUME NEW c \in Clients, Quit(c) PROVE Attended'
  BY <1>t, <1>25 DEF Quit, Die, Running, Closed
<1>26. ASSUME NEW c \in Clients, Crash(c) PROVE Attended'
  BY <1>t, <1>26 DEF Crash, Die, Running, Closed, Fault
<1>27. CASE Cleanup
  BY <1>t, <1>27 DEF Cleanup
<1>28. CASE UNCHANGED vars
  BY <1>t, <1>28 DEF vars
<1> QED
  BY <1>1, <1>2, <1>3, <1>4, <1>5, <1>6, <1>7, <1>8, <1>9, <1>10, <1>11, <1>12, <1>13,
     <1>14, <1>15, <1>16, <1>17, <1>18, <1>19, <1>20, <1>21, <1>22, <1>23, <1>24, <1>25,
     <1>26, <1>27, <1>28 DEF Next, ServerNext, TaskNext

\* A step keeps Accounted: a task parts with its session by delivering it, and a
\* process with its token by logging out, by being replaced or by being cut.
LEMMA AccountedStep ==
  ASSUME TypeOK, Quiet, Attended, Accounted, [Next]_vars
  PROVE  Accounted'
<1> USE SessionsAssumption DEF Quiet, Unsent, Attended, Accounted, Written, Logins,
   serverVars, diskVars, ghostVars,
        To, Reach, Client, Owner, ByDevice
<1>t. /\ task \in [Logins -> TaskStates]
      /\ asked \in [Logins -> AskedStates]
      /\ session \in [Logins -> {"none", "fresh", "old", "expired"}]
      /\ online \in [Logins -> BOOLEAN]
      /\ outlived \in [Logins -> Reasons]
      /\ about \in [Logins -> AboutType]
      /\ app \in [Clients -> AppType]
      /\ \A j \in Logins : about[j].by \in Clients
      /\ 0 \notin Logins
  BY DEF TypeOK, AboutType, AppType
<1>1. ASSUME NEW i \in Logins, NEW c \in Clients, UnlockByDevice(i, c) PROVE Accounted'
  BY <1>t, <1>1 DEF UnlockByDevice, Open, Fresh
<1>2. ASSUME NEW i \in Logins, NEW c \in Clients, NEW u \in Users, Login(i, c, u)
      PROVE Accounted'
  BY <1>t, <1>2 DEF Login, Open, Fresh
<1>3. ASSUME NEW i \in Logins, NEW c \in Clients, NEW u \in Users, Register(i, c, u)
      PROVE Accounted'
  BY <1>t, <1>3 DEF Register, Open, Fresh
<1>4. ASSUME NEW i \in Logins, LoginStart(i) PROVE Accounted'
  BY <1>t, <1>4 DEF LoginStart, Unanswered, Stash
<1>5. ASSUME NEW i \in Logins, DeviceLoginStart(i) PROVE Accounted'
  <2> HIDE DEF Quiet, Unsent, Attended, Accounted, Written
  <2>1. asked'[i] \in {"stashed", "refused"} /\ \A j \in Logins \ {i} : asked'[j] = asked[j]
    BY <1>t, <1>5 DEF DeviceLoginStart, Stash
  <2>2. asked[i] = "no" /\ UNCHANGED <<task, session, about, online, app, outlived>>
    BY <1>t, <1>5 DEF DeviceLoginStart, Stash, Unanswered
  <2> QED
    BY <1>t, <2>1, <2>2 DEF Accounted, Unsent, Written
<1>6. ASSUME NEW i \in Logins, Consume(i) PROVE Accounted'
  BY <1>t, <1>6 DEF Consume
<1>7. ASSUME NEW i \in Logins, CheckDevice(i) PROVE Accounted'
  BY <1>t, <1>7 DEF CheckDevice
<1>8. ASSUME NEW i \in Logins, MintByPassword(i) PROVE Accounted'
  BY <1>t, <1>8 DEF MintByPassword, CreateSession
<1>9. ASSUME NEW i \in Logins, MintByDevice(i) PROVE Accounted'
  BY <1>t, <1>9 DEF MintByDevice, CreateSession
<1>10. ASSUME NEW i \in Logins, CreateUser(i) PROVE Accounted'
  BY <1>t, <1>10 DEF CreateUser
<1>11. ASSUME NEW i \in Logins, CreateUserLost(i) PROVE Accounted'
  BY <1>t, <1>11 DEF CreateUserLost, Fault
<1>12. ASSUME NEW i \in Logins, SaveRegistered(i) PROVE Accounted'
  BY <1>t, <1>12 DEF SaveRegistered, SaveAccount
<1>13. ASSUME NEW i \in Logins, SendFinish(i) PROVE Accounted'
  BY <1>t, <1>13 DEF SendFinish
<1>14. ASSUME NEW i \in Logins, Answered(i) PROVE Accounted'
  BY <1>t, <1>14 DEF Answered
<1>15. ASSUME NEW i \in Logins, Refused(i) PROVE Accounted'
  <2> HIDE DEF Quiet, Unsent, Attended, Accounted, Written
  <2>1. Unsent(i)
    BY <1>15 DEF Refused, Quiet, Unsent, TypeOK
  <2>2. task'[i] \in {"delivering", "ended"} /\ \A j \in Logins \ {i} : task'[j] = task[j]
    BY <1>t, <1>15 DEF Refused, Offline
  <2>3. UNCHANGED <<asked, session, about, online, app, outlived>>
    BY <1>t, <1>15 DEF Refused
  <2> QED
    BY <1>t, <2>1, <2>2, <2>3 DEF Accounted, Unsent, Written
<1>16. ASSUME NEW i \in Logins, Lost(i) PROVE Accounted'
  BY <1>t, <1>16 DEF Lost, Offline, LocalUnlock, Fault
<1>17. ASSUME NEW i \in Logins, Save(i) PROVE Accounted'
  BY <1>t, <1>17 DEF Save, SaveAccount, Fault
<1>18. ASSUME NEW i \in Logins, Enroll(i) PROVE Accounted'
  <2> HIDE DEF Quiet, Unsent, Attended, Accounted, Written
  <2>1. task'[i] \in {"caching", "delivering"} /\ \A j \in Logins \ {i} : task'[j] = task[j]
    BY <1>t, <1>18 DEF Enroll
  <2>2. UNCHANGED <<asked, session, about, online, app, outlived>> /\ task[i] = "enrolling"
    BY <1>t, <1>18 DEF Enroll
  <2> QED
    BY <1>t, <2>1, <2>2 DEF Accounted, Unsent, Written
<1>19. ASSUME NEW i \in Logins, EnrollLost(i) PROVE Accounted'
  BY <1>t, <1>19 DEF EnrollLost, StepUp, Fault
<1>20. ASSUME NEW i \in Logins, SaveDeviceCache(i) PROVE Accounted'
  BY <1>t, <1>20 DEF SaveDeviceCache
<1>21. ASSUME NEW i \in Logins, Deliver(i) PROVE Accounted'
  BY <1>t, <1>21 DEF Deliver
<1>22. ASSUME NEW i \in Logins, Age(i) PROVE Accounted'
  BY <1>t, <1>22 DEF Age
<1>23. ASSUME NEW i \in Logins, Revoke(i) PROVE Accounted'
  BY <1>t, <1>23 DEF Revoke, StepUp
<1>24. ASSUME NEW c \in Clients, Launch(c) PROVE Accounted'
  BY <1>t, <1>24 DEF Launch, Closed
<1>25. ASSUME NEW c \in Clients, Quit(c) PROVE Accounted'
  BY <1>t, <1>25 DEF Quit, Die, Running, Closed
<1>26. ASSUME NEW c \in Clients, Crash(c) PROVE Accounted'
  BY <1>t, <1>26 DEF Crash, Die, Running, Closed, Fault
<1>27. CASE Cleanup
  BY <1>t, <1>27 DEF Cleanup
<1>28. CASE UNCHANGED vars
  BY <1>t, <1>28 DEF vars
<1> QED
  BY <1>1, <1>2, <1>3, <1>4, <1>5, <1>6, <1>7, <1>8, <1>9, <1>10, <1>11, <1>12, <1>13,
     <1>14, <1>15, <1>16, <1>17, <1>18, <1>19, <1>20, <1>21, <1>22, <1>23, <1>24, <1>25,
     <1>26, <1>27, <1>28 DEF Next, ServerNext, TaskNext

\* A step keeps Enrolled: trusted is never taken back to none.
LEMMA EnrolledStep ==
  ASSUME TypeOK, Enrolled, [Next]_vars
  PROVE  Enrolled'
<1> USE SessionsAssumption DEF Enrolled, CachedDeviceIsEnrolled, Logins, serverVars,
   diskVars, ghostVars,
        To, Reach, Client, Owner, ByDevice
<1>t. /\ task \in [Logins -> TaskStates]
      /\ trusted \in [Logins -> {"none", "active", "revoked"}]
      /\ cache \in [Clients -> 0..MaxLogins]
      /\ \A j \in Logins : about[j].by \in Clients
      /\ \A d \in Clients : cache[d] # 0 => cache[d] \in Logins
  BY DEF TypeOK, AboutType, AppType
<1>1. ASSUME NEW i \in Logins, NEW c \in Clients, UnlockByDevice(i, c) PROVE Enrolled'
  BY <1>t, <1>1 DEF UnlockByDevice, Open, Fresh
<1>2. ASSUME NEW i \in Logins, NEW c \in Clients, NEW u \in Users, Login(i, c, u)
      PROVE Enrolled'
  BY <1>t, <1>2 DEF Login, Open, Fresh
<1>3. ASSUME NEW i \in Logins, NEW c \in Clients, NEW u \in Users, Register(i, c, u)
      PROVE Enrolled'
  BY <1>t, <1>3 DEF Register, Open, Fresh
<1>4. ASSUME NEW i \in Logins, LoginStart(i) PROVE Enrolled'
  BY <1>t, <1>4 DEF LoginStart, Unanswered, Stash
<1>5. ASSUME NEW i \in Logins, DeviceLoginStart(i) PROVE Enrolled'
  BY <1>t, <1>5 DEF DeviceLoginStart, Unanswered, Stash
<1>6. ASSUME NEW i \in Logins, Consume(i) PROVE Enrolled'
  BY <1>t, <1>6 DEF Consume
<1>7. ASSUME NEW i \in Logins, CheckDevice(i) PROVE Enrolled'
  BY <1>t, <1>7 DEF CheckDevice
<1>8. ASSUME NEW i \in Logins, MintByPassword(i) PROVE Enrolled'
  BY <1>t, <1>8 DEF MintByPassword, CreateSession
<1>9. ASSUME NEW i \in Logins, MintByDevice(i) PROVE Enrolled'
  BY <1>t, <1>9 DEF MintByDevice, CreateSession
<1>10. ASSUME NEW i \in Logins, CreateUser(i) PROVE Enrolled'
  BY <1>t, <1>10 DEF CreateUser
<1>11. ASSUME NEW i \in Logins, CreateUserLost(i) PROVE Enrolled'
  BY <1>t, <1>11 DEF CreateUserLost, Fault
<1>12. ASSUME NEW i \in Logins, SaveRegistered(i) PROVE Enrolled'
  BY <1>t, <1>12 DEF SaveRegistered, SaveAccount
<1>13. ASSUME NEW i \in Logins, SendFinish(i) PROVE Enrolled'
  BY <1>t, <1>13 DEF SendFinish
<1>14. ASSUME NEW i \in Logins, Answered(i) PROVE Enrolled'
  BY <1>t, <1>14 DEF Answered
<1>15. ASSUME NEW i \in Logins, Refused(i) PROVE Enrolled'
  BY <1>t, <1>15 DEF Refused, Offline, LocalUnlock
<1>16. ASSUME NEW i \in Logins, Lost(i) PROVE Enrolled'
  BY <1>t, <1>16 DEF Lost, Offline, LocalUnlock, Fault
<1>17. ASSUME NEW i \in Logins, Save(i) PROVE Enrolled'
  BY <1>t, <1>17 DEF Save, SaveAccount, Fault
<1>18. ASSUME NEW i \in Logins, Enroll(i) PROVE Enrolled'
  <2> HIDE DEF Enrolled, CachedDeviceIsEnrolled
  <2>1. \A j \in Logins : trusted[j] # "none" => trusted'[j] # "none"
    BY <1>18 DEF Enroll, TypeOK
  <2>2. \A j \in Logins : task'[j] = "caching" => task[j] = "caching" \/ trusted'[j] # "none"
    BY <1>18 DEF Enroll, TypeOK
  <2>3. UNCHANGED cache
    BY <1>t, <1>18 DEF Enroll
  <2>4. \A d \in Clients : cache[d] # 0 => cache[d] \in Logins
    BY <1>t
  <2> QED
    BY <1>t, <2>1, <2>2, <2>3, <2>4 DEF Enrolled, CachedDeviceIsEnrolled
<1>19. ASSUME NEW i \in Logins, EnrollLost(i) PROVE Enrolled'
  BY <1>t, <1>19 DEF EnrollLost, StepUp, Fault
<1>20. ASSUME NEW i \in Logins, SaveDeviceCache(i) PROVE Enrolled'
  BY <1>t, <1>20 DEF SaveDeviceCache
<1>21. ASSUME NEW i \in Logins, Deliver(i) PROVE Enrolled'
  BY <1>t, <1>21 DEF Deliver
<1>22. ASSUME NEW i \in Logins, Age(i) PROVE Enrolled'
  BY <1>t, <1>22 DEF Age
<1>23. ASSUME NEW i \in Logins, Revoke(i) PROVE Enrolled'
  <2> HIDE DEF Enrolled, CachedDeviceIsEnrolled
  <2>1. \A j \in Logins : trusted[j] # "none" => trusted'[j] # "none"
    BY <1>23 DEF Revoke, TypeOK
  <2>2. UNCHANGED <<cache, task>>
    BY <1>t, <1>23 DEF Revoke
  <2>3. \A d \in Clients : cache[d] # 0 => cache[d] \in Logins
    BY <1>t
  <2> QED
    BY <1>t, <2>1, <2>2, <2>3 DEF Enrolled, CachedDeviceIsEnrolled
<1>24. ASSUME NEW c \in Clients, Launch(c) PROVE Enrolled'
  BY <1>t, <1>24 DEF Launch, Closed
<1>25. ASSUME NEW c \in Clients, Quit(c) PROVE Enrolled'
  BY <1>t, <1>25 DEF Quit, Die, Running, Closed
<1>26. ASSUME NEW c \in Clients, Crash(c) PROVE Enrolled'
  BY <1>t, <1>26 DEF Crash, Die, Running, Closed, Fault
<1>27. CASE Cleanup
  BY <1>t, <1>27 DEF Cleanup
<1>28. CASE UNCHANGED vars
  BY <1>t, <1>28 DEF vars
<1> QED
  BY <1>1, <1>2, <1>3, <1>4, <1>5, <1>6, <1>7, <1>8, <1>9, <1>10, <1>11, <1>12, <1>13,
     <1>14, <1>15, <1>16, <1>17, <1>18, <1>19, <1>20, <1>21, <1>22, <1>23, <1>24, <1>25,
     <1>26, <1>27, <1>28 DEF Next, ServerNext, TaskNext

\* A step keeps Locked: only CheckDevice makes a finish checked, and it looks at
\* the device; Revoke deletes the sessions and names the finishes it overtakes.
LEMMA LockedStep ==
  ASSUME TypeOK, Quiet, Locked, [Next]_vars
  PROVE  Locked'
<1> USE SessionsAssumption DEF Quiet, Unsent, Locked, Logins, serverVars, diskVars,
   ghostVars,
        To, Reach, Client, Owner, ByDevice
<1>t. /\ task \in [Logins -> TaskStates]
      /\ session \in [Logins -> {"none", "fresh", "old", "expired"}]
      /\ asked \in [Logins -> AskedStates]
      /\ trusted \in [Logins -> {"none", "active", "revoked"}]
      /\ about \in [Logins -> AboutType]
      /\ \A j \in Logins : about[j].device # 0 => about[j].device \in Logins
  BY DEF TypeOK, AboutType, AppType
<1>1. ASSUME NEW i \in Logins, NEW c \in Clients, UnlockByDevice(i, c) PROVE Locked'
  <2> HIDE DEF Quiet, Unsent, Locked
  <2>1. Unsent(i) /\ session[i] = "none"
    BY <1>1 DEF UnlockByDevice, Open, Fresh, Quiet, Unsent, TypeOK
  <2>2. UNCHANGED <<asked, session, trusted, overtaken>>
    BY <1>t, <1>1 DEF UnlockByDevice, Open
  <2>3. \A j \in Logins \ {i} : about'[j] = about[j]
    BY <1>t, <1>1 DEF UnlockByDevice, Open
  <2> QED
    BY <1>t, <2>1, <2>2, <2>3 DEF Quiet, Unsent, Locked
<1>2. ASSUME NEW i \in Logins, NEW c \in Clients, NEW u \in Users, Login(i, c, u)
      PROVE Locked'
  BY <1>t, <1>2 DEF Login, Open, Fresh
<1>3. ASSUME NEW i \in Logins, NEW c \in Clients, NEW u \in Users, Register(i, c, u)
      PROVE Locked'
  BY <1>t, <1>3 DEF Register, Open, Fresh
<1>4. ASSUME NEW i \in Logins, LoginStart(i) PROVE Locked'
  <2> HIDE DEF Quiet, Unsent, Locked
  <2>1. \A j \in Logins : asked'[j] = "checked" => asked[j] = "checked"
    BY <1>t, <1>4 DEF LoginStart, Stash
  <2>2. UNCHANGED <<session, trusted, about, overtaken>>
    BY <1>t, <1>4 DEF LoginStart, Stash
  <2> QED
    BY <1>t, <2>1, <2>2 DEF Locked
<1>5. ASSUME NEW i \in Logins, DeviceLoginStart(i) PROVE Locked'
  <2> HIDE DEF Quiet, Unsent, Locked
  <2>1. \A j \in Logins : asked'[j] = "checked" => asked[j] = "checked"
    BY <1>t, <1>5 DEF DeviceLoginStart, Stash
  <2>2. UNCHANGED <<session, trusted, about, overtaken>>
    BY <1>t, <1>5 DEF DeviceLoginStart, Stash
  <2> QED
    BY <1>t, <2>1, <2>2 DEF Locked
<1>6. ASSUME NEW i \in Logins, Consume(i) PROVE Locked'
  BY <1>t, <1>6 DEF Consume
<1>7. ASSUME NEW i \in Logins, CheckDevice(i) PROVE Locked'
  BY <1>t, <1>7 DEF CheckDevice
<1>8. ASSUME NEW i \in Logins, MintByPassword(i) PROVE Locked'
  BY <1>t, <1>8 DEF MintByPassword, CreateSession
<1>9. ASSUME NEW i \in Logins, MintByDevice(i) PROVE Locked'
  BY <1>t, <1>9 DEF MintByDevice, CreateSession
<1>10. ASSUME NEW i \in Logins, CreateUser(i) PROVE Locked'
  BY <1>t, <1>10 DEF CreateUser
<1>11. ASSUME NEW i \in Logins, CreateUserLost(i) PROVE Locked'
  BY <1>t, <1>11 DEF CreateUserLost, Fault
<1>12. ASSUME NEW i \in Logins, SaveRegistered(i) PROVE Locked'
  BY <1>t, <1>12 DEF SaveRegistered, SaveAccount
<1>13. ASSUME NEW i \in Logins, SendFinish(i) PROVE Locked'
  BY <1>t, <1>13 DEF SendFinish
<1>14. ASSUME NEW i \in Logins, Answered(i) PROVE Locked'
  BY <1>t, <1>14 DEF Answered
<1>15. ASSUME NEW i \in Logins, Refused(i) PROVE Locked'
  BY <1>t, <1>15 DEF Refused, Offline, LocalUnlock
<1>16. ASSUME NEW i \in Logins, Lost(i) PROVE Locked'
  BY <1>t, <1>16 DEF Lost, Offline, LocalUnlock, Fault
<1>17. ASSUME NEW i \in Logins, Save(i) PROVE Locked'
  BY <1>t, <1>17 DEF Save, SaveAccount, Fault
<1>18. ASSUME NEW i \in Logins, Enroll(i) PROVE Locked'
  <2> HIDE DEF Quiet, Unsent, Locked
  <2>1. \A j \in Logins : trusted'[j] \in {"active", trusted[j]}
    BY <1>t, <1>18 DEF Enroll
  <2>2. UNCHANGED <<asked, session, about, overtaken>>
    BY <1>t, <1>18 DEF Enroll
  <2>3. \A j \in Logins : about[j].device # 0 => about[j].device \in Logins
    BY <1>t
  <2> QED
    BY <1>t, <2>1, <2>2, <2>3 DEF Quiet, Unsent, Locked
<1>19. ASSUME NEW i \in Logins, EnrollLost(i) PROVE Locked'
  BY <1>t, <1>19 DEF EnrollLost, StepUp, Fault
<1>20. ASSUME NEW i \in Logins, SaveDeviceCache(i) PROVE Locked'
  BY <1>t, <1>20 DEF SaveDeviceCache
<1>21. ASSUME NEW i \in Logins, Deliver(i) PROVE Locked'
  BY <1>t, <1>21 DEF Deliver
<1>22. ASSUME NEW i \in Logins, Age(i) PROVE Locked'
  BY <1>t, <1>22 DEF Age
<1>23. ASSUME NEW i \in Logins, Revoke(i) PROVE Locked'
  <2> HIDE DEF Quiet, Unsent, Locked
  <2>1. \A j \in Logins : session'[j] # "none" => session[j] # "none" /\ about[j].device # i
    BY <1>t, <1>23 DEF Revoke
  <2>2. overtaken' = overtaken \cup {j \in Logins : about[j].device = i /\ asked[j] = "checked"}
    BY <1>t, <1>23 DEF Revoke
  <2>3. \A j \in Logins : about[j].device # 0 => about[j].device \in Logins
    BY <1>t
  <2>4. \A d \in Logins \ {i} : trusted'[d] = trusted[d]
    BY <1>t, <1>23 DEF Revoke
  <2>5. UNCHANGED <<asked, about>>
    BY <1>t, <1>23 DEF Revoke
  <2> QED
    BY <1>t, <2>1, <2>2, <2>3, <2>4, <2>5 DEF Locked
<1>24. ASSUME NEW c \in Clients, Launch(c) PROVE Locked'
  BY <1>t, <1>24 DEF Launch, Closed
<1>25. ASSUME NEW c \in Clients, Quit(c) PROVE Locked'
  BY <1>t, <1>25 DEF Quit, Die, Running, Closed
<1>26. ASSUME NEW c \in Clients, Crash(c) PROVE Locked'
  BY <1>t, <1>26 DEF Crash, Die, Running, Closed, Fault
<1>27. CASE Cleanup
  BY <1>t, <1>27 DEF Cleanup
<1>28. CASE UNCHANGED vars
  BY <1>t, <1>28 DEF vars
<1> QED
  BY <1>1, <1>2, <1>3, <1>4, <1>5, <1>6, <1>7, <1>8, <1>9, <1>10, <1>11, <1>12, <1>13,
     <1>14, <1>15, <1>16, <1>17, <1>18, <1>19, <1>20, <1>21, <1>22, <1>23, <1>24, <1>25,
     <1>26, <1>27, <1>28 DEF Next, ServerNext, TaskNext

-----------------------------------------------------------------------------
\* The servers' tables are empty and no machine has an account.
LEMMA SessionInit == Init => SessionInv
<1> SUFFICES ASSUME Init PROVE SessionInv
  OBVIOUS
<1>1. Nobody \in AboutType
  BY SessionsAssumption DEF Nobody, AboutType
<1>2. Closed \in AppType
  BY SessionsAssumption DEF Closed, AppType
<1>3. TypeOK
  BY <1>1, <1>2, SessionsAssumption
     DEF Init, TypeOK, AboutType, AppType, AskedStates, TaskStates, Reasons
<1>4. Named /\ Quiet /\ Accounted /\ Enrolled /\ Locked
  BY DEF Init, Named, Quiet, Unsent, Accounted, Enrolled, CachedDeviceIsEnrolled, Locked
<1>5. Attended
  BY DEF Init, Attended, Closed
<1> QED
  BY <1>3, <1>4, <1>5 DEF SessionInv

LEMMA SessionStep == SessionInv /\ [Next]_vars => SessionInv'
<1> SUFFICES ASSUME SessionInv, [Next]_vars PROVE SessionInv'
  OBVIOUS
<1> USE DEF SessionInv
<1>1. TypeOK'
  BY TypeStep
<1>2. Named' /\ Quiet' /\ Attended'
  BY <1>1, NamedStep, EarlyStep, AttendedStep
<1>3. Accounted' /\ Enrolled' /\ Locked'
  BY <1>1, AccountedStep, EnrolledStep, LockedStep
<1> QED
  BY <1>1, <1>2, <1>3

THEOREM SessionIsInvariant == Spec => []SessionInv
  BY SessionInit, SessionStep, PTL DEF Spec

-----------------------------------------------------------------------------
\* The tables of the server and the account row, and what tasks and processes
\* remember, have the shape the code gives them; in particular no device cache
\* is left where there is no account.
THEOREM SessionsTypeCorrect == Spec => []TypeOK
<1>1. SessionInv => TypeOK
  BY DEF SessionInv
<1> QED
  BY <1>1, SessionIsInvariant, PTL

\* save_device_cache is never reached without the server's answer, whatever
\* number of machines, logins, losses and crashes there are: no machine keeps a
\* sealed cache for a device that was never enrolled.
THEOREM CacheMeansEnrolled == Spec => []CachedDeviceIsEnrolled
<1>1. SessionInv => CachedDeviceIsEnrolled
  BY DEF SessionInv, Enrolled
<1> QED
  BY <1>1, SessionIsInvariant, PTL

\* "A lost/compromised device loses access immediately": revoking a device
\* leaves it no session, except one whose finish had already checked the device.
THEOREM RevocationLocksOut == Spec => []RevokedDeviceLocked
<1>1. SessionInv => RevokedDeviceLocked
  BY DEF SessionInv, Locked, RevokedDeviceLocked
<1> QED
  BY <1>1, SessionIsInvariant, PTL

\* A session left on the server by a process that is gone, or that holds
\* another, is always explained by a lost call, a crash, or a second login.
THEOREM SessionsDoNotOutlive == Spec => []SessionEndsWithProcess
<1>1. SessionInv => SessionEndsWithProcess
  BY DEF SessionInv, Quiet, Accounted, Written, Unsent, SessionEndsWithProcess
<1> QED
  BY <1>1, SessionIsInvariant, PTL
=============================================================================
