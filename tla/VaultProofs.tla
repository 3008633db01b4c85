----------------------------- MODULE VaultProofs -----------------------------
(***************************************************************************)
(* Vault's type invariant and KeyOpensDatabase, for any number of          *)
(* candidate directories, keys, attempts, exits and faults.                *)
(***************************************************************************)
EXTENDS Vault, TLAPS

EnvelopeInv == TypeOK /\ KeyOpensDatabase /\ EnvelopeFirst

\* A whole envelope is neither absent nor torn.
LEMMA KeysApart == Absent \notin Keys /\ Torn \notin Keys /\ Absent # Torn
    BY VaultAssumption DEF Absent, Torn, Keys

\* What Vault starts in: nothing on disk, no process.
LEMMA EnvelopeInit == Init => EnvelopeInv
<1> SUFFICES ASSUME Init PROVE EnvelopeInv
    OBVIOUS
<1> USE VaultAssumption
<1>1. TypeOK
    <2>1. Dirs \in Candidates
        BY DEF Candidates
    <2>2. 0 \in 0..MaxKeys /\ 0 \in 0..(MaxAttempts - 1)
        OBVIOUS
    <2>3. 0 \in 0..MaxExits /\ 0 \in 0..MaxFaults
        OBVIOUS
    <2> QED
        BY <2>1, <2>2, <2>3 DEF Init, TypeOK, Stages
<1>2. KeyOpensDatabase
    BY DEF Init, KeyOpensDatabase
<1>3. EnvelopeFirst
    BY DEF Init, EnvelopeFirst
<1> QED
    BY <1>1, <1>2, <1>3 DEF EnvelopeInv

\* Every step leaves the variables in their types.
LEMMA TypeStep == EnvelopeInv /\ [Next]_vars => TypeOK'
<1> SUFFICES ASSUME TypeOK, EnvelopeFirst, [Next]_vars PROVE TypeOK'
    BY DEF EnvelopeInv
<1> USE VaultAssumption
<1>1. ASSUME NEW d \in Candidates, Launch(d) PROVE TypeOK'
    <2>1. present' \subseteq Candidates
        BY <1>1 DEF TypeOK, Launch
    <2>2. 0 \in 0..(MaxAttempts - 1)
        OBVIOUS
    <2> QED
        BY <1>1, <2>1, <2>2 DEF TypeOK, Launch, Stages
<1>2. CASE Read
    BY <1>2 DEF TypeOK, Read, Whole, disk, Stages
<1>3. CASE ReadTorn
    BY <1>3 DEF TypeOK, ReadTorn, disk, Stages
<1>4. CASE FirstRun
    BY <1>4 DEF TypeOK, FirstRun, disk, Stages
<1>5. CASE Generate
    <2>1. made + 1 \in Keys
        BY <1>5 DEF TypeOK, Generate, Keys
    <2> QED
        BY <1>5, <2>1 DEF TypeOK, Generate, Keys, disk, Stages
<1>6. CASE BeginWrite
    BY <1>6 DEF TypeOK, BeginWrite, Stages
<1>7. CASE EndWrite
    BY <1>7 DEF TypeOK, EndWrite, Stages
<1>8. CASE DeviceUnlock
    BY <1>8 DEF TypeOK, DeviceUnlock, disk, Stages
<1>9. CASE TypeRecovery
    BY <1>9 DEF TypeOK, TypeRecovery, disk, Stages
<1>10. CASE TypeWrong
    BY <1>10 DEF TypeOK, TypeWrong, disk, Stages
<1>11. CASE Open
    BY <1>11 DEF TypeOK, Open, Stages
<1>12. CASE ShowRecovery
    <2>1. saved' \subseteq Keys
        BY <1>12 DEF TypeOK, ShowRecovery, EnvelopeFirst
    <2> QED
        BY <1>12, <2>1 DEF TypeOK, ShowRecovery, disk, Stages
<1>13. CASE Quit
    BY <1>13 DEF TypeOK, Quit, disk, Stages
<1>14. CASE Exit
    BY <1>14 DEF TypeOK, Exit, disk, Stages
<1>15. CASE WipeKeyring
    BY <1>15 DEF TypeOK, WipeKeyring, disk, process
<1>16. ASSUME NEW d \in Candidates, MakeDirectory(d) PROVE TypeOK'
    BY <1>16 DEF TypeOK, MakeDirectory, process
<1>17. CASE UNCHANGED vars
    BY <1>17 DEF TypeOK, vars, disk, process
<1> QED
    BY <1>1, <1>2, <1>3, <1>4, <1>5, <1>6, <1>7, <1>8, <1>9, <1>10, <1>11, <1>12,
       <1>13, <1>14, <1>15, <1>16, <1>17 DEF Next, Start, Load

\* Every step keeps a database beside the envelope that holds its key: an
\* envelope is written only where there is no database, and a database is
\* created only under the key of the envelope on disk.
LEMMA EnvelopeStep == EnvelopeInv /\ [Next]_vars => KeyOpensDatabase' /\ EnvelopeFirst'
<1> SUFFICES ASSUME TypeOK, KeyOpensDatabase, EnvelopeFirst, [Next]_vars
             PROVE  KeyOpensDatabase' /\ EnvelopeFirst'
    BY DEF EnvelopeInv
<1> USE DEF KeyOpensDatabase, EnvelopeFirst
<1>1. ASSUME NEW d \in Candidates, Launch(d) PROVE KeyOpensDatabase' /\ EnvelopeFirst'
    BY <1>1 DEF Launch
<1>2. CASE Read
    BY <1>2 DEF Read, Whole, disk
<1>3. CASE ReadTorn
    BY <1>3 DEF ReadTorn, disk
<1>4. CASE FirstRun
    BY <1>4, KeysApart DEF FirstRun, TypeOK, disk
<1>5. CASE Generate
    <2>1. made + 1 \in Keys
        BY <1>5, VaultAssumption DEF TypeOK, Generate, Keys
    <2> QED
        BY <1>5, <2>1 DEF Generate, disk
<1>6. CASE BeginWrite
    BY <1>6 DEF BeginWrite, TypeOK
<1>7. CASE EndWrite
    BY <1>7 DEF EndWrite, TypeOK
<1>8. CASE DeviceUnlock
    BY <1>8 DEF DeviceUnlock, disk
<1>9. CASE TypeRecovery
    BY <1>9 DEF TypeRecovery, disk
<1>10. CASE TypeWrong
    BY <1>10 DEF TypeWrong, disk
<1>11. CASE Open
    BY <1>11 DEF Open, TypeOK
<1>12. CASE ShowRecovery
    BY <1>12 DEF ShowRecovery, disk
<1>13. CASE Quit
    BY <1>13 DEF Quit, disk
<1>14. CASE Exit
    BY <1>14 DEF Exit, disk
<1>15. CASE WipeKeyring
    BY <1>15 DEF WipeKeyring, disk, process
<1>16. ASSUME NEW d \in Candidates, MakeDirectory(d)
       PROVE  KeyOpensDatabase' /\ EnvelopeFirst'
    BY <1>16 DEF MakeDirectory, process
<1>17. CASE UNCHANGED vars
    BY <1>17 DEF vars, disk, process
<1> QED
    BY <1>1, <1>2, <1>3, <1>4, <1>5, <1>6, <1>7, <1>8, <1>9, <1>10, <1>11, <1>12,
       <1>13, <1>14, <1>15, <1>16, <1>17 DEF Next, Start, Load

\* The three facts together: EnvelopeInv is inductive.
THEOREM EnvelopeInvariant == Spec => []EnvelopeInv
<1>1. EnvelopeInv /\ [Next]_vars => EnvelopeInv'
    BY TypeStep, EnvelopeStep DEF EnvelopeInv
<1> QED
    BY EnvelopeInit, <1>1, PTL DEF Spec

\* The variables of the start keep their types, and no process types more
\* recovery keys than it may (prompt_recovery_key).
THEOREM VaultTypeCorrect == Spec => []TypeOK
<1>1. EnvelopeInv => TypeOK
    BY DEF EnvelopeInv
<1> QED
    BY EnvelopeInvariant, <1>1, PTL

\* Whatever crashes, however often the client starts and wherever its data
\* directory moves, a database lies beside the envelope that opens it.
THEOREM DatabaseOpens == Spec => []KeyOpensDatabase
<1>1. EnvelopeInv => KeyOpensDatabase
    BY DEF EnvelopeInv
<1> QED
    BY EnvelopeInvariant, <1>1, PTL

=============================================================================
