-------------------------------- MODULE Vault --------------------------------
(***************************************************************************)
(* Starting the client: finding the data directory, loading the database   *)
(* key envelope or creating it on the first run, unlocking it with the     *)
(* device key or the recovery key, opening the encrypted database and      *)
(* showing the recovery key.                                               *)
(*                                                                         *)
(* A key is named by a number.  The SQLCipher key, the envelope's          *)
(* database_id, the device key pair and the recovery key are generated     *)
(* together and used together, so one number stands for all four: whoever  *)
(* holds the device key or the recovery key of an envelope opens it, and a *)
(* database opens only with the key it was created with.  An error         *)
(* returned from anywhere ends the process, as a kill does.                *)
(***************************************************************************)
EXTENDS Naturals, FiniteSets

CONSTANTS Dirs,         (* how many candidates get_data_dir goes through     *)
          MaxAttempts,  (* prompt_recovery_key's MAX_ATTEMPTS                *)
          MaxKeys,      (* bound: envelopes generated                        *)
          MaxExits,     (* bound: kills, errors and refusals                 *)
          MaxFaults     (* bound: keyrings wiped, directories made by others *)

ASSUME VaultAssumption ==
    /\ Dirs \in Nat \ {0}
    /\ MaxAttempts \in Nat \ {0}
    /\ MaxKeys \in Nat /\ MaxExits \in Nat /\ MaxFaults \in Nat

VARIABLES
    present,   \* the candidate directories that exist
    envelope,  \* db_keys.json in each directory: absent, torn or whole
    database,  \* todoers.db in each directory, by the key that opens it
    keyring,   \* the database ids whose device key the OS keyring holds
    saved,     \* the recovery keys the user confirmed to have saved
    made,      \* keys generated so far
    pc,        \* where the process stands; "off" when none runs
    dir,       \* the directory this process found
    held,      \* the envelope in memory
    fresh,     \* load_or_create_envelope returned a recovery key
    attempts,  \* recovery keys typed in this process
    exits, faults

disk == <<present, envelope, database>>
process == <<pc, dir, held, fresh, attempts>>
vars == <<disk, keyring, saved, made, process, exits, faults>>

Candidates == 1..Dirs
Keys == 1..MaxKeys
Absent == 0
Torn == MaxKeys + 1
Whole(d) == envelope[d] \in Keys

Stages == {"off", "look", "generate", "write", "writing", "device", "prompt",
           "open", "show", "run"}

TypeOK ==
    /\ present \subseteq Candidates
    /\ envelope \in [Candidates -> {Absent, Torn} \cup Keys]
    /\ database \in [Candidates -> {Absent} \cup Keys]
    /\ keyring \subseteq Keys /\ saved \subseteq Keys
    /\ made \in 0..MaxKeys
    /\ pc \in Stages
    /\ dir \in Candidates
    /\ held \in {Absent} \cup Keys
    /\ fresh \in BOOLEAN
    /\ attempts \in 0..(MaxAttempts - 1)
    /\ exits \in 0..MaxExits /\ faults \in 0..MaxFaults

Init ==
    /\ present \in SUBSET Candidates
    /\ envelope = [d \in Candidates |-> Absent]
    /\ database = [d \in Candidates |-> Absent]
    /\ keyring = {} /\ saved = {}
    /\ made = 0
    /\ pc = "off" /\ dir = Dirs /\ held = Absent /\ fresh = FALSE /\ attempts = 0
    /\ exits = 0 /\ faults = 0

\* get_data_dir finds the first candidate that exists, else the last one.
DataDir(d) ==
    IF present = {} THEN d = Dirs ELSE d \in present /\ \A e \in present : d <= e

\* The process starts; logging::init creates the directory it found, so that
\* Config::new and main find the same one.
Launch(d) ==
    /\ pc = "off"
    /\ DataDir(d)
    /\ pc' = "look"
    /\ dir' = d
    /\ present' = present \cup {d}
    /\ held' = Absent /\ fresh' = FALSE /\ attempts' = 0
    /\ UNCHANGED <<envelope, database, keyring, saved, made, exits, faults>>

\* The process ends: killed, or an error reached main.
Exit ==
    /\ pc # "off"
    /\ exits < MaxExits
    /\ exits' = exits + 1
    /\ pc' = "off"
    /\ UNCHANGED <<disk, keyring, saved, made, dir, held, fresh, attempts, faults>>

\* load_or_create_envelope: the file is there, and is read ...
Read ==
    /\ pc = "look"
    /\ Whole(dir)
    /\ held' = envelope[dir]
    /\ pc' = "device"
    /\ UNCHANGED <<disk, keyring, saved, made, dir, fresh, attempts, exits, faults>>

\* ... or does not parse, which ends the process, today and at every start ...
ReadTorn ==
    /\ pc = "look"
    /\ envelope[dir] = Torn
    /\ pc' = "off"
    /\ UNCHANGED <<disk, keyring, saved, made, dir, held, fresh, attempts, exits,
                   faults>>

\* ... or is not there: this is the first run.
FirstRun ==
    /\ pc = "look"
    /\ envelope[dir] = Absent
    /\ pc' = "generate"
    /\ UNCHANGED <<disk, keyring, saved, made, dir, held, fresh, attempts, exits,
                   faults>>

\* create_new_database_keys: the device key goes into the keyring before
\* anything is written.
Generate ==
    /\ pc = "generate"
    /\ made < MaxKeys
    /\ made' = made + 1
    /\ held' = made + 1
    /\ keyring' = keyring \cup {made + 1}
    /\ pc' = "write"
    /\ UNCHANGED <<disk, saved, dir, fresh, attempts, exits, faults>>

\* fs::write truncates the file before it writes it.
BeginWrite ==
    /\ pc = "write"
    /\ envelope' = [envelope EXCEPT ![dir] = Torn]
    /\ pc' = "writing"
    /\ UNCHANGED <<present, database, keyring, saved, made, dir, held, fresh,
                   attempts, exits, faults>>

EndWrite ==
    /\ pc = "writing"
    /\ envelope' = [envelope EXCEPT ![dir] = held]
    /\ fresh' = TRUE
    /\ pc' = "device"
    /\ UNCHANGED <<present, database, keyring, saved, made, dir, held, attempts,
                   exits, faults>>

\* Mutant of DeviceUnlock: an envelope the device cannot open is made anew.
DeviceUnlockOrRenew ==
    /\ pc = "device"
    /\ pc' = IF held \in keyring THEN "open" ELSE "generate"
    /\ UNCHANGED <<disk, keyring, saved, made, dir, held, fresh, attempts, exits,
                   faults>>

\* unlock_with_device, and the fall back to the recovery key.
DeviceUnlock ==
    /\ pc = "device"
    /\ pc' = IF held \in keyring THEN "open" ELSE "prompt"
    /\ UNCHANGED <<disk, keyring, saved, made, dir, held, fresh, attempts, exits,
                   faults>>

\* prompt_recovery_key: the user types the key they saved; canonical makes its
\* case and dashes irrelevant ...
TypeRecovery ==
    /\ pc = "prompt"
    /\ held \in saved
    /\ pc' = "open"
    /\ UNCHANGED <<disk, keyring, saved, made, dir, held, fresh, attempts, exits,
                   faults>>

\* Mutant of TypeWrong: one attempt too many.
TypeWrongOnceMore ==
    /\ pc = "prompt"
    /\ \/ /\ attempts < MaxAttempts
          /\ attempts' = attempts + 1
          /\ UNCHANGED <<pc, exits>>
       \/ /\ attempts = MaxAttempts
          /\ exits < MaxExits
          /\ exits' = exits + 1
          /\ pc' = "off"
          /\ UNCHANGED attempts
    /\ UNCHANGED <<disk, keyring, saved, made, dir, held, fresh, faults>>

\* ... or another one, until the attempts are used up.
TypeWrong ==
    /\ pc = "prompt"
    /\ \/ /\ attempts < MaxAttempts - 1
          /\ attempts' = attempts + 1
          /\ UNCHANGED <<pc, exits>>
       \/ /\ attempts = MaxAttempts - 1
          /\ exits < MaxExits
          /\ exits' = exits + 1
          /\ pc' = "off"
          /\ UNCHANGED attempts
    /\ UNCHANGED <<disk, keyring, saved, made, dir, held, fresh, faults>>

\* Mutant of Open: the database is created, never opened.
OpenNew ==
    /\ pc = "open"
    /\ database[dir] = Absent
    /\ database' = [database EXCEPT ![dir] = held]
    /\ pc' = IF fresh THEN "show" ELSE "run"
    /\ UNCHANGED <<present, envelope, keyring, saved, made, dir, held, fresh,
                   attempts, exits, faults>>

\* Db::init: opens the database or creates it under the key.  Under another
\* key the migration fails, and no process gets past it (the Exit stands for it).
Open ==
    /\ pc = "open"
    /\ database[dir] \in {Absent, held}
    /\ database' = [database EXCEPT ![dir] = held]
    /\ pc' = IF fresh THEN "show" ELSE "run"
    /\ UNCHANGED <<present, envelope, keyring, saved, made, dir, held, fresh,
                   attempts, exits, faults>>

\* show_recovery_key: only the process that created the envelope shows it.  The
\* user who has not saved it exits.
ShowRecovery ==
    /\ pc = "show"
    /\ saved' = saved \cup {held}
    /\ pc' = "run"
    /\ UNCHANGED <<disk, keyring, made, dir, held, fresh, attempts, exits, faults>>

\* The application ends.
Quit ==
    /\ pc = "run"
    /\ pc' = "off"
    /\ UNCHANGED <<disk, keyring, saved, made, dir, held, fresh, attempts, exits,
                   faults>>

\* The OS keyring loses what it holds.
WipeKeyring ==
    /\ faults < MaxFaults
    /\ faults' = faults + 1
    /\ keyring # {}
    /\ keyring' = {}
    /\ UNCHANGED <<disk, saved, made, process, exits>>

\* Another program creates a candidate directory while the client is not up.
MakeDirectory(d) ==
    /\ pc = "off"
    /\ faults < MaxFaults
    /\ faults' = faults + 1
    /\ d \notin present
    /\ present' = present \cup {d}
    /\ UNCHANGED <<envelope, database, keyring, saved, made, process, exits>>

Load == Read \/ ReadTorn \/ FirstRun
Start == Load \/ Generate \/ BeginWrite \/ EndWrite \/ DeviceUnlock \/ Open

Next ==
    \/ Start \/ TypeRecovery \/ TypeWrong \/ ShowRecovery
    \/ Quit \/ Exit \/ WipeKeyring
    \/ \E d \in Candidates : Launch(d) \/ MakeDirectory(d)

Spec == Init /\ [][Next]_vars

\* A process takes its steps; a user who wants in starts the client again,
\* answers the prompts, and types the recovery key they have.
FairSpec ==
    /\ Spec
    /\ WF_vars(\E d \in Candidates : Launch(d))
    /\ WF_vars(Start) /\ WF_vars(ShowRecovery) /\ SF_vars(TypeRecovery)

-----------------------------------------------------------------------------
(* Properties                                                              *)

\* No crash, lost keyring or moved directory leaves a database beside an
\* envelope that does not hold its key (load_or_create_envelope, Db::init).
KeyOpensDatabase ==
    \A d \in Candidates : database[d] # Absent => envelope[d] = database[d]

\* A database whose recovery key the user saved is always opened again, with
\* the keyring or without it, however earlier starts ended, as long as the
\* client keeps finding its directory (unlock_with_device, prompt_recovery_key).
OpensAgain ==
    \A d \in Candidates :
        database[d] \in saved ~> \/ pc = "run" /\ dir = d /\ held = database[d]
                                 \/ ~DataDir(d)

\* The strengthening that makes KeyOpensDatabase inductive: a process that is
\* about to write an envelope does so where no database is, and what it opens
\* the database with is what the envelope on disk holds.
EnvelopeFirst ==
    /\ pc \in {"generate", "write", "writing"} => database[dir] = Absent
    /\ pc \in {"device", "prompt", "open", "show", "run"} =>
           held \in Keys /\ envelope[dir] = held
    /\ pc \in {"write", "writing"} => held \in Keys

=============================================================================
