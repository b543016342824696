---------------------------- MODULE SettingsFile ----------------------------
(***************************************************************************)
(* settings.json: the requests of the server and the commands of the CLI   *)
(* that load it, change what they loaded and write it back whole           *)
(* (settings.py, connect.py, the handlers of api/routes.py).  The threads  *)
(* of the server share one cached object, by reference; a command is a     *)
(* process of its own.                                                     *)
(***************************************************************************)
EXTENDS Naturals, FiniteSets

CONSTANTS
    Threads,    \* requests of the server, each in a thread
    Commands,   \* invocations of the command line
    MaxFaults,  \* bound on failing writes and renames, and on crashes
    Gone, Absent, NoCache

ASSUME SettingsAssumption ==
    /\ Threads \cap Commands = {} /\ NoCache \notin Threads
    /\ MaxFaults \in Nat

VARIABLES
    state,      \* .kater: [db, settings, safety], or Gone
    object,     \* for every settings object in memory, the changes it contains
    cache,      \* the thread whose object load_settings answers, or NoCache
    user,       \* for every thread and command: pc, and the object it holds
    faults      \* faults so far

Users   == Threads \cup Commands
Objects == Users \X {"loaded", "copy"}
Empty   == [db |-> Absent, settings |-> Absent, safety |-> FALSE]

settingsVars == <<object, cache, user>>

SettingsInit ==
    /\ state = [db |-> "old", settings |-> {}, safety |-> FALSE]
    /\ object = [o \in Objects |-> {}]
    /\ cache = NoCache
    /\ user = [u \in Users |-> [pc |-> "idle", holds |-> <<u, "loaded">>]]
    /\ faults = 0

Fault == faults < MaxFaults /\ faults' = faults + 1

(* Without a file the settings are the defaults. *)
Stored(dir) == IF dir = Gone \/ dir.settings = Absent THEN {} ELSE dir.settings

Go(u, pc) == user' = [user EXCEPT ![u].pc = pc]

Start(u) ==
    /\ user[u].pc = "idle"
    /\ Go(u, "load")
    /\ UNCHANGED <<state, object, cache, faults>>

(* load_settings: the cached object itself, *)
LoadCached(t) ==
    /\ user[t].pc = "load" /\ t \in Threads /\ cache # NoCache
    /\ user' = [user EXCEPT ![t].pc = "loaded", ![t].holds = <<cache, "loaded">>]
    /\ UNCHANGED <<state, object, cache, faults>>

(* or an object read from the file, *)
LoadFile(u) ==
    /\ user[u].pc = "load" /\ (u \in Threads => cache = NoCache)
    /\ object' = [object EXCEPT ![<<u, "loaded">>] = Stored(state)]
    /\ Go(u, IF u \in Threads THEN "read" ELSE "loaded")
    /\ UNCHANGED <<state, cache, faults>>

(* which is put into the cache a moment later, whatever was saved meanwhile. *)
StoreCache(t) ==
    /\ user[t].pc = "read"
    /\ cache' = t
    /\ Go(t, "loaded")
    /\ UNCHANGED <<state, object, faults>>

Change(u, o) == object' = [object EXCEPT ![o] = @ \cup {u}]

(* A request has its settings; which request it is shows in what it does with them. *)
Loaded(u) == user[u].pc = "loaded"

(* The change is made in the object that other requests may hold as well. *)
ChangeInPlace(u) ==
    /\ Change(u, user[u].holds)
    /\ Go(u, "save")
    /\ UNCHANGED <<state, cache, faults>>

Refuse(u) ==
    /\ Go(u, "refused")
    /\ UNCHANGED <<state, object, cache, faults>>

ServerAction(u) == Loaded(u) /\ ChangeInPlace(u)

(* The checks of _secret_persist_denied and of the declared keys come before the change. *)
ServerCredentials(u) == Loaded(u) /\ u \in Threads /\ (ChangeInPlace(u) \/ Refuse(u))

(* Only a connection that is there can be removed. *)
ServerConnectionDelete(u) == Loaded(u) /\ u \in Threads /\ (ChangeInPlace(u) \/ Refuse(u))

UpdateSharedSettings(u) ==
    /\ Loaded(u) /\ u \in Threads
    /\ \E ok \in BOOLEAN :
         /\ Change(u, user[u].holds)
         /\ Go(u, IF ok THEN "save" ELSE "refused")
    /\ UNCHANGED <<state, cache, faults>>

(* The patch goes into a deep copy and is judged there: the admin credential, the types, and *)
(* what a public deployment forbids.                                                          *)
UpdateSettings(u) ==
    /\ Loaded(u) /\ u \in Threads
    /\ \E ok \in BOOLEAN :
         /\ object' = [object EXCEPT ![<<u, "copy">>] = object[user[u].holds] \cup {u}]
         /\ user' = [user EXCEPT ![u].pc = IF ok THEN "save" ELSE "refused",
                                 ![u].holds = <<u, "copy">>]
    /\ UNCHANGED <<state, cache, faults>>

(* The callback of a connection holds its settings while it exchanges the code. *)
BeginExchange(u) ==
    /\ Loaded(u) /\ u \in Threads
    /\ Go(u, "exchange")
    /\ UNCHANGED <<state, object, cache, faults>>

EndExchange(u) == user[u].pc = "exchange" /\ (ChangeInPlace(u) \/ Refuse(u))

(* save_settings replaces the file under its lock; the directory is made when it is missing, *)
Save(u) ==
    /\ user[u].pc = "save"
    /\ state' = [(IF state = Gone THEN Empty ELSE state)
                    EXCEPT !.settings = object[user[u].holds]]
    /\ Go(u, "saved")
    /\ UNCHANGED <<object, cache, faults>>

SaveFails(u) ==
    /\ user[u].pc = "save" /\ Fault
    /\ Go(u, "failed")
    /\ UNCHANGED <<state, object, cache>>

(* and the cache is dropped after the lock is free. *)
InvalidateCache(u) ==
    /\ user[u].pc = "saved"
    /\ cache' = IF u \in Threads THEN NoCache ELSE cache
    /\ Go(u, "done")
    /\ UNCHANGED <<state, object, faults>>

SettingsStep(u) ==
    \/ LoadCached(u) \/ LoadFile(u) \/ StoreCache(u)
    \/ ServerAction(u) \/ ServerCredentials(u) \/ ServerConnectionDelete(u)
    \/ UpdateSettings(u) \/ BeginExchange(u) \/ EndExchange(u)
    \/ Save(u) \/ SaveFails(u) \/ InvalidateCache(u)

SettingsNext ==
    \E u \in Users : Start(u) \/ SettingsStep(u)

-----------------------------------------------------------------------------
SettingsTypeOK ==
    /\ object \in [Objects -> SUBSET Users]
    /\ cache \in Threads \cup {NoCache}
    /\ user \in [Users -> [pc : {"idle", "load", "read", "loaded", "exchange", "save", "saved",
                                 "done", "refused", "failed"},
                           holds : Objects]]
    /\ faults \in 0..MaxFaults

(* A change the server refused is in no settings file, ever: the requests share the object    *)
(* they change, and another of them may write it while the patch is judged, or afterwards.    *)
RefusedIsNotSaved ==
    state # Gone /\ state.settings # Absent =>
        \A u \in Users : user[u].pc = "refused" => u \notin state.settings

(* "a single lock serialises read-modify-write sequences so concurrent API requests cannot    *)
(* overwrite each other's changes" (settings.py).  No run checks it: the lock is taken around  *)
(* the write alone.                                                                            *)
UpdatesAreKept ==
    \A u \in Users : user[u].pc = "done" /\ faults = 0 => u \in Stored(state)
=============================================================================
