--------------------------- MODULE StateDirectory ---------------------------
(***************************************************************************)
(* The directory .kater as a whole: kater backup restore, which swaps it   *)
(* for the contents of a bundle (backup.py), the migrations of its         *)
(* database by the commands and by a starting server (migrations.py), and  *)
(* the requests and commands that write its settings meanwhile.            *)
(***************************************************************************)
EXTENDS SettingsFile

CONSTANTS
    Migrators,  \* processes that migrate: kater migrate apply, and a starting server
    Latest,     \* the last migration of this build
    Releases    \* the last migrations of the builds that wrote the databases found

ASSUME LatestAssumption == Latest \in Nat /\ Releases \subseteq 0..Latest

Versions == 1..Latest
Databases == {"old", "new", "fresh"}
Directories == [db : Databases \cup {Absent}, settings : {Absent} \cup SUBSET Users, safety : BOOLEAN]
WorkDirectories ==
    [staged : SUBSET {"db", "settings"}, retired : {Gone} \cup Directories, safety : {Gone} \cup Directories]

ASSUME DirectoryAssumption ==
    /\ Absent \notin Databases /\ \A changes \in SUBSET Users : changes # Absent
    /\ Gone \notin Directories \cup WorkDirectories

VARIABLES
    work,       \* the work directory of the restore: [staged, retired, safety], or Gone
    bundle,     \* the bundle to restore: the files it declares, and whether it is sound
    recorded,   \* for every database file, the versions recorded in it
    restore,    \* [pc, left]: the restore and the files it has still to move
    migrator    \* for every migrator: pc, the database it opened, the versions it saw

Members == <<"db", "settings">>
stateVars == <<work, bundle, recorded, restore, migrator>>
vars == <<state, settingsVars, faults, stateVars>>

Init ==
    /\ SettingsInit
    /\ work = Gone
    /\ bundle = [names |-> {}, is |-> "unknown"]
    /\ \E n \in Releases : recorded = [d \in Databases |-> IF d = "old" THEN 1..n ELSE {}]
    /\ restore = [pc |-> "idle", left |-> << >>]
    /\ migrator = [m \in Migrators |-> [pc |-> "idle", db |-> "old", seen |-> {}]]

HasState == state # Gone /\ state # Empty

-----------------------------------------------------------------------------
(* kater backup restore. *)

Turn(pc) == restore' = [restore EXCEPT !.pc = pc]

(* A bundle of these files, with a database of an earlier build, is named. *)
BeginRestore(names, is, version) ==
    /\ restore.pc = "idle"
    /\ bundle' = [names |-> names, is |-> is]
    /\ recorded' = [recorded EXCEPT !["new"] = 1..version]
    /\ \E force \in BOOLEAN : Turn(IF HasState /\ ~force THEN "refused" ELSE "stage")
    /\ UNCHANGED <<state, settingsVars, faults, work, migrator>>

(* A failure raises; the finally of restore_backup removes the work directory either way. *)
Abandon ==
    /\ work' = Gone
    /\ Turn("refused")

(* Every member is extracted into the work directory, and its digest checked on the way. *)
ExtractVerified ==
    /\ restore.pc = "stage"
    /\ \/ /\ bundle.is # "corrupt"
          /\ work' = [staged |-> bundle.names, retired |-> Gone, safety |-> Gone]
          /\ Turn("migrate")
          /\ UNCHANGED faults
       \/ bundle.is = "corrupt" /\ Abandon /\ UNCHANGED faults
       \/ Fault /\ Abandon
    /\ UNCHANGED <<state, settingsVars, bundle, recorded, migrator>>

(* The staged database is migrated before anything is touched; a migration edited since *)
(* makes this build refuse it.                                                          *)
MigrateStaged ==
    /\ restore.pc = "migrate"
    /\ \/ /\ "db" \notin bundle.names \/ bundle.is = "sound"
          /\ recorded' = IF "db" \in bundle.names
                         THEN [recorded EXCEPT !["new"] = Versions] ELSE recorded
          /\ Turn("safety")
          /\ UNCHANGED <<work, faults>>
       \/ "db" \in bundle.names /\ bundle.is = "drifted" /\ Abandon /\ UNCHANGED <<recorded, faults>>
       \/ Fault /\ Abandon /\ UNCHANGED recorded
    /\ UNCHANGED <<state, settingsVars, bundle, migrator>>

(* create_backup: a snapshot of the database, then copies of the other files. *)
SafetyBackup ==
    /\ restore.pc = "safety"
    /\ \/ /\ work' = [work EXCEPT !.safety = IF HasState THEN state ELSE Gone]
          /\ Turn("retire")
          /\ UNCHANGED faults
       \/ HasState /\ Fault /\ Abandon
    /\ UNCHANGED <<state, settingsVars, bundle, recorded, migrator>>

(* .kater is renamed into the work directory. *)
Retire ==
    /\ restore.pc = "retire"
    /\ \/ /\ work' = [work EXCEPT !.retired = state]
          /\ state' = Gone
          /\ Turn("mkdir")
          /\ UNCHANGED faults
       \/ state # Gone /\ Fault /\ Abandon /\ UNCHANGED state
    /\ UNCHANGED <<settingsVars, bundle, recorded, migrator>>

RollbackEmptyOnly ==
    /\ IF work.retired # Gone /\ state \in {Gone, Empty}
       THEN Turn("rollback") /\ work' = work ELSE Abandon
    /\ UNCHANGED state

(* _rollback_restore is called when there is something to put back. *)
RollbackRestore ==
    /\ IF work.retired # Gone THEN Turn("rollback") /\ work' = work ELSE Abandon
    /\ UNCHANGED state

(* A step of the rollback fails: that is logged, and the finally removes the work directory with *)
(* the retired .kater and the safety bundle in it.                                                *)
LoseRetired ==
    /\ work' = Gone
    /\ Turn("unrolled")

(* What rmtree may leave of a directory it cannot remove. *)
Remnants(dir) ==
    [db : {dir.db, Absent}, settings : {dir.settings, Absent}, safety : {dir.safety, FALSE}]

(* The rollback removes a partial .kater, *)
ClearPartial ==
    /\ restore.pc = "rollback"
    /\ \/ state' = Gone /\ Turn("putback") /\ UNCHANGED <<work, faults>>
       \/ state # Gone /\ Fault /\ state' \in Remnants(state) /\ LoseRetired
    /\ UNCHANGED <<settingsVars, bundle, recorded, migrator>>

(* and renames the retired one back, which a .kater that another process made again prevents. *)
PutBack ==
    /\ restore.pc = "putback"
    /\ \/ state \in {Gone, Empty} /\ state' = work.retired /\ Abandon /\ UNCHANGED faults
       \/ state \notin {Gone, Empty} /\ LoseRetired /\ UNCHANGED <<state, faults>>
       \/ Fault /\ LoseRetired /\ UNCHANGED state
    /\ UNCHANGED <<settingsVars, bundle, recorded, migrator>>

MakeDirectory ==
    /\ restore.pc = "mkdir"
    /\ \/ /\ state' = IF state = Gone THEN Empty ELSE state
          /\ restore' = [restore EXCEPT !.pc = "move", !.left = Members]
          /\ UNCHANGED <<work, faults>>
       \/ Fault /\ RollbackRestore
    /\ UNCHANGED <<settingsVars, bundle, recorded, migrator>>

(* The files are renamed into place one by one, over what is there. *)
MoveStaged ==
    /\ restore.pc = "move" /\ restore.left # << >>
    /\ LET name == restore.left[1]
       IN  \/ /\ state' = IF name \notin work.staged THEN state
                          ELSE IF name = "db" THEN [state EXCEPT !.db = "new"]
                          ELSE [state EXCEPT !.settings = {}]
              /\ restore' = [restore EXCEPT !.left = IF name = "db" THEN <<"settings">> ELSE << >>]
              /\ UNCHANGED <<work, faults>>
           \/ name \in work.staged /\ Fault /\ RollbackRestore
    /\ UNCHANGED <<settingsVars, bundle, recorded, migrator>>

(* The safety bundle is moved under the new .kater: nothing is rolled back when that fails. *)
KeepSafety ==
    /\ restore.pc = "move" /\ restore.left = << >>
    /\ \/ /\ state' = [state EXCEPT !.safety = work.safety # Gone]
          /\ work' = [work EXCEPT !.safety = Gone]
          /\ Turn("clean")
          /\ UNCHANGED faults
       \/ work.safety # Gone /\ Fault /\ work' = Gone /\ Turn("failed") /\ UNCHANGED state
    /\ UNCHANGED <<settingsVars, bundle, recorded, migrator>>

(* The work directory goes, and the retired .kater with it. *)
CleanUp ==
    /\ restore.pc = "clean"
    /\ work' = Gone
    /\ Turn("done")
    /\ UNCHANGED <<state, settingsVars, faults, bundle, recorded, migrator>>

(* The process is killed: whatever it had made of the directories stays. *)
KillRestore ==
    /\ restore.pc \notin {"idle", "done", "refused", "unrolled", "failed", "killed"} /\ Fault
    /\ Turn("killed")
    /\ UNCHANGED <<state, settingsVars, work, bundle, recorded, migrator>>

RestoreStep ==
    \/ \E names \in (SUBSET {"db", "settings"}) \ {{}}, is \in {"sound", "corrupt", "drifted"},
         version \in Releases : BeginRestore(names, is, version)
    \/ ExtractVerified \/ MigrateStaged \/ SafetyBackup \/ Retire
    \/ MakeDirectory \/ MoveStaged \/ ClearPartial \/ PutBack \/ KeepSafety \/ CleanUp \/ KillRestore

-----------------------------------------------------------------------------
(* Migrations. *)

(* connect creates the database, and its directory, when they are missing; ensure_migrated and *)
(* run_migrations look at the recorded versions once.                                           *)
AppliedVersions(m) ==
    /\ migrator[m].pc = "idle"
    /\ LET there == IF state = Gone THEN Empty ELSE state
           db == IF there.db = Absent THEN "fresh" ELSE there.db
           seen == recorded[db]
       IN  /\ state' = [there EXCEPT !.db = db]
           /\ migrator' = [migrator EXCEPT ![m] =
                  [pc |-> IF Versions \subseteq seen THEN "done" ELSE "run", db |-> db, seen |-> seen]]
    /\ UNCHANGED <<settingsVars, faults, work, bundle, recorded, restore>>

NextVersion(m) == CHOOSE v \in Versions \ migrator[m].seen :
                     \A w \in Versions \ migrator[m].seen : v <= w

Recorded(m, ok) ==
    LET seen == migrator[m].seen \cup {NextVersion(m)}
    IN  migrator' = [migrator EXCEPT ![m].seen = IF ok THEN seen ELSE @,
                                     ![m].pc = IF ~ok THEN "failed"
                                               ELSE IF Versions \subseteq seen THEN "done" ELSE "run"]

ApplyUnchecked(m) ==
    /\ migrator[m].pc = "run"
    /\ LET db == migrator[m].db
           v == NextVersion(m)
       IN  \/ /\ recorded' = [recorded EXCEPT ![db] = @ \cup {v}]
              /\ Recorded(m, v \notin recorded[db])
              /\ UNCHANGED faults
           \/ Fault /\ Recorded(m, FALSE) /\ UNCHANGED recorded
    /\ UNCHANGED <<state, settingsVars, work, bundle, restore>>

(* _apply: under the write lock the version is looked up once more; the statements and the row *)
(* are one transaction, which a failing statement, a lock not obtained in time or the death of *)
(* the process rolls back.                                                                      *)
Apply(m) ==
    /\ migrator[m].pc = "run"
    /\ LET db == migrator[m].db
           v == NextVersion(m)
       IN  \/ /\ recorded' = [recorded EXCEPT ![db] = @ \cup {v}]
              /\ Recorded(m, TRUE)
              /\ UNCHANGED faults
           \/ Fault /\ Recorded(m, FALSE) /\ UNCHANGED recorded
    /\ UNCHANGED <<state, settingsVars, work, bundle, restore>>

MigrationStep(m) == AppliedVersions(m) \/ Apply(m)

Next ==
    \/ RestoreStep
    \/ \E m \in Migrators : MigrationStep(m)
    \/ SettingsNext /\ UNCHANGED stateVars

Spec == Init /\ [][Next]_vars

-----------------------------------------------------------------------------
TypeOK ==
    /\ SettingsTypeOK
    /\ state \in {Gone} \cup Directories
    /\ work \in {Gone} \cup WorkDirectories
    /\ bundle \in [names : SUBSET {"db", "settings"}, is : {"unknown", "sound", "corrupt", "drifted"}]
    /\ recorded \in [Databases -> SUBSET Versions]
    /\ restore \in [pc : {"idle", "stage", "migrate", "safety", "retire", "mkdir", "move", "rollback",
                          "putback", "clean", "done", "refused", "unrolled", "failed", "killed"},
                    left : {Members, <<"settings">>, << >>}]
    /\ migrator \in [Migrators -> [pc : {"idle", "run", "done", "failed"},
                                   db : Databases, seen : SUBSET Versions]]

IsOld(dir) == dir # Gone /\ dir.db = "old" /\ dir.settings # Absent

(* The files that were there are together in one place - .kater, the retired directory or the  *)
(* safety bundle - or those of the bundle have all replaced them.                              *)
SomeStateSurvives ==
    \/ IsOld(state) \/ (work # Gone /\ (IsOld(work.retired) \/ IsOld(work.safety)))
    \/ state # Gone /\ state.safety
    \/ /\ state # Gone
       /\ "db" \in bundle.names => state.db = "new"
       /\ "settings" \in bundle.names => state.settings # Absent

(* Whatever fails or dies while a restore goes on, no state is lost and nothing is left half    *)
(* done: a restore that reports success has installed the bundle and kept a safety bundle of     *)
(* what it replaced, and one that reports that it refused or rolled back has left the database   *)
(* in place.  The exception is a step of the rollback itself, which fails when another process   *)
(* has made .kater again, or when a second operation fails.                                       *)
RestoreIsAllOrNothing ==
    /\ SomeStateSurvives \/ restore.pc = "unrolled"
    /\ restore.pc = "done" =>
         /\ IF "db" \in bundle.names THEN state.db = "new" ELSE state.db # "old"
         /\ state.safety
    /\ restore.pc = "refused" => state # Gone /\ state.db = "old"

(* "restore into ... failed and was rolled back" (restore_backup).  No run checks it: the       *)
(* message is the same when the rollback failed.                                                  *)
RolledBackAsReported ==
    restore.pc \in {"refused", "unrolled"} => state # Gone /\ state.db = "old"

(* A database that is in use was sound and fully migrated before it came into place; two       *)
(* processes that migrate at once agree on it, neither fails for the other, and no recorded    *)
(* version has a gap before it.                                                                 *)
SchemaIsWhole ==
    /\ state # Gone /\ state.db = "new" => bundle.is = "sound" /\ recorded["new"] = Versions
    /\ \A m \in Migrators : migrator[m].pc = "failed" => faults > 0
    /\ \A d \in Databases : \A v \in recorded[d] : 1..v \subseteq recorded[d]
=============================================================================
