----------------------- MODULE StateDirectory_proofs -----------------------
(***************************************************************************)
(* Safety of StateDirectory for any requests, commands and migrators, any  *)
(* number of failures, and any migrations and releases; and, in the second *)
(* part, of IdempotentExecution, the actions run on that directory.        *)
(***************************************************************************)
EXTENDS StateDirectory, IdempotentExecution, TLAPS

At(pcs) == restore.pc \in pcs

Installed(dir) ==
    /\ dir # Gone
    /\ "db" \in bundle.names => dir.db = "new"
    /\ "settings" \in bundle.names => dir.settings # Absent

(* Where the files are at every step of a restore. *)
RestoreSound ==
    /\ At({"idle", "stage", "migrate", "safety", "retire", "refused"}) => IsOld(state)
    /\ At({"idle", "stage", "done", "refused", "unrolled", "failed"}) => work = Gone
    /\ At({"migrate", "safety"}) =>
         work # Gone /\ work.staged = bundle.names /\ work.retired = Gone
    /\ At({"retire"}) =>
         work # Gone /\ work.staged = bundle.names /\ work.retired = Gone /\ IsOld(work.safety)
    /\ At({"mkdir", "move", "rollback", "putback"}) =>
         work # Gone /\ work.staged = bundle.names /\ IsOld(work.retired) /\ IsOld(work.safety)
    /\ At({"mkdir", "move", "clean", "done"}) /\ state # Gone => state.db # "old"
    /\ At({"move"}) => state # Gone
    /\ At({"move"}) /\ restore.left # Members /\ "db" \in bundle.names => state.db = "new"
    /\ At({"move"}) /\ restore.left = << >> => Installed(state)
    /\ At({"clean", "done"}) => Installed(state) /\ state.safety
    /\ At({"failed"}) => Installed(state)
    /\ At({"killed"}) => SomeStateSurvives
    /\ work # Gone => work.retired \in {Gone} \cup {d \in Directories : d.db = "old"}

Prefix(versions) == \E n \in 0 .. Latest : versions = 1 .. n

(* A database of the bundle is in use, or about to be, when it was sound and is migrated. *)
SchemaSound ==
    /\ \A d \in Databases : Prefix(recorded[d])
    /\ \A m \in Migrators :
         /\ Prefix(migrator[m].seen) /\ migrator[m].seen \subseteq recorded[migrator[m].db]
         /\ migrator[m].pc = "run" => migrator[m].seen # Versions
         /\ migrator[m].db = "new" => ~At({"idle"})
         /\ migrator[m].pc = "failed" => faults > 0
    /\ state # Gone /\ state.db = "new" => bundle.is = "sound" /\ recorded["new"] = Versions
    /\ "db" \in bundle.names /\ At({"safety", "retire", "mkdir", "move"}) =>
         bundle.is = "sound" /\ recorded["new"] = Versions

(* Requests and commands that have not changed, or have given up. *)
Early == {"idle", "load", "read", "loaded", "exchange"}

Innocent(u) == user[u].pc \in Early \cup {"refused"}

Late == {"save", "saved", "done", "refused", "failed"}

Holds(u) ==
    \/ user[u].holds = <<u, "copy">> /\ user[u].pc \in Late
    \/ \E t \in Users : user[u].holds = <<t, "loaded">>

(* What they would have changed is in no file, and in no object another can hold. *)
SettingsSound ==
    /\ \A u \in Users : Holds(u)
    /\ \A u \in Users : user[u].pc = "read" => u \in Threads
    /\ \A u \in Users : Innocent(u) =>
         /\ u \notin Stored(state)
         /\ work # Gone => u \notin Stored(work.retired)
         /\ \A o \in Objects : u \in object[o] => o = <<u, "copy">>

IInv == TypeOK /\ RestoreSound /\ SchemaSound /\ SettingsSound

-----------------------------------------------------------------------------
(* A directory of an earlier build, with its settings, and nothing under way at the start. *)
LEMMA InitInv == Init => IInv
<1> SUFFICES ASSUME Init PROVE IInv
  OBVIOUS
<1>1. PICK n \in Releases : recorded = [d \in Databases |-> IF d = "old" THEN 1..n ELSE {}]
  BY DEF Init
<1>2. n \in 0 .. Latest /\ Latest \in Nat /\ 1 .. n \subseteq Versions
  BY LatestAssumption DEF Versions
<1>3. recorded \in [Databases -> SUBSET Versions]
  BY <1>1, <1>2 DEF Databases
<1>4. \A d \in Databases : recorded[d] = IF d = "old" THEN 1 .. n ELSE {}
  BY <1>1 DEF Databases
<1>5. state \in Directories /\ IsOld(state) /\ Stored(state) = {} /\ state # Gone
  <2>1. state = [db |-> "old", settings |-> {}, safety |-> FALSE]
    BY DEF Init, SettingsInit
  <2>2. state \in Directories
    BY <2>1 DEF Directories, Databases
  <2>3. {} # Absent /\ state # Gone
    BY <2>2, DirectoryAssumption
  <2> QED
    BY <2>1, <2>2, <2>3 DEF IsOld, Stored
<1>6. SettingsTypeOK
  <2>1. user \in [Users -> [pc : {"idle", "load", "read", "loaded", "exchange", "save", "saved",
                                 "done", "refused", "failed"}, holds : Objects]]
    BY DEF Init, SettingsInit, Objects
  <2>2. object \in [Objects -> SUBSET Users]
    BY DEF Init, SettingsInit
  <2> QED
    BY <2>1, <2>2, SettingsAssumption DEF Init, SettingsInit, SettingsTypeOK
<1>7. TypeOK
  <2>1. migrator \in [Migrators -> [pc : {"idle", "run", "done", "failed"},
                                   db : Databases, seen : SUBSET Versions]]
    BY DEF Init, Databases
  <2>2. restore \in [pc : {"idle", "stage", "migrate", "safety", "retire", "mkdir", "move", "rollback",
                          "putback", "clean", "done", "refused", "unrolled", "failed", "killed"},
                     left : {Members, <<"settings">>, << >>}]
    BY DEF Init
  <2>3. bundle \in [names : SUBSET {"db", "settings"}, is : {"unknown", "sound", "corrupt", "drifted"}]
    BY DEF Init
  <2> QED
    BY <1>3, <1>5, <1>6, <2>1, <2>2, <2>3 DEF Init, TypeOK
<1>8. RestoreSound
  BY <1>5 DEF Init, RestoreSound, At
<1>9. SchemaSound
  <2>1. Prefix(1 .. n) /\ Prefix({})
    <3>1. {} = 1 .. 0 /\ 0 \in 0 .. Latest
      BY <1>2
    <3> QED
      BY <1>2, <3>1 DEF Prefix
  <2> QED
    BY <1>4, <1>5, <2>1 DEF Init, SchemaSound, At, IsOld, Databases
<1>10. SettingsSound
  BY <1>5 DEF Init, SettingsInit, SettingsSound, Holds
<1> QED
  BY <1>7, <1>8, <1>9, <1>10 DEF IInv

-----------------------------------------------------------------------------
(* What others do to the directory while a restore goes on: it is made when it is missing, settings *)
(* are written, and a missing database is created.                                                  *)
Develops ==
    /\ UNCHANGED <<work, bundle, restore>>
    /\ state' \in {Gone} \cup Directories
    /\ \/ state' = state
       \/ state = Gone /\ state' # Gone /\ state'.db \in {Absent, "fresh"}
       \/ /\ state # Gone /\ state' # Gone /\ state'.safety = state.safety
          /\ state'.db = state.db \/ (state.db = Absent /\ state'.db = "fresh")
          /\ state'.settings = state.settings \/ state'.settings # Absent

(* None of it takes anything from a restore. *)
LEMMA DevelopKeepsRestore == ASSUME TypeOK, RestoreSound, Develops PROVE RestoreSound'
<1> USE DirectoryAssumption
<1>1. IsOld(state) => IsOld(state')
  BY DEF Develops, IsOld, Databases
<1>2. Installed(state) => Installed(state)'
  BY DEF Develops, Installed, Databases
<1>3. state # Gone => state' # Gone /\ state'.safety = state.safety
  BY DEF Develops
<1>4. state' # Gone /\ state'.db = "old" => state # Gone /\ state.db = "old"
  BY DEF Develops, Databases
<1>5. state # Gone /\ state.db = "new" => state'.db = "new"
  BY DEF Develops, Databases
<1>6. SomeStateSurvives => SomeStateSurvives'
  <2>1. UNCHANGED <<work, bundle>>
    BY DEF Develops
  <2> QED
    BY <1>1, <1>2, <1>3, <2>1 DEF SomeStateSurvives, Installed, IsOld
<1>7. UNCHANGED <<work, bundle, restore>>
  BY DEF Develops
<1>8. ASSUME NEW pcs PROVE At(pcs)' <=> At(pcs)
  BY <1>7 DEF At
<1>9. /\ At({"idle", "stage", "migrate", "safety", "retire", "refused"})' => IsOld(state)'
      /\ At({"clean", "done"})' => Installed(state)' /\ state'.safety
      /\ At({"failed"})' => Installed(state)'
      /\ At({"killed"})' => SomeStateSurvives'
  <2>1. At({"clean", "done"}) => state'.safety
    BY <1>3 DEF RestoreSound, Installed
  <2> QED
    BY <1>1, <1>2, <1>6, <1>8, <2>1 DEF RestoreSound
<1>10. /\ At({"mkdir", "move", "clean", "done"})' /\ state' # Gone => state'.db # "old"
       /\ At({"move"})' => state' # Gone
       /\ At({"move"})' /\ restore'.left # Members /\ "db" \in bundle'.names => state'.db = "new"
       /\ At({"move"})' /\ restore'.left = << >> => Installed(state)'
  BY <1>2, <1>3, <1>4, <1>5, <1>7, <1>8 DEF RestoreSound
<1> QED
  BY <1>7, <1>8, <1>9, <1>10 DEF RestoreSound, IsOld

(* Nor from what is known of the schema, whatever failures it takes. *)
LEMMA DevelopKeepsSchema ==
    ASSUME TypeOK, SchemaSound, Develops, UNCHANGED <<recorded, migrator>>,
           faults' \in {faults, faults + 1}
    PROVE  SchemaSound'
<1>1. faults \in Nat
  BY SettingsAssumption DEF TypeOK, SettingsTypeOK
<1>2. state' # Gone /\ state'.db = "new" => state # Gone /\ state.db = "new"
  BY DirectoryAssumption DEF Develops, Databases
<1>3. UNCHANGED <<bundle, restore>>
  BY DEF Develops
<1> QED
  BY <1>1, <1>2, <1>3 DEF SchemaSound, At, Prefix

-----------------------------------------------------------------------------
(* Settings.                                                               *)

Phases == {"idle", "load", "read", "loaded", "exchange", "save", "saved", "done", "refused", "failed"}

UserRecords == [pc : Phases, holds : Objects]

(* One request or command goes on; the others are where they were. *)
Goes(u, place, holds) ==
    /\ user' \in [Users -> UserRecords]
    /\ user'[u].pc = place /\ user'[u].holds = holds
    /\ \A w \in Users \ {u} : user'[w] = user[w]

(* What Go writes. *)
LEMMA GoGoes ==
    ASSUME TypeOK, NEW u \in Users, NEW place \in Phases, Go(u, place),
           NEW holds, holds = user[u].holds
    PROVE  Goes(u, place, holds)
<1>1. user \in [Users -> UserRecords] /\ user[u] \in UserRecords
  BY DEF TypeOK, SettingsTypeOK, UserRecords, Phases
<1>2. user' = [user EXCEPT ![u] = [user[u] EXCEPT !.pc = place]]
  BY DEF Go
<1>3. [user[u] EXCEPT !.pc = place] \in UserRecords
  BY <1>1 DEF UserRecords
<1> QED
  BY <1>1, <1>2, <1>3 DEF Goes, UserRecords

(* A step that changes no object and no file. *)
LEMMA QuietStep ==
    ASSUME TypeOK, SettingsSound, NEW u \in Users, NEW place \in Phases, NEW holds,
           Goes(u, place, holds), UNCHANGED <<object, state, work>>,
           holds = user[u].holds \/ \E t \in Users : holds = <<t, "loaded">>,
           place = "read" => u \in Threads,
           place \in Early \cup {"refused"} => Innocent(u),
           user[u].pc \in Late => place \in Late
    PROVE  SettingsSound'
<1>1. ASSUME NEW w \in Users PROVE Holds(w)'
  <2>1. Holds(w) /\ Holds(u)
    BY DEF SettingsSound
  <2>2. CASE w = u
    BY <2>1, <2>2 DEF Goes, Holds
  <2>3. CASE w # u
    BY <2>1, <2>3 DEF Goes, Holds
  <2> QED
    BY <2>2, <2>3
<1>r. ASSUME NEW w \in Users, user'[w].pc = "read" PROVE w \in Threads
  <2>1. CASE w = u
    BY <1>r, <2>1 DEF Goes
  <2>2. CASE w # u
    BY <1>r, <2>2 DEF Goes, SettingsSound
  <2> QED
    BY <2>1, <2>2
<1>2. ASSUME NEW w \in Users, Innocent(w)' PROVE Innocent(w)
  <2>1. CASE w = u
    BY <1>2, <2>1 DEF Goes, Innocent
  <2>2. CASE w # u
    BY <1>2, <2>2 DEF Goes, Innocent
  <2> QED
    BY <2>1, <2>2
<1> QED
  BY <1>1, <1>2, <1>r DEF SettingsSound, Stored

SettingsStepOK ==
    SettingsTypeOK' /\ SettingsSound' /\ Develops /\ faults' \in {faults, faults + 1}

(* Starting, filling the cache, refusing, and ending touch no object and no file. *)
LEMMA QuietSteps ==
    ASSUME TypeOK, SettingsSound, UNCHANGED stateVars, NEW u \in Users,
           \/ Start(u) \/ StoreCache(u) \/ BeginExchange(u) \/ SaveFails(u) \/ InvalidateCache(u)
           \/ user[u].pc \in {"loaded", "exchange"} /\ Refuse(u)
    PROVE  SettingsStepOK
<1>1. /\ UNCHANGED <<state, object, work, bundle, restore>>
      /\ faults' \in 0 .. MaxFaults /\ faults' \in {faults, faults + 1}
      /\ cache' \in Threads \cup {NoCache}
  <2>1. faults \in 0 .. MaxFaults /\ MaxFaults \in Nat /\ cache \in Threads \cup {NoCache}
    BY SettingsAssumption DEF TypeOK, SettingsTypeOK
  <2>2. StoreCache(u) => u \in Threads
    BY DEF StoreCache, SettingsSound
  <2> QED
    BY <2>1, <2>2 DEF stateVars, Start, StoreCache, BeginExchange, SaveFails, InvalidateCache,
                      Refuse, Fault
<1>2. Develops
  BY <1>1 DEF Develops, TypeOK
<1>3. ASSUME NEW place \in Phases, Go(u, place), place # "read",
             place \in Early \cup {"refused"} => Innocent(u),
             user[u].pc \in Late => place \in Late
      PROVE  SettingsStepOK
  <2>1. PICK holds : holds = user[u].holds
    OBVIOUS
  <2>2. Goes(u, place, holds)
    BY <1>3, <2>1, GoGoes
  <2>3. SettingsSound'
    BY <1>1, <1>3, <2>1, <2>2, QuietStep
  <2>4. SettingsTypeOK'
    BY <1>1, <2>2 DEF Goes, SettingsTypeOK, TypeOK, UserRecords, Phases
  <2> QED
    BY <1>1, <1>2, <2>3, <2>4 DEF SettingsStepOK
<1> USE DEF Phases, Early, Late, Innocent
<1>4. CASE Start(u)
  BY <1>3, <1>4 DEF Start
<1>5. CASE StoreCache(u)
  BY <1>3, <1>5 DEF StoreCache
<1>6. CASE BeginExchange(u)
  BY <1>3, <1>6 DEF BeginExchange, Loaded
<1>7. CASE SaveFails(u)
  BY <1>3, <1>7 DEF SaveFails
<1>8. CASE InvalidateCache(u)
  BY <1>3, <1>8 DEF InvalidateCache
<1>9. CASE user[u].pc \in {"loaded", "exchange"} /\ Refuse(u)
  BY <1>3, <1>9 DEF Refuse
<1> QED
  BY <1>4, <1>5, <1>6, <1>7, <1>8, <1>9

(* The cached object is one that was loaded. *)
LEMMA LoadCachedStep ==
    ASSUME TypeOK, SettingsSound, UNCHANGED stateVars, NEW u \in Users, LoadCached(u)
    PROVE  SettingsStepOK
<1>1. UNCHANGED <<state, object, cache, work, bundle, restore, faults>>
  BY DEF LoadCached, stateVars
<1>2. user[u].pc = "load" /\ cache \in Users
      /\ user' = [user EXCEPT ![u].pc = "loaded", ![u].holds = <<cache, "loaded">>]
  BY DEF LoadCached, TypeOK, SettingsTypeOK, Users
<1>3. Goes(u, "loaded", <<cache, "loaded">>)
  <2>1. user \in [Users -> UserRecords] /\ user[u] \in UserRecords
    BY DEF TypeOK, SettingsTypeOK, UserRecords, Phases
  <2>2. <<cache, "loaded">> \in Objects
    BY <1>2 DEF Objects
  <2>3. user' = [user EXCEPT ![u] = user'[u]] /\ user'[u].pc = "loaded"
        /\ user'[u].holds = <<cache, "loaded">>
    BY <1>2, <2>1 DEF UserRecords
  <2>4. user'[u] \in UserRecords
    BY <1>2, <2>1, <2>2 DEF UserRecords, Phases
  <2> QED
    BY <2>1, <2>3, <2>4 DEF Goes
<1>4. SettingsSound'
  <2>1. Innocent(u) /\ user[u].pc \notin Late
    BY <1>2 DEF Innocent, Early, Late
  <2>2. "loaded" \in Phases /\ \E t \in Users : <<cache, "loaded">> = <<t, "loaded">>
    BY <1>2 DEF Phases
  <2> QED
    BY <1>1, <1>3, <2>1, <2>2, QuietStep
<1>5. SettingsTypeOK'
  BY <1>1, <1>3 DEF Goes, SettingsTypeOK, TypeOK, UserRecords, Phases
<1>6. Develops /\ faults' = faults
  BY <1>1 DEF Develops, TypeOK
<1> QED
  BY <1>4, <1>5, <1>6 DEF SettingsStepOK

MayHold(u, place, holds) ==
    \/ holds = <<u, "copy">> /\ place \in Late
    \/ \E t \in Users : holds = <<t, "loaded">>

(* A step that writes one object and no file. *)
LEMMA ObjectStep ==
    ASSUME TypeOK, SettingsSound, NEW u \in Users, NEW place \in Phases, NEW holds,
           Goes(u, place, holds), UNCHANGED <<state, work>>,
           NEW o \in Objects, NEW changes \in SUBSET Users,
           object' = [object EXCEPT ![o] = changes],
           MayHold(u, place, holds),
           \A w \in Users : Innocent(w)' /\ w \in changes => o = <<w, "copy">>,
           place = "read" => u \in Threads,
           place \in Early \cup {"refused"} => Innocent(u)
    PROVE  SettingsSound'
<1>1. ASSUME NEW w \in Users PROVE Holds(w)'
  <2>1. Holds(w)
    BY DEF SettingsSound
  <2>2. CASE w = u
    BY <2>2 DEF Goes, Holds, MayHold
  <2>3. CASE w # u
    BY <2>1, <2>3 DEF Goes, Holds
  <2> QED
    BY <2>2, <2>3
<1>r. ASSUME NEW w \in Users, user'[w].pc = "read" PROVE w \in Threads
  <2>1. CASE w = u
    BY <1>r, <2>1 DEF Goes
  <2>2. CASE w # u
    BY <1>r, <2>2 DEF Goes, SettingsSound
  <2> QED
    BY <2>1, <2>2
<1>2. ASSUME NEW w \in Users, Innocent(w)' PROVE Innocent(w)
  <2>1. CASE w = u
    BY <1>2, <2>1 DEF Goes, Innocent
  <2>2. CASE w # u
    BY <1>2, <2>2 DEF Goes, Innocent
  <2> QED
    BY <2>1, <2>2
<1>3. ASSUME NEW w \in Users, Innocent(w)', NEW x \in Objects, w \in object'[x]
      PROVE  x = <<w, "copy">>
  <2>1. object \in [Objects -> SUBSET Users]
    BY DEF TypeOK, SettingsTypeOK
  <2>2. CASE x = o
    BY <1>3, <2>1, <2>2
  <2>3. CASE x # o
    BY <1>2, <1>3, <2>1, <2>3 DEF SettingsSound
  <2> QED
    BY <2>2, <2>3
<1> QED
  BY <1>1, <1>2, <1>3, <1>r DEF SettingsSound, Stored

(* What a directory stores are changes of users. *)
LEMMA StoredType == TypeOK => Stored(state) \in SUBSET Users
BY DirectoryAssumption DEF TypeOK, Directories, Stored

(* The file holds no change of the innocent. *)
LEMMA LoadFileStep ==
    ASSUME TypeOK, SettingsSound, UNCHANGED stateVars, NEW u \in Users, LoadFile(u)
    PROVE  SettingsStepOK
<1>1. UNCHANGED <<state, cache, work, bundle, restore, faults>> /\ user[u].pc = "load"
  BY DEF LoadFile, stateVars
<1>2. PICK o \in Objects : o = <<u, "loaded">>
  BY DEF Objects
<1>3. PICK changes \in SUBSET Users : changes = Stored(state)
  BY StoredType
<1>4. object' = [object EXCEPT ![o] = changes]
  BY <1>2, <1>3 DEF LoadFile
<1>5. PICK holds : holds = user[u].holds
  OBVIOUS
<1>6. ASSUME NEW place \in {"read", "loaded"}, place = "read" => u \in Threads, Go(u, place)
      PROVE  SettingsStepOK
  <2>1. Goes(u, place, holds)
    BY <1>5, <1>6, GoGoes DEF Phases
  <2>2. MayHold(u, place, holds)
    <3>1. Holds(u)
      BY DEF SettingsSound
    <3> QED
      BY <1>1, <1>5, <3>1 DEF Holds, MayHold, Late
  <2>3. ASSUME NEW w \in Users, Innocent(w)', w \in changes PROVE o = <<w, "copy">>
    <3>1. Innocent(w)
      <4>1. CASE w = u
        BY <1>1, <4>1 DEF Innocent, Early
      <4>2. CASE w # u
        BY <2>1, <2>3, <4>2 DEF Goes, Innocent
      <4> QED
        BY <4>1, <4>2
    <3> QED
      BY <1>3, <2>3, <3>1 DEF SettingsSound
  <2>4. Innocent(u) /\ place \in Phases
    BY <1>1 DEF Innocent, Early, Phases
  <2>5. SettingsSound'
    BY <1>1, <1>4, <1>6, <2>1, <2>2, <2>3, <2>4, ObjectStep
  <2>6. object' \in [Objects -> SUBSET Users]
    BY <1>4 DEF TypeOK, SettingsTypeOK
  <2>7. SettingsTypeOK'
    BY <1>1, <2>1, <2>6 DEF Goes, SettingsTypeOK, TypeOK, UserRecords, Phases
  <2>8. Develops /\ faults' = faults
    BY <1>1 DEF Develops, TypeOK
  <2> QED
    BY <2>5, <2>7, <2>8 DEF SettingsStepOK
<1> QED
  BY <1>6 DEF LoadFile

(* Whoever changes the object it holds is innocent no longer, and the object is nobody's copy. *)
LEMMA ChangeStep ==
    ASSUME TypeOK, SettingsSound, UNCHANGED stateVars, NEW u \in Users,
           user[u].pc \in {"loaded", "exchange"}, ChangeInPlace(u)
    PROVE  SettingsStepOK
<1>1. UNCHANGED <<state, cache, work, bundle, restore, faults>> /\ Go(u, "save")
  BY DEF ChangeInPlace, stateVars
<1>2. user[u] \in UserRecords /\ object \in [Objects -> SUBSET Users]
  BY DEF TypeOK, SettingsTypeOK, UserRecords, Phases
<1>3. PICK o \in Objects : o = user[u].holds
  BY <1>2 DEF UserRecords
<1>4. PICK changes \in SUBSET Users : changes = object[o] \cup {u}
  BY <1>2
<1>5. object' = [object EXCEPT ![o] = changes]
  BY <1>2, <1>3, <1>4 DEF ChangeInPlace, Change
<1>6. Goes(u, "save", o)
  BY <1>1, <1>3, GoGoes DEF Phases
<1>7. MayHold(u, "save", o)
  <2>1. Holds(u)
    BY DEF SettingsSound
  <2> QED
    BY <1>3, <2>1 DEF Holds, MayHold, Late
<1>8. ASSUME NEW w \in Users, Innocent(w)', w \in changes PROVE o = <<w, "copy">>
  <2>1. w # u
    BY <1>6, <1>8 DEF Goes, Innocent, Early
  <2>2. Innocent(w)
    BY <1>6, <1>8, <2>1 DEF Goes, Innocent
  <2> QED
    BY <1>4, <1>8, <2>1, <2>2 DEF SettingsSound
<1>9. "save" \in Phases /\ "save" \notin Early \cup {"refused"} /\ "save" # "read"
  BY DEF Phases, Early
<1>10. SettingsSound'
  BY <1>1, <1>5, <1>6, <1>7, <1>8, <1>9, ObjectStep
<1>11. object' \in [Objects -> SUBSET Users]
  BY <1>2, <1>5
<1>12. SettingsTypeOK'
  BY <1>1, <1>6, <1>11 DEF Goes, SettingsTypeOK, TypeOK, UserRecords, Phases
<1>13. Develops /\ faults' = faults
  BY <1>1 DEF Develops, TypeOK
<1> QED
  BY <1>10, <1>12, <1>13 DEF SettingsStepOK

(* A patch that is judged goes into a copy, which nobody else ever holds. *)
LEMMA UpdateStep ==
    ASSUME TypeOK, SettingsSound, UNCHANGED stateVars, NEW u \in Users, UpdateSettings(u)
    PROVE  SettingsStepOK
<1>1. /\ UNCHANGED <<state, cache, work, bundle, restore, faults>>
      /\ user[u].pc = "loaded"
  BY DEF UpdateSettings, Loaded, stateVars
<1>2. user \in [Users -> UserRecords] /\ user[u] \in UserRecords /\ object \in [Objects -> SUBSET Users]
  BY DEF TypeOK, SettingsTypeOK, UserRecords, Phases
<1>3. PICK from \in Objects : from = user[u].holds
  BY <1>2 DEF UserRecords
<1>4. PICK changes \in SUBSET Users : changes = object[from] \cup {u}
  BY <1>2
<1>5. PICK o \in Objects : o = <<u, "copy">>
  BY DEF Objects
<1>6. object' = [object EXCEPT ![o] = changes]
  BY <1>3, <1>4, <1>5 DEF UpdateSettings
<1>7. \E t \in Users : from = <<t, "loaded">>
  <2>1. Holds(u)
    BY DEF SettingsSound
  <2> QED
    BY <1>1, <1>3, <2>1 DEF Holds, Late
<1>8. ASSUME NEW place \in {"save", "refused"},
             user' = [user EXCEPT ![u].pc = place, ![u].holds = <<u, "copy">>]
      PROVE  SettingsStepOK
  <2>1. Goes(u, place, o)
    <3>1. user' = [user EXCEPT ![u] = user'[u]] /\ user'[u].pc = place /\ user'[u].holds = o
      BY <1>2, <1>5, <1>8 DEF UserRecords
    <3>2. user'[u] \in UserRecords
      BY <1>2, <1>5, <1>8 DEF UserRecords, Phases
    <3> QED
      BY <1>2, <3>1, <3>2 DEF Goes
  <2>2. ASSUME NEW w \in Users, Innocent(w)', w \in changes PROVE o = <<w, "copy">>
    <3>1. CASE w = u
      BY <1>5, <3>1
    <3>2. CASE w # u
      <4>1. Innocent(w)
        BY <2>1, <2>2, <3>2 DEF Goes, Innocent
      <4>2. from = <<w, "copy">>
        BY <1>4, <2>2, <3>2, <4>1 DEF SettingsSound
      <4> QED
        BY <1>7, <4>2
    <3> QED
      BY <3>1, <3>2
  <2>3. place \in Phases /\ place \in Late /\ place # "read" /\ Innocent(u)
    BY <1>1 DEF Phases, Late, Innocent, Early
  <2>8. MayHold(u, place, o)
    BY <1>5, <2>3 DEF MayHold
  <2>4. SettingsSound'
    BY <1>1, <1>6, <2>1, <2>2, <2>3, <2>8, ObjectStep
  <2>5. object' \in [Objects -> SUBSET Users]
    BY <1>2, <1>6
  <2>6. SettingsTypeOK'
    BY <1>1, <2>1, <2>5 DEF Goes, SettingsTypeOK, TypeOK, UserRecords, Phases
  <2>7. Develops /\ faults' = faults
    BY <1>1 DEF Develops, TypeOK
  <2> QED
    BY <2>4, <2>6, <2>7 DEF SettingsStepOK
<1> QED
  BY <1>8 DEF UpdateSettings

(* A save writes no change of the innocent: the object saved is not their copy. *)
LEMMA SaveStep ==
    ASSUME TypeOK, SettingsSound, UNCHANGED stateVars, NEW u \in Users, Save(u)
    PROVE  SettingsStepOK
<1>1. /\ UNCHANGED <<object, cache, work, bundle, restore, faults>> /\ user[u].pc = "save"
      /\ Go(u, "saved")
  BY DEF Save, stateVars
<1>2. user[u] \in UserRecords /\ object \in [Objects -> SUBSET Users]
  BY DEF TypeOK, SettingsTypeOK, UserRecords, Phases
<1>3. PICK o \in Objects : o = user[u].holds
  BY <1>2 DEF UserRecords
<1>4. Goes(u, "saved", o)
  BY <1>1, <1>3, GoGoes DEF Phases
<1>5. object[o] \in SUBSET Users /\ object[o] # Absent
  BY <1>2, DirectoryAssumption
<1>6. PICK dir \in Directories : dir = IF state = Gone THEN Empty ELSE state
  BY DEF TypeOK, Directories, Empty
<1>7. state' = [dir EXCEPT !.settings = object[o]]
  BY <1>3, <1>6 DEF Save
<1>8. /\ state' \in Directories /\ state'.settings = object[o]
      /\ state'.db = dir.db /\ state'.safety = dir.safety
  BY <1>5, <1>7 DEF Directories
<1>9. state' # Gone /\ Stored(state') = object[o]
  BY <1>5, <1>8, DirectoryAssumption DEF Stored
<1>10. Develops
  BY <1>1, <1>5, <1>6, <1>8, <1>9 DEF Develops, Empty
<1>11. SettingsSound'
  <2>1. ASSUME NEW w \in Users PROVE Holds(w)' /\ (user'[w].pc = "read" => w \in Threads)
    <3>1. Holds(w) /\ (user[w].pc = "read" => w \in Threads)
      BY DEF SettingsSound
    <3>2. CASE w = u
      BY <1>1, <1>3, <1>4, <3>1, <3>2 DEF Goes, Holds, Late
    <3>3. CASE w # u
      BY <1>4, <3>1, <3>3 DEF Goes, Holds
    <3> QED
      BY <3>2, <3>3
  <2>2. ASSUME NEW w \in Users, Innocent(w)'
        PROVE  /\ w \notin object[o]
               /\ work # Gone => w \notin Stored(work.retired)
               /\ \A x \in Objects : w \in object[x] => x = <<w, "copy">>
    <3>1. w # u
      BY <1>4, <2>2 DEF Goes, Innocent, Early
    <3>2. Innocent(w)
      BY <1>4, <2>2, <3>1 DEF Goes, Innocent
    <3>3. Holds(u)
      BY DEF SettingsSound
    <3>4. o # <<w, "copy">>
      BY <1>3, <3>1, <3>3 DEF Holds
    <3> QED
      BY <3>2, <3>4 DEF SettingsSound
  <2> QED
    BY <1>1, <1>9, <2>1, <2>2 DEF SettingsSound, Stored
<1>12. SettingsTypeOK'
  BY <1>1, <1>4 DEF Goes, SettingsTypeOK, TypeOK, UserRecords, Phases
<1> QED
  BY <1>1, <1>10, <1>11, <1>12 DEF SettingsStepOK

(* Every step of a request or a command. *)
LEMMA SettingsStepInv ==
    ASSUME IInv, SettingsNext, UNCHANGED stateVars PROVE IInv'
<1>1. SettingsStepOK
  <2>1. PICK u \in Users : Start(u) \/ SettingsStep(u)
    BY DEF SettingsNext
  <2> QED
    BY <2>1, QuietSteps, LoadCachedStep, LoadFileStep, ChangeStep, UpdateStep, SaveStep
       DEF IInv, SettingsStep, ServerAction, ServerCredentials, ServerConnectionDelete,
           Loaded, EndExchange
<1>2. RestoreSound'
  BY <1>1, DevelopKeepsRestore DEF IInv, SettingsStepOK
<1>3. SchemaSound'
  BY <1>1, DevelopKeepsSchema DEF IInv, SettingsStepOK, stateVars
<1>4. TypeOK'
  BY <1>1 DEF IInv, TypeOK, SettingsStepOK, Develops, stateVars
<1> QED
  BY <1>1, <1>2, <1>3, <1>4 DEF IInv, SettingsStepOK

-----------------------------------------------------------------------------
(* Migrations.                                                             *)

MigratorRecords == [pc : {"idle", "run", "done", "failed"}, db : Databases, seen : SUBSET Versions]

(* What the settings of requests rest on is in files and objects alone. *)
LEMMA SettingsAreKept ==
    ASSUME SettingsSound, UNCHANGED settingsVars,
           \A u \in Users : u \notin Stored(state) /\ (work # Gone => u \notin Stored(work.retired)) =>
                            u \notin Stored(state') /\ (work' # Gone => u \notin Stored(work'.retired))
    PROVE  SettingsSound'
<1>1. UNCHANGED <<user, object>>
  BY DEF settingsVars
<1> QED
  BY <1>1 DEF SettingsSound, Holds, Innocent, Stored

(* A migrator opens the database, which it makes when it is missing. *)
LEMMA AppliedVersionsStep ==
    ASSUME IInv, NEW m \in Migrators, AppliedVersions(m) PROVE IInv'
<1> DEFINE there == IF state = Gone THEN Empty ELSE state
<1>1. PICK dir \in Directories : dir = there
  BY DEF IInv, TypeOK, Directories, Empty
<1>2. PICK db \in Databases : db = IF dir.db = Absent THEN "fresh" ELSE dir.db
  BY <1>1 DEF Directories, Databases
<1>3. PICK seen \in SUBSET Versions : seen = recorded[db]
  BY DEF IInv, TypeOK
<1>4. PICK place \in {"done", "run"} : place = IF Versions \subseteq seen THEN "done" ELSE "run"
  OBVIOUS
<1>5. /\ state' = [dir EXCEPT !.db = db]
      /\ migrator' = [migrator EXCEPT ![m] = [pc |-> place, db |-> db, seen |-> seen]]
      /\ UNCHANGED <<settingsVars, faults, work, bundle, recorded, restore>>
  BY <1>1, <1>2, <1>3, <1>4 DEF AppliedVersions
<1>6. /\ state' \in Directories /\ state'.db = db /\ state'.settings = dir.settings
      /\ state'.safety = dir.safety
  BY <1>5 DEF Directories
<1>7. state' # Gone
  BY <1>6, DirectoryAssumption
<1>8. Develops
  BY <1>1, <1>2, <1>5, <1>6, <1>7, DirectoryAssumption DEF Develops, Empty, Databases
<1>9. [pc |-> place, db |-> db, seen |-> seen] \in MigratorRecords
  BY <1>4 DEF MigratorRecords
<1>10. /\ migrator \in [Migrators -> MigratorRecords] /\ migrator' \in [Migrators -> MigratorRecords]
       /\ migrator'[m] = [pc |-> place, db |-> db, seen |-> seen]
       /\ \A w \in Migrators \ {m} : migrator'[w] = migrator[w]
  BY <1>5, <1>9 DEF IInv, TypeOK, MigratorRecords
<1>11. TypeOK'
  BY <1>5, <1>6, <1>10 DEF IInv, TypeOK, SettingsTypeOK, settingsVars, MigratorRecords
<1>12. RestoreSound'
  BY <1>8, DevelopKeepsRestore DEF IInv
<1>13. SettingsSound'
  <2>1. Stored(state') = Stored(state)
    BY <1>1, <1>6, <1>7 DEF Stored, Empty
  <2> QED
    BY <1>5, <2>1, SettingsAreKept DEF IInv
<1>14. SchemaSound'
  <2>1. \A d \in Databases : Prefix(recorded[d])
    BY DEF IInv, SchemaSound
  <2>2. db = "new" => state # Gone /\ state.db = "new"
    BY <1>1, <1>2, DirectoryAssumption DEF Empty, Databases
  <2>3. state # Gone /\ state.db = "new" => ~At({"idle"}) /\ bundle.is = "sound" /\ recorded["new"] = Versions
    BY DEF IInv, SchemaSound, RestoreSound, IsOld, At
  <2>4. /\ Prefix(seen) /\ seen \subseteq recorded[db]
        /\ place = "run" => seen # Versions
        /\ db = "new" => ~At({"idle"}) /\ bundle.is = "sound" /\ recorded["new"] = Versions
    BY <1>3, <1>4, <2>1, <2>2, <2>3
  <2>5. \A w \in Migrators :
          /\ Prefix(migrator'[w].seen) /\ migrator'[w].seen \subseteq recorded[migrator'[w].db]
          /\ migrator'[w].pc = "run" => migrator'[w].seen # Versions
          /\ migrator'[w].db = "new" => ~At({"idle"})
          /\ migrator'[w].pc = "failed" => faults > 0
    BY <1>4, <1>10, <2>4 DEF IInv, SchemaSound
  <2> QED
    BY <1>5, <1>6, <2>1, <2>4, <2>5 DEF IInv, SchemaSound, At, Prefix
<1> QED
  BY <1>11, <1>12, <1>13, <1>14 DEF IInv

(* The version to apply next is the one after those seen. *)
LEMMA NextVersionFollows ==
    ASSUME IInv, NEW m \in Migrators, migrator[m].pc = "run"
    PROVE  \E n \in 0 .. Latest :
             /\ n < Latest /\ migrator[m].seen = 1 .. n /\ NextVersion(m) = n + 1
<1>1. PICK n \in 0 .. Latest : migrator[m].seen = 1 .. n
  BY DEF IInv, SchemaSound, Prefix
<1>2. migrator[m].seen # Versions /\ Latest \in Nat
  BY LatestAssumption DEF IInv, SchemaSound
<1>3. n < Latest
  BY <1>1, <1>2 DEF Versions
<1>4. /\ n + 1 \in Versions \ migrator[m].seen
      /\ \A w \in Versions \ migrator[m].seen : n + 1 <= w
  BY <1>1, <1>2, <1>3 DEF Versions
<1>5. \A v \in Versions \ migrator[m].seen :
        (\A w \in Versions \ migrator[m].seen : v <= w) => v = n + 1
  BY <1>2, <1>4 DEF Versions
<1>6. NextVersion(m) = n + 1
  BY <1>4, <1>5 DEF NextVersion
<1> QED
  BY <1>1, <1>3, <1>6

(* A version recorded after its predecessors leaves no gap, whoever recorded them. *)
LEMMA ApplyStep ==
    ASSUME IInv, NEW m \in Migrators, Apply(m) PROVE IInv'
<1>1. /\ migrator[m].pc = "run"
      /\ UNCHANGED <<state, settingsVars, work, bundle, restore>>
  BY DEF Apply
<1>2. PICK n \in 0 .. Latest : n < Latest /\ migrator[m].seen = 1 .. n /\ NextVersion(m) = n + 1
  BY <1>1, NextVersionFollows
<1>3. PICK db \in Databases : db = migrator[m].db
  BY DEF IInv, TypeOK
<1>4. PICK k \in 0 .. Latest : recorded[db] = 1 .. k /\ n <= k
  <2>1. PICK k \in 0 .. Latest : recorded[db] = 1 .. k
    BY DEF IInv, SchemaSound, Prefix
  <2>2. 1 .. n \subseteq 1 .. k
    BY <1>2, <1>3, <2>1 DEF IInv, SchemaSound
  <2>3. n <= k
    BY <2>2, LatestAssumption
  <2> QED
    BY <2>1, <2>3
<1>5. PICK j \in 0 .. Latest : j = IF n = k THEN k + 1 ELSE k
  BY <1>2, LatestAssumption
<1>6. 1 .. k \cup {n + 1} = 1 .. j /\ 1 .. j \subseteq Versions /\ 1 .. n \cup {n + 1} = 1 .. (n + 1)
  BY <1>2, <1>4, <1>5, LatestAssumption DEF Versions
<1>7. PICK ok \in BOOLEAN :
        /\ Recorded(m, ok)
        /\ IF ok THEN recorded' = [recorded EXCEPT ![db] = 1 .. j] /\ faults' = faults
                 ELSE recorded' = recorded /\ Fault
  BY <1>2, <1>3, <1>4, <1>6 DEF Apply
<1>8. recorded' \in [Databases -> SUBSET Versions]
      /\ \A d \in Databases : recorded'[d] = IF ok /\ d = db THEN 1 .. j ELSE recorded[d]
  BY <1>6, <1>7 DEF IInv, TypeOK
<1>9. PICK seen \in SUBSET Versions : seen = IF ok THEN 1 .. (n + 1) ELSE 1 .. n
  BY <1>2, LatestAssumption DEF Versions
<1>10. PICK place \in {"failed", "done", "run"} :
         place = IF ~ok THEN "failed" ELSE IF Versions \subseteq 1 .. (n + 1) THEN "done" ELSE "run"
  OBVIOUS
<1>11. migrator \in [Migrators -> MigratorRecords]
  BY DEF IInv, TypeOK, MigratorRecords
<1>12. /\ migrator' \in [Migrators -> MigratorRecords]
       /\ migrator'[m].pc = place /\ migrator'[m].seen = seen /\ migrator'[m].db = db
       /\ \A w \in Migrators \ {m} : migrator'[w] = migrator[w]
  <2>1. migrator' = [migrator EXCEPT ![m].seen = seen, ![m].pc = place]
    BY <1>2, <1>6, <1>7, <1>9, <1>10, <1>11 DEF Recorded, MigratorRecords
  <2> QED
    BY <1>3, <1>9, <1>10, <1>11, <2>1 DEF MigratorRecords
<1>13. /\ faults' \in 0 .. MaxFaults /\ faults' \in {faults, faults + 1} /\ faults \in Nat
       /\ ~ok => faults' > 0
  <2>1. faults \in 0 .. MaxFaults /\ MaxFaults \in Nat
    BY SettingsAssumption DEF IInv, TypeOK, SettingsTypeOK
  <2> QED
    BY <1>7, <2>1 DEF Fault
<1>14. TypeOK'
  BY <1>1, <1>8, <1>12, <1>13 DEF IInv, TypeOK, SettingsTypeOK, settingsVars, MigratorRecords
<1>15. Develops
  BY <1>1 DEF Develops, IInv, TypeOK
<1>16. RestoreSound'
  BY <1>15, DevelopKeepsRestore DEF IInv
<1>17. SettingsSound'
  BY <1>1, SettingsAreKept DEF IInv
<1>18. SchemaSound'
  <2>1. \A d \in Databases : Prefix(recorded'[d]) /\ recorded[d] \subseteq recorded'[d]
    <3>1. ASSUME NEW d \in Databases PROVE Prefix(recorded'[d]) /\ recorded[d] \subseteq recorded'[d]
      <4>1. CASE ok /\ d = db
        BY <1>4, <1>6, <1>8, <4>1 DEF Prefix
      <4>2. CASE ~(ok /\ d = db)
        BY <1>8, <4>2 DEF IInv, SchemaSound
      <4> QED
        BY <4>1, <4>2
    <3> QED
      BY <3>1
  <2>2. recorded["new"] = Versions => recorded'["new"] = Versions
    BY <1>8, <2>1 DEF Databases, IInv, TypeOK
  <2>3. /\ Prefix(seen) /\ seen \subseteq recorded'[db]
        /\ place = "run" => seen # Versions
        /\ db = "new" => ~At({"idle"})
        /\ place = "failed" => faults' > 0
    <3>1. Prefix(seen)
      BY <1>2, <1>9, LatestAssumption DEF Prefix
    <3>2. seen \subseteq recorded'[db]
      BY <1>4, <1>6, <1>8, <1>9
    <3>3. place = "run" => seen # Versions
      BY <1>9, <1>10
    <3>4. db = "new" => ~At({"idle"})
      BY <1>3 DEF IInv, SchemaSound
    <3>5. place = "failed" => faults' > 0
      BY <1>10, <1>13
    <3> QED
      BY <3>1, <3>2, <3>3, <3>4, <3>5
  <2>4. ASSUME NEW w \in Migrators
        PROVE /\ Prefix(migrator'[w].seen) /\ migrator'[w].seen \subseteq recorded'[migrator'[w].db]
              /\ migrator'[w].pc = "run" => migrator'[w].seen # Versions
              /\ migrator'[w].db = "new" => ~At({"idle"})
              /\ migrator'[w].pc = "failed" => faults' > 0
    <3>1. CASE w = m
      BY <1>12, <2>3, <3>1
    <3>2. CASE w # m
      <4>1. migrator'[w] = migrator[w] /\ migrator[w].db \in Databases
        BY <1>11, <1>12, <3>2 DEF MigratorRecords
      <4> QED
        BY <1>13, <2>1, <4>1 DEF IInv, SchemaSound
    <3> QED
      BY <3>1, <3>2
  <2> QED
    BY <1>1, <2>1, <2>2, <2>4 DEF IInv, SchemaSound, At, Prefix
<1> QED
  BY <1>14, <1>16, <1>17, <1>18 DEF IInv

-----------------------------------------------------------------------------
(* The restore.                                                            *)

RestorePcs ==
    {"idle", "stage", "migrate", "safety", "retire", "mkdir", "move", "clean",
     "done", "refused", "failed", "killed", "rollback", "putback", "unrolled"}

RestoreRecords == [pc : RestorePcs, left : {Members, <<"settings">>, << >>}]

(* The restore has checked its bundle and migrated the database in it. *)
Staged == At({"safety", "retire", "mkdir", "move"})

(* A step of the restore that leaves the bundle and the recorded versions alone. *)
Moves ==
    /\ UNCHANGED <<settingsVars, migrator, bundle, recorded>>
    /\ faults' = faults \/ Fault
    /\ state' \in {Gone} \cup Directories /\ work' \in {Gone} \cup WorkDirectories
    /\ restore' \in RestoreRecords
    /\ ~At({"idle"}) /\ ~At({"idle"})'
    /\ Staged' => Staged

(* No step makes a file out of the changes of a request that is not in one. *)
NothingNewStored ==
    \A u \in Users : u \notin Stored(state) /\ (work # Gone => u \notin Stored(work.retired)) =>
                    u \notin Stored(state') /\ (work' # Gone => u \notin Stored(work'.retired))

(* Failures are counted up to their bound. *)
LEMMA FaultsCount ==
    ASSUME TypeOK, faults' = faults \/ Fault
    PROVE  faults \in Nat /\ faults' \in 0 .. MaxFaults /\ faults' \in {faults, faults + 1}
<1>1. faults \in 0 .. MaxFaults /\ MaxFaults \in Nat
  BY SettingsAssumption DEF TypeOK, SettingsTypeOK
<1> QED
  BY <1>1 DEF Fault

(* What is left to show of a step of the restore is where the files are after it. *)
LEMMA MovesInv ==
    ASSUME IInv, Moves, NothingNewStored, RestoreSound',
           state' # Gone /\ state'.db = "new" =>
              (state # Gone /\ state.db = "new") \/ ("db" \in bundle.names /\ Staged)
    PROVE  IInv'
<1>1. TypeOK'
  BY FaultsCount DEF IInv, Moves, TypeOK, SettingsTypeOK, settingsVars, RestoreRecords, RestorePcs
<1>2. SettingsSound'
  BY SettingsAreKept DEF IInv, Moves, NothingNewStored
<1>3. SchemaSound'
  <2>1. UNCHANGED <<migrator, bundle, recorded>> /\ faults' \in {faults, faults + 1} /\ faults \in Nat
    BY FaultsCount DEF IInv, Moves
  <2>2. \A m \in Migrators : migrator[m].pc = "failed" => faults' > 0
    BY <2>1 DEF IInv, SchemaSound
  <2>3. "db" \in bundle.names /\ Staged => bundle.is = "sound" /\ recorded["new"] = Versions
    BY DEF IInv, SchemaSound, Staged
  <2>4. state' # Gone /\ state'.db = "new" => bundle.is = "sound" /\ recorded["new"] = Versions
    BY <2>3 DEF IInv, SchemaSound
  <2>5. ~At({"idle"})' /\ (Staged' => Staged)
    BY DEF Moves
  <2> QED
    BY <2>1, <2>2, <2>3, <2>4, <2>5 DEF IInv, SchemaSound, Prefix, Staged
<1> QED
  BY <1>1, <1>2, <1>3 DEF IInv

(* A restore that is abandoned before it has touched anything. *)
LEMMA AbandonStep ==
    ASSUME IInv, At({"stage", "migrate", "safety", "retire"}), Abandon,
           faults' = faults \/ Fault,
           UNCHANGED <<state, settingsVars, bundle, recorded, migrator>>
    PROVE  IInv'
<1>1. work' = Gone /\ restore' = [restore EXCEPT !.pc = "refused"]
  BY DEF Abandon, Turn
<1>2. restore \in RestoreRecords
  BY DEF IInv, TypeOK, RestoreRecords, RestorePcs
<1>3. restore' \in RestoreRecords /\ restore'.pc = "refused"
  BY <1>1, <1>2 DEF RestoreRecords, RestorePcs
<1>4. Moves
  BY <1>1, <1>3 DEF Moves, At, Staged, IInv, TypeOK
<1>5. NothingNewStored
  BY <1>1 DEF NothingNewStored
<1>6. RestoreSound'
  BY <1>1, <1>3 DEF IInv, RestoreSound, At, IsOld
<1> QED
  BY <1>4, <1>5, <1>6, MovesInv

(* Unless its rollback failed, the files are together somewhere. *)
LEMMA StateSurvives == IInv /\ ~At({"unrolled"}) => SomeStateSurvives
<1> SUFFICES ASSUME IInv, ~At({"unrolled"}) PROVE SomeStateSurvives
  OBVIOUS
<1>1. restore.pc \in RestorePcs
  BY DEF IInv, TypeOK, RestorePcs
<1>2. CASE At({"idle", "stage", "migrate", "safety", "retire", "refused"})
  BY <1>2 DEF IInv, RestoreSound, SomeStateSurvives
<1>3. CASE At({"mkdir", "move", "rollback", "putback"})
  BY <1>3 DEF IInv, RestoreSound, SomeStateSurvives
<1>4. CASE At({"clean", "done", "failed"})
  <2>1. Installed(state)
    BY <1>4 DEF IInv, RestoreSound, At
  <2> QED
    BY <2>1 DEF Installed, SomeStateSurvives
<1>5. CASE At({"killed"})
  BY <1>5 DEF IInv, RestoreSound
<1> QED
  BY <1>1, <1>2, <1>3, <1>4, <1>5 DEF RestorePcs, At

(* What Turn writes. *)
LEMMA TurnTurns ==
    ASSUME IInv, NEW place \in RestorePcs, Turn(place)
    PROVE  restore' \in RestoreRecords /\ restore'.pc = place /\ restore'.left = restore.left
<1>1. restore \in RestoreRecords
  BY DEF IInv, TypeOK, RestoreRecords, RestorePcs
<1> QED
  BY <1>1 DEF Turn, RestoreRecords

(* A restore begins with the state it found, and with no database of its bundle in use. *)
LEMMA BeginStep ==
    ASSUME IInv, NEW names \in (SUBSET {"db", "settings"}) \ {{}},
           NEW is \in {"sound", "corrupt", "drifted"}, NEW version \in Releases,
           BeginRestore(names, is, version)
    PROVE  IInv'
<1>1. /\ restore.pc = "idle" /\ bundle' = [names |-> names, is |-> is]
      /\ recorded' = [recorded EXCEPT !["new"] = 1..version]
      /\ UNCHANGED <<state, settingsVars, faults, work, migrator>>
  BY DEF BeginRestore
<1>2. PICK place \in {"refused", "stage"} : restore' = [restore EXCEPT !.pc = place]
  BY DEF BeginRestore, Turn
<1>3. restore \in RestoreRecords
  BY DEF IInv, TypeOK, RestoreRecords, RestorePcs
<1>4. restore' \in RestoreRecords /\ restore'.pc = place
  BY <1>2, <1>3 DEF RestoreRecords, RestorePcs
<1>5. version \in 0 .. Latest /\ 1 .. version \in SUBSET Versions
  BY LatestAssumption DEF Versions
<1>6. recorded' \in [Databases -> SUBSET Versions]
      /\ \A d \in Databases : recorded'[d] = IF d = "new" THEN 1 .. version ELSE recorded[d]
  BY <1>1, <1>5 DEF IInv, TypeOK
<1>7. bundle' \in [names : SUBSET {"db", "settings"}, is : {"unknown", "sound", "corrupt", "drifted"}]
  BY <1>1
<1>8. TypeOK'
  BY <1>1, <1>4, <1>6, <1>7 DEF IInv, TypeOK, SettingsTypeOK, settingsVars, RestoreRecords, RestorePcs
<1>9. IsOld(state) /\ work = Gone
  BY <1>1 DEF IInv, RestoreSound, At
<1>10. RestoreSound'
  BY <1>1, <1>2, <1>4, <1>9 DEF RestoreSound, At, IsOld
<1>11. SettingsSound'
  BY <1>1, SettingsAreKept DEF IInv
<1>12. SchemaSound'
  <2>1. \A d \in Databases : Prefix(recorded'[d])
    BY <1>5, <1>6 DEF Prefix, IInv, SchemaSound
  <2>2. ASSUME NEW m \in Migrators
        PROVE  migrator[m].db # "new" /\ migrator[m].seen \subseteq recorded'[migrator[m].db]
    <3>1. migrator[m].db # "new" /\ migrator[m].seen \subseteq recorded[migrator[m].db]
      BY <1>1 DEF IInv, SchemaSound, At
    <3>2. migrator[m].db \in Databases
      BY DEF IInv, TypeOK
    <3> QED
      BY <1>6, <3>1, <3>2
  <2>3. ~At({"safety", "retire", "mkdir", "move"})'
    BY <1>4 DEF At
  <2> QED
    BY <1>1, <1>9, <2>1, <2>2, <2>3 DEF IInv, SchemaSound, At, Prefix, IsOld
<1> QED
  BY <1>8, <1>10, <1>11, <1>12 DEF IInv

(* Extraction: the members of a bundle whose digests agree, or none. *)
LEMMA ExtractStep == IInv /\ ExtractVerified => IInv'
<1> SUFFICES ASSUME IInv, ExtractVerified PROVE IInv'
  OBVIOUS
<1>1. /\ restore.pc = "stage"
      /\ UNCHANGED <<state, settingsVars, bundle, recorded, migrator>>
  BY DEF ExtractVerified
<1>2. CASE Abandon /\ (faults' = faults \/ Fault)
  BY <1>1, <1>2, AbandonStep DEF At
<1>3. CASE /\ work' = [staged |-> bundle.names, retired |-> Gone, safety |-> Gone]
           /\ Turn("migrate") /\ faults' = faults
  <2>1. restore' \in RestoreRecords /\ restore'.pc = "migrate"
    BY <1>3, TurnTurns DEF RestorePcs
  <2>2. work' \in WorkDirectories /\ work' # Gone
    BY <1>3, DirectoryAssumption DEF IInv, TypeOK, WorkDirectories
  <2>3. Moves
    BY <1>1, <1>3, <2>1, <2>2 DEF Moves, At, Staged, IInv, TypeOK
  <2>4. NothingNewStored
    BY <1>1, <1>3 DEF NothingNewStored, Stored
  <2>5. IsOld(state)
    BY <1>1 DEF IInv, RestoreSound, At
  <2>6. RestoreSound'
    BY <1>1, <1>3, <2>1, <2>2, <2>5 DEF RestoreSound, At, IsOld
  <2> QED
    BY <1>1, <2>3, <2>4, <2>6, MovesInv
<1> QED
  BY <1>2, <1>3 DEF ExtractVerified

(* A database of the bundle that passes is sound, and migrated to the last version. *)
LEMMA MigrateStep == IInv /\ MigrateStaged => IInv'
<1> SUFFICES ASSUME IInv, MigrateStaged PROVE IInv'
  OBVIOUS
<1>1. /\ restore.pc = "migrate" /\ UNCHANGED <<state, settingsVars, bundle, migrator>>
  BY DEF MigrateStaged
<1>2. CASE Abandon /\ (faults' = faults \/ Fault) /\ recorded' = recorded
  BY <1>1, <1>2, AbandonStep DEF At
<1>3. CASE /\ "db" \notin bundle.names \/ bundle.is = "sound"
           /\ recorded' = IF "db" \in bundle.names
                          THEN [recorded EXCEPT !["new"] = Versions] ELSE recorded
           /\ Turn("safety") /\ UNCHANGED <<work, faults>>
  <2>1. restore' \in RestoreRecords /\ restore'.pc = "safety"
    BY <1>3, TurnTurns DEF RestorePcs
  <2>2. /\ recorded' \in [Databases -> SUBSET Versions]
        /\ \A d \in Databases : recorded'[d] = IF d = "new" /\ "db" \in bundle.names
                                               THEN Versions ELSE recorded[d]
    BY <1>3 DEF IInv, TypeOK
  <2>3. TypeOK'
    BY <1>1, <1>3, <2>1, <2>2 DEF IInv, TypeOK, SettingsTypeOK, settingsVars, RestoreRecords, RestorePcs
  <2>4. SettingsSound'
    BY <1>1, <1>3, SettingsAreKept DEF IInv
  <2>5. IsOld(state) /\ work # Gone /\ work.staged = bundle.names /\ work.retired = Gone
    BY <1>1 DEF IInv, RestoreSound, At
  <2>6. RestoreSound'
    BY <1>1, <1>3, <2>1, <2>5 DEF RestoreSound, At, IsOld
  <2>7. SchemaSound'
    <3>1. Prefix(Versions)
      BY LatestAssumption DEF Prefix, Versions
    <3>2. \A d \in Databases : Prefix(recorded'[d]) /\ recorded[d] \subseteq recorded'[d]
      BY <2>2, <3>1 DEF IInv, SchemaSound, TypeOK
    <3>3. ASSUME NEW m \in Migrators PROVE migrator[m].seen \subseteq recorded'[migrator[m].db]
      <4>1. migrator[m].db \in Databases
        BY DEF IInv, TypeOK
      <4> QED
        BY <3>2, <4>1 DEF IInv, SchemaSound
    <3>4. ~At({"idle"})' /\ state.db # "new"
      BY <2>1, <2>5 DEF At, IsOld
    <3>5. "db" \in bundle.names => bundle.is = "sound" /\ recorded'["new"] = Versions
      BY <1>3, <2>2 DEF Databases
    <3> QED
      BY <1>1, <1>3, <3>2, <3>3, <3>4, <3>5 DEF IInv, SchemaSound, Prefix
  <2> QED
    BY <2>3, <2>4, <2>6, <2>7 DEF IInv
<1> QED
  BY <1>2, <1>3 DEF MigrateStaged

(* The safety bundle holds what is still in place. *)
LEMMA SafetyStep == IInv /\ SafetyBackup => IInv'
<1> SUFFICES ASSUME IInv, SafetyBackup PROVE IInv'
  OBVIOUS
<1>1. restore.pc = "safety" /\ UNCHANGED <<state, settingsVars, bundle, recorded, migrator>>
  BY DEF SafetyBackup
<1>2. CASE Abandon /\ Fault
  BY <1>1, <1>2, AbandonStep DEF At
<1>3. CASE /\ work' = [work EXCEPT !.safety = IF HasState THEN state ELSE Gone]
           /\ Turn("retire") /\ faults' = faults
  <2>1. restore' \in RestoreRecords /\ restore'.pc = "retire"
    BY <1>3, TurnTurns DEF RestorePcs
  <2>2. IsOld(state) /\ work # Gone /\ work.staged = bundle.names /\ work.retired = Gone
    BY <1>1 DEF IInv, RestoreSound, At
  <2>3. HasState
    BY <2>2, DirectoryAssumption DEF HasState, IsOld, Empty, Databases
  <2>4. work \in WorkDirectories /\ state \in Directories
    BY <2>2 DEF IInv, TypeOK, IsOld
  <2>5. /\ work' \in WorkDirectories /\ work'.staged = work.staged /\ work'.retired = Gone
        /\ work'.safety = state
    BY <1>3, <2>2, <2>3, <2>4 DEF WorkDirectories
  <2>6. work' # Gone
    BY <2>5, DirectoryAssumption
  <2>7. Moves
    BY <1>1, <1>3, <2>1, <2>5 DEF Moves, At, Staged, IInv, TypeOK
  <2>8. NothingNewStored
    BY <1>1, <2>5 DEF NothingNewStored, Stored
  <2>9. RestoreSound'
    BY <1>1, <2>1, <2>2, <2>5, <2>6 DEF RestoreSound, At, IsOld
  <2> QED
    BY <1>1, <2>7, <2>8, <2>9, MovesInv
<1> QED
  BY <1>2, <1>3 DEF SafetyBackup

(* .kater goes out of the way as it is, and the directory is gone. *)
LEMMA RetireStep == IInv /\ Retire => IInv'
<1> SUFFICES ASSUME IInv, Retire PROVE IInv'
  OBVIOUS
<1>1. restore.pc = "retire" /\ UNCHANGED <<settingsVars, bundle, recorded, migrator>>
  BY DEF Retire
<1>2. CASE Abandon /\ Fault /\ state' = state
  BY <1>1, <1>2, AbandonStep DEF At
<1>3. CASE /\ work' = [work EXCEPT !.retired = state] /\ state' = Gone
           /\ Turn("mkdir") /\ faults' = faults
  <2>1. restore' \in RestoreRecords /\ restore'.pc = "mkdir"
    BY <1>3, TurnTurns DEF RestorePcs
  <2>2. IsOld(state) /\ work # Gone /\ work.staged = bundle.names /\ IsOld(work.safety)
    BY <1>1 DEF IInv, RestoreSound, At
  <2>3. work \in WorkDirectories /\ state \in Directories
    BY <2>2 DEF IInv, TypeOK, IsOld
  <2>4. /\ work' \in WorkDirectories /\ work'.staged = work.staged /\ work'.retired = state
        /\ work'.safety = work.safety
    BY <1>3, <2>3 DEF WorkDirectories
  <2>5. work' # Gone
    BY <2>4, DirectoryAssumption
  <2>6. Moves
    BY <1>1, <1>3, <2>1, <2>4 DEF Moves, At, Staged
  <2>7. NothingNewStored
    BY <1>3, <2>4 DEF NothingNewStored, Stored
  <2>8. RestoreSound'
    BY <1>1, <1>3, <2>1, <2>2, <2>3, <2>4, <2>5 DEF RestoreSound, At, IsOld
  <2> QED
    BY <1>3, <2>6, <2>7, <2>8, MovesInv
<1> QED
  BY <1>2, <1>3 DEF Retire

(* A failure in the swap leads to the rollback. *)
LEMMA RollbackStep ==
    ASSUME IInv, At({"mkdir", "move"}), RollbackRestore, Fault,
           UNCHANGED <<settingsVars, bundle, recorded, migrator>>
    PROVE  IInv'
<1>1. work # Gone /\ IsOld(work.retired) /\ work.retired \in Directories
  BY DEF IInv, RestoreSound, TypeOK, WorkDirectories, IsOld, At
<1>2. UNCHANGED <<state, work>> /\ Turn("rollback")
  BY <1>1, DirectoryAssumption DEF RollbackRestore, IsOld
<1>3. restore' \in RestoreRecords /\ restore'.pc = "rollback"
  BY <1>2, TurnTurns DEF RestorePcs
<1>4. Moves
  BY <1>1, <1>2, <1>3 DEF Moves, At, Staged, IInv, TypeOK
<1>5. NothingNewStored
  BY <1>1, <1>2 DEF NothingNewStored
<1>6. RestoreSound'
  BY <1>1, <1>2, <1>3 DEF IInv, RestoreSound, At, IsOld
<1> QED
  BY <1>2, <1>4, <1>5, <1>6, MovesInv

(* The retired directory is lost when a step of the rollback fails, and nothing new comes of it. *)
LEMMA LoseStep ==
    ASSUME IInv, At({"rollback", "putback"}), LoseRetired, faults' = faults \/ Fault,
           state' = state \/ (state # Gone /\ state' \in Remnants(state)),
           UNCHANGED <<settingsVars, bundle, recorded, migrator>>
    PROVE  IInv'
<1>1. work' = Gone /\ restore' \in RestoreRecords /\ restore'.pc = "unrolled"
  BY TurnTurns DEF LoseRetired, RestorePcs
<1>2. /\ state' \in {Gone} \cup Directories
      /\ state' # Gone /\ state'.db = "new" => state # Gone /\ state.db = "new"
      /\ state' # Gone => state # Gone /\ state'.settings \in {state.settings, Absent}
  <2>1. CASE state' = state
    BY <2>1 DEF IInv, TypeOK
  <2>2. CASE state # Gone /\ state' \in Remnants(state)
    <3>1. state \in Directories
      BY <2>2 DEF IInv, TypeOK
    <3> QED
      BY <2>2, <3>1, DirectoryAssumption DEF Remnants, Directories, Databases
  <2> QED
    BY <2>1, <2>2
<1>3. Moves
  BY <1>1, <1>2 DEF Moves, At, Staged
<1>4. NothingNewStored
  BY <1>1, <1>2 DEF NothingNewStored, Stored
<1>5. RestoreSound'
  BY <1>1 DEF RestoreSound, At
<1> QED
  BY <1>2, <1>3, <1>4, <1>5, MovesInv

(* A partial directory is cleared, *)
LEMMA ClearStep == IInv /\ ClearPartial => IInv'
<1> SUFFICES ASSUME IInv, ClearPartial PROVE IInv'
  OBVIOUS
<1>1. restore.pc = "rollback" /\ UNCHANGED <<settingsVars, bundle, recorded, migrator>>
  BY DEF ClearPartial
<1>2. CASE state # Gone /\ Fault /\ state' \in Remnants(state) /\ LoseRetired
  BY <1>1, <1>2, LoseStep DEF At
<1>3. CASE state' = Gone /\ Turn("putback") /\ UNCHANGED <<work, faults>>
  <2>1. restore' \in RestoreRecords /\ restore'.pc = "putback"
    BY <1>3, TurnTurns DEF RestorePcs
  <2>2. Moves
    BY <1>1, <1>3, <2>1 DEF Moves, At, Staged, IInv, TypeOK
  <2>3. NothingNewStored
    BY <1>3 DEF NothingNewStored, Stored
  <2>4. RestoreSound'
    BY <1>1, <1>3, <2>1 DEF IInv, RestoreSound, At, IsOld
  <2> QED
    BY <1>3, <2>2, <2>3, <2>4, MovesInv
<1> QED
  BY <1>2, <1>3 DEF ClearPartial

(* and what was retired is put back. *)
LEMMA PutBackStep == IInv /\ PutBack => IInv'
<1> SUFFICES ASSUME IInv, PutBack PROVE IInv'
  OBVIOUS
<1>1. restore.pc = "putback" /\ UNCHANGED <<settingsVars, bundle, recorded, migrator>>
  BY DEF PutBack
<1>2. CASE LoseRetired /\ state' = state /\ (faults' = faults \/ Fault)
  BY <1>1, <1>2, LoseStep DEF At
<1>3. CASE state' = work.retired /\ Abandon /\ faults' = faults
  <2>1. work # Gone /\ IsOld(work.retired) /\ work.retired \in Directories
    BY <1>1 DEF IInv, RestoreSound, At, TypeOK, WorkDirectories, IsOld
  <2>2. work' = Gone /\ restore' \in RestoreRecords /\ restore'.pc = "refused"
    BY <1>3, TurnTurns DEF Abandon, RestorePcs
  <2>3. Moves
    BY <1>1, <1>3, <2>1, <2>2 DEF Moves, At, Staged
  <2>4. NothingNewStored
    BY <1>3, <2>1, <2>2 DEF NothingNewStored
  <2>5. RestoreSound'
    BY <1>3, <2>1, <2>2 DEF RestoreSound, At, IsOld
  <2>6. state'.db # "new"
    BY <1>3, <2>1 DEF IsOld
  <2> QED
    BY <2>3, <2>4, <2>5, <2>6, MovesInv
<1> QED
  BY <1>2, <1>3 DEF PutBack

(* The directory is made, unless another process has made it. *)
LEMMA MakeStep == IInv /\ MakeDirectory => IInv'
<1> SUFFICES ASSUME IInv, MakeDirectory PROVE IInv'
  OBVIOUS
<1>1. restore.pc = "mkdir" /\ UNCHANGED <<settingsVars, bundle, recorded, migrator>>
  BY DEF MakeDirectory
<1>2. CASE Fault /\ RollbackRestore
  BY <1>1, <1>2, RollbackStep DEF At
<1>3. CASE /\ state' = IF state = Gone THEN Empty ELSE state
           /\ restore' = [restore EXCEPT !.pc = "move", !.left = Members]
           /\ UNCHANGED <<work, faults>>
  <2>1. restore' \in RestoreRecords /\ restore'.pc = "move" /\ restore'.left = Members
    BY <1>3 DEF IInv, TypeOK, RestoreRecords, RestorePcs
  <2>2. /\ Empty \in Directories /\ Empty # Gone /\ Empty.db = Absent /\ Empty.settings = Absent
        /\ Absent \notin {"old", "new"}
    <3>1. Empty \in Directories
      BY DEF Directories, Empty
    <3> QED
      BY <3>1, DirectoryAssumption DEF Empty, Databases
  <2>3. /\ state' \in Directories /\ state' # Gone
        /\ state'.db = "new" => state # Gone /\ state.db = "new"
        /\ state'.db # "old"
        /\ Stored(state') = Stored(state)
    BY <1>1, <1>3, <2>2 DEF IInv, TypeOK, RestoreSound, At, Stored
  <2>4. work # Gone /\ work.staged = bundle.names /\ IsOld(work.retired) /\ IsOld(work.safety)
    BY <1>1 DEF IInv, RestoreSound, At
  <2>5. Members # << >>
    BY DEF Members
  <2>6. Moves
    BY <1>1, <1>3, <2>1, <2>3 DEF Moves, At, Staged, IInv, TypeOK
  <2>7. NothingNewStored
    BY <1>3, <2>3 DEF NothingNewStored
  <2>8. RestoreSound'
    BY <1>1, <1>3, <2>1, <2>3, <2>4, <2>5 DEF RestoreSound, At, IsOld, IInv
  <2> QED
    BY <2>3, <2>6, <2>7, <2>8, MovesInv
<1> QED
  BY <1>2, <1>3 DEF MakeDirectory

(* The members come into place in their order. *)
LEMMA MoveStep == IInv /\ MoveStaged => IInv'
<1> SUFFICES ASSUME IInv, MoveStaged PROVE IInv'
  OBVIOUS
<1>1. /\ restore.pc = "move" /\ restore.left # << >>
      /\ UNCHANGED <<settingsVars, bundle, recorded, migrator>>
  BY DEF MoveStaged
<1>2. CASE Fault /\ RollbackRestore
  BY <1>1, <1>2, RollbackStep DEF At
<1>3. /\ work # Gone /\ work.staged = bundle.names /\ IsOld(work.retired) /\ IsOld(work.safety)
      /\ state # Gone /\ state.db # "old"
  BY <1>1 DEF IInv, RestoreSound, At
<1>4. state \in Directories
  BY <1>3 DEF IInv, TypeOK
<1>5. {} # Absent
  BY DirectoryAssumption
<1>6. CASE /\ restore.left[1] = "db" /\ restore.left = Members
           /\ state' = IF "db" \notin work.staged THEN state ELSE [state EXCEPT !.db = "new"]
           /\ restore' = [restore EXCEPT !.left = <<"settings">>]
           /\ UNCHANGED <<work, faults>>
  <2>1. restore' \in RestoreRecords /\ restore'.pc = "move" /\ restore'.left = <<"settings">>
    BY <1>1, <1>6 DEF IInv, TypeOK, RestoreRecords, RestorePcs
  <2>2. /\ state' \in Directories
        /\ state'.db = IF "db" \in bundle.names THEN "new" ELSE state.db
        /\ state'.settings = state.settings
    BY <1>3, <1>4, <1>6 DEF Directories, Databases
  <2>3. state' # Gone
    BY <2>2, DirectoryAssumption
  <2>4. Moves
    BY <1>1, <1>6, <2>1, <2>2 DEF Moves, At, Staged, IInv, TypeOK
  <2>5. NothingNewStored
    BY <1>3, <1>6, <2>2, <2>3 DEF NothingNewStored, Stored
  <2>6. RestoreSound'
    BY <1>1, <1>3, <1>6, <2>1, <2>2, <2>3 DEF RestoreSound, At, IsOld, IInv
  <2> QED
    BY <1>1, <1>3, <2>2, <2>4, <2>5, <2>6, MovesInv DEF Staged, At
<1>7. CASE /\ restore.left[1] = "settings" /\ restore.left = <<"settings">>
           /\ state' = IF "settings" \notin work.staged THEN state ELSE [state EXCEPT !.settings = {}]
           /\ restore' = [restore EXCEPT !.left = << >>]
           /\ UNCHANGED <<work, faults>>
  <2>1. restore' \in RestoreRecords /\ restore'.pc = "move" /\ restore'.left = << >>
    BY <1>1, <1>7 DEF IInv, TypeOK, RestoreRecords, RestorePcs
  <2>2. /\ state' \in Directories /\ state'.db = state.db
        /\ state'.settings = IF "settings" \in bundle.names THEN {} ELSE state.settings
    BY <1>3, <1>4, <1>7 DEF Directories
  <2>3. state' # Gone
    BY <2>2, DirectoryAssumption
  <2>4. "db" \in bundle.names => state.db = "new"
    BY <1>1, <1>7 DEF IInv, RestoreSound, At, Members
  <2>5. Installed(state)'
    BY <1>1, <1>5, <2>2, <2>3, <2>4 DEF Installed
  <2>6. Moves
    BY <1>1, <1>7, <2>1, <2>2 DEF Moves, At, Staged, IInv, TypeOK
  <2>7. NothingNewStored
    BY <1>3, <1>7, <2>2, <2>3 DEF NothingNewStored, Stored
  <2>8. RestoreSound'
    BY <1>1, <1>3, <1>7, <2>1, <2>2, <2>3, <2>5 DEF RestoreSound, At, IsOld, IInv, Installed
  <2> QED
    BY <1>3, <2>2, <2>6, <2>7, <2>8, MovesInv
<1>8. restore.left = Members \/ restore.left = <<"settings">>
  BY <1>1 DEF IInv, TypeOK
<1> QED
  BY <1>1, <1>2, <1>6, <1>7, <1>8 DEF MoveStaged, Members

(* The safety bundle follows; without it the restore fails, with all of the bundle in place. *)
LEMMA KeepStep == IInv /\ KeepSafety => IInv'
<1> SUFFICES ASSUME IInv, KeepSafety PROVE IInv'
  OBVIOUS
<1>1. /\ restore.pc = "move" /\ restore.left = << >>
      /\ UNCHANGED <<settingsVars, bundle, recorded, migrator>>
  BY DEF KeepSafety
<1>2. /\ work # Gone /\ work.staged = bundle.names /\ IsOld(work.retired) /\ IsOld(work.safety)
      /\ state # Gone /\ state.db # "old" /\ Installed(state)
      /\ work.retired \in {Gone} \cup {d \in Directories : d.db = "old"}
  BY <1>1 DEF IInv, RestoreSound, At
<1>3. state \in Directories /\ work \in WorkDirectories
  BY <1>2 DEF IInv, TypeOK
<1>4. CASE /\ state' = [state EXCEPT !.safety = work.safety # Gone]
           /\ work' = [work EXCEPT !.safety = Gone]
           /\ Turn("clean") /\ faults' = faults
  <2>1. restore' \in RestoreRecords /\ restore'.pc = "clean"
    BY <1>4, TurnTurns DEF RestorePcs
  <2>2. state' = [state EXCEPT !.safety = TRUE]
    BY <1>2, <1>4 DEF IsOld
  <2>3. /\ state' \in Directories /\ state'.db = state.db /\ state'.settings = state.settings
        /\ state'.safety = TRUE
    BY <1>3, <2>2 DEF Directories
  <2>4. /\ work' \in WorkDirectories /\ work'.retired = work.retired
    BY <1>3, <1>4 DEF WorkDirectories
  <2>5. state' # Gone /\ work' # Gone
    BY <2>3, <2>4, DirectoryAssumption
  <2>6. Installed(state)'
    BY <1>1, <1>2, <2>3, <2>5 DEF Installed
  <2>7. Moves
    BY <1>1, <1>4, <2>1, <2>3, <2>4 DEF Moves, At, Staged
  <2>8. NothingNewStored
    BY <1>2, <2>3, <2>4, <2>5 DEF NothingNewStored, Stored
  <2>9. RestoreSound'
    BY <1>1, <1>2, <2>1, <2>3, <2>4, <2>5, <2>6 DEF RestoreSound, At
  <2> QED
    BY <1>2, <2>3, <2>7, <2>8, <2>9, MovesInv
<1>5. CASE Fault /\ work' = Gone /\ Turn("failed") /\ state' = state
  <2>1. restore' \in RestoreRecords /\ restore'.pc = "failed"
    BY <1>5, TurnTurns DEF RestorePcs
  <2>2. Moves
    BY <1>1, <1>3, <1>5, <2>1 DEF Moves, At, Staged
  <2>3. NothingNewStored
    BY <1>5 DEF NothingNewStored
  <2>4. Installed(state)'
    BY <1>1, <1>2, <1>5 DEF Installed
  <2>5. RestoreSound'
    BY <1>1, <1>5, <2>1, <2>4 DEF RestoreSound, At
  <2> QED
    BY <1>5, <2>2, <2>3, <2>5, MovesInv
<1> QED
  BY <1>4, <1>5 DEF KeepSafety

(* The work directory goes when nothing in it is needed. *)
LEMMA CleanStep == IInv /\ CleanUp => IInv'
<1> SUFFICES ASSUME IInv, CleanUp PROVE IInv'
  OBVIOUS
<1>1. /\ restore.pc = "clean" /\ work' = Gone /\ Turn("done")
      /\ UNCHANGED <<state, settingsVars, faults, bundle, recorded, migrator>>
  BY DEF CleanUp
<1>2. restore' \in RestoreRecords /\ restore'.pc = "done"
  BY <1>1, TurnTurns DEF RestorePcs
<1>3. Moves
  BY <1>1, <1>2 DEF Moves, At, Staged, IInv, TypeOK
<1>4. NothingNewStored
  BY <1>1 DEF NothingNewStored
<1>5. Installed(state)' /\ state.safety /\ state.db # "old"
  BY <1>1 DEF IInv, RestoreSound, At, Installed
<1>6. RestoreSound'
  BY <1>1, <1>2, <1>5 DEF RestoreSound, At
<1> QED
  BY <1>1, <1>3, <1>4, <1>6, MovesInv

(* Its death leaves the files where they are. *)
LEMMA KillStep == IInv /\ KillRestore => IInv'
<1> SUFFICES ASSUME IInv, KillRestore PROVE IInv'
  OBVIOUS
<1>1. /\ restore.pc # "idle" /\ Fault /\ Turn("killed")
      /\ UNCHANGED <<state, settingsVars, work, bundle, recorded, migrator>>
  BY DEF KillRestore
<1>2. restore' \in RestoreRecords /\ restore'.pc = "killed"
  BY <1>1, TurnTurns DEF RestorePcs
<1>3. Moves
  BY <1>1, <1>2 DEF Moves, At, Staged, IInv, TypeOK
<1>4. NothingNewStored
  BY <1>1 DEF NothingNewStored
<1>5. SomeStateSurvives'
  BY <1>1, StateSurvives DEF KillRestore, At, SomeStateSurvives
<1>6. RestoreSound'
  BY <1>1, <1>2, <1>5 DEF IInv, RestoreSound, At
<1> QED
  BY <1>1, <1>3, <1>4, <1>6, MovesInv

-----------------------------------------------------------------------------
(* Every step keeps the invariant. *)
LEMMA StepInv == IInv /\ [Next]_vars => IInv'
<1> SUFFICES ASSUME IInv, [Next]_vars PROVE IInv'
  OBVIOUS
<1>1. CASE RestoreStep
  BY <1>1, BeginStep, ExtractStep, MigrateStep, SafetyStep, RetireStep, MakeStep, MoveStep,
     ClearStep, PutBackStep, KeepStep, CleanStep, KillStep DEF RestoreStep
<1>2. ASSUME NEW m \in Migrators, MigrationStep(m) PROVE IInv'
  BY <1>2, AppliedVersionsStep, ApplyStep DEF MigrationStep
<1>3. CASE SettingsNext /\ UNCHANGED stateVars
  BY <1>3, SettingsStepInv
<1>4. CASE UNCHANGED vars
  <2> USE <1>4 DEF vars, settingsVars, stateVars
  <2>1. TypeOK'
    BY DEF IInv, TypeOK, SettingsTypeOK
  <2>2. RestoreSound'
    BY DEF IInv, RestoreSound, At, Installed, SomeStateSurvives, IsOld
  <2>3. SchemaSound'
    BY DEF IInv, SchemaSound, At, Prefix
  <2>4. SettingsSound'
    BY DEF IInv, SettingsSound, Holds, Innocent, Stored
  <2> QED
    BY <2>1, <2>2, <2>3, <2>4 DEF IInv
<1> QED
  BY <1>1, <1>2, <1>3, <1>4 DEF Next

(* The invariant holds in every state. *)
LEMMA Invariance == Spec => []IInv
BY InitInv, StepInv, PTL DEF Spec

(* The directory, the settings in memory, and what the processes hold of them have their types. *)
THEOREM TypeCorrect == Spec => []TypeOK
<1>1. IInv => TypeOK
  BY DEF IInv
<1> QED
  BY <1>1, Invariance, PTL

(* restore_backup installs all of a bundle or leaves what there was, whoever writes the directory *)
(* meanwhile and whatever fails but a step of _rollback_restore (backup.py: the staging, the swap, *)
(* the rollback).                                                                                  *)
THEOREM RestoreInstallsAllOrNothing == Spec => []RestoreIsAllOrNothing
<1>1. IInv => RestoreIsAllOrNothing
  <2> SUFFICES ASSUME IInv PROVE RestoreIsAllOrNothing
    OBVIOUS
  <2>1. restore.pc = "done" => Installed(state) /\ state.safety /\ state.db # "old"
    BY DEF IInv, RestoreSound, At, Installed
  <2>2. restore.pc = "refused" => IsOld(state)
    BY DEF IInv, RestoreSound, At
  <2> QED
    BY <2>1, <2>2, StateSurvives DEF RestoreIsAllOrNothing, Installed, IsOld, At
<1> QED
  BY <1>1, Invariance, PTL

(* A database in use is migrated, and processes that migrate at once agree (_apply, run_migrations). *)
THEOREM SchemasAreWhole == Spec => []SchemaIsWhole
<1>1. IInv => SchemaIsWhole
  BY LatestAssumption DEF IInv, SchemaSound, Prefix, SchemaIsWhole
<1> QED
  BY <1>1, Invariance, PTL

(* A change that was refused is never saved (update_settings of api/routes.py, save_settings). *)
THEOREM RefusalsAreNotSaved == Spec => []RefusedIsNotSaved
<1>1. IInv => RefusedIsNotSaved
  BY DEF IInv, SettingsSound, Innocent, Stored, RefusedIsNotSaved
<1> QED
  BY <1>1, Invariance, PTL

-----------------------------------------------------------------------------
(* IdempotentExecution: how the server runs an action under an idempotency  *)
(* key, whose row is one of the state directory's.  For every number of     *)
(* calls and inputs and every retry policy, with the refinement of          *)
(* IdempotencyKey.                                                          *)
(*                                                                          *)
(* An answer can be trusted because a completed row was written by a call   *)
(* that is over and took effect; that holds because a call that still works *)
(* owns the pending row, which no other call may touch; and the count of    *)
(* effects is bounded because every live thread, the abandoned one          *)
(* included, has an attempt of its own.                                     *)

(* A pending row is its holder's, who has not settled it. *)
PendingIsHeld ==
  row # None /\ row.status = "pending" =>
    holder \in Calls /\ row = Pending(holder)

(* A completed row names a call that is over and took effect. *)
CompletedIsDone ==
  row # None /\ row.status = "completed" =>
    /\ row.result \in Calls /\ row = Completed(row.result)
    /\ pc[row.result] = "done" /\ applied[row.result] > 0

(* A call that works on the key owns the row. *)
WorkersOwnTheRow ==
  \A c \in Calls : pc[c] \in Working => row = Pending(c) /\ holder = c

(* Only an ended call has an answer, and a replayed one is another call's. *)
ToldSound ==
  \A c \in Calls :
    /\ told[c] # None => pc[c] \in {"done", "replayed"}
    /\ pc[c] = "replayed" => /\ told[c] \in Calls \ {c}
                             /\ print[told[c]] = print[c]
                             /\ applied[told[c]] > 0

(* Where a call's threads can be, and what they owe. *)
AttemptsSound ==
  \A c \in Calls :
    /\ worker[c] # "none" => pc[c] = "running"
    /\ orphan[c] # "none" => pc[c] \in {"releasing", "failed", "raised"}
    /\ worker[c] \in {"effective", "ok"} => applied[c] > 0
    /\ pc[c] = "storing" => applied[c] > 0

(* Every effect had an attempt, and a thread that computes has one to spend. *)
EffectsHaveAttempts ==
  \A c \in Calls :
    /\ pc[c] = "reserved" => attempts[c] <= MaxRetries
    /\ pc[c] \in {"new", "inserting", "conflict"} => attempts[c] = 0
    /\ applied[c] <= attempts[c]
    /\ worker[c] = "computing" \/ orphan[c] = "computing" => applied[c] < attempts[c]

RowInv    == PendingIsHeld /\ CompletedIsDone /\ WorkersOwnTheRow /\ ToldSound
ThreadInv == AttemptsSound /\ EffectsHaveAttempts
ExecutionInv == ExecutionTypeOK /\ RowInv /\ ThreadInv

-----------------------------------------------------------------------------
(* A reservation and an answer are rows, so they are there. *)
LEMMA RowsAreThere ==
  ASSUME ExecutionTypeOK, NEW c \in Calls
  PROVE  /\ Pending(c) \in Row /\ Pending(c) # None
         /\ Completed(c) \in Row /\ Completed(c) # None
BY ExecutionAssumption DEF ExecutionTypeOK, Row, Pending, Completed

(* No call has begun and no row exists at the start. *)
LEMMA ExecutionInitInv == ExecutionInit => ExecutionInv
<1> SUFFICES ASSUME ExecutionInit PROVE ExecutionInv
  OBVIOUS
<1>1. ExecutionTypeOK
  BY ExecutionAssumption DEF ExecutionInit, ExecutionTypeOK, Working, Ended, Alive, Results
<1>2. RowInv
  BY DEF ExecutionInit, RowInv, PendingIsHeld, CompletedIsDone, WorkersOwnTheRow, ToldSound,
     Working
<1>3. ThreadInv
  BY DEF ExecutionInit, ThreadInv, AttemptsSound, EffectsHaveAttempts
<1> QED BY <1>1, <1>2, <1>3 DEF ExecutionInv

-----------------------------------------------------------------------------
(* Every step keeps the threads in their places and pays for its effects,   *)
(* and that gives the type of the two counters.                             *)
LEMMA ThreadInvStep == ExecutionInv /\ [ExecutionNext]_execution => ThreadInv'
<1> SUFFICES ASSUME ExecutionInv, [ExecutionNext]_execution PROVE ThreadInv'
  OBVIOUS
<1> USE ExecutionAssumption DEF ExecutionInv, ThreadInv, AttemptsSound, EffectsHaveAttempts, ExecutionTypeOK, Goto,
        budgets
<1>1. CASE UNCHANGED execution
  BY <1>1 DEF execution
<1>2. ASSUME NEW c \in Calls, Look(c) \/ LookAgain(c) PROVE ThreadInv'
  BY <1>2 DEF Look, LookAgain, Judged, Verdict
<1>3. ASSUME NEW c \in Calls, Insert(c) PROVE ThreadInv'
  BY <1>3 DEF Insert
<1>4. ASSUME NEW c \in Calls, Attempt(c) PROVE ThreadInv'
  BY <1>4 DEF Attempt
<1>5. ASSUME NEW c \in Calls, Join(c) PROVE ThreadInv'
  BY <1>5 DEF Join, Retryable, RetriesLeft, Results
<1>6. ASSUME NEW c \in Calls, Expire(c) PROVE ThreadInv'
  BY <1>6 DEF Expire, Alive
<1>7. ASSUME NEW c \in Calls, Store(c) \/ Release(c) PROVE ThreadInv'
  BY <1>7 DEF Store, Release
<1>8. ASSUME NEW c \in Calls, Raise(c) PROVE ThreadInv'
  BY <1>8 DEF Raise
<1>9. ASSUME NEW c \in Calls, Effect(c) PROVE ThreadInv'
  BY <1>9 DEF Effect
<1>10. ASSUME NEW c \in Calls, Return(c) PROVE ThreadInv'
  BY <1>10 DEF Return, Alive, Results
<1>11. ASSUME NEW c \in Calls, OrphanEffect(c) PROVE ThreadInv'
  BY <1>11 DEF OrphanEffect
<1>12. ASSUME NEW c \in Calls, OrphanEnd(c) \/ Exit(c) PROVE ThreadInv'
  BY <1>12 DEF OrphanEnd, Exit
<1>13. ASSUME NEW c \in Calls, Crash(c) PROVE ThreadInv'
  BY <1>13 DEF Crash
<1> QED
  BY <1>1, <1>2, <1>3, <1>4, <1>5, <1>6, <1>7, <1>8, <1>9, <1>10, <1>11, <1>12, <1>13
  DEF ExecutionNext, Own

(* An effect always finds an attempt that has had none, which bounds it. *)
LEMMA ExecutionTypeStep == ExecutionInv /\ [ExecutionNext]_execution => ExecutionTypeOK'
<1> SUFFICES ASSUME ExecutionInv, [ExecutionNext]_execution PROVE ExecutionTypeOK'
  OBVIOUS
<1> USE ExecutionAssumption DEF ExecutionInv, ExecutionTypeOK, Goto, budgets
<1>1. CASE UNCHANGED execution
  BY <1>1 DEF execution
<1>2. ASSUME NEW c \in Calls, Look(c) \/ LookAgain(c) PROVE ExecutionTypeOK'
  <2>1. row # None => row.result \in Calls \cup {None}
    BY DEF Row
  <2> QED BY <1>2, <2>1 DEF Look, LookAgain, Judged, Verdict, Ended
<1>3. ASSUME NEW c \in Calls, Insert(c) PROVE ExecutionTypeOK'
  BY <1>3, RowsAreThere DEF Insert, Working
<1>4. ASSUME NEW c \in Calls, Attempt(c) PROVE ExecutionTypeOK'
  BY <1>4 DEF Attempt, ThreadInv, EffectsHaveAttempts, Working, Alive
<1>5. ASSUME NEW c \in Calls, Join(c) PROVE ExecutionTypeOK'
  BY <1>5 DEF Join, Working
<1>6. ASSUME NEW c \in Calls, Expire(c) PROVE ExecutionTypeOK'
  BY <1>6 DEF Expire, Working, Alive
<1>7. ASSUME NEW c \in Calls, Store(c) \/ Release(c) PROVE ExecutionTypeOK'
  BY <1>7, RowsAreThere DEF Store, Release, Ended
<1>8. ASSUME NEW c \in Calls, Raise(c) PROVE ExecutionTypeOK'
  BY <1>8 DEF Raise, Ended
<1>9. ASSUME NEW c \in Calls, Effect(c) \/ OrphanEffect(c) PROVE ExecutionTypeOK'
  BY <1>9 DEF Effect, OrphanEffect, ThreadInv, EffectsHaveAttempts, Alive
<1>10. ASSUME NEW c \in Calls, Return(c) PROVE ExecutionTypeOK'
  BY <1>10 DEF Return, Results
<1>11. ASSUME NEW c \in Calls, OrphanEnd(c) \/ Exit(c) PROVE ExecutionTypeOK'
  BY <1>11 DEF OrphanEnd, Exit
<1>12. ASSUME NEW c \in Calls, Crash(c) PROVE ExecutionTypeOK'
  BY <1>12 DEF Crash, Ended
<1> QED
  BY <1>1, <1>2, <1>3, <1>4, <1>5, <1>6, <1>7, <1>8, <1>9, <1>10, <1>11, <1>12
     DEF ExecutionNext, Own

-----------------------------------------------------------------------------
(* The row.                                                                 *)

(* What a verdict of "replayed" says: the row is another call's answer to   *)
(* the same input.                                                          *)
LEMMA JudgedSound ==
  ASSUME ExecutionInv, NEW c \in Calls, pc[c] \in {"new", "conflict"}, row # None, Judged(c)
  PROVE  /\ pc'[c] = "replayed" \/ (pc'[c] = "refused" /\ told' = told)
         /\ pc'[c] = "replayed" =>
              /\ row.status = "completed" /\ row.result \in Calls \ {c}
              /\ told' = [told EXCEPT ![c] = row.result]
              /\ print[row.result] = print[c] /\ applied[row.result] > 0
<1>1. row \in Row /\ told[c] = None
  BY DEF ExecutionInv, RowInv, ToldSound, ExecutionTypeOK
<1>2. CASE row.print = print[c] /\ row.status = "completed"
  <2>1. Verdict(c) = "replayed"
    BY <1>2 DEF Verdict
  <2>2. row.result \in Calls \ {c} /\ print[row.result] = print[c] /\ applied[row.result] > 0
    BY <1>2 DEF ExecutionInv, RowInv, CompletedIsDone, Completed
  <2> QED BY <1>2, <2>1, <2>2 DEF Judged, Goto, ExecutionInv, ExecutionTypeOK
<1>3. CASE ~(row.print = print[c] /\ row.status = "completed")
  <2>1. Verdict(c) = "refused"
    BY <1>3 DEF Verdict
  <2> QED BY <2>1 DEF Judged, Goto, ExecutionInv, ExecutionTypeOK
<1> QED BY <1>2, <1>3

(* A call that goes to another place moves alone. *)
LEMMA GotoMoves ==
  ASSUME ExecutionInv, NEW c \in Calls, NEW p, Goto(c, p)
  PROVE  pc'[c] = p /\ \A d \in Calls \ {c} : pc'[d] = pc[d]
BY DEF ExecutionInv, ExecutionTypeOK, Goto

(* The effects of a call only grow. *)
LEMMA EffectsGrow ==
  ASSUME ExecutionInv, [ExecutionNext]_execution
  PROVE  \A d \in Calls : applied[d] \in Nat /\ applied'[d] \in Nat /\ applied'[d] >= applied[d]
<1>1. applied \in [Calls -> Nat]
  BY ExecutionAssumption DEF ExecutionInv, ExecutionTypeOK
<1>2. applied' = applied \/ \E c \in Calls : applied' = [applied EXCEPT ![c] = @ + 1]
  BY DEF execution, budgets, ExecutionNext, Own, Look, Insert, LookAgain, Attempt, Join, Expire,
     Store, Release, Raise,
         Effect, Return, OrphanEffect, OrphanEnd, Crash, Exit
<1> QED BY <1>1, <1>2

(* A call that leaves the row alone, and does not start to work on it, keeps *)
(* what is said of the row.                                                 *)
LEMMA RowKept ==
  ASSUME ExecutionInv, NEW c \in Calls, NEW p, UNCHANGED <<row, print, told, holder>>,
         p \in Working => pc[c] \in Working,
         p # "replayed", pc[c] \notin {"done", "replayed"}, Goto(c, p),
         \A d \in Calls : applied[d] \in Nat /\ applied'[d] \in Nat /\ applied'[d] >= applied[d]
  PROVE  RowInv'
<1>1. pc'[c] = p /\ \A d \in Calls \ {c} : pc'[d] = pc[d]
  BY GotoMoves
<1>2. PendingIsHeld'
  BY DEF ExecutionInv, RowInv, PendingIsHeld, Pending
<1>3. CompletedIsDone'
  BY <1>1 DEF ExecutionInv, RowInv, CompletedIsDone, Completed
<1>4. WorkersOwnTheRow'
  BY <1>1 DEF ExecutionInv, RowInv, WorkersOwnTheRow, Pending
<1>5. ToldSound'
  BY <1>1, ExecutionAssumption DEF ExecutionInv, RowInv, ToldSound
<1> QED BY <1>2, <1>3, <1>4, <1>5 DEF RowInv

(* The row is pending while its owner works, and completed by it alone. *)
LEMMA RowInvStep == ExecutionInv /\ [ExecutionNext]_execution => RowInv'
<1> SUFFICES ASSUME ExecutionInv, [ExecutionNext]_execution PROVE RowInv'
  OBVIOUS
<1> USE DEF budgets
<1>a. \A d \in Calls : applied[d] \in Nat /\ applied'[d] \in Nat /\ applied'[d] >= applied[d]
  BY EffectsGrow
<1>1. CASE UNCHANGED execution
  BY <1>1
     DEF execution, ExecutionInv, RowInv, PendingIsHeld, CompletedIsDone, WorkersOwnTheRow,
         ToldSound,
              Pending, Completed
<1>2. ASSUME NEW c \in Calls, Look(c) \/ LookAgain(c) PROVE RowInv'
  <2>1. pc[c] \in {"new", "conflict"} /\ UNCHANGED <<row, print, applied, holder>>
    BY <1>2 DEF Look, LookAgain
  <2>2. CASE row = None
    BY <1>2, <1>a, <2>1, <2>2, RowKept DEF Look, LookAgain, Working
  <2>3. CASE row # None
    <3>1. Judged(c)
      BY <1>2, <2>3 DEF Look, LookAgain
    <3>2. CASE pc'[c] = "replayed"
      <4>1. /\ row.status = "completed" /\ row.result \in Calls \ {c}
            /\ told' = [told EXCEPT ![c] = row.result]
            /\ print[row.result] = print[c] /\ applied[row.result] > 0
        BY <2>1, <2>3, <3>1, <3>2, JudgedSound
      <4>2. \A d \in Calls \ {c} : pc'[d] = pc[d] /\ told'[d] = told[d]
        BY <3>1, <4>1, GotoMoves DEF Judged, ExecutionInv, ExecutionTypeOK
      <4>3. told'[c] = row.result
        BY <4>1 DEF ExecutionInv, ExecutionTypeOK
      <4>4. PendingIsHeld' /\ CompletedIsDone'
        BY <2>1, <3>2, <4>1, <4>2
        DEF ExecutionInv, RowInv, PendingIsHeld, CompletedIsDone, Pending, Completed
      <4>5. WorkersOwnTheRow'
        BY <2>1, <3>2, <4>2 DEF ExecutionInv, RowInv, WorkersOwnTheRow, Pending, Working
      <4>6. ToldSound'
        BY <2>1, <3>2, <4>1, <4>2, <4>3 DEF ExecutionInv, RowInv, ToldSound
      <4> QED BY <4>4, <4>5, <4>6 DEF RowInv
    <3>3. CASE pc'[c] = "refused" /\ told' = told
      <4>1. Goto(c, "refused")
        BY <3>1, <3>3, GotoMoves DEF Judged
      <4> QED BY <1>a, <2>1, <3>3, <4>1, RowKept DEF Working
    <3> QED BY <2>1, <2>3, <3>1, <3>2, <3>3, JudgedSound
  <2> QED BY <2>2, <2>3
<1>3. ASSUME NEW c \in Calls, Insert(c) PROVE RowInv'
  <2>1. CASE row = None
    <3>1. /\ row' = Pending(c) /\ row' # None /\ holder' = c /\ Goto(c, "reserved")
          /\ UNCHANGED <<print, told, applied>>
      BY <1>3, <2>1, RowsAreThere DEF Insert, ExecutionInv
    <3>2. pc'[c] = "reserved" /\ \A d \in Calls \ {c} : pc'[d] = pc[d] /\ pc[d] \notin Working
      BY <2>1, <3>1, GotoMoves, RowsAreThere DEF ExecutionInv, RowInv, WorkersOwnTheRow
    <3>3. PendingIsHeld' /\ CompletedIsDone'
      BY <3>1 DEF PendingIsHeld, CompletedIsDone, Pending
    <3>4. WorkersOwnTheRow' /\ ToldSound'
      BY <1>3, <3>1, <3>2
      DEF ExecutionInv, RowInv, WorkersOwnTheRow, ToldSound, Pending, Working, Insert
    <3> QED BY <3>3, <3>4 DEF RowInv
  <2>2. CASE row # None
    BY <1>3, <1>a, <2>2, RowKept DEF Insert, Working
  <2> QED BY <2>1, <2>2
<1>4. ASSUME NEW c \in Calls, Attempt(c) PROVE RowInv'
  BY <1>4, <1>a, RowKept DEF Attempt, Working
<1>5. ASSUME NEW c \in Calls, Join(c) PROVE RowInv'
  BY <1>5, <1>a, RowKept DEF Join, Working
<1>6. ASSUME NEW c \in Calls, Expire(c) PROVE RowInv'
  BY <1>6, <1>a, RowKept DEF Expire, Working
<1>7. ASSUME NEW c \in Calls, Store(c) PROVE RowInv'
  <2>1. pc[c] = "storing" /\ row = Pending(c) /\ row # None /\ holder = c /\ applied[c] > 0
    BY <1>7, RowsAreThere
    DEF Store, ExecutionInv, RowInv, WorkersOwnTheRow, ThreadInv, AttemptsSound, Working
  <2>2. /\ row' = Completed(c) /\ told' = [told EXCEPT ![c] = c] /\ Goto(c, "done")
        /\ UNCHANGED <<print, applied, holder>>
    BY <1>7, <2>1 DEF Store
  <2>3. \A d \in Calls \ {c} : pc'[d] = pc[d] /\ told'[d] = told[d] /\ pc[d] \notin Working
    BY <2>1, <2>2, GotoMoves DEF ExecutionInv, RowInv, WorkersOwnTheRow, ExecutionTypeOK, Pending
  <2>4. pc'[c] = "done" /\ told'[c] = c
    BY <2>2 DEF Goto, ExecutionInv, ExecutionTypeOK
  <2>5. PendingIsHeld' /\ CompletedIsDone'
    BY <2>1, <2>2, <2>4 DEF PendingIsHeld, CompletedIsDone, Completed
  <2>6. WorkersOwnTheRow' /\ ToldSound'
    BY <2>2, <2>3, <2>4 DEF ExecutionInv, RowInv, WorkersOwnTheRow, ToldSound, Working
  <2> QED BY <2>5, <2>6 DEF RowInv
<1>8. ASSUME NEW c \in Calls, Release(c) PROVE RowInv'
  <2>1. pc[c] = "releasing" /\ row = Pending(c) /\ row # None /\ holder = c
    BY <1>8, RowsAreThere DEF Release, ExecutionInv, RowInv, WorkersOwnTheRow, Working
  <2>2. row' = None /\ Goto(c, "failed") /\ UNCHANGED <<print, told, applied, holder>>
    BY <1>8, <2>1 DEF Release, Pending
  <2>3. \A d \in Calls : pc'[d] \notin Working
    BY <2>1, <2>2, GotoMoves, RowsAreThere
       DEF ExecutionInv, RowInv, WorkersOwnTheRow, Pending, Working
  <2> QED
    BY <2>1, <2>2, <2>3, GotoMoves
    DEF ExecutionInv, RowInv, PendingIsHeld, CompletedIsDone, WorkersOwnTheRow, ToldSound
<1>9. ASSUME NEW c \in Calls, Raise(c) \/ Crash(c) PROVE RowInv'
  BY <1>9, <1>a, RowKept DEF Raise, Crash, Working, Ended
<1>10. ASSUME NEW c \in Calls,
              Effect(c) \/ Return(c) \/ OrphanEffect(c) \/ OrphanEnd(c) \/ Exit(c)
       PROVE RowInv'
  <2>1. UNCHANGED <<row, print, told, holder, pc>>
    BY <1>10 DEF Effect, Return, OrphanEffect, OrphanEnd, Exit
  <2> QED
    BY <1>a, <2>1
       DEF ExecutionInv, RowInv, PendingIsHeld, CompletedIsDone, WorkersOwnTheRow, ToldSound,
                Pending, Completed
<1> QED
  BY <1>1, <1>2, <1>3, <1>4, <1>5, <1>6, <1>7, <1>8, <1>9, <1>10 DEF ExecutionNext, Own

(* The type, the row and the threads keep what they say of one another. *)
LEMMA ExecutionInvariance == ExecutionSpec => []ExecutionInv
<1>1. ExecutionInv /\ [ExecutionNext]_execution => ExecutionInv'
  BY ExecutionTypeStep, RowInvStep, ThreadInvStep DEF ExecutionInv
<1> QED BY ExecutionInitInv, <1>1, PTL DEF ExecutionSpec

(* Type correctness: among it, that no action takes effect more often than  *)
(* the policy lets its call try it (_run_attempts).                         *)
THEOREM ExecutionTypeCorrect == ExecutionSpec => []ExecutionTypeOK
<1>1. ExecutionInv => ExecutionTypeOK
  BY DEF ExecutionInv
<1> QED BY ExecutionInvariance, <1>1, PTL

(* A replayed answer is another call's, for the same input, and took        *)
(* effect; retries and abandoned threads stay within the attempts           *)
(* (reserve_idempotency, store_idempotency, run_with_timeout).              *)
THEOREM AnswersAreSound == ExecutionSpec => []AnswersMatchEffects
<1>1. ExecutionInv => AnswersMatchEffects
  BY ExecutionAssumption
  DEF ExecutionInv, ExecutionTypeOK, RowInv, ToldSound, AnswersMatchEffects
<1> QED BY ExecutionInvariance, <1>1, PTL

-----------------------------------------------------------------------------
(* The refinement: what each step is to the key.                            *)

(* A step that leaves the row, its holder and the answers alone is nothing  *)
(* to the key.                                                              *)
LEMMA KeyUntouched ==
  ASSUME UNCHANGED <<row, holder, told>>
  PROVE  UNCHANGED <<Held, Settled, told>>
BY DEF Held, Settled

(* A verdict replays the settled answer, or says nothing. *)
LEMMA JudgedReplays ==
  ASSUME ExecutionInv, NEW c \in Calls, pc[c] \in {"new", "conflict"}, row # None, Judged(c),
         UNCHANGED <<row, holder>>
  PROVE  KeySpec!Replay(c) \/ UNCHANGED <<Held, Settled, told>>
<1>1. CASE pc'[c] = "replayed"
  <2>1. /\ row.status = "completed" /\ row.result \in Calls \ {c}
        /\ told' = [told EXCEPT ![c] = row.result]
    BY <1>1, JudgedSound
  <2>2. told[c] = None
    BY DEF ExecutionInv, RowInv, ToldSound
  <2> QED BY <2>1, <2>2, ExecutionAssumption DEF KeySpec!Replay, Held, Settled
<1>2. CASE pc'[c] = "refused" /\ told' = told
  BY <1>2, KeyUntouched
<1> QED BY <1>1, <1>2, JudgedSound

(* What each step does to the key is a step of its promise, or nothing. *)
LEMMA KeySimulation ==
  ASSUME ExecutionInv, [ExecutionNext]_execution
  PROVE  [KeySpec!Next]_<<Held, Settled, told>>
<1> DEFINE Quiet == UNCHANGED <<Held, Settled, told>>
<1>1. CASE UNCHANGED execution
  BY <1>1, KeyUntouched DEF execution
<1>2. ASSUME NEW c \in Calls, Look(c) \/ LookAgain(c) PROVE KeySpec!Replay(c) \/ Quiet
  BY <1>2, KeyUntouched, JudgedReplays DEF Look, LookAgain
<1>3. ASSUME NEW c \in Calls, Insert(c) PROVE KeySpec!Take(c) \/ Quiet
  <2>1. CASE row = None
    <3>1. row' = Pending(c) /\ row' # None /\ holder' = c /\ told' = told /\ told[c] = None
      BY <1>3, <2>1, RowsAreThere DEF Insert, ExecutionInv, RowInv, ToldSound
    <3>2. row'.status = "pending"
      BY <3>1 DEF Pending
    <3> QED BY <2>1, <3>1, <3>2 DEF KeySpec!Take, Held, Settled
  <2>2. CASE row # None
    BY <1>3, <2>2, KeyUntouched DEF Insert
  <2> QED BY <2>1, <2>2
<1>4. ASSUME NEW c \in Calls, Store(c) PROVE KeySpec!Settle(c)
  <2>1. row = Pending(c) /\ row # None /\ holder = c
    BY <1>4, RowsAreThere DEF Store, ExecutionInv, RowInv, WorkersOwnTheRow, Working
  <2>2. /\ row' = Completed(c) /\ row' # None /\ holder' = c
        /\ told' = [told EXCEPT ![c] = c]
    BY <1>4, <2>1, RowsAreThere DEF Store, ExecutionInv
  <2>3. row.status = "pending" /\ row'.status = "completed" /\ row'.result = c
    BY <2>1, <2>2 DEF Pending, Completed
  <2> QED BY <2>1, <2>2, <2>3 DEF KeySpec!Settle, Held, Settled
<1>5. ASSUME NEW c \in Calls, Release(c) PROVE KeySpec!GiveBack(c)
  <2>1. row = Pending(c) /\ row # None /\ holder = c
    BY <1>5, RowsAreThere DEF Release, ExecutionInv, RowInv, WorkersOwnTheRow, Working
  <2>2. row.status = "pending"
    BY <2>1 DEF Pending
  <2>3. row' = None /\ told' = told
    BY <1>5, <2>1, <2>2 DEF Release
  <2> QED BY <2>1, <2>2, <2>3 DEF KeySpec!GiveBack, Held, Settled
<1>6. ASSUME NEW c \in Calls,
             \/ Attempt(c) \/ Join(c) \/ Expire(c) \/ Raise(c) \/ Effect(c) \/ Return(c)
             \/ OrphanEffect(c) \/ OrphanEnd(c) \/ Crash(c) \/ Exit(c)
      PROVE Quiet
  <2>1. UNCHANGED <<row, holder, told>>
    BY <1>6 DEF Attempt, Join, Expire, Raise, Effect, Return, OrphanEffect, OrphanEnd, Crash, Exit
  <2> QED BY <2>1, KeyUntouched
<1> QED
  BY <1>1, <1>2, <1>3, <1>4, <1>5, <1>6 DEF ExecutionNext, Own, KeySpec!Next

(* The table of reservations is a lock with a memory: one call at a time    *)
(* holds the key, and what it settles is what every later call is told,     *)
(* whatever crashes, times out or fails to write (execution.py).            *)
THEOREM ExecutionRefinement == ExecutionSpec => RefinesIdempotencyKey
<1>1. ExecutionInit => KeySpec!Init
  BY DEF ExecutionInit, KeySpec!Init, Held, Settled
<1>2. ExecutionInv /\ [ExecutionNext]_execution => [KeySpec!Next]_<<Held, Settled, told>>
  BY KeySimulation
<1> QED BY <1>1, <1>2, ExecutionInvariance, PTL DEF ExecutionSpec, RefinesIdempotencyKey, KeySpec!Spec
=============================================================================
