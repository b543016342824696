------------------------ MODULE AutomationEngine_proofs ------------------------
(***************************************************************************)
(* Safety of AutomationEngine for any automations, threads, processes,      *)
(* period and bounds.                                                       *)
(*                                                                          *)
(* That claims have one owner is inductive with what the janitor holds at   *)
(* which place (JanitorSound).  That a tick keeps the schedule rests on     *)
(* ScheduleSound: as long as no other process runs automations and nobody   *)
(* patches them, last_run_at is never replaced by an earlier time, and is   *)
(* behind a claim only until its run is recorded or has failed to be.       *)
(***************************************************************************)
EXTENDS AutomationEngine, TLAPS

(* The janitor runs what it has claimed, and nothing is claimed between its *)
(* ticks; runs are of automations.                                          *)
JanitorSound ==
  /\ Running(Janitor) => cur[Janitor] \in due
  /\ pc[Janitor] \in {"idle", "dead"} => due = {}
  /\ \A t \in Runners \cup Shells : pc[t] \in {"idle", "run", "record", "release", "raised"}
  /\ \A t \in Threads : Running(t) => cur[t] \in Autos

EditsSound == \A e \in Editors : edit[e].step # "idle" => edit[e].id \in Autos

(* ClaimsHaveOneOwner, element by element. *)
OwnersSound ==
  /\ \A a \in Autos : a \in inflight[Janitor] <=>
                        a \in due \/ \E t \in Runners : Running(t) /\ cur[t] = a
  /\ \A t \in Runners : Running(t) => cur[t] \notin due
  /\ \A t, u \in Runners : Running(t) /\ Running(u) /\ t # u => cur[t] # cur[u]

OwnInv == TypeOK /\ JanitorSound /\ EditsSound /\ OwnersSound

Alone == plan.shells = {} /\ plan.patches = 0

(* t has a claim on a whose run is still to be recorded. *)
Unrecorded(t, a) ==
  IF t = Janitor THEN a \in due /\ (cur[t] = a => pc[t] \notin {"release", "raised"})
                 ELSE pc[t] \in {"run", "record"} /\ cur[t] = a

(* The rest of an automation is over when its row says so, or is in the     *)
(* hands of the claim that will say so.                                     *)
Rested(a) ==
  \/ rest[a] <= auto[a].wait
  \/ \E t \in {Janitor} \cup Runners : Unrecorded(t, a) /\ rest[a] <= left[t]

(* A server by itself writes nothing that is earlier than what it replaces. *)
ScheduleSound ==
  Alone =>
    /\ \A t \in Shells : pc[t] = "idle"
    /\ \A e \in Editors : edit[e].step = "idle"
    /\ \A a \in Autos : auto[a] # Gone => Rested(a)
    /\ \A t \in Runners : Running(t) /\ auto[cur[t]] # Gone => auto[cur[t]].wait <= left[t]
    /\ \A a \in due : auto[a] # Gone => auto[a].wait <= left[Janitor]

IInv == OwnInv /\ ScheduleSound

-------------------------------------------------------------------------------
Rows      == [enabled : BOOLEAN, wait : 0 .. Period]
Places    == {"idle", "tick", "run", "record", "release", "raised", "abort", "dead"}
EditState == [step : {"idle", "read", "reread"}, id : Autos \cup {Gone}, enabled : BOOLEAN,
              wait : 0 .. Period]

(* TypeOK, by its parts. *)
LEMMA TypeParts ==
  TypeOK <=>
    /\ auto \in [Autos -> {Gone} \cup Rows]
    /\ inflight \in [Engines -> SUBSET Autos] /\ marked \subseteq inflight[Janitor]
    /\ pc \in [Threads -> Places] /\ cur \in [Threads -> Autos \cup {Gone}]
    /\ left \in [Threads -> 0 .. Period]
    /\ due \subseteq inflight[Janitor] /\ blocked \subseteq Autos
    /\ edit \in [Editors -> EditState]
    /\ plan \in Plans
    /\ faults \in 0 .. plan.faults /\ edits \in 0 .. plan.edits /\ patches \in 0 .. plan.patches
    /\ rest \in [Autos -> 0 .. Period]
  BY DEF TypeOK, Rows, Places, EditState

(* A row is not Gone, and time only shortens what is left.                  *)
LEMMA RowSound ==
  /\ Gone \notin Rows
  /\ \A b \in BOOLEAN, n \in 0 .. Period : Row(b, n) \in Rows /\ Row(b, n).wait = n
  BY AutomationAssumption DEF Rows, Row

(* A tick keeps the order of what is left. *)
LEMMA LessSound ==
  /\ \A n \in 0 .. Period : Less(n) \in 0 .. Period
  /\ \A m, n \in 0 .. Period : m <= n => Less(m) <= Less(n)
  BY AutomationAssumption DEF Less

(* The threads, and the engines they use. *)
LEMMA ThreadsSound ==
  /\ Janitor \in Threads /\ Janitor \in Engines /\ Runners \subseteq Threads /\ Shells \subseteq Threads
  /\ Janitor \notin Runners /\ Janitor \notin Shells /\ Shells \subseteq Engines
  /\ \A t \in Runners : t \notin Shells /\ EngineOf(t) = Janitor
  /\ \A t \in Shells : t \notin Runners /\ EngineOf(t) = t
  /\ EngineOf(Janitor) = Janitor
  /\ \A t \in Threads : t = Janitor \/ t \in Runners \/ t \in Shells
  /\ \A t \in Threads : EngineOf(t) \in Engines
  BY AutomationAssumption DEF Threads, Engines, EngineOf

(* Nothing runs at the start, and no automation has run. *)
LEMMA InitInv == Init => IInv
<1> SUFFICES ASSUME Init PROVE IInv
  OBVIOUS
<1> USE DEF Init
<1>1. TypeOK
  <2>1. plan.faults \in Nat /\ plan.edits \in Nat /\ plan.patches \in Nat
    BY AutomationAssumption DEF Plan
  <2>2. NoEdit \in EditState /\ Row(TRUE, 0) \in Rows
    <3>1. 0 \in 0 .. Period
      BY AutomationAssumption
    <3>2. Row(TRUE, 0) \in Rows
      BY <3>1, RowSound
    <3> QED BY <3>1, <3>2 DEF NoEdit, EditState
  <2>3. auto \in [Autos -> {Gone} \cup Rows]
    BY <2>2
  <2> QED BY <2>1, <2>2, <2>3, AutomationAssumption, TypeParts, ThreadsSound DEF Places
<1>2. JanitorSound /\ EditsSound
  BY ThreadsSound DEF JanitorSound, EditsSound, Running, NoEdit
<1>3. OwnersSound
  BY ThreadsSound DEF OwnersSound, Running
<1>4. ScheduleSound
  <2>1. \A a \in Autos : auto[a] # Gone => auto[a].wait = 0
    BY DEF Row
  <2> QED BY <2>1, ThreadsSound DEF ScheduleSound, Rested, Unrecorded, Running, NoEdit
<1> QED BY <1>1, <1>2, <1>3, <1>4 DEF IInv, OwnInv

-------------------------------------------------------------------------------
(* Every step keeps the type. *)
LEMMA TypeStep == OwnInv /\ [Next]_vars => TypeOK'
<1> SUFFICES ASSUME OwnInv, [Next]_vars PROVE TypeOK'
  OBVIOUS
<1> USE ThreadsSound, AutomationAssumption DEF budgets, calls, lists, Goto
<1>a. /\ auto \in [Autos -> {Gone} \cup Rows]
      /\ inflight \in [Engines -> SUBSET Autos] /\ marked \subseteq inflight[Janitor]
      /\ pc \in [Threads -> Places] /\ cur \in [Threads -> Autos \cup {Gone}]
      /\ left \in [Threads -> 0 .. Period]
      /\ due \subseteq inflight[Janitor] /\ blocked \subseteq Autos
      /\ edit \in [Editors -> EditState]
      /\ plan \in Plans
      /\ faults \in 0 .. plan.faults /\ edits \in 0 .. plan.edits /\ patches \in 0 .. plan.patches
      /\ rest \in [Autos -> 0 .. Period]
  BY TypeParts DEF OwnInv
<1>t. ASSUME auto' \in [Autos -> {Gone} \cup Rows],
             inflight' \in [Engines -> SUBSET Autos], marked' \subseteq inflight'[Janitor],
             pc' \in [Threads -> Places], cur' \in [Threads -> Autos \cup {Gone}],
             left' \in [Threads -> 0 .. Period],
             due' \subseteq inflight'[Janitor], blocked' \subseteq Autos,
             edit' \in [Editors -> EditState],
             plan' \in Plans, faults' \in 0 .. plan'.faults, edits' \in 0 .. plan'.edits,
             patches' \in 0 .. plan'.patches, rest' \in [Autos -> 0 .. Period]
      PROVE  TypeOK'
  BY <1>t DEF TypeOK, Rows, Places, EditState
<1>b. plan.faults \in Nat /\ plan.edits \in Nat /\ plan.patches \in Nat
  BY <1>a DEF Plan
<1>c. \A t \in Threads : Running(t) => cur[t] \in Autos
  BY DEF OwnInv, JanitorSound
<1>1. CASE UNCHANGED vars
  BY <1>1, <1>a, <1>t DEF vars
<1>2. CASE Tick
  <2> DEFINE D == {a \in Autos : IsDue(a)} \ inflight[Janitor]
             B == ({a \in Autos : IsDue(a)} \cap inflight[Janitor]) \ marked
  <2>1. /\ D \in SUBSET Autos /\ B \in SUBSET Autos
        /\ inflight' = [inflight EXCEPT ![Janitor] = @ \cup D] /\ B \subseteq inflight[Janitor]
        /\ marked' = (marked \ D) \cup B /\ due' = D /\ blocked' = B
        /\ left' = [left EXCEPT ![Janitor] = Period] /\ pc' = [pc EXCEPT ![Janitor] = "tick"]
        /\ rest' = [a \in Autos |-> IF a \in D THEN Period ELSE rest[a]]
        /\ UNCHANGED <<auto, cur, edit, budgets>>
    BY <1>2 DEF Tick
  <2> HIDE DEF D, B
  <2>2. rest' \in [Autos -> 0 .. Period]
    BY <1>a, <2>1
  <2> QED BY <1>a, <2>1, <2>2, <1>t DEF Places
<1>3. ASSUME NEW a \in Autos, RecordSkip(a) \/ SkipFails(a) \/ SkipAborts(a) \/ TickNext(a)
      PROVE  TypeOK'
  BY <1>3, <1>a, <1>b, <1>t DEF RecordSkip, SkipFails, SkipAborts, TickNext, Places
<1>4. CASE TickDone \/ TickAborted
  <2>1. rest' \in [Autos -> 0 .. Period]
    BY <1>4, <1>a DEF TickDone, TickAborted
  <2> QED BY <1>4, <1>a, <2>1, <1>t DEF TickDone, TickAborted, Places
<1>5. ASSUME NEW t \in Threads, NEW a \in Autos, RunNow(t, a) PROVE TypeOK'
  <2>1. t \in Runners \cup Shells
    BY <1>5, <1>a DEF RunNow, Plan
  <2>2. rest' \in [Autos -> 0 .. Period]
    BY <1>5, <1>a DEF RunNow
  <2> QED BY <1>5, <1>a, <2>1, <2>2, <1>t DEF RunNow, Places
<1>6. ASSUME NEW t \in Threads, KindEnds(t) \/ KindAborts(t) PROVE TypeOK'
  <2>1. rest' \in [Autos -> 0 .. Period]
    BY <1>6, <1>a DEF KindEnds, KindAborts
  <2> QED BY <1>6, <1>a, <1>b, <1>c, <2>1, <1>t DEF KindEnds, KindAborts, Running, Places
<1>7. ASSUME NEW t \in Threads, RecordRun(t) PROVE TypeOK'
  <2>1. cur[t] \in Autos
    BY <1>7, <1>c DEF RecordRun, Running
  <2>2. CASE auto[cur[t]] = Gone
    BY <1>7, <1>a, <2>2, <1>t DEF RecordRun, Places
  <2>3. CASE auto[cur[t]] # Gone
    <3>1. auto[cur[t]] \in Rows /\ left[t] \in 0 .. Period
      BY <1>a, <2>1, <2>3
    <3>2. [auto[cur[t]] EXCEPT !.wait = left[t]] \in Rows
      BY <3>1 DEF Rows
    <3>3. auto' = [auto EXCEPT ![cur[t]] = [auto[cur[t]] EXCEPT !.wait = left[t]]]
      BY <1>7, <2>3 DEF RecordRun
    <3>4. auto' \in [Autos -> {Gone} \cup Rows]
      BY <1>a, <3>2, <3>3
    <3> QED BY <1>7, <1>a, <3>4, <1>t DEF RecordRun, Places
  <2> QED BY <2>2, <2>3
<1>8. ASSUME NEW t \in Threads, RecordFails(t) PROVE TypeOK'
  <2>1. rest' \in [Autos -> 0 .. Period] /\ faults' \in 0 .. plan.faults /\ pc' \in [Threads -> Places]
    <3>1. 0 \in 0 .. Period
      OBVIOUS
    <3>2. faults' \in 0 .. plan.faults
      BY <1>8, <1>a, <1>b DEF RecordFails
    <3> QED BY <1>8, <1>a, <3>1, <3>2 DEF RecordFails, Places
  <2> QED BY <1>8, <1>a, <2>1, <1>t DEF RecordFails
<1>9. ASSUME NEW t \in Threads, Release(t) PROVE TypeOK'
  <2>1. /\ inflight' = [inflight EXCEPT ![EngineOf(t)] = @ \ {cur[t]}]
        /\ marked' = IF t \in Shells THEN marked ELSE marked \ {cur[t]}
        /\ due' = IF t = Janitor THEN due \ {cur[t]} ELSE due
        /\ cur' = [cur EXCEPT ![t] = Gone]
        /\ left' = [left EXCEPT ![t] = IF t = Janitor THEN @ ELSE 0]
        /\ pc' = [pc EXCEPT ![t] = AfterRun(t)]
        /\ UNCHANGED <<auto, blocked, edit, budgets, rest>>
        /\ Running(t)
    BY <1>9 DEF Release, Running
  <2>2. AfterRun(t) \in Places
    BY DEF AfterRun, Places
  <2>3. due' \subseteq inflight'[Janitor] /\ marked' \subseteq inflight'[Janitor]
    <3>1. CASE t \in Shells
      BY <1>a, <2>1, <3>1
    <3>2. CASE t = Janitor
      BY <1>a, <2>1, <3>2
    <3>3. CASE t \in Runners
      <4>1. cur[t] \notin due
        BY <2>1, <3>3 DEF OwnInv, OwnersSound
      <4> QED BY <1>a, <2>1, <3>3, <4>1
    <3> QED BY <3>1, <3>2, <3>3
  <2> QED BY <1>a, <2>1, <2>2, <2>3, <1>t
<1>10. ASSUME NEW a \in Autos, NEW b \in BOOLEAN, SetEnabled(a, b) PROVE TypeOK'
  <2>1. auto[a] \in Rows
    BY <1>10, <1>a DEF SetEnabled
  <2>2. [auto[a] EXCEPT !.enabled = b] \in Rows
    BY <2>1 DEF Rows
  <2>3. auto' = [auto EXCEPT ![a] = [auto[a] EXCEPT !.enabled = b]]
    BY <1>10 DEF SetEnabled
  <2>4. auto' \in [Autos -> {Gone} \cup Rows]
    BY <1>a, <2>2, <2>3
  <2> QED BY <1>10, <1>a, <1>b, <2>4, <1>t DEF SetEnabled
<1>11. ASSUME NEW a \in Autos, Delete(a) \/ Insert(a) PROVE TypeOK'
  <2>1. auto' \in [Autos -> {Gone} \cup Rows]
    <3>1. 0 \in 0 .. Period
      OBVIOUS
    <3>2. Row(TRUE, 0) \in Rows
      BY <3>1, RowSound
    <3>3. auto' = [auto EXCEPT ![a] = Gone] \/ auto' = [auto EXCEPT ![a] = Row(TRUE, 0)]
      BY <1>11 DEF Delete, Insert
    <3> QED BY <1>a, <3>2, <3>3
  <2>2. rest' \in [Autos -> 0 .. Period] /\ edits' \in 0 .. plan.edits /\ marked' \subseteq marked
    <3>1. 0 \in 0 .. Period
      OBVIOUS
    <3>2. edits' \in 0 .. plan.edits
      <4>1. edits < plan.edits /\ edits' = edits + 1
        BY <1>11 DEF Delete, Insert
      <4> QED BY <1>a, <1>b, <4>1
    <3>3. rest' = [rest EXCEPT ![a] = 0] /\ marked' \subseteq marked
      BY <1>11 DEF Delete, Insert
    <3> QED BY <1>a, <3>1, <3>2, <3>3
  <2> QED BY <1>11, <1>a, <2>1, <2>2, <1>t DEF Delete, Insert
<1>12. ASSUME NEW e \in Editors, NEW a \in Autos, PatchRead(e, a) PROVE TypeOK'
  <2>1. auto[a] \in Rows
    BY <1>12, <1>a DEF PatchRead
  <2>2. [step |-> "read", id |-> a, enabled |-> auto[a].enabled, wait |-> 0] \in EditState
    BY <2>1 DEF Rows, EditState
  <2> QED BY <1>12, <1>a, <1>b, <2>2, <1>t DEF PatchRead
<1>13. ASSUME NEW e \in Editors, PatchReread(e) PROVE TypeOK'
  <2>1. PICK n \in 0 .. Period : edit' = [edit EXCEPT ![e] = [edit[e] EXCEPT !.step = "reread",
                                                                            !.wait = n]]
    <3>1. edit[e].id \in Autos
      BY <1>13 DEF PatchReread, OwnInv, EditsSound
    <3>2. CASE auto[edit[e].id] = Gone
      <4>1. 0 \in 0 .. Period
        OBVIOUS
      <4> QED BY <1>13, <3>2, <4>1 DEF PatchReread
    <3>3. CASE auto[edit[e].id] # Gone
      <4>1. auto[edit[e].id] \in Rows
        BY <1>a, <3>1, <3>3
      <4>2. auto[edit[e].id].wait \in 0 .. Period
        BY <4>1 DEF Rows
      <4> QED BY <1>13, <3>3, <4>2 DEF PatchReread
    <3> QED BY <3>2, <3>3
  <2>2. edit[e] \in EditState
    BY <1>a
  <2>3. [edit[e] EXCEPT !.step = "reread", !.wait = n] \in EditState
    BY <2>2 DEF EditState
  <2>4. edit' \in [Editors -> EditState]
    BY <1>a, <2>1, <2>3
  <2> QED BY <1>13, <1>a, <2>4, <1>t DEF PatchReread
<1>14. ASSUME NEW e \in Editors, PatchWrite(e) PROVE TypeOK'
  <2>1. edit[e] \in EditState /\ NoEdit \in EditState
    BY <1>a DEF NoEdit, EditState
  <2>2. Row(edit[e].enabled, edit[e].wait) \in Rows
    BY <2>1, RowSound DEF EditState
  <2> QED BY <1>14, <1>a, <2>1, <2>2, <1>t DEF PatchWrite
<1>15. CASE Pass
  <2>1. ASSUME NEW a \in Autos PROVE auto'[a] \in {Gone} \cup Rows
    <3>1. CASE auto[a] = Gone
      BY <1>15, <3>1 DEF Pass
    <3>2. CASE auto[a] # Gone
      <4>1. auto[a] \in Rows
        BY <1>a, <3>2
      <4>2. auto[a].enabled \in BOOLEAN /\ Less(auto[a].wait) \in 0 .. Period
        BY <4>1, LessSound DEF Rows
      <4> QED BY <1>15, <3>2, <4>2, RowSound DEF Pass
    <3> QED BY <3>1, <3>2
  <2>2. ASSUME NEW e \in Editors PROVE edit'[e] \in EditState
    <3>1. edit[e] \in EditState
      BY <1>a
    <3>2. Less(edit[e].wait) \in 0 .. Period
      BY <3>1, LessSound DEF EditState
    <3>3. edit'[e] = [edit[e] EXCEPT !.wait = Less(edit[e].wait)]
      BY <1>15 DEF Pass
    <3> QED BY <3>1, <3>2, <3>3 DEF EditState
  <2>3. auto' \in [Autos -> {Gone} \cup Rows] /\ edit' \in [Editors -> EditState]
    BY <1>15, <2>1, <2>2 DEF Pass
  <2>4. left' \in [Threads -> 0 .. Period] /\ rest' \in [Autos -> 0 .. Period]
    BY <1>15, <1>a, LessSound DEF Pass
  <2> QED BY <1>15, <1>a, <2>3, <2>4, <1>t DEF Pass
<1> QED
  BY <1>1, <1>2, <1>3, <1>4, <1>5, <1>6, <1>7, <1>8, <1>9, <1>10, <1>11, <1>12, <1>13, <1>14,
     <1>15 DEF Next, JanitorStep, RunStep

-------------------------------------------------------------------------------
(* Every step keeps the owners of claims. *)
LEMMA OwnStep == OwnInv /\ [Next]_vars => OwnInv'
<1> SUFFICES ASSUME OwnInv, [Next]_vars PROVE OwnInv'
  OBVIOUS
<1> USE ThreadsSound DEF budgets, calls, lists, Goto
<1>a. /\ inflight \in [Engines -> SUBSET Autos] /\ due \subseteq Autos
      /\ pc \in [Threads -> Places] /\ cur \in [Threads -> Autos \cup {Gone}]
      /\ edit \in [Editors -> EditState] /\ plan \in Plans
  BY TypeParts DEF OwnInv
<1>b. JanitorSound /\ EditsSound /\ OwnersSound
  BY DEF OwnInv
<1>c. ASSUME JanitorSound', OwnersSound', edit' = edit PROVE OwnInv'
  BY <1>b, <1>c, TypeStep DEF OwnInv, EditsSound
<1>d. ASSUME UNCHANGED <<pc, cur, due>>, inflight' = inflight PROVE JanitorSound' /\ OwnersSound'
  BY <1>b, <1>d DEF JanitorSound, OwnersSound, Running
<1>1. CASE UNCHANGED vars
  BY <1>1, <1>c, <1>d DEF vars
<1>2. CASE Tick
  <2> DEFINE D == {a \in Autos : IsDue(a)} \ inflight[Janitor]
  <2>1. /\ pc[Janitor] = "idle" /\ pc'[Janitor] = "tick" /\ due' = D
        /\ inflight'[Janitor] = inflight[Janitor] \cup D
        /\ \A u \in Threads \ {Janitor} : pc'[u] = pc[u]
        /\ cur' = cur /\ edit' = edit
    BY <1>2, <1>a DEF Tick
  <2>2. D \subseteq Autos /\ D \cap inflight[Janitor] = {}
    OBVIOUS
  <2>3. due = {}
    BY <1>b, <2>1 DEF JanitorSound
  <2> HIDE DEF D
  <2>4. JanitorSound'
    BY <1>a, <1>b, <2>1 DEF JanitorSound, Running
  <2>5. OwnersSound'
    BY <1>a, <1>b, <2>1, <2>2, <2>3 DEF OwnersSound, JanitorSound, Running
  <2> QED BY <1>c, <2>1, <2>4, <2>5
<1>3. ASSUME NEW a \in Autos, RecordSkip(a) \/ SkipFails(a) PROVE OwnInv'
  BY <1>3, <1>c, <1>d DEF RecordSkip, SkipFails
<1>4. ASSUME NEW a \in Autos, SkipAborts(a) PROVE OwnInv'
  <2>1. /\ pc[Janitor] = "tick" /\ pc'[Janitor] = "abort" /\ UNCHANGED <<inflight, due, cur, edit>>
        /\ \A u \in Threads \ {Janitor} : pc'[u] = pc[u]
    BY <1>4, <1>a DEF SkipAborts
  <2>2. JanitorSound' /\ OwnersSound'
    BY <1>a, <1>b, <2>1 DEF JanitorSound, OwnersSound, Running
  <2> QED BY <1>c, <2>1, <2>2
<1>5. ASSUME NEW a \in Autos, TickNext(a) PROVE OwnInv'
  <2>1. /\ pc'[Janitor] = "run" /\ cur'[Janitor] = a /\ a \in due /\ UNCHANGED <<inflight, due, edit>>
        /\ \A u \in Threads \ {Janitor} : pc'[u] = pc[u] /\ cur'[u] = cur[u]
    BY <1>5, <1>a DEF TickNext
  <2>2. JanitorSound' /\ OwnersSound'
    BY <1>a, <1>b, <2>1 DEF JanitorSound, OwnersSound, Running
  <2> QED BY <1>c, <2>1, <2>2
<1>6. CASE TickDone
  <2>1. /\ pc'[Janitor] = "idle" /\ due = {} /\ UNCHANGED <<inflight, due, cur, edit>>
        /\ \A u \in Threads \ {Janitor} : pc'[u] = pc[u]
    BY <1>6, <1>a DEF TickDone
  <2>2. JanitorSound' /\ OwnersSound'
    BY <1>a, <1>b, <2>1 DEF JanitorSound, OwnersSound, Running
  <2> QED BY <1>c, <2>1, <2>2
<1>7. CASE TickAborted
  <2>1. /\ pc'[Janitor] = "dead" /\ due' = {} /\ inflight'[Janitor] = inflight[Janitor] \ due
        /\ UNCHANGED <<cur, edit>>
        /\ \A u \in Threads \ {Janitor} : pc'[u] = pc[u]
    BY <1>7, <1>a DEF TickAborted
  <2>2. JanitorSound' /\ OwnersSound'
    BY <1>a, <1>b, <2>1 DEF JanitorSound, OwnersSound, Running
  <2> QED BY <1>c, <2>1, <2>2
<1>8. ASSUME NEW t \in Threads, NEW a \in Autos, RunNow(t, a) PROVE OwnInv'
  <2>0. t \in Runners \cup Shells
    BY <1>8, <1>a, AutomationAssumption DEF RunNow, Plan
  <2>1. /\ pc[t] = "idle" /\ pc'[t] = "run" /\ cur'[t] = a /\ UNCHANGED <<due, edit>>
        /\ \A u \in Threads \ {t} : pc'[u] = pc[u] /\ cur'[u] = cur[u]
        /\ a \notin inflight[EngineOf(t)]
        /\ inflight'[Janitor] = IF t \in Runners THEN inflight[Janitor] \cup {a} ELSE inflight[Janitor]
    BY <1>8, <1>a, <2>0 DEF RunNow
  <2>2. JanitorSound'
    BY <1>a, <1>b, <2>0, <2>1 DEF JanitorSound, Running
  <2>3. CASE t \in Runners
    <3>1. a \notin due /\ \A u \in Runners : Running(u) => cur[u] # a
      BY <1>b, <2>1, <2>3 DEF OwnersSound
    <3>2. OwnersSound'
      BY <1>a, <1>b, <2>1, <2>3, <3>1 DEF OwnersSound, Running
    <3> QED BY <1>c, <2>1, <2>2, <3>2
  <2>4. CASE t \in Shells
    <3>1. OwnersSound'
      BY <1>a, <1>b, <2>1, <2>4 DEF OwnersSound, Running
    <3> QED BY <1>c, <2>1, <2>2, <3>1
  <2> QED BY <2>0, <2>3, <2>4
<1>9. ASSUME NEW t \in Threads, KindEnds(t) \/ KindAborts(t) \/ RecordRun(t) \/ RecordFails(t)
      PROVE  OwnInv'
  <2>1. /\ Running(t) /\ pc'[t] \in {"record", "raised", "release"}
        /\ UNCHANGED <<inflight, due, cur, edit>>
        /\ \A u \in Threads \ {t} : pc'[u] = pc[u]
    BY <1>9, <1>a DEF KindEnds, KindAborts, RecordRun, RecordFails, Running
  <2>2. JanitorSound' /\ OwnersSound'
    BY <1>a, <1>b, <2>1 DEF JanitorSound, OwnersSound, Running
  <2> QED BY <1>c, <2>1, <2>2
<1>10. ASSUME NEW t \in Threads, Release(t) PROVE OwnInv'
  <2>1. /\ Running(t) /\ cur'[t] = Gone /\ edit' = edit
        /\ inflight'[EngineOf(t)] = inflight[EngineOf(t)] \ {cur[t]}
        /\ t \in Shells => inflight'[Janitor] = inflight[Janitor]
        /\ due' = IF t = Janitor THEN due \ {cur[t]} ELSE due
        /\ pc'[t] = AfterRun(t)
        /\ \A u \in Threads \ {t} : pc'[u] = pc[u] /\ cur'[u] = cur[u]
    BY <1>10, <1>a DEF Release, Running
  <2>2. CASE t = Janitor
    <3>1. pc'[Janitor] \in {"tick", "abort"} /\ cur[Janitor] \in due
      BY <1>b, <2>1, <2>2 DEF AfterRun, JanitorSound
    <3>2. JanitorSound' /\ OwnersSound'
      BY <1>a, <1>b, <2>1, <2>2, <3>1 DEF JanitorSound, OwnersSound, Running
    <3> QED BY <1>c, <2>1, <3>2
  <2>3. CASE t # Janitor
    <3>1. pc'[t] = "idle" /\ due' = due
      BY <2>1, <2>3 DEF AfterRun
    <3>2. JanitorSound'
      BY <1>a, <1>b, <2>1, <2>3, <3>1 DEF JanitorSound, Running
    <3>3. OwnersSound'
      <4>1. CASE t \in Runners
        BY <1>a, <1>b, <2>1, <3>1, <4>1 DEF OwnersSound, Running
      <4>2. CASE t \in Shells
        BY <1>a, <1>b, <2>1, <3>1, <4>2 DEF OwnersSound, Running
      <4> QED BY <2>3, <4>1, <4>2
    <3> QED BY <1>c, <2>1, <3>2, <3>3
  <2> QED BY <2>2, <2>3
<1>11. ASSUME NEW a \in Autos, Delete(a) \/ Insert(a) \/ \E b \in BOOLEAN : SetEnabled(a, b)
       PROVE  OwnInv'
  BY <1>11, <1>c, <1>d DEF Delete, Insert, SetEnabled
<1>12. ASSUME NEW e \in Editors,
              PatchReread(e) \/ PatchWrite(e) \/ \E a \in Autos : PatchRead(e, a)
       PROVE  OwnInv'
  <2>1. UNCHANGED <<inflight, pc, cur, due>>
    BY <1>12 DEF PatchReread, PatchWrite, PatchRead
  <2>2. EditsSound'
    <3>1. /\ \A f \in Editors \ {e} : edit'[f] = edit[f]
          /\ edit'[e].step # "idle" => edit'[e].id \in Autos
      <4>1. CASE PatchReread(e)
        <5>1. edit[e] \in EditState /\ edit[e].id \in Autos
          BY <1>a, <1>b, <4>1 DEF PatchReread, EditsSound
        <5> QED BY <1>a, <4>1, <5>1 DEF PatchReread, EditState
      <4>2. CASE PatchWrite(e)
        BY <1>a, <4>2 DEF PatchWrite, NoEdit
      <4>3. ASSUME NEW a \in Autos, PatchRead(e, a)
            PROVE  (\A f \in Editors \ {e} : edit'[f] = edit[f]) /\ edit'[e].id \in Autos
        BY <1>a, <4>3 DEF PatchRead
      <4> QED BY <1>12, <4>1, <4>2, <4>3
    <3> QED BY <1>b, <3>1 DEF EditsSound
  <2> QED BY <1>d, <2>1, <2>2, TypeStep DEF OwnInv
<1>13. CASE Pass
  <2>1. UNCHANGED <<inflight, pc, cur, due>>
    BY <1>13 DEF Pass
  <2>2. ASSUME NEW e \in Editors PROVE edit'[e].step = edit[e].step /\ edit'[e].id = edit[e].id
    <3>1. edit[e] \in EditState
      BY <1>a
    <3> QED BY <1>13, <3>1 DEF Pass, EditState
  <2>3. EditsSound'
    BY <1>b, <2>2 DEF EditsSound
  <2> QED BY <1>d, <2>1, <2>3, TypeStep DEF OwnInv
<1> QED
  BY <1>1, <1>2, <1>3, <1>4, <1>5, <1>6, <1>7, <1>8, <1>9, <1>10, <1>11, <1>12, <1>13
  DEF Next, JanitorStep, RunStep

-------------------------------------------------------------------------------
(* Steps that leave the rows, the rests and what is left alone, and neither *)
(* begin nor end a run, leave the schedule alone.                           *)
LEMMA ScheduleStutters ==
  ASSUME ScheduleSound,
         UNCHANGED <<auto, rest, left, cur, plan>>,
         \A t \in Runners \cup Shells : pc'[t] = pc[t],
         pc'[Janitor] \notin {"release", "raised"} \/ pc'[Janitor] = pc[Janitor],
         due' = due, Alone => \A e \in Editors : edit'[e].step = "idle"
  PROVE  ScheduleSound'
<1> SUFFICES ASSUME Alone, Alone' PROVE ScheduleSound'
  BY DEF ScheduleSound, Alone
<1>1. \A a \in Autos : auto'[a] # Gone => Rested(a)'
  BY ThreadsSound DEF ScheduleSound, Rested, Unrecorded
<1> QED BY <1>1, ThreadsSound DEF ScheduleSound, Running

(* Every step keeps the schedule. *)
LEMMA ScheduleStep == IInv /\ [Next]_vars => ScheduleSound'
<1> SUFFICES ASSUME IInv, [Next]_vars PROVE ScheduleSound'
  OBVIOUS
<1> USE ThreadsSound, AutomationAssumption DEF budgets, calls, lists, Goto
<1>a. /\ auto \in [Autos -> {Gone} \cup Rows] /\ due \subseteq Autos
      /\ pc \in [Threads -> Places] /\ cur \in [Threads -> Autos \cup {Gone}]
      /\ left \in [Threads -> 0 .. Period] /\ rest \in [Autos -> 0 .. Period]
      /\ patches \in 0 .. plan.patches
  BY TypeParts DEF IInv, OwnInv
<1>b. JanitorSound /\ EditsSound /\ OwnersSound /\ ScheduleSound
  BY DEF IInv, OwnInv
<1>c. plan' = plan
  BY DEF Next, JanitorStep, RunStep, vars, Tick, TickDone, TickAborted, RecordSkip, TickNext,
         SkipFails, SkipAborts, KindEnds, RecordRun, Release, KindAborts, RecordFails, RunNow,
         Delete, Insert, SetEnabled, PatchReread, PatchWrite, PatchRead, Pass
<1>d. SUFFICES ASSUME Alone PROVE ScheduleSound'
  BY <1>c DEF ScheduleSound, Alone
<1>e. /\ \A t \in Shells : pc[t] = "idle"
      /\ \A e \in Editors : edit[e].step = "idle"
      /\ \A a \in Autos : auto[a] # Gone => Rested(a)
      /\ \A t \in Runners : Running(t) /\ auto[cur[t]] # Gone => auto[cur[t]].wait <= left[t]
      /\ \A a \in due : auto[a] # Gone => auto[a].wait <= left[Janitor]
  BY <1>b, <1>d DEF ScheduleSound
<1>f. \A a \in Autos : auto[a] # Gone => auto[a] \in Rows /\ auto[a].wait \in 0 .. Period
  BY <1>a DEF Rows
<1>g. ASSUME \A t \in Shells : pc'[t] = "idle", edit' = edit,
             \A a \in Autos : auto'[a] # Gone => Rested(a)',
             \A t \in Runners : Running(t)' /\ auto'[cur'[t]] # Gone => auto'[cur'[t]].wait <= left'[t],
             \A a \in due' : auto'[a] # Gone => auto'[a].wait <= left'[Janitor]
      PROVE  ScheduleSound'
  BY <1>e, <1>g DEF ScheduleSound
<1>1. CASE UNCHANGED vars
  BY <1>1, <1>b, <1>e, ScheduleStutters DEF vars
<1>2. CASE Tick
  <2>1. /\ pc[Janitor] = "idle" /\ pc'[Janitor] = "tick" /\ left'[Janitor] = Period
        /\ \A a \in due' : a \in Autos /\ auto[a].wait = 0
        /\ \A t \in Threads \ {Janitor} : pc'[t] = pc[t] /\ left'[t] = left[t]
        /\ \A a \in Autos : rest'[a] = IF a \in due' THEN Period ELSE rest[a]
        /\ UNCHANGED <<auto, cur, edit>>
    BY <1>2, <1>a DEF Tick, IsDue
  <2>2. ASSUME NEW a \in Autos, auto'[a] # Gone PROVE Rested(a)'
    <3>1. CASE a \in due'
      <4>1. Unrecorded(Janitor, a)' /\ rest'[a] <= left'[Janitor]
        BY <2>1, <3>1 DEF Unrecorded
      <4> QED BY <4>1 DEF Rested
    <3>2. CASE a \notin due'
      <4>1. due = {} /\ Rested(a)
        BY <1>b, <1>e, <2>1, <2>2 DEF JanitorSound
      <4> QED BY <2>1, <3>2, <4>1 DEF Rested, Unrecorded
    <3> QED BY <3>1, <3>2
  <2> QED BY <1>e, <1>g, <2>1, <2>2 DEF Running
<1>3. ASSUME NEW a \in Autos, RecordSkip(a) \/ SkipFails(a) \/ SkipAborts(a) PROVE ScheduleSound'
  <2>1. /\ UNCHANGED <<auto, rest, left, cur, plan, due, edit>> /\ pc'[Janitor] \in {"tick", "abort"}
        /\ \A t \in Threads \ {Janitor} : pc'[t] = pc[t]
    BY <1>3, <1>a DEF RecordSkip, SkipFails, SkipAborts
  <2> QED BY <1>b, <1>e, <2>1, ScheduleStutters
<1>4. ASSUME NEW a \in Autos, TickNext(a) PROVE ScheduleSound'
  <2>1. /\ UNCHANGED <<auto, rest, left, due, edit>> /\ pc[Janitor] = "tick" /\ pc'[Janitor] = "run"
        /\ \A t \in Threads \ {Janitor} : pc'[t] = pc[t] /\ cur'[t] = cur[t]
    BY <1>4, <1>a DEF TickNext
  <2>2. \A b \in Autos : auto'[b] # Gone => Rested(b)'
    BY <1>e, <2>1 DEF Rested, Unrecorded
  <2> QED BY <1>e, <1>g, <2>1, <2>2 DEF Running
<1>5. CASE TickDone
  <2>1. /\ UNCHANGED <<auto, rest, cur, due, edit>> /\ pc[Janitor] = "tick" /\ due = {}
        /\ \A t \in Threads \ {Janitor} : pc'[t] = pc[t] /\ left'[t] = left[t]
    BY <1>5, <1>a DEF TickDone
  <2>2. \A b \in Autos : auto'[b] # Gone => Rested(b)'
    BY <1>e, <2>1 DEF Rested, Unrecorded
  <2> QED BY <1>e, <1>g, <2>1, <2>2 DEF Running
<1>6. CASE TickAborted
  <2>1. /\ UNCHANGED <<auto, left, cur, edit>> /\ pc'[Janitor] = "dead" /\ due' = {}
        /\ \A a \in Autos : rest'[a] = IF a \in due THEN 0 ELSE rest[a]
        /\ \A t \in Threads \ {Janitor} : pc'[t] = pc[t]
    BY <1>6, <1>a DEF TickAborted
  <2>2. ASSUME NEW a \in Autos, auto'[a] # Gone PROVE Rested(a)'
    <3>1. CASE a \in due
      BY <1>f, <2>1, <2>2, <3>1 DEF Rested
    <3>2. CASE a \notin due
      BY <1>e, <2>1, <2>2, <3>2 DEF Rested, Unrecorded
    <3> QED BY <3>1, <3>2
  <2> QED BY <1>e, <1>g, <2>1, <2>2 DEF Running
<1>7. ASSUME NEW t \in Threads, NEW a \in Autos, RunNow(t, a) PROVE ScheduleSound'
  <2>1. /\ t \in Runners /\ pc[t] = "idle" /\ pc'[t] = "run" /\ UNCHANGED <<auto, due, edit>>
        /\ cur'[t] = a /\ left'[t] = Period /\ rest'[a] = Period
        /\ \A b \in Autos \ {a} : rest'[b] = rest[b]
        /\ \A u \in Threads \ {t} : pc'[u] = pc[u] /\ cur'[u] = cur[u] /\ left'[u] = left[u]
    BY <1>7, <1>a, <1>d DEF RunNow, Alone
  <2>2. ASSUME NEW b \in Autos, auto'[b] # Gone PROVE Rested(b)'
    <3>1. CASE b = a
      <4>1. Unrecorded(t, a)' /\ rest'[a] <= left'[t]
        BY <2>1 DEF Unrecorded
      <4> QED BY <2>1, <3>1, <4>1 DEF Rested
    <3>2. CASE b # a
      BY <1>e, <2>1, <2>2, <3>2 DEF Rested, Unrecorded
    <3> QED BY <3>1, <3>2
  <2> QED BY <1>e, <1>f, <1>g, <2>1, <2>2 DEF Running
<1>h. ASSUME NEW t \in Threads, Running(t)
      PROVE  /\ t \in {Janitor} \cup Runners /\ cur[t] \in Autos
             /\ auto[cur[t]] # Gone => auto[cur[t]].wait <= left[t]
             /\ \A u \in ({Janitor} \cup Runners) \ {t} : Running(u) => cur[u] # cur[t]
             /\ t # Janitor => cur[t] \notin due
  <2>1. t \in {Janitor} \cup Runners /\ cur[t] \in Autos
    BY <1>b, <1>e, <1>h DEF JanitorSound, Running
  <2>2. auto[cur[t]] # Gone => auto[cur[t]].wait <= left[t]
    BY <1>b, <1>e, <1>h, <2>1 DEF JanitorSound
  <2>3. \A u \in ({Janitor} \cup Runners) \ {t} : Running(u) => cur[u] # cur[t]
    BY <1>b, <1>h, <2>1 DEF JanitorSound, OwnersSound
  <2>4. t # Janitor => cur[t] \notin due
    BY <1>b, <1>h, <2>1 DEF OwnersSound
  <2> QED BY <2>1, <2>2, <2>3, <2>4
<1>8. ASSUME NEW t \in Threads, KindEnds(t) PROVE ScheduleSound'
  <2>1. /\ Running(t) /\ pc[t] = "run" /\ pc'[t] = "record"
        /\ UNCHANGED <<auto, rest, left, cur, due, edit>>
        /\ \A u \in Threads \ {t} : pc'[u] = pc[u]
    BY <1>8, <1>a DEF KindEnds, Running
  <2>2. \A b \in Autos : auto'[b] # Gone => Rested(b)'
    BY <1>e, <2>1 DEF Rested, Unrecorded
  <2> QED BY <1>e, <1>g, <1>h, <2>1, <2>2 DEF Running
<1>9. ASSUME NEW t \in Threads, KindAborts(t) PROVE ScheduleSound'
  <2>1. /\ Running(t) /\ pc[t] = "run" /\ pc'[t] = "raised" /\ UNCHANGED <<auto, left, cur, due, edit>>
        /\ \A u \in Threads \ {t} : pc'[u] = pc[u]
    BY <1>9, <1>a DEF KindAborts, Running
  <2>2. rest'[cur[t]] = 0 /\ \A b \in Autos \ {cur[t]} : rest'[b] = rest[b]
    BY <1>9, <1>a, <1>h, <2>1 DEF KindAborts
  <2>3. ASSUME NEW b \in Autos, auto[b] # Gone PROVE Rested(b)'
    <3>1. CASE b = cur[t]
      BY <1>f, <2>1, <2>2, <2>3, <3>1 DEF Rested
    <3>2. CASE b # cur[t]
      BY <1>e, <2>1, <2>2, <2>3, <3>2 DEF Rested, Unrecorded
    <3> QED BY <3>1, <3>2
  <2> QED BY <1>e, <1>g, <1>h, <2>1, <2>3 DEF Running
<1>10. ASSUME NEW t \in Threads, RecordRun(t) PROVE ScheduleSound'
  <2>1. /\ Running(t) /\ pc[t] = "record" /\ pc'[t] = "release" /\ UNCHANGED <<rest, left, cur, due, edit>>
        /\ \A u \in Threads \ {t} : pc'[u] = pc[u]
    BY <1>10, <1>a DEF RecordRun, Running
  <2>2. /\ \A b \in Autos \ {cur[t]} : auto'[b] = auto[b]
        /\ auto'[cur[t]] # Gone => auto[cur[t]] # Gone /\ auto'[cur[t]].wait = left[t]
    <3>1. CASE auto[cur[t]] = Gone
      BY <1>10, <3>1 DEF RecordRun
    <3>2. CASE auto[cur[t]] # Gone
      <4>1. auto[cur[t]] \in Rows /\ cur[t] \in Autos
        BY <1>f, <1>h, <2>1, <3>2
      <4>2. auto' = [auto EXCEPT ![cur[t]] = [auto[cur[t]] EXCEPT !.wait = left[t]]]
        BY <1>10, <3>2 DEF RecordRun
      <4>3. [auto[cur[t]] EXCEPT !.wait = left[t]].wait = left[t]
        BY <4>1 DEF Rows
      <4> QED BY <1>a, <3>2, <4>1, <4>2, <4>3
    <3> QED BY <3>1, <3>2
  <2>3. ASSUME NEW b \in Autos, auto'[b] # Gone PROVE Rested(b)'
    <3>1. CASE b = cur[t]
      <4>1. rest[b] <= left[t]
        <5>1. auto[b] # Gone /\ auto[b].wait <= left[t] /\ auto[b].wait \in 0 .. Period
          BY <1>f, <1>h, <2>1, <2>2, <2>3, <3>1
        <5>2. \A u \in {Janitor} \cup Runners : Unrecorded(u, b) => u = t
          BY <1>h, <2>1, <3>1 DEF Unrecorded, Running
        <5>3. rest[b] <= auto[b].wait \/ rest[b] <= left[t]
          BY <1>e, <5>1, <5>2 DEF Rested
        <5> QED BY <1>a, <5>1, <5>3
      <4> QED BY <2>1, <2>2, <2>3, <3>1, <4>1 DEF Rested, Unrecorded
    <3>2. CASE b # cur[t]
      BY <1>e, <2>1, <2>2, <2>3, <3>2 DEF Rested, Unrecorded
    <3> QED BY <3>1, <3>2
  <2>4. ASSUME NEW u \in Runners, Running(u)', auto'[cur'[u]] # Gone
        PROVE  auto'[cur'[u]].wait <= left'[u]
    <3>1. CASE u = t
      BY <1>a, <2>1, <2>2, <2>4, <3>1
    <3>2. CASE u # t
      <4>1. cur[u] \in Autos \ {cur[t]} /\ Running(u)
        BY <1>h, <2>1, <2>4, <3>2 DEF Running
      <4> QED BY <1>e, <2>1, <2>2, <2>4, <4>1
    <3> QED BY <3>1, <3>2
  <2>5. ASSUME NEW b \in due, auto'[b] # Gone PROVE auto'[b].wait <= left[Janitor]
    <3>1. CASE b = cur[t]
      <4>1. t = Janitor
        BY <1>h, <2>1, <2>5, <3>1
      <4> QED BY <1>a, <2>2, <2>5, <3>1, <4>1
    <3>2. CASE b # cur[t]
      BY <1>a, <1>e, <2>2, <2>5, <3>2
    <3> QED BY <3>1, <3>2
  <2> QED BY <1>e, <1>g, <1>h, <2>1, <2>3, <2>4, <2>5
<1>11. ASSUME NEW t \in Threads, RecordFails(t) PROVE ScheduleSound'
  <2>1. /\ Running(t) /\ pc[t] = "record" /\ pc'[t] = "release" /\ UNCHANGED <<auto, left, cur, due, edit>>
        /\ \A u \in Threads \ {t} : pc'[u] = pc[u]
    BY <1>11, <1>a DEF RecordFails, Running
  <2>2. rest'[cur[t]] = 0 /\ \A b \in Autos \ {cur[t]} : rest'[b] = rest[b]
    BY <1>11, <1>a, <1>h, <2>1 DEF RecordFails
  <2>3. ASSUME NEW b \in Autos, auto[b] # Gone PROVE Rested(b)'
    <3>1. CASE b = cur[t]
      BY <1>f, <2>1, <2>2, <2>3, <3>1 DEF Rested, Unrecorded
    <3>2. CASE b # cur[t]
      BY <1>e, <2>1, <2>2, <2>3, <3>2 DEF Rested, Unrecorded
    <3> QED BY <3>1, <3>2
  <2> QED BY <1>e, <1>g, <1>h, <2>1, <2>3 DEF Running
<1>12. ASSUME NEW t \in Threads, Release(t) PROVE ScheduleSound'
  <2>1. /\ Running(t) /\ pc[t] \in {"release", "raised"} /\ UNCHANGED <<auto, rest, edit>>
        /\ due' = IF t = Janitor THEN due \ {cur[t]} ELSE due
        /\ cur'[t] = Gone /\ pc'[t] \in {"idle", "tick", "abort"}
        /\ \A u \in Threads \ {t} : pc'[u] = pc[u] /\ cur'[u] = cur[u] /\ left'[u] = left[u]
        /\ t = Janitor => left'[t] = left[t]
        /\ t # Janitor => pc'[t] = "idle"
    BY <1>12, <1>a DEF Release, Running, AfterRun
  <2>2. \A b \in Autos : auto'[b] # Gone => Rested(b)'
    BY <1>e, <2>1 DEF Rested, Unrecorded
  <2> QED BY <1>e, <1>g, <1>h, <2>1, <2>2 DEF Running
<1>13. ASSUME NEW a \in Autos, Delete(a) \/ Insert(a) \/ \E b \in BOOLEAN : SetEnabled(a, b)
       PROVE  ScheduleSound'
  <2>1. /\ UNCHANGED <<pc, cur, left, due, edit>>
        /\ \A b \in Autos \ {a} : auto'[b] = auto[b] /\ rest'[b] = rest[b]
    BY <1>13, <1>a DEF Delete, Insert, SetEnabled
  <2>2. \/ auto'[a] = Gone
        \/ auto'[a].wait = 0 /\ rest'[a] = 0
        \/ auto[a] # Gone /\ auto'[a].wait = auto[a].wait /\ rest'[a] = rest[a]
    <3>1. CASE Delete(a)
      BY <1>a, <3>1 DEF Delete
    <3>2. CASE Insert(a)
      BY <1>a, <3>2 DEF Insert, Row
    <3>3. ASSUME NEW b \in BOOLEAN, SetEnabled(a, b)
          PROVE  auto[a] # Gone /\ auto'[a].wait = auto[a].wait /\ rest'[a] = rest[a]
      <4>1. auto[a] \in Rows /\ auto'[a] = [auto[a] EXCEPT !.enabled = b] /\ rest' = rest
        BY <1>a, <1>f, <3>3 DEF SetEnabled
      <4> QED BY <3>3, <4>1 DEF SetEnabled, Rows
    <3> QED BY <1>13, <3>1, <3>2, <3>3
  <2>3. \A t \in Threads : left[t] >= 0
    BY <1>a
  <2>4. \A b \in Autos : auto'[b] # Gone => Rested(b)'
    BY <1>e, <2>1, <2>2 DEF Rested, Unrecorded
  <2>5. \A t \in Runners : Running(t)' /\ auto'[cur'[t]] # Gone => auto'[cur'[t]].wait <= left'[t]
    BY <1>a, <1>e, <1>h, <2>1, <2>2, <2>3 DEF Running
  <2>6. \A b \in due' : auto'[b] # Gone => auto'[b].wait <= left'[Janitor]
    BY <1>a, <1>e, <2>1, <2>2, <2>3
  <2> QED BY <1>e, <1>g, <2>1, <2>4, <2>5, <2>6
<1>14. ASSUME NEW e \in Editors,
              PatchReread(e) \/ PatchWrite(e) \/ \E a \in Autos : PatchRead(e, a)
       PROVE  ScheduleSound'
  <2>1. FALSE
    BY <1>14, <1>a, <1>d, <1>e DEF PatchReread, PatchWrite, PatchRead, Alone
  <2> QED BY <2>1
<1>15. CASE Pass
  <2>1. /\ UNCHANGED <<pc, cur, due>>
        /\ \A t \in Threads : left'[t] = Less(left[t])
        /\ \A a \in Autos : rest'[a] = Less(rest[a])
        /\ \A a \in Autos : auto'[a] # Gone => auto[a] # Gone /\ auto'[a].wait = Less(auto[a].wait)
    BY <1>15 DEF Pass, Row
  <2>2. ASSUME NEW a \in Autos, auto'[a] # Gone PROVE Rested(a)'
    <3>1. Rested(a)
      BY <1>e, <2>1, <2>2
    <3>2. CASE rest[a] <= auto[a].wait
      BY <1>a, <1>f, <2>1, <2>2, <3>2, LessSound DEF Rested, Unrecorded
    <3>3. ASSUME NEW t \in {Janitor} \cup Runners, Unrecorded(t, a), rest[a] <= left[t]
          PROVE  Rested(a)'
      <4>1. rest'[a] <= left'[t]
        BY <1>a, <2>1, <3>3, LessSound
      <4> QED BY <2>1, <3>3, <4>1 DEF Rested, Unrecorded
    <3> QED BY <3>1, <3>2, <3>3 DEF Rested, Unrecorded
  <2>3. \A t \in Runners : Running(t)' /\ auto'[cur'[t]] # Gone => auto'[cur'[t]].wait <= left'[t]
    BY <1>a, <1>e, <1>f, <1>h, <2>1, LessSound DEF Running
  <2>4. \A a \in due' : auto'[a] # Gone => auto'[a].wait <= left'[Janitor]
    BY <1>a, <1>e, <1>f, <2>1, LessSound
  <2>5. \A e \in Editors : edit'[e].step = "idle"
    <3>1. edit \in [Editors -> EditState]
      BY TypeParts DEF IInv, OwnInv
    <3>2. ASSUME NEW e \in Editors PROVE edit'[e].step = edit[e].step
      <4>1. edit[e] \in EditState
        BY <3>1
      <4> QED BY <1>15, <4>1 DEF Pass, EditState
    <3> QED BY <1>e, <3>2
  <2> QED BY <1>e, <2>1, <2>2, <2>3, <2>4, <2>5 DEF ScheduleSound
<1> QED
  BY <1>1, <1>2, <1>3, <1>4, <1>5, <1>6, <1>7, <1>8, <1>9, <1>10, <1>11, <1>12, <1>13, <1>14,
     <1>15 DEF Next, JanitorStep, RunStep

-------------------------------------------------------------------------------
(* The invariant is one of the specification. *)
LEMMA Invariance == Spec => []IInv
<1>1. IInv /\ [Next]_vars => IInv'
  BY OwnStep, ScheduleStep DEF IInv
<1> QED BY <1>1, InitInv, PTL DEF Spec

(* Rows, claims and runs stay what they are declared to be: marks and the   *)
(* list of a tick are claims of the server's engine.                        *)
THEOREM TypeCorrect == Spec => []TypeOK
<1>1. IInv => TypeOK
  BY DEF IInv, OwnInv
<1> QED BY <1>1, Invariance, PTL

(* No claim is lost or given back for another thread, however ticks,        *)
(* run_now, aborts and edits interleave.                                    *)
THEOREM ClaimsAreOwned == Spec => []ClaimsHaveOneOwner
<1>1. IInv => ClaimsHaveOneOwner
  <2> SUFFICES ASSUME IInv PROVE ClaimsHaveOneOwner
    OBVIOUS
  <2>1. OwnersSound /\ JanitorSound /\ inflight[Janitor] \subseteq Autos /\ due \subseteq Autos
    BY TypeParts, ThreadsSound DEF IInv, OwnInv
  <2>2. \A t \in Runners : Running(t) => cur[t] \in Autos
    BY <2>1, ThreadsSound DEF JanitorSound
  <2>3. inflight[Janitor] = due \cup {cur[t] : t \in {r \in Runners : Running(r)}}
    BY <2>1, <2>2 DEF OwnersSound
  <2> QED BY <2>1, <2>3 DEF OwnersSound, ClaimsHaveOneOwner
<1> QED BY <1>1, Invariance, PTL

(* A tick of a server by itself claims an automation only when its schedule *)
(* has passed since the claim that led to its last recorded run.            *)
THEOREM TicksKeepSchedule == Spec => ScheduleKept
<1> DEFINE Kept == plan.shells = {} /\ plan.patches = 0 => \A a \in due' \ due : rest[a] = 0
<1>1. IInv /\ [Next]_vars => Kept
  <2> SUFFICES ASSUME IInv, [Next]_vars, Alone, NEW a \in due', a \notin due PROVE rest[a] = 0
    BY DEF Alone
  <2>1. Tick
    BY DEF Next, JanitorStep, RunStep, vars, lists, TickDone, TickAborted, RecordSkip, TickNext,
           SkipFails, SkipAborts, KindEnds, RecordRun, Release, KindAborts, RecordFails, RunNow,
           Delete, Insert, SetEnabled, PatchReread, PatchWrite, PatchRead, Pass
  <2>2. a \in Autos /\ auto[a] # Gone /\ auto[a].wait = 0 /\ a \notin inflight[Janitor]
    BY <2>1 DEF Tick, IsDue
  <2>3. rest \in [Autos -> 0 .. Period]
    BY TypeParts DEF IInv, OwnInv
  <2>4. OwnersSound /\ Rested(a)
    BY <2>2 DEF IInv, OwnInv, ScheduleSound
  <2>5. due = {}
    BY <2>1 DEF Tick, IInv, OwnInv, JanitorSound
  <2>6. ~ \E t \in {Janitor} \cup Runners : Unrecorded(t, a)
    BY <2>2, <2>4, <2>5, ThreadsSound DEF OwnersSound, Running, Unrecorded
  <2> QED BY <2>2, <2>3, <2>4, <2>6, AutomationAssumption DEF Rested
<1> QED BY <1>1, Invariance, PTL DEF Spec, ScheduleKept
===============================================================================
