--------------------------- MODULE AutomationEngine ---------------------------
(***************************************************************************)
(* Scheduled automations: the engine (src/kater/automations/engine.py) with *)
(* its table (store.py), the janitor thread that ticks it, run_now calls    *)
(* from API threads and from `kater automations run`, and edits over HTTP   *)
(* (src/kater/api/routes.py).                                               *)
(*                                                                          *)
(* A step is one hold of _lock, one statement on the table, or one run of a *)
(* kind.  last_run_at is what is left until the automation is due again, 0  *)
(* if it is due.  Of the run history, which nothing else reads, only the    *)
(* skipped rows of the schedule are kept; name, kind and config are left    *)
(* out, and every automation has the same schedule.                         *)
(***************************************************************************)
EXTENDS Naturals, FiniteSets

CONSTANTS Autos,        \* automation ids
          Janitor,      \* the maintenance thread of the server
          Runners,      \* API threads that serve run_now
          Shells,       \* processes of `kater automations run`
          Editors,      \* API threads that serve edits
          Gone,         \* no row
          Period,       \* ticks of the clock between scheduled runs
          Plans         \* bounds, one of which a behaviour keeps to

(* The automations there may be, the processes that use the command line,   *)
(* the failed writes and aborted steps, the inserts, enables, disables and  *)
(* deletes, the PATCH requests.                                             *)
Plan == [autos : SUBSET Autos, shells : SUBSET Shells, faults : Nat, edits : Nat, patches : Nat]

ASSUME AutomationAssumption ==
  /\ Period \in Nat \ {0} /\ Plans \subseteq Plan
  /\ Janitor \notin Runners \cup Shells /\ Runners \cap Shells = {}
  /\ Gone \notin [enabled : BOOLEAN, wait : Nat]

Threads == {Janitor} \cup Runners \cup Shells

(* Every process has an engine of its own; the server's is the janitor's. *)
Engines == {Janitor} \cup Shells

EngineOf(t) == IF t \in Shells THEN t ELSE Janitor

VARIABLES auto,       \* the rows of automations
          inflight,   \* _in_flight of each engine
          marked,     \* _skip_recorded of the server's engine
          pc, cur,    \* each thread, and the automation it runs
          left,       \* Period minus the time since its ran_at
          due, blocked,     \* the lists of a tick
          edit,       \* what an editor has read
          plan, faults, edits, patches,
          rest        \* history: Period minus the time since a was claimed, 0
                      \* if that claim has come to no recorded run

budgets == <<plan, faults, edits, patches>>
calls   == <<pc, cur, left>>
lists   == <<due, blocked>>
vars    == <<auto, inflight, marked, calls, lists, edit, budgets, rest>>

Row(enabled, wait) == [enabled |-> enabled, wait |-> wait]

NoEdit == [step |-> "idle", id |-> Gone, enabled |-> FALSE, wait |-> 0]

TypeOK ==
  /\ auto \in [Autos -> {Gone} \cup [enabled : BOOLEAN, wait : 0 .. Period]]
  /\ inflight \in [Engines -> SUBSET Autos]
  /\ marked \subseteq inflight[Janitor]
  /\ pc \in [Threads -> {"idle", "tick", "run", "record", "release", "raised",
                      "abort", "dead"}]
  /\ cur \in [Threads -> Autos \cup {Gone}]
  /\ left \in [Threads -> 0 .. Period]
  /\ due \subseteq inflight[Janitor] /\ blocked \subseteq Autos
  /\ edit \in [Editors -> [step : {"idle", "read", "reread"}, id : Autos \cup {Gone},
                           enabled : BOOLEAN, wait : 0 .. Period]]
  /\ plan \in Plans
  /\ faults \in 0 .. plan.faults /\ edits \in 0 .. plan.edits /\ patches \in 0 .. plan.patches
  /\ rest \in [Autos -> 0 .. Period]

(* Some of the automations exist, none of them has run yet. *)
Init ==
  /\ plan \in Plans
  /\ auto \in [Autos -> {Row(TRUE, 0), Gone}]
  /\ \A a \in Autos \ plan.autos : auto[a] = Gone
  /\ inflight = [e \in Engines |-> {}]
  /\ marked = {}
  /\ pc = [t \in Threads |-> "idle"]
  /\ cur = [t \in Threads |-> Gone]
  /\ left = [t \in Threads |-> 0]
  /\ due = {} /\ blocked = {}
  /\ edit = [e \in Editors |-> NoEdit]
  /\ faults = 0 /\ edits = 0 /\ patches = 0
  /\ rest = [a \in Autos |-> 0]

Goto(t, place) == pc' = [pc EXCEPT ![t] = place]

IsDue(a) == auto[a] # Gone /\ auto[a].enabled /\ auto[a].wait = 0

-------------------------------------------------------------------------------
(* tick *)

Tick ==
  LET D == {a \in Autos : IsDue(a)} \ inflight[Janitor]
      B == ({a \in Autos : IsDue(a)} \cap inflight[Janitor]) \ marked
  IN  /\ pc[Janitor] = "idle" /\ D \cup B # {}
      /\ inflight' = [inflight EXCEPT ![Janitor] = @ \cup D]
      /\ marked' = (marked \ D) \cup B
      /\ due' = D /\ blocked' = B
      /\ left' = [left EXCEPT ![Janitor] = Period]
      /\ rest' = [a \in Autos |-> IF a \in D THEN Period ELSE rest[a]]
      /\ Goto(Janitor, "tick")
      /\ UNCHANGED <<auto, cur, edit, budgets>>

(* The row of a skip is written if the automation is still there. *)
RecordSkip(a) ==
  /\ pc[Janitor] = "tick" /\ a \in blocked
  /\ blocked' = blocked \ {a}
  /\ UNCHANGED <<auto, inflight, marked, calls, due, edit, budgets, rest>>

(* A locked database gives the mark back; other errors of sqlite keep it. *)
SkipFails(a) ==
  /\ pc[Janitor] = "tick" /\ a \in blocked /\ faults < plan.faults
  /\ faults' = faults + 1
  /\ blocked' = blocked \ {a}
  /\ marked' \in {marked, marked \ {a}}
  /\ UNCHANGED <<auto, inflight, calls, due, edit, plan, edits, patches, rest>>

(* Anything else that is raised ends the tick, and gives back the marks of  *)
(* the tail of the list and the claims.                                     *)
SkipAborts(a) ==
  /\ pc[Janitor] = "tick" /\ a \in blocked /\ faults < plan.faults
  /\ faults' = faults + 1
  /\ marked' = marked \ blocked
  /\ blocked' = {}
  /\ Goto(Janitor, "abort")
  /\ UNCHANGED <<auto, inflight, cur, left, due, edit, plan, edits, patches, rest>>

TickNext(a) ==
  /\ pc[Janitor] = "tick" /\ blocked = {} /\ a \in due
  /\ cur' = [cur EXCEPT ![Janitor] = a]
  /\ Goto(Janitor, "run")
  /\ UNCHANGED <<auto, inflight, marked, left, lists, edit, budgets, rest>>

TickDone ==
  /\ pc[Janitor] = "tick" /\ blocked = {} /\ due = {}
  /\ Goto(Janitor, "idle")
  /\ left' = [left EXCEPT ![Janitor] = 0]
  /\ UNCHANGED <<auto, inflight, marked, cur, lists, edit, budgets, rest>>

(* An aborted tick leaves the claims it has not reached. *)
TickAbortedKeepingClaims ==
  /\ pc[Janitor] = "abort"
  /\ due' = {}
  /\ Goto(Janitor, "dead")
  /\ UNCHANGED <<auto, inflight, marked, cur, left, blocked, edit, budgets, rest>>

(* The finally clause of the tick; the maintenance thread is lost, for its  *)
(* loop catches only Exception.                                             *)
TickAborted ==
  /\ pc[Janitor] = "abort"
  /\ inflight' = [inflight EXCEPT ![Janitor] = @ \ due]
  /\ marked' = marked \ due
  /\ due' = {}
  /\ rest' = [a \in Autos |-> IF a \in due THEN 0 ELSE rest[a]]
  /\ Goto(Janitor, "dead")
  /\ UNCHANGED <<auto, cur, left, blocked, edit, budgets>>

-------------------------------------------------------------------------------
(* run_now *)

(* A run that is refused ("is already running") changes nothing here. *)
RunNow(t, a) ==
  /\ pc[t] = "idle" /\ t \in Runners \cup plan.shells
  /\ auto[a] # Gone /\ auto[a].enabled
  /\ a \notin inflight[EngineOf(t)]
  /\ inflight' = [inflight EXCEPT ![EngineOf(t)] = @ \cup {a}]
  /\ IF t \in Runners THEN marked' = marked \ {a}
                      ELSE UNCHANGED marked
  /\ cur' = [cur EXCEPT ![t] = a]
  /\ left' = [left EXCEPT ![t] = Period]
  /\ rest' = [rest EXCEPT ![a] = Period]
  /\ Goto(t, "run")
  /\ UNCHANGED <<auto, lists, edit, budgets>>

-------------------------------------------------------------------------------
(* _execute *)

(* The kind ends, with whatever outcome. *)
KindEnds(t) ==
  /\ pc[t] = "run"
  /\ Goto(t, "record")
  /\ UNCHANGED <<auto, inflight, marked, cur, left, lists, edit, budgets, rest>>

(* The kind raises what _execute does not catch (KeyboardInterrupt). *)
KindAborts(t) ==
  /\ pc[t] = "run" /\ faults < plan.faults
  /\ faults' = faults + 1
  /\ Goto(t, "raised")
  /\ rest' = [rest EXCEPT ![cur[t]] = 0]
  /\ UNCHANGED <<auto, inflight, marked, cur, left, lists, edit, plan, edits, patches>>

(* last_run_at is left as it was. *)
RecordNothing(t) ==
  /\ pc[t] = "record"
  /\ Goto(t, "release")
  /\ UNCHANGED <<auto, inflight, marked, cur, left, lists, edit, budgets, rest>>

(* record_run; the UPDATE finds no row if the automation was deleted. *)
RecordRun(t) ==
  /\ pc[t] = "record"
  /\ auto' = IF auto[cur[t]] = Gone THEN auto ELSE [auto EXCEPT ![cur[t]].wait = left[t]]
  /\ Goto(t, "release")
  /\ UNCHANGED <<inflight, marked, cur, left, lists, edit, budgets, rest>>

(* An error of sqlite is logged. *)
RecordFails(t) ==
  /\ pc[t] = "record" /\ faults < plan.faults
  /\ faults' = faults + 1
  /\ Goto(t, "release")
  /\ rest' = [rest EXCEPT ![cur[t]] = 0]
  /\ UNCHANGED <<auto, inflight, marked, cur, left, lists, edit, plan, edits, patches>>

(* A tick goes on with its list, unless the run was aborted. *)
AfterRun(t) ==
  IF t # Janitor THEN "idle" ELSE IF pc[t] = "release" THEN "tick" ELSE "abort"

(* The claim is not given back. *)
ReleaseNothing(t) ==
  /\ pc[t] \in {"release", "raised"}
  /\ due' = IF t = Janitor THEN due \ {cur[t]} ELSE due
  /\ cur' = [cur EXCEPT ![t] = Gone]
  /\ Goto(t, AfterRun(t))
  /\ UNCHANGED <<auto, inflight, marked, left, blocked, edit, budgets, rest>>

(* The finally clauses of tick and run_now. *)
Release(t) ==
  LET a == cur[t]
  IN  /\ pc[t] \in {"release", "raised"}
      /\ inflight' = [inflight EXCEPT ![EngineOf(t)] = @ \ {a}]
      /\ marked' = IF t \in Shells THEN marked ELSE marked \ {a}
      /\ due' = IF t = Janitor THEN due \ {a} ELSE due
      /\ cur' = [cur EXCEPT ![t] = Gone]
      /\ left' = [left EXCEPT ![t] = IF t = Janitor THEN @ ELSE 0]
      /\ Goto(t, AfterRun(t))
      /\ UNCHANGED <<auto, blocked, edit, budgets, rest>>

-------------------------------------------------------------------------------
(* Edits *)

SetEnabled(a, b) ==
  /\ auto[a] # Gone /\ auto[a].enabled # b /\ edits < plan.edits
  /\ edits' = edits + 1
  /\ auto' = [auto EXCEPT ![a].enabled = b]
  /\ UNCHANGED <<inflight, marked, calls, lists, edit, plan, faults, patches, rest>>

Delete(a) ==
  /\ auto[a] # Gone /\ edits < plan.edits
  /\ edits' = edits + 1
  /\ auto' = [auto EXCEPT ![a] = Gone]
  /\ marked' = marked \ {a}
  /\ rest' = [rest EXCEPT ![a] = 0]
  /\ UNCHANGED <<inflight, calls, lists, edit, plan, faults, patches>>

(* POST of an id that is not there. *)
Insert(a) ==
  /\ auto[a] = Gone /\ a \in plan.autos /\ edits < plan.edits
  /\ edits' = edits + 1
  /\ auto' = [auto EXCEPT ![a] = Row(TRUE, 0)]
  /\ rest' = [rest EXCEPT ![a] = 0]
  /\ UNCHANGED <<inflight, marked, calls, lists, edit, plan, faults, patches>>

(* PATCH reads the row twice, in the route and in upsert, and then writes   *)
(* all of it; what it does not set is as it was read.                       *)
PatchRead(e, a) ==
  /\ edit[e].step = "idle" /\ auto[a] # Gone /\ patches < plan.patches
  /\ patches' = patches + 1
  /\ edit' = [edit EXCEPT ![e] = [step |-> "read", id |-> a, enabled |-> auto[a].enabled,
                                  wait |-> 0]]
  /\ UNCHANGED <<auto, inflight, marked, calls, lists, plan, faults, edits, rest>>

PatchReread(e) ==
  /\ edit[e].step = "read"
  /\ LET row == auto[edit[e].id]
     IN  edit' = [edit EXCEPT ![e].step = "reread",
                              ![e].wait = IF row = Gone THEN 0 ELSE row.wait]
  /\ UNCHANGED <<auto, inflight, marked, calls, lists, budgets, rest>>

PatchWrite(e) ==
  /\ edit[e].step = "reread"
  /\ auto' = [auto EXCEPT ![edit[e].id] = Row(edit[e].enabled, edit[e].wait)]
  /\ edit' = [edit EXCEPT ![e] = NoEdit]
  /\ UNCHANGED <<inflight, marked, calls, lists, budgets, rest>>

Less(n) == IF n = 0 THEN 0 ELSE n - 1

Pass ==
  /\ auto' = [a \in Autos |-> IF auto[a] = Gone THEN Gone
                              ELSE Row(auto[a].enabled, Less(auto[a].wait))]
  /\ left' = [t \in Threads |-> Less(left[t])]
  /\ edit' = [e \in Editors |-> [edit[e] EXCEPT !.wait = Less(@)]]
  /\ rest' = [a \in Autos |-> Less(rest[a])]
  /\ UNCHANGED <<inflight, marked, pc, cur, lists, budgets>>

JanitorStep == \/ Tick \/ TickDone \/ TickAborted
               \/ \E a \in Autos : RecordSkip(a) \/ TickNext(a)

RunStep(t) == KindEnds(t) \/ RecordRun(t) \/ Release(t)

Next ==
  \/ JanitorStep
  \/ \E a \in Autos : SkipFails(a) \/ SkipAborts(a)
  \/ \E t \in Threads : RunStep(t) \/ KindAborts(t) \/ RecordFails(t)
  \/ \E t \in Threads, a \in Autos : RunNow(t, a)
  \/ \E a \in Autos : Delete(a) \/ Insert(a) \/ \E b \in BOOLEAN : SetEnabled(a, b)
  \/ \E e \in Editors : PatchReread(e) \/ PatchWrite(e) \/ \E a \in Autos : PatchRead(e, a)
  \/ Pass

Spec == Init /\ [][Next]_vars

(* The janitor wakes up, kinds return, and time passes. *)
FairSpec == /\ Spec /\ WF_vars(JanitorStep) /\ WF_vars(Pass)
            /\ \A t \in Threads : WF_vars(RunStep(t))

-------------------------------------------------------------------------------
(* Properties                                                               *)

Running(t) == pc[t] \in {"run", "record", "release", "raised"}

(* An automation is in _in_flight exactly while the tick holds a claim on   *)
(* it or one run_now runs it, through aborts of either, and not both: no    *)
(* claim is lost, and none is given back for another thread.                *)
ClaimsHaveOneOwner ==
  /\ inflight[Janitor] = due \cup {cur[t] : t \in {r \in Runners : Running(r)}}
  /\ \A t \in Runners : Running(t) => cur[t] \notin due
  /\ \A t, u \in Runners : Running(t) /\ Running(u) /\ t # u => cur[t] # cur[u]

(* A tick claims an automation only when its schedule has passed since the  *)
(* claim, by a tick or by run_now, that led to its last recorded run.  That *)
(* is when the tick began, not when the automation ran: one that ran late   *)
(* in a long tick may run again sooner ("later runs in one tick start       *)
(* later").  Behaviours with a PATCH or another process, which write        *)
(* last_run_at as they knew it, are left out.                               *)
ScheduleKept ==
  [][plan.shells = {} /\ plan.patches = 0 => \A a \in due' \ due : rest[a] = 0]_vars

(* An automation that is due is run in the end, by a tick or by run_now,    *)
(* unless it stops being due or the maintenance thread is lost: skips,      *)
(* failed writes and runs of other automations do not starve it.            *)
DueIsRun ==
  \A a \in Autos :
    IsDue(a) ~> \/ ~ IsDue(a) \/ pc[Janitor] = "dead"
                \/ \E t \in Threads : pc[t] = "run" /\ cur[t] = a
===============================================================================
