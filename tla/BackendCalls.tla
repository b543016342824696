----------------------------- MODULE BackendCalls -----------------------------
(***************************************************************************)
(* Direct calls to one backend name of the proxy (ProxyManager._call_backend*)
(* in src/kater/proxy/manager.py) by several request threads, while admin   *)
(* threads start, stop and sync the proxy and the automations heal it.      *)
(*                                                                          *)
(* The maps _backends and _breakers are read without a lock by the callers, *)
(* and a caller keeps the breaker and the backend it read while the maps    *)
(* move on.  So both are objects here, numbered in the order they are made; *)
(* curBackend and curBreaker are what the maps hold under the name (0: the  *)
(* name is absent).  One breaker is made for each backend, with its number. *)
(* A call the breaker refuses changes nothing and is a stuttering step.     *)
(***************************************************************************)
EXTENDS CircuitBreaker

CONSTANTS Threads,       \* threads that serve tool calls
          Admins,        \* threads that start, stop or sync the proxy
          Nobody,        \* the manager's lock is free
          MaxObjects     \* bound: backends made in one behaviour

ASSUME CallsAssumption == /\ Nobody \notin Admins
                          /\ MaxObjects \in Nat

VARIABLES started,       \* _started
          lock,          \* who holds _lock
          curBackend,    \* _backends[name]
          curBreaker,    \* _breakers[name]
          made,          \* backends made so far
          backend,       \* the backend objects: _running, _status.healthy
          breaker,       \* the breaker objects
          upstream,      \* the server behind the backend: "ok" or "down"
          pc,            \* where each call stands
          br, be,        \* the breaker and the backend a call works with
          doomed,        \* the call met an outage
          probing,       \* history: the call is the probe of a half-open period
          apc, hold      \* where each admin stands, the backend it removed

callVars  == <<pc, br, be, doomed>>
adminVars == <<apc, hold, lock>>
mapVars   == <<started, curBackend, curBreaker, made>>
vars == <<mapVars, adminVars, callVars, backend, breaker, upstream, probing>>

Objects == 1 .. MaxObjects

Running == {g \in Objects : backend[g].running}

TypeOK ==
  /\ started \in BOOLEAN
  /\ lock \in Admins \cup {Nobody}
  /\ curBackend \in 0 .. MaxObjects
  /\ curBreaker \in 0 .. MaxObjects
  /\ made \in 0 .. MaxObjects
  /\ backend \in [Objects -> [running : BOOLEAN, healthy : BOOLEAN]]
  /\ breaker \in [Objects -> Breaker]
  /\ upstream \in {"ok", "down"}
  /\ pc \in [Threads -> {"idle", "admitted", "calling"}]
  /\ br \in [Threads -> 0 .. MaxObjects]
  /\ be \in [Threads -> 0 .. MaxObjects]
  /\ doomed \in [Threads -> BOOLEAN]
  /\ probing \in [Threads -> BOOLEAN]
  /\ apc \in [Admins -> {"idle", "stopping", "dropping", "dropped", "checked",
                         "registering", "starting"}]
  /\ hold \in [Admins -> 0 .. MaxObjects]

Init ==
  /\ started = FALSE
  /\ lock = Nobody
  /\ curBackend = 0 /\ curBreaker = 0 /\ made = 0
  /\ backend = [g \in Objects |-> [running |-> FALSE, healthy |-> FALSE]]
  /\ breaker = [g \in Objects |-> NewBreaker]
  /\ upstream = "ok"
  /\ pc = [t \in Threads |-> "idle"]
  /\ br = [t \in Threads |-> 0]
  /\ be = [t \in Threads |-> 0]
  /\ doomed = [t \in Threads |-> FALSE]
  /\ probing = [t \in Threads |-> FALSE]
  /\ apc = [a \in Admins |-> "idle"]
  /\ hold = [a \in Admins |-> 0]

-------------------------------------------------------------------------------
(* The calls. *)

(* breaker.can_call() said yes, or there is no breaker under the name. *)
AdmitUnguarded(t) ==
  /\ pc[t] = "idle"
  /\ curBreaker = 0
  /\ pc' = [pc EXCEPT ![t] = "admitted"]
  /\ br' = [br EXCEPT ![t] = 0]
  /\ UNCHANGED <<mapVars, adminVars, be, doomed, backend, breaker, upstream, probing>>

Admit(t) ==
  LET g == curBreaker
      b == MaybeHalfOpen(breaker[g])
  IN  /\ pc[t] = "idle"
      /\ g # 0
      /\ Admits(b)
      /\ breaker' = [breaker EXCEPT ![g] = AfterAdmission(b)]
      /\ probing' = [probing EXCEPT ![t] = b.state = "half_open"]
      /\ pc' = [pc EXCEPT ![t] = "admitted"]
      /\ br' = [br EXCEPT ![t] = g]
      /\ UNCHANGED <<mapVars, adminVars, be, doomed, backend, upstream>>

(* The call ends and its breaker, if any, becomes b.  Any record ends the   *)
(* half-open period of the breaker, so nobody is its probe any more.        *)
Finish(t, b) ==
  /\ pc' = [pc EXCEPT ![t] = "idle"]
  /\ br' = [br EXCEPT ![t] = 0]
  /\ be' = [be EXCEPT ![t] = 0]
  /\ doomed' = [doomed EXCEPT ![t] = FALSE]
  /\ breaker' = IF br[t] = 0 THEN breaker ELSE [breaker EXCEPT ![br[t]] = b]
  /\ probing' = [u \in Threads |->
                   probing[u] /\ u # t /\ (br[t] = 0 \/ br[u] # br[t])]

FailedBreaker(t) == IF br[t] = 0 THEN NewBreaker ELSE RecordFailure(breaker[br[t]])

GiveUpUnrecorded(t) ==
  /\ pc[t] = "admitted"
  /\ curBackend \notin Running
  /\ pc' = [pc EXCEPT ![t] = "idle"]
  /\ br' = [br EXCEPT ![t] = 0]
  /\ probing' = [probing EXCEPT ![t] = FALSE]
  /\ UNCHANGED <<mapVars, adminVars, be, doomed, backend, breaker, upstream>>

(* The name has no backend, or one that is not running: nothing is sent.    *)
GiveUp(t) ==
  /\ pc[t] = "admitted"
  /\ curBackend \notin Running
  /\ Finish(t, FailedBreaker(t))
  /\ UNCHANGED <<mapVars, adminVars, backend, upstream>>

Dispatch(t) ==
  /\ pc[t] = "admitted"
  /\ curBackend \in Running
  /\ pc' = [pc EXCEPT ![t] = "calling"]
  /\ be' = [be EXCEPT ![t] = curBackend]
  /\ doomed' = [doomed EXCEPT ![t] = upstream = "down"]
  /\ UNCHANGED <<mapVars, adminVars, br, backend, breaker, upstream, probing>>

(* A valid MCP answer, a business error included, restores the health of    *)
(* the backend object and closes the breaker, whatever they were.           *)
Answered(t) ==
  /\ pc[t] = "calling"
  /\ upstream = "ok"
  /\ backend' = [backend EXCEPT ![be[t]].healthy = TRUE]
  /\ Finish(t, IF br[t] = 0 THEN NewBreaker ELSE RecordSuccess(breaker[br[t]]))
  /\ UNCHANGED <<mapVars, adminVars, upstream>>

(* A transport failure (the backend marks itself unhealthy) or an           *)
(* unexpected exception (it does not).                                      *)
Broken(t) ==
  /\ pc[t] = "calling"
  /\ doomed[t] \/ be[t] \notin Running
  /\ \E h \in {FALSE, backend[be[t]].healthy} :
        backend' = [backend EXCEPT ![be[t]].healthy = h]
  /\ Finish(t, FailedBreaker(t))
  /\ UNCHANGED <<mapVars, adminVars, upstream>>

-------------------------------------------------------------------------------
(* The environment and the clock. *)

Outage ==
  /\ upstream = "ok"
  /\ upstream' = "down"
  /\ doomed' = [t \in Threads |-> doomed[t] \/ pc[t] = "calling"]
  /\ UNCHANGED <<mapVars, adminVars, pc, br, be, backend, breaker, probing>>

Recovery ==
  /\ upstream = "down"
  /\ upstream' = "ok"
  /\ UNCHANGED <<mapVars, adminVars, callVars, backend, breaker, probing>>

Tick ==
  /\ \E g \in Objects : breaker[g].wait > 0
  /\ breaker' = [g \in Objects |-> Elapse(breaker[g])]
  /\ UNCHANGED <<mapVars, adminVars, callVars, backend, upstream, probing>>

-------------------------------------------------------------------------------
(* heal() resets the breaker of an unhealthy backend; statuses() reads the  *)
(* state of the breaker, which may turn it half-open.                       *)

Heal ==
  LET g == curBreaker
  IN  /\ started
      /\ curBackend # 0 /\ g # 0
      /\ ~(backend[curBackend].running /\ backend[curBackend].healthy)
      /\ breaker' = [breaker EXCEPT ![g] = ResetBreaker]
      /\ probing' = [t \in Threads |-> probing[t] /\ br[t] # g]
      /\ UNCHANGED <<mapVars, adminVars, callVars, backend, upstream>>

Statuses ==
  /\ curBackend # 0 /\ curBreaker # 0
  /\ breaker' = [breaker EXCEPT ![curBreaker] = MaybeHalfOpen(@)]
  /\ UNCHANGED <<mapVars, adminVars, callVars, backend, upstream, probing>>

-------------------------------------------------------------------------------
(* The admins.  start, stop, drop_backends_for and register_backend each    *)
(* hold _lock; the callers above never take it, so what those do to the two *)
(* maps shows between their steps.                                          *)

Take(a, next) ==
  /\ lock = Nobody
  /\ lock' = a
  /\ apc' = [apc EXCEPT ![a] = next]

Leave(a, next) ==
  /\ lock' = Nobody
  /\ apc' = [apc EXCEPT ![a] = next]

(* A new backend object is started, well or not, and put under the name,    *)
(* whatever the name held.                                                  *)
Publish(g) ==
  /\ made < MaxObjects
  /\ g = made + 1
  /\ made' = g
  /\ \E up \in BOOLEAN :
        backend' = [backend EXCEPT ![g] = [running |-> up, healthy |-> up]]
  /\ curBackend' = g

NoSource == UNCHANGED <<made, backend, curBackend>>

(* start: the source may be disabled or lack what it needs to launch. *)
Start(a) ==
  /\ apc[a] = "idle" /\ ~started
  /\ Take(a, "starting")
  /\ NoSource \/ Publish(made + 1)
  /\ UNCHANGED <<started, curBreaker, hold, callVars, breaker, upstream, probing>>

StartDone(a) ==
  /\ apc[a] = "starting"
  /\ curBreaker' = curBackend
  /\ started' = TRUE
  /\ Leave(a, "idle")
  /\ UNCHANGED <<curBackend, made, hold, callVars, backend, breaker, upstream, probing>>

Stop(a) ==
  /\ apc[a] = "idle"
  /\ Take(a, "stopping")
  /\ backend' = IF curBackend = 0 THEN backend
                ELSE [backend EXCEPT ![curBackend].running = FALSE]
  /\ UNCHANGED <<mapVars, hold, callVars, breaker, upstream, probing>>

StopDone(a) ==
  /\ apc[a] = "stopping"
  /\ curBackend' = 0 /\ curBreaker' = 0
  /\ started' = FALSE
  /\ Leave(a, "idle")
  /\ UNCHANGED <<made, hold, callVars, backend, breaker, upstream, probing>>

(* sync_source: drop what the name holds, then, outside the lock, ask       *)
(* whether the proxy is started, and register a fresh backend.              *)
Drop(a) ==
  /\ apc[a] = "idle"
  /\ Take(a, "dropping")
  /\ hold' = [hold EXCEPT ![a] = curBackend]
  /\ curBackend' = 0
  /\ UNCHANGED <<started, curBreaker, made, callVars, backend, breaker, upstream, probing>>

DropKeepingBreaker(a) ==
  /\ apc[a] = "dropping"
  /\ backend' = IF hold[a] = 0 THEN backend
                ELSE [backend EXCEPT ![hold[a]].running = FALSE]
  /\ hold' = [hold EXCEPT ![a] = 0]
  /\ Leave(a, "dropped")
  /\ UNCHANGED <<started, curBackend, curBreaker, made, callVars, breaker,
                 upstream, probing>>

DropDone(a) ==
  /\ apc[a] = "dropping"
  /\ curBreaker' = IF hold[a] = 0 THEN curBreaker ELSE 0
  /\ backend' = IF hold[a] = 0 THEN backend
                ELSE [backend EXCEPT ![hold[a]].running = FALSE]
  /\ hold' = [hold EXCEPT ![a] = 0]
  /\ Leave(a, "dropped")
  /\ UNCHANGED <<started, curBackend, made, callVars, breaker, upstream, probing>>

SyncCheck(a) ==
  /\ apc[a] = "dropped"
  /\ apc' \in {[apc EXCEPT ![a] = "idle"], [apc EXCEPT ![a] = "checked"]}
  /\ apc'[a] = "checked" => started
  /\ UNCHANGED <<mapVars, hold, lock, callVars, backend, breaker, upstream, probing>>

Register(a) ==
  /\ apc[a] = "checked"
  /\ Take(a, "registering")
  /\ Publish(made + 1)
  /\ UNCHANGED <<started, curBreaker, hold, callVars, breaker, upstream, probing>>

RegisterDone(a) ==
  /\ apc[a] = "registering"
  /\ curBreaker' = curBackend
  /\ Leave(a, "idle")
  /\ UNCHANGED <<started, curBackend, made, hold, callVars, backend, breaker,
                 upstream, probing>>

-------------------------------------------------------------------------------
Work(t) == GiveUp(t) \/ Dispatch(t) \/ Answered(t) \/ Broken(t)

Call(t) == AdmitUnguarded(t) \/ Admit(t) \/ Work(t)

Manage(a) == \/ Start(a) \/ StartDone(a) \/ Stop(a) \/ StopDone(a)
             \/ Drop(a) \/ DropDone(a) \/ SyncCheck(a)
             \/ Register(a) \/ RegisterDone(a)

Next == \/ \E t \in Threads : Call(t)
        \/ \E a \in Admins : Manage(a)
        \/ Outage \/ Recovery \/ Tick \/ Heal \/ Statuses

Spec == Init /\ [][Next]_vars

(* Every call that was admitted returns (the HTTP transports bound their    *)
(* waits, a stdio server is taken to answer or to end), clients keep        *)
(* calling, and time passes.                                                *)
Fairness == /\ WF_vars(Tick)
            /\ WF_vars(\E t \in Threads : AdmitUnguarded(t) \/ Admit(t))
            /\ \A t \in Threads : WF_vars(Work(t))

FairSpec == Spec /\ Fairness

-------------------------------------------------------------------------------
(* A breaker is closed exactly while the failures since the last success or *)
(* reset are below the threshold: stragglers that record into an open or    *)
(* half-open breaker never leave it closed with a full count, nor open with *)
(* room left (CircuitBreaker.record_failure and record_success).            *)
ClosedBelowThreshold ==
  \A g \in Objects :
     breaker[g].state = "closed" <=> breaker[g].failures < FailureThreshold

(* A half-open breaker that has let its probe through has exactly one call  *)
(* that is this probe and is still on its way to recording an outcome, and  *)
(* a breaker without the mark has none.  So the mark is never left behind   *)
(* by a call that ended early or by heal, which would refuse every call     *)
(* for ever, and two probes never run in the same half-open period.         *)
Probes(g) == {t \in Threads : probing[t] /\ br[t] = g}

ProbeHasOneOwner ==
  \A g \in Objects :
     IF breaker[g].probe THEN \E t \in Threads : Probes(g) = {t}
                         ELSE Probes(g) = {}

(* Whenever no admin holds the lock, the two maps hold the same generation  *)
(* of the name: no backend is left with its predecessor's breaker, however  *)
(* the starts, stops and syncs of several admins interleave, two syncs of   *)
(* one server included (register_backend, drop_backends_for, stop).         *)
MapsAgree == lock = Nobody => curBreaker = curBackend

(* A backend that runs is the one the map names, or one an admin has taken  *)
(* out of the map and is about to stop: none is forgotten while its process *)
(* lives ("Restart backends for one catalog server", sync_source).  One     *)
(* admin keeps it, two that sync the same server do not; no run checks it.  *)
NoForgottenBackend ==
  \A g \in Running : g = curBackend \/ \E a \in Admins : hold[a] = g

(* Once the server answers for good and the backend stays registered and    *)
(* running, its breaker closes and stays closed: neither calls that failed  *)
(* late nor a lost probe keep it refusing.                                  *)
ClosesAfterOutage ==
  \A g \in Objects :
     <>[](upstream = "ok" /\ curBackend = g /\ curBreaker = g /\ g \in Running)
       => <>[](breaker[g].state = "closed")
===============================================================================
