------------------------- MODULE BackendCalls_proofs --------------------------
(***************************************************************************)
(* Safety of BackendCalls for every number of threads, admins and backend  *)
(* objects, every threshold and every recovery time, and, in the second    *)
(* part, of ConnectorCalls.                                                *)
(*                                                                         *)
(* ProbeHasOneOwner is not inductive alone: a step must also know that a   *)
(* mark is only ever on a half-open breaker (a record on an open breaker   *)
(* leaves the mark alone) and that a probe is an admitted call with a      *)
(* breaker.  MapsAgree needs what each admin's place says about the lock   *)
(* and about the two maps.                                                 *)
(***************************************************************************)
EXTENDS BackendCalls, ConnectorCalls, Sequences, TLAPS

BreakerSound(b) == /\ b.state = "closed" <=> b.failures < FailureThreshold
                   /\ b.probe => b.state = "half_open"

BreakersSound == \A g \in Objects : BreakerSound(breaker[g])

ProbesAreAdmitted == \A t \in Threads : probing[t] => br[t] # 0 /\ pc[t] # "idle"

-------------------------------------------------------------------------------
(* What the breaker's methods keep: the type, and the agreement of state,   *)
(* count and mark.                                                          *)

(* Time only lowers the wait. *)
LEMMA ElapseSound ==
  ASSUME NEW b \in Breaker, BreakerSound(b)
  PROVE  /\ Elapse(b) \in Breaker
         /\ BreakerSound(Elapse(b))
         /\ Elapse(b).probe = b.probe
  BY BreakerAssumption DEF Breaker, BreakerState, BreakerSound, Elapse

(* Turning half-open neither sets nor removes a mark. *)
LEMMA MaybeHalfOpenSound ==
  ASSUME NEW b \in Breaker, BreakerSound(b)
  PROVE  /\ MaybeHalfOpen(b) \in Breaker
         /\ BreakerSound(MaybeHalfOpen(b))
         /\ MaybeHalfOpen(b).probe = b.probe
  BY BreakerAssumption DEF Breaker, BreakerState, BreakerSound, MaybeHalfOpen

(* An admission marks the breaker exactly when it is half-open, and then    *)
(* there was no mark before.                                                *)
LEMMA AdmissionSound ==
  ASSUME NEW b \in Breaker, BreakerSound(b), Admits(b)
  PROVE  /\ AfterAdmission(b) \in Breaker
         /\ BreakerSound(AfterAdmission(b))
         /\ AfterAdmission(b).probe <=> b.state = "half_open"
         /\ ~b.probe
  BY BreakerAssumption DEF Breaker, BreakerState, BreakerSound, Admits, AfterAdmission

(* Every record removes the mark. *)
LEMMA RecordSound ==
  ASSUME NEW b \in Breaker, BreakerSound(b)
  PROVE  /\ RecordSuccess(b) \in Breaker /\ RecordFailure(b) \in Breaker
         /\ BreakerSound(RecordSuccess(b)) /\ BreakerSound(RecordFailure(b))
         /\ ~RecordSuccess(b).probe /\ ~RecordFailure(b).probe
<1>1. RecordSuccess(b) \in Breaker /\ BreakerSound(RecordSuccess(b)) /\ ~RecordSuccess(b).probe
  BY BreakerAssumption DEF Breaker, BreakerState, BreakerSound, RecordSuccess
<1> DEFINE c == OneMoreFailure(b)
<1>2. c \in Breaker /\ c.state = b.state /\ c.probe = b.probe
      /\ (c.failures = FailureThreshold \/ c.failures = b.failures + 1)
  BY BreakerAssumption DEF Breaker, BreakerState, OneMoreFailure
<1>3. Opened(c) \in Breaker /\ Opened(c).state = "open" /\ ~Opened(c).probe
      /\ Opened(c).failures = c.failures
  BY <1>2, BreakerAssumption DEF Breaker, BreakerState, Opened
<1>4. b.state # "closed" => c.failures = FailureThreshold
  BY BreakerAssumption DEF Breaker, BreakerSound, OneMoreFailure
<1>5. CASE b.state = "half_open" \/ c.failures >= FailureThreshold
  <2>1. RecordFailure(b) = Opened(c)
    BY <1>5 DEF RecordFailure
  <2>2. Opened(c).failures = FailureThreshold
    BY <1>2, <1>3, <1>4, <1>5, BreakerAssumption DEF Breaker
  <2> QED BY <1>1, <1>3, <2>1, <2>2, BreakerAssumption DEF BreakerSound
<1>6. CASE ~(b.state = "half_open" \/ c.failures >= FailureThreshold)
  <2>1. RecordFailure(b) = c
    BY <1>6 DEF RecordFailure
  <2>2. c.state = "closed" /\ ~c.probe /\ c.failures < FailureThreshold
    BY <1>2, <1>4, <1>6, BreakerAssumption DEF Breaker, BreakerState, BreakerSound
  <2> QED BY <1>1, <1>2, <2>1, <2>2 DEF BreakerSound
<1> QED BY <1>5, <1>6

(* A new or reset breaker is closed, empty and unmarked. *)
LEMMA NewBreakerSound ==
  NewBreaker \in Breaker /\ BreakerSound(NewBreaker) /\ ~NewBreaker.probe
  BY BreakerAssumption DEF Breaker, BreakerState, BreakerSound, NewBreaker
-------------------------------------------------------------------------------
(* The type invariant with the soundness of every breaker: each needs the   *)
(* other, since a breaker's methods are only known to keep sound records.   *)
TypeInv == TypeOK /\ BreakersSound

(* The absent object has a number in every type. *)
LEMMA NoObject == 0 \in 0 .. MaxObjects
  BY CallsAssumption

(* Nothing is registered and nobody calls at the start. *)
LEMMA TypeInit == Init => TypeInv
<1> SUFFICES ASSUME Init PROVE TypeInv
  OBVIOUS
<1>1. breaker \in [Objects -> Breaker] /\ BreakersSound
  BY NewBreakerSound DEF Init, BreakersSound
<1>2. backend \in [Objects -> [running : BOOLEAN, healthy : BOOLEAN]]
  BY DEF Init
<1>3. /\ pc \in [Threads -> {"idle", "admitted", "calling"}]
      /\ br \in [Threads -> 0 .. MaxObjects] /\ be \in [Threads -> 0 .. MaxObjects]
      /\ doomed \in [Threads -> BOOLEAN] /\ probing \in [Threads -> BOOLEAN]
  BY CallsAssumption DEF Init
<1>4. /\ apc \in [Admins -> {"idle", "stopping", "dropping", "dropped", "checked",
                             "registering", "starting"}]
      /\ hold \in [Admins -> 0 .. MaxObjects]
      /\ lock \in Admins \cup {Nobody}
  BY CallsAssumption DEF Init
<1>5. /\ started \in BOOLEAN /\ upstream \in {"ok", "down"}
      /\ curBackend \in 0 .. MaxObjects /\ curBreaker \in 0 .. MaxObjects
      /\ made \in 0 .. MaxObjects
  BY NoObject DEF Init
<1> QED BY <1>1, <1>2, <1>3, <1>4, <1>5 DEF TypeInv, TypeOK

(* Finish leaves the calls and the breakers well typed and sound. *)
LEMMA FinishTyped ==
  ASSUME TypeInv, NEW t \in Threads, NEW b \in Breaker, BreakerSound(b), Finish(t, b)
  PROVE  /\ pc' \in [Threads -> {"idle", "admitted", "calling"}]
         /\ br' \in [Threads -> 0 .. MaxObjects]
         /\ be' \in [Threads -> 0 .. MaxObjects]
         /\ doomed' \in [Threads -> BOOLEAN]
         /\ probing' \in [Threads -> BOOLEAN]
         /\ breaker' \in [Objects -> Breaker]
         /\ BreakersSound'
<1>1. br[t] # 0 => br[t] \in Objects
  BY CallsAssumption DEF TypeInv, TypeOK, Objects
<1>2. breaker' \in [Objects -> Breaker] /\ BreakersSound'
  BY <1>1 DEF TypeInv, TypeOK, BreakersSound, Finish
<1>3. probing' \in [Threads -> BOOLEAN]
  BY DEF TypeInv, TypeOK, Finish
<1> QED BY <1>2, <1>3, CallsAssumption DEF TypeInv, TypeOK, Finish

(* A failed call hands Finish a sound breaker. *)
LEMMA FailedBreakerSound ==
  ASSUME TypeInv, NEW t \in Threads
  PROVE  FailedBreaker(t) \in Breaker /\ BreakerSound(FailedBreaker(t)) /\ ~FailedBreaker(t).probe
<1>1. CASE br[t] = 0
  BY <1>1, NewBreakerSound DEF FailedBreaker
<1>2. CASE br[t] # 0
  <2>1. br[t] \in Objects
    BY <1>2, CallsAssumption DEF TypeInv, TypeOK, Objects
  <2>2. breaker[br[t]] \in Breaker /\ BreakerSound(breaker[br[t]])
    BY <2>1 DEF TypeInv, TypeOK, BreakersSound
  <2> QED BY <1>2, <2>2, RecordSound DEF FailedBreaker
<1> QED BY <1>1, <1>2

(* Every step keeps the types. *)
LEMMA TypeNext == TypeInv /\ [Next]_vars => TypeInv'
<1> SUFFICES ASSUME TypeInv, [Next]_vars PROVE TypeInv'
  OBVIOUS
<1> USE DEF TypeInv
<1>1. ASSUME NEW t \in Threads, AdmitUnguarded(t) PROVE TypeInv'
  BY <1>1, CallsAssumption
     DEF AdmitUnguarded, TypeOK, BreakersSound, mapVars, adminVars, Objects
<1>2. ASSUME NEW t \in Threads, Admit(t) PROVE TypeInv'
  <2> DEFINE b == MaybeHalfOpen(breaker[curBreaker])
  <2>1. curBreaker \in Objects
    BY <1>2, CallsAssumption DEF Admit, TypeOK, Objects
  <2>2. b \in Breaker /\ BreakerSound(b)
    BY <2>1, MaybeHalfOpenSound DEF TypeOK, BreakersSound
  <2>3. AfterAdmission(b) \in Breaker /\ BreakerSound(AfterAdmission(b))
    BY <1>2, <2>2, AdmissionSound DEF Admit
  <2>4. breaker' = [breaker EXCEPT ![curBreaker] = AfterAdmission(b)]
    BY <1>2 DEF Admit
  <2>5. breaker' \in [Objects -> Breaker] /\ BreakersSound'
    BY <2>1, <2>3, <2>4 DEF TypeOK, BreakersSound
  <2>6. probing' \in [Threads -> BOOLEAN] /\ pc' \in [Threads -> {"idle", "admitted", "calling"}]
        /\ br' \in [Threads -> 0 .. MaxObjects]
    BY <1>2, <2>1 DEF Admit, TypeOK, Objects
  <2> QED BY <1>2, <2>5, <2>6 DEF Admit, TypeOK, mapVars, adminVars
<1>3. ASSUME NEW t \in Threads, GiveUp(t) PROVE TypeInv'
  BY <1>3, FailedBreakerSound, FinishTyped DEF GiveUp, TypeOK, mapVars, adminVars
<1>4. ASSUME NEW t \in Threads, Dispatch(t) PROVE TypeInv'
  BY <1>4, CallsAssumption
     DEF Dispatch, TypeOK, BreakersSound, Running, Objects, mapVars, adminVars
<1>5. ASSUME NEW t \in Threads, Answered(t) PROVE TypeInv'
  <2> DEFINE b == IF br[t] = 0 THEN NewBreaker ELSE RecordSuccess(breaker[br[t]])
  <2>1. b \in Breaker /\ BreakerSound(b)
    <3>1. br[t] # 0 => br[t] \in Objects
      BY CallsAssumption DEF TypeOK, Objects
    <3>2. br[t] # 0 => breaker[br[t]] \in Breaker /\ BreakerSound(breaker[br[t]])
      BY <3>1 DEF TypeOK, BreakersSound
    <3> QED BY <3>2, RecordSound, NewBreakerSound
  <2>2. Finish(t, b)
    BY <1>5 DEF Answered
  <2>3. backend' \in [Objects -> [running : BOOLEAN, healthy : BOOLEAN]]
    BY <1>5 DEF Answered, TypeOK
  <2> HIDE DEF b
  <2> QED BY <1>5, <2>1, <2>2, <2>3, FinishTyped DEF Answered, TypeOK, mapVars, adminVars
<1>6. ASSUME NEW t \in Threads, Broken(t) PROVE TypeInv'
  <2>1. backend' \in [Objects -> [running : BOOLEAN, healthy : BOOLEAN]]
    <3>1. PICK h \in {FALSE, backend[be[t]].healthy} :
             backend' = [backend EXCEPT ![be[t]].healthy = h]
      BY <1>6 DEF Broken
    <3>2. CASE be[t] \in Objects
      BY <3>1, <3>2 DEF TypeOK
    <3>3. CASE be[t] \notin Objects
      <4>1. backend' = backend
        BY <3>1, <3>3 DEF TypeOK
      <4> QED BY <4>1 DEF TypeOK
    <3> QED BY <3>2, <3>3
  <2> QED BY <1>6, <2>1, FailedBreakerSound, FinishTyped DEF Broken, TypeOK, mapVars, adminVars
<1>7. ASSUME Outage \/ Recovery PROVE TypeInv'
  BY <1>7 DEF Outage, Recovery, TypeOK, BreakersSound, mapVars, adminVars, callVars
<1>8. ASSUME Tick PROVE TypeInv'
  <2>1. \A g \in Objects : Elapse(breaker[g]) \in Breaker /\ BreakerSound(Elapse(breaker[g]))
    BY ElapseSound DEF TypeOK, BreakersSound
  <2> QED BY <1>8, <2>1 DEF Tick, TypeOK, BreakersSound, mapVars, adminVars, callVars
<1>9. ASSUME Heal PROVE TypeInv'
  <2>1. breaker' \in [Objects -> Breaker] /\ BreakersSound'
    BY <1>9, NewBreakerSound DEF Heal, TypeOK, BreakersSound, ResetBreaker
  <2> QED BY <1>9, <2>1 DEF Heal, TypeOK, mapVars, adminVars, callVars
<1>10. ASSUME Statuses PROVE TypeInv'
  <2>1. curBreaker \in Objects
    BY <1>10, CallsAssumption DEF Statuses, TypeOK, Objects
  <2>2. breaker' \in [Objects -> Breaker] /\ BreakersSound'
    BY <1>10, <2>1, MaybeHalfOpenSound DEF Statuses, TypeOK, BreakersSound
  <2> QED BY <1>10, <2>2 DEF Statuses, TypeOK, mapVars, adminVars, callVars
<1>11. ASSUME NEW a \in Admins, Start(a) \/ Register(a) PROVE TypeInv'
  <2>1. /\ backend' \in [Objects -> [running : BOOLEAN, healthy : BOOLEAN]]
        /\ curBackend' \in 0 .. MaxObjects
        /\ made' \in 0 .. MaxObjects
    <3>1. CASE NoSource
      BY <3>1 DEF NoSource, TypeOK
    <3>2. CASE Publish(made + 1)
      <4>1. made + 1 \in 0 .. MaxObjects
        BY <3>2, CallsAssumption DEF Publish, TypeOK
      <4>2. PICK up \in BOOLEAN :
               backend' = [backend EXCEPT ![made + 1] = [running |-> up, healthy |-> up]]
        BY <3>2 DEF Publish
      <4>3. backend' \in [Objects -> [running : BOOLEAN, healthy : BOOLEAN]]
        BY <4>2 DEF TypeOK
      <4> QED BY <3>2, <4>1, <4>3 DEF Publish
    <3> QED BY <1>11, <3>1, <3>2 DEF Start, Register
  <2>2. /\ UNCHANGED <<started, curBreaker, hold, callVars, breaker, upstream, probing>>
        /\ lock' = a
        /\ apc' \in [Admins -> {"idle", "stopping", "dropping", "dropped", "checked",
                                "registering", "starting"}]
    BY <1>11 DEF Start, Register, Take, TypeOK
  <2> QED BY <2>1, <2>2 DEF TypeOK, BreakersSound, callVars
<1>12. ASSUME NEW a \in Admins, StartDone(a) \/ RegisterDone(a) PROVE TypeInv'
  BY <1>12 DEF StartDone, RegisterDone, Leave, TypeOK, BreakersSound, callVars
<1>13. ASSUME NEW a \in Admins, Stop(a) PROVE TypeInv'
  <2>1. backend' \in [Objects -> [running : BOOLEAN, healthy : BOOLEAN]]
    BY <1>13 DEF Stop, TypeOK
  <2> QED BY <1>13, <2>1 DEF Stop, Take, TypeOK, BreakersSound, mapVars, callVars
<1>15. ASSUME NEW a \in Admins, StopDone(a) PROVE TypeInv'
  BY <1>15, NoObject DEF StopDone, Leave, TypeOK, BreakersSound, callVars
<1>16. ASSUME NEW a \in Admins, Drop(a) PROVE TypeInv'
  <2>1. /\ hold' \in [Admins -> 0 .. MaxObjects]
        /\ curBackend' \in 0 .. MaxObjects
        /\ lock' = a
        /\ apc' \in [Admins -> {"idle", "stopping", "dropping", "dropped", "checked",
                                "registering", "starting"}]
    BY <1>16, CallsAssumption DEF Drop, Take, TypeOK
  <2> QED BY <1>16, <2>1 DEF Drop, TypeOK, BreakersSound, callVars
<1>17. ASSUME NEW a \in Admins, DropDone(a) PROVE TypeInv'
  <2>1. backend' \in [Objects -> [running : BOOLEAN, healthy : BOOLEAN]]
    BY <1>17 DEF DropDone, TypeOK
  <2> QED BY <1>17, <2>1, CallsAssumption DEF DropDone, Leave, TypeOK, BreakersSound, callVars
<1>18. ASSUME NEW a \in Admins, SyncCheck(a) PROVE TypeInv'
  <2>1. apc' \in [Admins -> {"idle", "stopping", "dropping", "dropped", "checked",
                             "registering", "starting"}]
    BY <1>18 DEF SyncCheck, TypeOK
  <2> QED BY <1>18, <2>1 DEF SyncCheck, TypeOK, BreakersSound, mapVars, callVars
<1>14. CASE UNCHANGED vars
  BY <1>14 DEF vars, mapVars, adminVars, callVars, TypeOK, BreakersSound
<1> QED BY <1>1, <1>2, <1>3, <1>4, <1>5, <1>6, <1>7, <1>8, <1>9, <1>10, <1>11, <1>12,
           <1>13, <1>14, <1>15, <1>16, <1>17, <1>18 DEF Next, Call, Work, Manage

(* TypeOK holds in every reachable state: calls, admins and objects keep    *)
(* their types whatever _call_backend, sync_source and stop interleave.     *)
THEOREM TypeCorrect == Spec => []TypeOK
<1>1. TypeInv => TypeOK
  BY DEF TypeInv
<1> QED BY <1>1, TypeInit, TypeNext, PTL DEF Spec

(* Every breaker is closed exactly while its count is below the threshold.  *)
THEOREM BreakerCountsAgree == Spec => []ClosedBelowThreshold
<1>1. TypeInv => ClosedBelowThreshold
  BY DEF TypeInv, BreakersSound, BreakerSound, ClosedBelowThreshold
<1> QED BY <1>1, TypeInit, TypeNext, PTL DEF Spec
-------------------------------------------------------------------------------
(* The owner of a mark. *)
ProbeInv == ProbesAreAdmitted /\ ProbeHasOneOwner

(* No breaker is marked at the start. *)
LEMMA ProbeInit == Init => ProbeInv
  BY DEF Init, ProbeInv, ProbesAreAdmitted, ProbeHasOneOwner, Probes, NewBreaker

(* A step that leaves the calls, their flags and every mark alone keeps the *)
(* owners.                                                                  *)
LEMMA MarksUntouched ==
  ASSUME ProbeInv, UNCHANGED <<probing, br, pc>>,
         \A g \in Objects : breaker'[g].probe = breaker[g].probe
  PROVE  ProbeInv'
<1>1. \A g \in Objects : Probes(g)' = Probes(g)
  BY DEF Probes
<1>2. ProbeHasOneOwner'
  BY <1>1 DEF ProbeInv, ProbeHasOneOwner
<1> QED BY <1>2 DEF ProbeInv, ProbesAreAdmitted

(* A call that ends takes its mark with it, whichever period set it. *)
LEMMA FinishKeepsOwners ==
  ASSUME TypeInv, ProbeInv, NEW t \in Threads, NEW b \in Breaker, ~b.probe, Finish(t, b)
  PROVE  ProbeInv'
<1>1. ProbesAreAdmitted'
  BY DEF Finish, ProbeInv, ProbesAreAdmitted, TypeInv, TypeOK
<1>2. ASSUME NEW g \in Objects
      PROVE  IF breaker'[g].probe THEN \E u \in Threads : Probes(g)' = {u}
                                  ELSE Probes(g)' = {}
  <2>1. CASE br[t] = g
    <3>1. breaker'[g] = b
      BY <2>1, CallsAssumption DEF Finish, TypeInv, TypeOK, Objects
    <3>2. g # 0
      BY CallsAssumption DEF Objects
    <3>3. \A u \in Threads : probing'[u] => u # t /\ br[u] # br[t]
      BY <2>1, <3>2 DEF Finish
    <3>4. \A u \in Threads : u # t => br'[u] = br[u]
      BY DEF Finish, TypeInv, TypeOK
    <3>5. Probes(g)' = {}
      BY <2>1, <3>3, <3>4 DEF Probes
    <3> QED BY <3>1, <3>5
  <2>2. CASE br[t] # g
    <3>1. breaker'[g] = breaker[g]
      BY <2>2 DEF Finish, TypeInv, TypeOK
    <3>2. \A u \in Threads : (probing[u] /\ br[u] = g) <=> (probing'[u] /\ br'[u] = g)
      BY <2>2, CallsAssumption DEF Finish, TypeInv, TypeOK, Objects
    <3>3. Probes(g)' = Probes(g)
      BY <3>2 DEF Probes
    <3> QED BY <3>1, <3>3 DEF ProbeInv, ProbeHasOneOwner
  <2> QED BY <2>1, <2>2
<1> QED BY <1>1, <1>2 DEF ProbeInv, ProbeHasOneOwner

(* An admission to a half-open breaker finds no owner and makes one. *)
LEMMA AdmitKeepsOwners ==
  ASSUME TypeInv, ProbeInv, NEW t \in Threads, Admit(t)
  PROVE  ProbeInv'
<1> DEFINE b == MaybeHalfOpen(breaker[curBreaker])
<1>1. curBreaker \in Objects
  BY CallsAssumption DEF Admit, TypeInv, TypeOK, Objects
<1>2. b \in Breaker /\ BreakerSound(b) /\ b.probe = breaker[curBreaker].probe
  BY <1>1, MaybeHalfOpenSound DEF TypeInv, TypeOK, BreakersSound
<1>3. /\ Admits(b)
      /\ breaker' = [breaker EXCEPT ![curBreaker] = AfterAdmission(b)]
      /\ probing' = [probing EXCEPT ![t] = b.state = "half_open"]
      /\ pc[t] = "idle"
      /\ pc' = [pc EXCEPT ![t] = "admitted"]
      /\ br' = [br EXCEPT ![t] = curBreaker]
  BY DEF Admit
<1>4. (AfterAdmission(b).probe <=> b.state = "half_open") /\ ~b.probe
  BY <1>2, <1>3, AdmissionSound
<1>5. breaker'[curBreaker] = AfterAdmission(b)
  BY <1>1, <1>3 DEF TypeInv, TypeOK
<1> HIDE DEF b
<1>6. ProbesAreAdmitted'
  BY <1>1, <1>3, CallsAssumption DEF ProbeInv, ProbesAreAdmitted, TypeInv, TypeOK, Objects
<1>7. ~probing[t]
  BY <1>3 DEF ProbeInv, ProbesAreAdmitted
<1>8. ASSUME NEW g \in Objects
      PROVE  IF breaker'[g].probe THEN \E u \in Threads : Probes(g)' = {u}
                                  ELSE Probes(g)' = {}
  <2>1. CASE g = curBreaker
    <3>1. Probes(g) = {}
      BY <1>2, <1>4, <2>1 DEF ProbeInv, ProbeHasOneOwner
    <3>2. CASE b.state = "half_open"
      <4>1. Probes(g)' = {t}
        BY <1>3, <2>1, <3>1, <3>2 DEF Probes, TypeInv, TypeOK
      <4> QED BY <1>4, <1>5, <2>1, <3>2, <4>1
    <3>3. CASE b.state # "half_open"
      <4>1. Probes(g)' = {}
        BY <1>3, <2>1, <3>1, <3>3 DEF Probes, TypeInv, TypeOK
      <4> QED BY <1>4, <1>5, <2>1, <3>3, <4>1
    <3> QED BY <3>2, <3>3
  <2>2. CASE g # curBreaker
    <3>1. breaker'[g] = breaker[g]
      BY <1>3, <2>2 DEF TypeInv, TypeOK
    <3>2. Probes(g)' = Probes(g)
      BY <1>3, <1>7, <2>2 DEF Probes, TypeInv, TypeOK
    <3> QED BY <3>1, <3>2 DEF ProbeInv, ProbeHasOneOwner
  <2> QED BY <2>1, <2>2
<1> QED BY <1>6, <1>8 DEF ProbeInv, ProbeHasOneOwner

(* A mark is set by one thread that no mark has, and goes with it. *)
LEMMA ProbeNext == TypeInv /\ ProbeInv /\ [Next]_vars => ProbeInv'
<1> SUFFICES ASSUME TypeInv, ProbeInv, [Next]_vars PROVE ProbeInv'
  OBVIOUS
<1>1. ASSUME NEW t \in Threads, AdmitUnguarded(t) PROVE ProbeInv'
  <2>1. ~probing[t]
    BY <1>1 DEF AdmitUnguarded, ProbeInv, ProbesAreAdmitted
  <2>2. \A g \in Objects : Probes(g)' = Probes(g)
    BY <1>1, <2>1 DEF AdmitUnguarded, Probes, TypeInv, TypeOK
  <2>3. ProbeHasOneOwner'
    BY <1>1, <2>2 DEF AdmitUnguarded, ProbeInv, ProbeHasOneOwner
  <2> QED BY <1>1, <2>1, <2>3 DEF AdmitUnguarded, ProbeInv, ProbesAreAdmitted, TypeInv, TypeOK
<1>2. ASSUME NEW t \in Threads, Admit(t) PROVE ProbeInv'
  BY <1>2, AdmitKeepsOwners
<1>3. ASSUME NEW t \in Threads, GiveUp(t) \/ Broken(t) PROVE ProbeInv'
  BY <1>3, FailedBreakerSound, FinishKeepsOwners DEF GiveUp, Broken
<1>4. ASSUME NEW t \in Threads, Dispatch(t) PROVE ProbeInv'
  <2>1. \A g \in Objects : Probes(g)' = Probes(g)
    BY <1>4 DEF Dispatch, Probes
  <2>2. ProbeHasOneOwner'
    BY <1>4, <2>1 DEF Dispatch, ProbeInv, ProbeHasOneOwner
  <2> QED BY <1>4, <2>2 DEF Dispatch, ProbeInv, ProbesAreAdmitted, TypeInv, TypeOK
<1>5. ASSUME NEW t \in Threads, Answered(t) PROVE ProbeInv'
  <2> DEFINE b == IF br[t] = 0 THEN NewBreaker ELSE RecordSuccess(breaker[br[t]])
  <2>1. b \in Breaker /\ ~b.probe
    <3>1. br[t] # 0 => br[t] \in Objects
      BY CallsAssumption DEF TypeInv, TypeOK, Objects
    <3>2. br[t] # 0 => breaker[br[t]] \in Breaker /\ BreakerSound(breaker[br[t]])
      BY <3>1 DEF TypeInv, TypeOK, BreakersSound
    <3> QED BY <3>2, RecordSound, NewBreakerSound
  <2>2. Finish(t, b)
    BY <1>5 DEF Answered
  <2> HIDE DEF b
  <2> QED BY <2>1, <2>2, FinishKeepsOwners
<1>6. ASSUME Tick PROVE ProbeInv'
  <2>1. \A g \in Objects : breaker'[g].probe = breaker[g].probe
    BY <1>6, ElapseSound DEF Tick, TypeInv, TypeOK, BreakersSound
  <2> QED BY <1>6, <2>1, MarksUntouched DEF Tick, callVars
<1>7. ASSUME Statuses PROVE ProbeInv'
  <2>1. curBreaker \in Objects
    BY <1>7, CallsAssumption DEF Statuses, TypeInv, TypeOK, Objects
  <2>2. \A g \in Objects : breaker'[g].probe = breaker[g].probe
    BY <1>7, <2>1, MaybeHalfOpenSound DEF Statuses, TypeInv, TypeOK, BreakersSound
  <2> QED BY <1>7, <2>2, MarksUntouched DEF Statuses, callVars
<1>8. ASSUME Heal PROVE ProbeInv'
  <2>1. ProbesAreAdmitted'
    BY <1>8 DEF Heal, callVars, ProbeInv, ProbesAreAdmitted
  <2>2. ASSUME NEW g \in Objects
        PROVE  IF breaker'[g].probe THEN \E u \in Threads : Probes(g)' = {u}
                                    ELSE Probes(g)' = {}
    <3>1. CASE g = curBreaker
      BY <1>8, <3>1, NewBreakerSound DEF Heal, callVars, ResetBreaker, Probes, TypeInv, TypeOK
    <3>2. CASE g # curBreaker
      <4>1. Probes(g)' = Probes(g) /\ breaker'[g] = breaker[g]
        BY <1>8, <3>2 DEF Heal, callVars, Probes, TypeInv, TypeOK
      <4> QED BY <4>1 DEF ProbeInv, ProbeHasOneOwner
    <3> QED BY <3>1, <3>2
  <2> QED BY <2>1, <2>2 DEF ProbeInv, ProbeHasOneOwner
<1>9. ASSUME Outage \/ Recovery PROVE ProbeInv'
  BY <1>9, MarksUntouched DEF Outage, Recovery, callVars
<1>10. ASSUME NEW a \in Admins, Manage(a) PROVE ProbeInv'
  <2>1. UNCHANGED <<callVars, breaker, probing>>
    BY <1>10 DEF Manage, Start, StartDone, Stop, StopDone, Drop, DropDone, SyncCheck,
                 Register, RegisterDone
  <2> QED BY <2>1, MarksUntouched DEF callVars
<1>11. CASE UNCHANGED vars
  BY <1>11, MarksUntouched DEF vars, callVars
<1> QED BY <1>1, <1>2, <1>3, <1>4, <1>5, <1>6, <1>7, <1>8, <1>9, <1>10, <1>11
        DEF Next, Call, Work

(* A marked breaker has exactly one call that will take the mark away, and  *)
(* an unmarked one has none: no probe is lost and no two run together,      *)
(* whatever late failures, successes, healing and status reads intervene    *)
(* (CircuitBreaker.can_call and _call_backend).                             *)
THEOREM ProbesHaveOneOwner == Spec => []ProbeHasOneOwner
<1>1. Init => TypeInv /\ ProbeInv
  BY TypeInit, ProbeInit
<1>2. TypeInv /\ ProbeInv /\ [Next]_vars => (TypeInv /\ ProbeInv)'
  BY TypeNext, ProbeNext
<1>3. ProbeInv => ProbeHasOneOwner
  BY DEF ProbeInv
<1> QED BY <1>1, <1>2, <1>3, PTL DEF Spec
-------------------------------------------------------------------------------
(* The two maps.  `Holders` are the places an admin holds the lock in.      *)
Holders == {"stopping", "dropping", "registering", "starting"}

LockInv == \A a \in Admins : apc[a] \in Holders <=> lock = a

(* While a backend is being dropped its breaker is the only one left under  *)
(* the name, and only if there was a backend to drop.                       *)
DropInv == \A a \in Admins : apc[a] = "dropping" =>
             curBackend = 0 /\ (hold[a] = 0 => curBreaker = 0)

(* Both maps are empty at the start. *)
LEMMA MapInit == Init => LockInv /\ DropInv /\ MapsAgree
  BY CallsAssumption DEF Init, LockInv, DropInv, MapsAgree, Holders

(* A step that does not touch the maps, the lock or the admins. *)
LEMMA MapsUntouched ==
  ASSUME LockInv, DropInv, MapsAgree, UNCHANGED <<curBackend, curBreaker, lock, apc, hold>>
  PROVE  (LockInv /\ DropInv /\ MapsAgree)'
  BY DEF LockInv, DropInv, MapsAgree

(* Both maps change under the lock, or as a removal drops them. *)
LEMMA MapNext == TypeInv /\ LockInv /\ DropInv /\ MapsAgree /\ [Next]_vars
                   => (LockInv /\ DropInv /\ MapsAgree)'
<1> SUFFICES ASSUME TypeInv, LockInv, DropInv, MapsAgree, [Next]_vars
             PROVE  (LockInv /\ DropInv /\ MapsAgree)'
  OBVIOUS
<1> USE CallsAssumption DEF TypeInv, TypeOK, Holders
<1>1. ASSUME NEW t \in Threads, Call(t) PROVE (LockInv /\ DropInv /\ MapsAgree)'
  <2>1. UNCHANGED <<mapVars, adminVars>>
    BY <1>1 DEF Call, Work, AdmitUnguarded, Admit, GiveUp, Dispatch, Answered, Broken
  <2> QED BY <2>1, MapsUntouched DEF mapVars, adminVars
<1>2. ASSUME Outage \/ Recovery \/ Tick \/ Heal \/ Statuses
      PROVE  (LockInv /\ DropInv /\ MapsAgree)'
  <2>1. UNCHANGED <<mapVars, adminVars>>
    BY <1>2 DEF Outage, Recovery, Tick, Heal, Statuses
  <2> QED BY <2>1, MapsUntouched DEF mapVars, adminVars
<1>3. ASSUME NEW a \in Admins, Start(a) \/ Stop(a) \/ Register(a)
      PROVE  (LockInv /\ DropInv /\ MapsAgree)'
  <2>1. /\ lock = Nobody /\ lock' = a /\ apc'[a] \in Holders \ {"dropping"}
        /\ \A c \in Admins : c # a => apc'[c] = apc[c]
    BY <1>3 DEF Start, Stop, Register, Take
  <2>2. \A c \in Admins : apc[c] \notin Holders
    BY <2>1 DEF LockInv
  <2> QED BY <2>1, <2>2 DEF LockInv, DropInv, MapsAgree
<1>4. ASSUME NEW a \in Admins, Drop(a) PROVE (LockInv /\ DropInv /\ MapsAgree)'
  <2>1. /\ lock = Nobody /\ lock' = a /\ apc'[a] = "dropping"
        /\ \A c \in Admins : c # a => apc'[c] = apc[c]
        /\ hold'[a] = curBackend /\ curBackend' = 0 /\ curBreaker' = curBreaker
    BY <1>4 DEF Drop, Take
  <2>2. \A c \in Admins : apc[c] \notin Holders
    BY <2>1 DEF LockInv
  <2>3. curBreaker = curBackend
    BY <2>1 DEF MapsAgree
  <2> QED BY <2>1, <2>2, <2>3 DEF LockInv, DropInv, MapsAgree
<1>5. ASSUME NEW a \in Admins, StartDone(a) \/ StopDone(a) \/ DropDone(a) \/ RegisterDone(a)
      PROVE  (LockInv /\ DropInv /\ MapsAgree)'
  <2>1. /\ apc[a] \in Holders /\ lock' = Nobody /\ apc'[a] \notin Holders
        /\ \A c \in Admins : c # a => apc'[c] = apc[c]
    BY <1>5 DEF StartDone, StopDone, DropDone, RegisterDone, Leave
  <2>2. \A c \in Admins : c # a => apc[c] \notin Holders
    BY <2>1 DEF LockInv
  <2>3. LockInv' /\ DropInv'
    BY <2>1, <2>2 DEF LockInv, DropInv
  <2>4. CASE DropDone(a)
    BY <2>3, <2>4 DEF DropDone, DropInv, MapsAgree
  <2>5. CASE ~DropDone(a)
    BY <1>5, <2>3, <2>5 DEF StartDone, StopDone, RegisterDone, MapsAgree
  <2> QED BY <2>4, <2>5
<1>6. ASSUME NEW a \in Admins, SyncCheck(a) PROVE (LockInv /\ DropInv /\ MapsAgree)'
  <2>1. /\ UNCHANGED <<curBackend, curBreaker, lock, hold>>
        /\ apc[a] \notin Holders /\ apc'[a] \notin Holders
        /\ \A c \in Admins : c # a => apc'[c] = apc[c]
    BY <1>6 DEF SyncCheck, mapVars
  <2> QED BY <2>1 DEF LockInv, DropInv, MapsAgree
<1>7. CASE UNCHANGED vars
  BY <1>7, MapsUntouched DEF vars, mapVars, adminVars
<1> QED BY <1>1, <1>2, <1>3, <1>4, <1>5, <1>6, <1>7 DEF Next, Manage

(* Whenever the manager's lock is free, the backend and the breaker under   *)
(* the name are of the same generation, for any number of admins that       *)
(* start, stop and sync (register_backend, drop_backends_for, stop).        *)
THEOREM MapsAlwaysAgree == Spec => []MapsAgree
<1>1. Init => TypeInv /\ LockInv /\ DropInv /\ MapsAgree
  BY TypeInit, MapInit
<1>2. TypeInv /\ LockInv /\ DropInv /\ MapsAgree /\ [Next]_vars
        => (TypeInv /\ LockInv /\ DropInv /\ MapsAgree)'
  BY TypeNext, MapNext
<1> QED BY <1>1, <1>2, PTL DEF Spec

-----------------------------------------------------------------------------
(* ConnectorCalls: the catalog row of a connector, the operations on it and *)
(* the calls that borrow its backend, for any number of tasks.              *)
(*                                                                          *)
(* That a decision stays needs what every operation under way has read of   *)
(* the row (SettledStays), and, for the decision itself, that nothing was   *)
(* between its reads and its writes (SoleIsUndisturbed).                    *)

(* Where an operation is in its writes, and what each of them needs of the row. *)
StepsTaken ==
    \A u \in Tasks :
        /\ task[u].step \in 1 .. Len(Steps[task[u].op])
        /\ task[u].pc = "write" /\ Steps[task[u].op][task[u].step] # "seed" => task[u].seen # None
        /\ task[u].pc \in {"idle", "authorize", "admit", "lease", "use", "run"} => task[u].op \in Calling

(* Nobody else is between a read and a write, nor decides anything, and what the *)
(* task has written so far is what the row says.                                 *)
Undisturbed(t) ==
    /\ Alone(t)
    /\ task[t].op \notin Calling /\ task[t].pc \in {"read", "write"}
    /\ task[t].pc = "write" => \/ task[t].seen = row
                               \/ task[t].seen = None /\ origin = "dynamic"
    /\ Steps[task[t].op][task[t].step] = "managed" =>
           row # None /\ row.status = Steps[task[t].op][task[t].step - 1]

SoleIsUndisturbed == \A t \in Tasks : sole = t => Undisturbed(t)

(* After a decision only seedings that have read it are under way. *)
SettledStays ==
    settled # "no" => /\ row # None /\ row.status = settled /\ row.managed
                      /\ \A u \in Tasks : /\ task[u].op \in Calling
                                          /\ task[u].pc = "write" => task[u].seen = row

ConnectorInv == ConnectorTypeOK /\ StepsTaken /\ SoleIsUndisturbed /\ SettledStays

-----------------------------------------------------------------------------
(* The writes of the operations. *)
LEMMA StepFacts ==
  ASSUME NEW op \in Operations
  PROVE  /\ Len(Steps[op]) \in 1 .. 4
         /\ Steps[op][1] = "seed"
         /\ op \in Calling => Len(Steps[op]) = 1
         /\ \A k \in 1 .. Len(Steps[op]) :
              /\ Steps[op][k] \in {"seed", "permission", "enabled", "disabled", "managed",
                                   "capabilities", "validated"}
              /\ Steps[op][k] = "managed" <=> k = Len(Steps[op]) /\ op \in {"enable", "disable"}
              /\ Steps[op][k] = "managed" => k > 1 /\ Steps[op][k - 1] \in {"enabled", "disabled"}
<1>1. CASE op = "enable"
  <2>1. Steps[op] = <<"seed", "permission", "enabled", "managed">>
    BY <1>1 DEF Steps
  <2> QED
    BY <2>1, <1>1 DEF Calling
<1>2. CASE op = "disable"
  <2>1. Steps[op] = <<"seed", "disabled", "managed">>
    BY <1>2 DEF Steps
  <2> QED
    BY <2>1, <1>2 DEF Calling
<1>3. CASE op = "validate"
  <2>1. Steps[op] = <<"seed", "capabilities", "validated">>
    BY <1>3 DEF Steps
  <2> QED
    BY <2>1, <1>3 DEF Calling
<1>4. CASE op \in Calling
  <2>1. Steps[op] = <<"seed">>
    BY <1>4 DEF Steps, Calling
  <2> QED
    BY <2>1, <1>4 DEF Calling
<1> QED
  BY <1>1, <1>2, <1>3, <1>4 DEF Operations, Calling

(* What a write makes of a row is a row, and seeding leaves a decision as it is. *)
LEMMA SeedIsRow ==
  ASSUME NEW seen \in Rows \cup {None}, env \in BOOLEAN
  PROVE  Seed(seen) \in Rows
BY DEF Seed, SeedRow, Rows

(* What a write makes of the row it has read. *)
LEMMA ChangedIsRow ==
  ASSUME NEW seen \in Rows, env \in BOOLEAN,
         NEW step \in {"seed", "permission", "enabled", "disabled", "managed", "capabilities", "validated"}
  PROVE  /\ Changed(step, seen) \in Rows
         /\ step \in {"enabled", "disabled"} => Changed(step, seen).status = step
         /\ step = "managed" => /\ Changed(step, seen).managed
                                /\ Changed(step, seen).status = seen.status
         /\ step = "seed" /\ seen.managed => Changed(step, seen) = seen
<1>1. seen # None
  BY CatalogAssumption
<1>2. CASE step = "seed"
  <2>1. Changed(step, seen) = Seed(seen)
    BY <1>2 DEF Changed
  <2>2. seen.managed => Seed(seen) = seen
    BY <1>1 DEF Seed
  <2> QED
    BY <2>1, <2>2, <1>2, SeedIsRow
<1>3. CASE step = "permission"
  BY <1>3 DEF Changed, Rows
<1>4. CASE step = "capabilities"
  BY <1>4 DEF Changed, Rows
<1>5. CASE step = "managed"
  BY <1>5 DEF Changed, Rows
<1>6. CASE step \in {"enabled", "disabled", "validated"}
  BY <1>6 DEF Changed, Rows
<1> QED
  BY <1>2, <1>3, <1>4, <1>5, <1>6

-----------------------------------------------------------------------------
(* There is no row and nothing is under way at the start. *)
LEMMA ConnectorInitInv == ConnectorInit => ConnectorInv
<1> SUFFICES ASSUME ConnectorInit PROVE ConnectorInv
  OBVIOUS
<1> USE DEF ConnectorInit, CatalogInit, Idle
<1>1. ConnectorTypeOK
  BY DEF ConnectorTypeOK, Operations, Calling, TaskRecord
<1>2. StepsTaken
  BY StepFacts DEF StepsTaken, Operations, Calling
<1>3. SoleIsUndisturbed
  BY CatalogAssumption DEF SoleIsUndisturbed
<1> QED
  BY <1>1, <1>2, <1>3 DEF ConnectorInv, SettledStays

(* A task that does nothing. *)
LEMMA IdleIsTyped ==
  Idle \in TaskRecord /\ Idle.op \in Calling /\ Idle.pc = "idle" /\ Idle.step = 1
BY DEF Idle, TaskRecord, Operations, Calling

(* An operation begins; one that decides is alone or leaves none alone. *)
LEMMA StartKeepsInv ==
  ASSUME ConnectorInv, NEW t \in Tasks, NEW op \in Operations, StartTask(t,
         op), UNCHANGED pool
  PROVE  ConnectorInv'
<1> DEFINE to == [Idle EXCEPT !.op = op, !.pc = "read"]
<1> USE DEF ConnectorInv
<1>1. /\ to \in TaskRecord
      /\ to.op = op /\ to.pc = "read" /\ to.step = 1
  <2> USE IdleIsTyped DEF TaskRecord
  <2>1. to.op = op /\ to.pc = "read" /\ to.step = 1
    OBVIOUS
  <2>2. to \in TaskRecord
    OBVIOUS
  <2> QED
    BY <2>1, <2>2
<1>2. /\ task' = [task EXCEPT ![t] = to] /\ task[t].pc = "idle"
      /\ UNCHANGED <<origin, env, row, pooled, warm, lease>>
      /\ IF op \in Calling THEN UNCHANGED <<sole, settled>>
         ELSE settled' = "no" /\ sole' = IF Alone(t) THEN t ELSE None
  BY DEF StartTask, pool
<1> HIDE DEF to
<1>3. ConnectorTypeOK'
  <2>1. task' \in [Tasks -> TaskRecord]
    BY <1>1, <1>2 DEF ConnectorTypeOK
  <2>2. sole' \in Tasks \cup {None} /\ settled' \in {"no", "enabled", "disabled"}
    BY <1>2 DEF ConnectorTypeOK
  <2> QED
    BY <2>1, <2>2, <1>2 DEF ConnectorTypeOK
<1>4. task'[t] = to /\ \A u \in Tasks \ {t} : task'[u] = task[u]
  BY <1>2 DEF ConnectorTypeOK
<1>5. StepsTaken'
  BY <1>1, <1>4, StepFacts DEF StepsTaken
<1>6. SoleIsUndisturbed'
  <2> SUFFICES ASSUME NEW u \in Tasks, sole' = u PROVE Undisturbed(u)'
    BY DEF SoleIsUndisturbed
  <2>1. CASE u = t
    <3>1. op \notin Calling /\ Alone(t)
      BY <2>1, <1>2, CatalogAssumption DEF SoleIsUndisturbed, Undisturbed
    <3>2. Alone(t)'
      BY <3>1, <1>4 DEF Alone
    <3>3. Steps[op][1] # "managed"
      BY StepFacts
    <3> QED
      BY <2>1, <3>1, <3>2, <3>3, <1>1, <1>4 DEF Undisturbed
  <2>2. CASE u # t
    <3>1. op \in Calling /\ sole = u
      BY <2>2, <1>2, CatalogAssumption
    <3>2. Undisturbed(u)
      BY <3>1 DEF SoleIsUndisturbed
    <3>3. Alone(u)'
      BY <3>1, <3>2, <1>1, <1>4 DEF Alone, Undisturbed
    <3> QED
      BY <2>2, <3>2, <3>3, <1>2, <1>4 DEF Undisturbed
  <2> QED
    BY <2>1, <2>2
<1>7. SettledStays'
  BY <1>1, <1>2, <1>4 DEF SettledStays
<1> QED
  BY <1>3, <1>5, <1>6, <1>7

(* It reads the row, *)
LEMMA ReadKeepsInv ==
  ASSUME ConnectorInv, NEW t \in Tasks, ReadRow(t), UNCHANGED pool
  PROVE  ConnectorInv'
<1> USE DEF ConnectorInv
<1>1. task[t].pc = "read" /\ task[t] \in TaskRecord /\ UNCHANGED <<origin, env, row, settled, pooled, warm, lease>>
  BY DEF ReadRow, ConnectorTypeOK, pool
<1>2. PICK to \in TaskRecord :
        /\ task' = [task EXCEPT ![t] = to]
        /\ \/ to = Idle
           \/ /\ to.pc = "write" /\ to.op = task[t].op /\ to.step = task[t].step /\ to.seen = row
              /\ row = None => Steps[task[t].op][task[t].step] = "seed"
  <2>1. CASE row = None /\ Steps[task[t].op][task[t].step] # "seed"
    BY <2>1, IdleIsTyped DEF ReadRow
  <2>2. CASE ~(row = None /\ Steps[task[t].op][task[t].step] # "seed")
    <3> DEFINE to == [task[t] EXCEPT !.pc = "write", !.seen = row]
    <3>1. to.op = task[t].op /\ to.step = task[t].step /\ to.seen = row /\ to.pc = "write"
      BY <1>1 DEF TaskRecord
    <3>2. task' = [task EXCEPT ![t] = to]
      BY <2>2 DEF ReadRow, ConnectorTypeOK
    <3>3. to \in TaskRecord
      BY <1>1 DEF TaskRecord, ConnectorTypeOK
    <3> HIDE DEF to
    <3> QED
      BY <2>2, <3>1, <3>2, <3>3
  <2> QED
    BY <2>1, <2>2
<1>3. task'[t] = to /\ \A u \in Tasks \ {t} : task'[u] = task[u]
  BY <1>2 DEF ConnectorTypeOK
<1>4. sole' = IF sole = t /\ to.pc = "write" THEN t ELSE None
  BY <1>3 DEF ReadRow
<1>5. ConnectorTypeOK'
  <2>1. task' \in [Tasks -> TaskRecord]
    BY <1>2 DEF ConnectorTypeOK
  <2>2. sole' \in Tasks \cup {None}
    BY <1>4
  <2> QED
    BY <2>1, <2>2, <1>1 DEF ConnectorTypeOK
<1>6. StepsTaken'
  <2>1. CASE to = Idle
    BY <2>1, <1>3, IdleIsTyped, StepFacts DEF StepsTaken, Operations, Calling
  <2>2. CASE /\ to.pc = "write" /\ to.op = task[t].op /\ to.step = task[t].step /\ to.seen = row
             /\ row = None => Steps[task[t].op][task[t].step] = "seed"
    BY <2>2, <1>3 DEF StepsTaken
  <2> QED
    BY <2>1, <2>2, <1>2
<1>7. SoleIsUndisturbed'
  <2> SUFFICES ASSUME sole' = t, sole = t, to.pc = "write" PROVE Undisturbed(t)'
    BY <1>4, CatalogAssumption DEF SoleIsUndisturbed
  <2>1. Undisturbed(t)
    BY DEF SoleIsUndisturbed
  <2>2. Alone(t)'
    BY <2>1, <1>3 DEF Alone, Undisturbed
  <2> QED
    BY <2>1, <2>2, <1>1, <1>2, <1>3, IdleIsTyped DEF Undisturbed
<1>8. SettledStays'
  BY <1>1, <1>2, <1>3, IdleIsTyped DEF SettledStays
<1> QED
  BY <1>5, <1>6, <1>7, <1>8

(* a validation may end where the capabilities cannot be discovered, *)
LEMMA DiscoveryKeepsInv ==
  ASSUME ConnectorInv, NEW t \in Tasks, DiscoveryFails(t), UNCHANGED pool
  PROVE  ConnectorInv'
<1> USE DEF ConnectorInv
<1>1. /\ task[t].pc = "write" /\ task' = [task EXCEPT ![t] = Idle]
      /\ sole' = IF sole = t THEN None ELSE sole
      /\ UNCHANGED <<origin, env, row, settled, pooled, warm, lease>>
  BY DEF DiscoveryFails, pool
<1>2. task'[t] = Idle /\ \A u \in Tasks \ {t} : task'[u] = task[u]
  BY <1>1 DEF ConnectorTypeOK
<1>3. ConnectorTypeOK'
  BY <1>1, IdleIsTyped DEF ConnectorTypeOK
<1>4. StepsTaken'
  BY <1>2, IdleIsTyped, StepFacts DEF StepsTaken, Operations, Calling
<1>5. SoleIsUndisturbed'
  BY <1>1, <1>2, IdleIsTyped, CatalogAssumption DEF SoleIsUndisturbed, Undisturbed, Alone
<1>6. SettledStays'
  BY <1>1, <1>2, IdleIsTyped DEF SettledStays
<1> QED
  BY <1>3, <1>4, <1>5, <1>6

(* and what it writes back is the row it has read, changed. *)
LEMMA WriteKeepsInv ==
  ASSUME ConnectorInv, NEW t \in Tasks, WriteRow(t), UNCHANGED pool
  PROVE  ConnectorInv'
<1> USE DEF ConnectorInv
<1>1. PICK op \in Operations, k \in 1 .. 4, seen \in Rows \cup {None} :
        op = task[t].op /\ k = task[t].step /\ seen = task[t].seen
  BY DEF ConnectorTypeOK, TaskRecord
<1>2. /\ task[t].pc = "write" /\ task[t] \in TaskRecord
      /\ UNCHANGED <<origin, env, pooled, warm, lease>>
  BY DEF WriteRow, pool, ConnectorTypeOK
<1>3. PICK name : name = Steps[op][k]
  OBVIOUS
<1>4. /\ k \in 1 .. Len(Steps[op])
      /\ name \in {"seed", "permission", "enabled", "disabled", "managed", "capabilities", "validated"}
      /\ name = "managed" <=> k = Len(Steps[op]) /\ op \in {"enable", "disable"}
      /\ name # "seed" => seen # None
  BY <1>1, <1>2, <1>3, StepFacts DEF StepsTaken
<1>5. /\ row' = IF name = "seed" /\ origin = "dynamic" THEN row ELSE Changed(name, seen)
      /\ sole' = IF sole = t /\ k # Len(Steps[op]) THEN t ELSE None
      /\ settled' = IF k = Len(Steps[op]) /\ sole = t /\ op # "validate"
                     THEN Steps[op][Len(Steps[op]) - 1] ELSE settled
  BY <1>1, <1>3 DEF WriteRow
<1>6. PICK to \in TaskRecord :
        /\ task' = [task EXCEPT ![t] = to]
        /\ k # Len(Steps[op]) => to.pc = "read" /\ to.op = op /\ to.step = k + 1
        /\ k = Len(Steps[op]) => /\ to.op \in Calling /\ to.step = 1
                                 /\ to.pc \in {"idle", "authorize"}
  <2>1. CASE k # Len(Steps[op])
    <3> DEFINE to == [task[t] EXCEPT !.pc = "read", !.step = @ + 1, !.seen = None]
    <3>1. to.op = op /\ to.step = k + 1 /\ to.seen = None /\ to.pc = "read"
      BY <1>1, <1>2 DEF TaskRecord
    <3>2. task' = [task EXCEPT ![t] = to]
      <4>1. task[t].step # Len(Steps[task[t].op])
        BY <2>1, <1>1
      <4> QED
        BY <4>1 DEF WriteRow
    <3>3. k + 1 \in 1 .. 4
      BY <2>1, <1>4, StepFacts
    <3>4. to \in TaskRecord
      BY <1>1, <1>2, <3>3 DEF TaskRecord
    <3> HIDE DEF to
    <3> QED
      BY <2>1, <3>1, <3>2, <3>4
  <2>2. CASE k = Len(Steps[op]) /\ op \in Calling
    <3> DEFINE to == [task[t] EXCEPT !.pc = "authorize", !.seen = None]
    <3>1. to.op = op /\ to.step = k /\ to.seen = None /\ to.pc = "authorize"
      BY <1>1, <1>2 DEF TaskRecord
    <3>2. task' = [task EXCEPT ![t] = to]
      BY <2>2, <1>1 DEF WriteRow, ConnectorTypeOK
    <3>3. to \in TaskRecord /\ k = 1
      BY <2>2, <1>1, <1>2, StepFacts DEF TaskRecord
    <3> HIDE DEF to
    <3> QED
      BY <2>2, <3>1, <3>2, <3>3
  <2>3. CASE k = Len(Steps[op]) /\ op \notin Calling
    <3>1. task' = [task EXCEPT ![t] = Idle]
      BY <2>3, <1>1 DEF WriteRow, ConnectorTypeOK
    <3> QED
      BY <2>3, <3>1, IdleIsTyped
  <2> QED
    BY <2>1, <2>2, <2>3
<1>7. task'[t] = to /\ \A u \in Tasks \ {t} : task'[u] = task[u]
  BY <1>6 DEF ConnectorTypeOK
<1>8. row' \in Rows \cup {None} /\ (row # None => row' # None) /\ (name # "seed" => row' # None)
  <2>1. CASE name = "seed" /\ origin = "dynamic"
    BY <2>1, <1>5 DEF ConnectorTypeOK
  <2>2. CASE ~(name = "seed" /\ origin = "dynamic")
    <3>1. Changed(name, seen) \in Rows
      <4>1. CASE seen = None
        BY <4>1, <1>4, SeedIsRow DEF Changed, ConnectorTypeOK
      <4>2. CASE seen # None
        BY <4>2, <1>4, ChangedIsRow DEF ConnectorTypeOK
      <4> QED
        BY <4>1, <4>2
    <3> QED
      BY <2>2, <3>1, <1>5, CatalogAssumption
  <2> QED
    BY <2>1, <2>2
<1>9. ConnectorTypeOK'
  <2>1. task' \in [Tasks -> TaskRecord] /\ sole' \in Tasks \cup {None}
    BY <1>5, <1>6 DEF ConnectorTypeOK
  <2>2. settled' \in {"no", "enabled", "disabled"}
    <3>1. CASE k = Len(Steps[op]) /\ sole = t /\ op # "validate"
      <4>1. op \notin Calling
        BY <3>1, <1>1 DEF SoleIsUndisturbed, Undisturbed
      <4>2. name = "managed"
        BY <3>1, <4>1, <1>4 DEF Operations, Calling
      <4> QED
        BY <3>1, <4>2, <1>3, <1>4, <1>5, StepFacts
    <3>2. CASE ~(k = Len(Steps[op]) /\ sole = t /\ op # "validate")
      BY <3>2, <1>5 DEF ConnectorTypeOK
    <3> QED
      BY <3>1, <3>2
  <2> QED
    BY <2>1, <2>2, <1>2, <1>8 DEF ConnectorTypeOK
<1>10. StepsTaken'
  <2> SUFFICES ASSUME NEW u \in Tasks
               PROVE  /\ task'[u].step \in 1 .. Len(Steps[task'[u].op])
                      /\ task'[u].pc = "write" /\ Steps[task'[u].op][task'[u].step] # "seed"
                           => task'[u].seen # None
                      /\ task'[u].pc \in {"idle", "authorize", "admit", "lease", "use", "run"}
                           => task'[u].op \in Calling
    BY DEF StepsTaken
  <2>1. CASE u = t
    <3>1. Len(Steps[op]) \in 1 .. 4 /\ Len(Steps["call"]) \in 1 .. 4
      BY StepFacts DEF Operations, Calling
    <3>2. CASE k # Len(Steps[op])
      BY <2>1, <3>1, <3>2, <1>4, <1>6, <1>7
    <3>3. CASE k = Len(Steps[op])
      <4>1. to.op \in Calling /\ to.step = 1 /\ to.pc \in {"idle", "authorize"}
        BY <3>3, <1>6
      <4>2. to.step \in 1 .. Len(Steps[to.op])
        <5>1. Len(Steps[to.op]) = 1
          BY <4>1, StepFacts DEF Operations, Calling
        <5> QED
          BY <4>1, <5>1
      <4> QED
        BY <2>1, <4>1, <4>2, <1>7
    <3> QED
      BY <3>2, <3>3
  <2>2. CASE u # t
    BY <2>2, <1>7 DEF StepsTaken
  <2> QED
    BY <2>1, <2>2
<1>11. SoleIsUndisturbed'
  <2> SUFFICES ASSUME sole' = t, sole = t, k # Len(Steps[op]) PROVE Undisturbed(t)'
    BY <1>5, CatalogAssumption DEF SoleIsUndisturbed
  <2>1. Undisturbed(t)
    BY DEF SoleIsUndisturbed
  <2>2. Alone(t)'
    BY <2>1, <1>7 DEF Alone, Undisturbed
  <2>3. op \notin Calling /\ to.pc = "read" /\ to.op = op /\ to.step = k + 1
    BY <2>1, <1>1, <1>6 DEF Undisturbed
  <2>4. Steps[op][k + 1] = "managed" => row' # None /\ row'.status = Steps[op][k + 1 - 1]
    <3> SUFFICES ASSUME Steps[op][k + 1] = "managed" PROVE row' # None /\ row'.status = name
      BY <1>3
    <3>1. k + 1 \in 1 .. Len(Steps[op]) /\ k + 1 - 1 = k
      BY <1>4, StepFacts
    <3>2. name \in {"enabled", "disabled"}
      BY <3>1, <1>3, StepFacts
    <3>3. Changed(name, seen).status = name
      BY <3>2, <1>4, ChangedIsRow DEF ConnectorTypeOK
    <3> QED
      BY <3>2, <3>3, <1>5, <1>8
  <2> QED
    BY <2>2, <2>3, <2>4, <1>7 DEF Undisturbed
<1>12. SettledStays'
  <2>1. CASE k = Len(Steps[op]) /\ sole = t /\ op # "validate"
    <3>1. Undisturbed(t) /\ op \notin Calling
      BY <2>1, <1>1 DEF SoleIsUndisturbed, Undisturbed
    <3>2. name = "managed"
      BY <2>1, <3>1, <1>4 DEF Operations, Calling
    <3>3. seen = row /\ row # None /\ row.status = Steps[op][k - 1] /\ seen \in Rows
      BY <3>1, <3>2, <1>1, <1>2, <1>3, <1>4 DEF Undisturbed
    <3>4. row' # None /\ row'.status = Steps[op][k - 1] /\ row'.managed
      BY <3>2, <3>3, <1>5, <1>8, ChangedIsRow DEF ConnectorTypeOK
    <3>5. \A u \in Tasks : task'[u].op \in Calling /\ task'[u].pc # "write"
      <4> SUFFICES ASSUME NEW u \in Tasks PROVE task'[u].op \in Calling /\ task'[u].pc # "write"
        OBVIOUS
      <4>1. CASE u = t
        BY <4>1, <2>1, <1>6, <1>7
      <4>2. CASE u # t
        BY <4>2, <3>1, <1>7 DEF Undisturbed, Alone, StepsTaken
      <4> QED
        BY <4>1, <4>2
    <3> QED
      BY <2>1, <3>4, <3>5, <1>5 DEF SettledStays
  <2>2. CASE ~(k = Len(Steps[op]) /\ sole = t /\ op # "validate")
    <3> SUFFICES ASSUME settled # "no" PROVE SettledStays'
      BY <2>2, <1>5 DEF SettledStays
    <3>1. op \in Calling /\ seen = row /\ row # None /\ row.managed /\ row \in Rows
      BY <1>1, <1>2 DEF SettledStays, ConnectorTypeOK
    <3>2. name = "seed" /\ k = Len(Steps[op])
      BY <3>1, <1>3, <1>4, StepFacts
    <3>3. row' = row
      BY <3>1, <3>2, <1>5, ChangedIsRow DEF ConnectorTypeOK
    <3> QED
      BY <2>2, <3>2, <3>3, <1>5, <1>6, <1>7 DEF SettledStays
  <2> QED
    BY <2>1, <2>2
<1> QED
  BY <1>9, <1>10, <1>11, <1>12

(* A registration of the connector. *)
LEMMA RegisterKeepsInv == ConnectorInv /\ RegisterConnector /\ UNCHANGED pool => ConnectorInv'
<1> SUFFICES ASSUME ConnectorInv, RegisterConnector, UNCHANGED pool PROVE ConnectorInv'
  OBVIOUS
<1> USE DEF ConnectorInv
<1>1. /\ origin = "dynamic" /\ row = None /\ row' \in Rows /\ row' # None
      /\ UNCHANGED <<origin, env, task, sole, settled, pooled, warm, lease>>
  <2>1. row' \in Rows
    BY DEF RegisterConnector, Rows
  <2> QED
    BY <2>1, CatalogAssumption DEF RegisterConnector, pool
<1>2. ConnectorTypeOK'
  BY <1>1 DEF ConnectorTypeOK
<1>3. StepsTaken'
  BY <1>1 DEF StepsTaken
<1>4. SoleIsUndisturbed'
  BY <1>1 DEF SoleIsUndisturbed, Undisturbed, Alone
<1>5. SettledStays'
  BY <1>1 DEF SettledStays
<1> QED
  BY <1>2, <1>3, <1>4, <1>5

(* A call past its seeding has no part in the catalog. *)
LEMMA CallKeepsInv ==
  ASSUME ConnectorInv, NEW t \in Tasks, NEW to \in TaskRecord, task' = [task EXCEPT ![t] = to],
         task[t].pc \in {"authorize", "admit", "lease", "use", "run"},
         to.pc \in {"idle", "admit", "lease", "use", "run"}, to.op \in Calling, to.step = 1,
         UNCHANGED <<origin, env, row, sole, settled, pooled>>,
         warm' \in {"none", "healthy", "silent", "dead"}, lease' \in Tasks \cup {None}
  PROVE  ConnectorInv'
<1> USE DEF ConnectorInv
<1>1. task'[t] = to /\ \A u \in Tasks \ {t} : task'[u] = task[u]
  BY DEF ConnectorTypeOK
<1>2. ConnectorTypeOK'
  BY DEF ConnectorTypeOK
<1>3. StepsTaken'
  BY <1>1, StepFacts DEF StepsTaken, Operations, Calling
<1>4. SoleIsUndisturbed'
  <2> SUFFICES ASSUME NEW u \in Tasks, sole = u PROVE Undisturbed(u)'
    BY DEF SoleIsUndisturbed
  <2>1. Undisturbed(u) /\ u # t
    BY DEF SoleIsUndisturbed, Undisturbed
  <2> QED
    BY <2>1, <1>1 DEF Undisturbed, Alone
<1>5. SettledStays'
  BY <1>1 DEF SettledStays
<1> QED
  BY <1>2, <1>3, <1>4, <1>5

(* Each step of a call after the seeding. *)
LEMMA CallStepKeepsInv == ASSUME ConnectorInv, NEW t \in Tasks, CallStep(t) PROVE ConnectorInv'
<1>1. task[t] \in TaskRecord /\ ConnectorTypeOK
  BY DEF ConnectorInv, ConnectorTypeOK
<1>2. ASSUME NEW place \in {"admit", "lease", "use", "run"}, Goto(t, place),
             task[t].pc \in {"authorize", "admit", "lease"}
      PROVE  \E to \in TaskRecord : /\ task' = [task EXCEPT ![t] = to]
                                    /\ to.pc = place /\ to.op \in Calling /\ to.step = 1
  <2> DEFINE to == [task[t] EXCEPT !.pc = place]
  <2>1. task[t].op \in Calling /\ task[t].step = 1
    BY <1>2, StepFacts DEF ConnectorInv, StepsTaken, Operations, Calling
  <2>2. to \in TaskRecord /\ to.pc = place /\ to.op \in Calling /\ to.step = 1
    BY <1>1, <2>1 DEF TaskRecord
  <2>3. task' = [task EXCEPT ![t] = to]
    BY <1>1, <1>2 DEF Goto, ConnectorTypeOK
  <2> QED
    BY <2>2, <2>3
<1>3. ASSUME Done(t), task[t].pc \in {"authorize", "admit", "lease", "use", "run"},
             UNCHANGED <<origin, env, row, sole, settled, pooled>>,
             warm' \in {"none", "healthy", "silent", "dead"}, lease' \in Tasks \cup {None}
      PROVE  ConnectorInv'
  BY <1>3, IdleIsTyped, CallKeepsInv DEF Done
<1>4. CASE Authorize(t)
  <2>1. Goto(t, "admit") \/ Done(t)
    BY <1>4 DEF Authorize
  <2> QED
    BY <1>1, <1>2, <1>3, <1>4, <2>1, CallKeepsInv DEF Authorize, ConnectorTypeOK
<1>5. CASE AdmitCall(t)
  <2>1. Goto(t, "lease") \/ Done(t)
    BY <1>5 DEF AdmitCall
  <2> QED
    BY <1>1, <1>2, <1>3, <1>5, <2>1, CallKeepsInv DEF AdmitCall, ConnectorTypeOK
<1>6. CASE Lease(t)
  <2>1. CASE Goto(t, "use")
    BY <1>1, <1>2, <1>6, <2>1, CallKeepsInv DEF Lease, ConnectorTypeOK
  <2>2. CASE Done(t)
    BY <1>1, <1>3, <1>6, <2>2 DEF Lease, ConnectorTypeOK
  <2> QED
    BY <1>6, <2>1, <2>2 DEF Lease
<1>7. CASE Release(t)
  BY <1>1, <1>3, <1>7 DEF Release, ConnectorTypeOK
<1>8. CASE InvokeStateless(t)
  BY <1>1, <1>3, <1>8 DEF InvokeStateless, ConnectorTypeOK
<1>9. CASE InvokeNative(t)
  BY <1>1, <1>2, <1>9, CallKeepsInv DEF InvokeNative, ConnectorTypeOK
<1>10. CASE EndNative(t)
  BY <1>1, <1>3, <1>10 DEF EndNative, ConnectorTypeOK
<1> QED
  BY <1>4, <1>5, <1>6, <1>7, <1>8, <1>9, <1>10 DEF CallStep

(* Every step of ConnectorCalls keeps the invariant. *)
LEMMA ConnectorStepInv == ConnectorInv /\ [ConnectorNext]_connector => ConnectorInv'
<1> SUFFICES ASSUME ConnectorInv, [ConnectorNext]_connector PROVE ConnectorInv'
  OBVIOUS
<1>1. CASE RegisterConnector /\ UNCHANGED pool
  BY <1>1, RegisterKeepsInv
<1>2. CASE BackendDies \/ BackendHangs
  BY <1>2
     DEF BackendDies, BackendHangs, ConnectorInv, ConnectorTypeOK, StepsTaken, SoleIsUndisturbed, Undisturbed,
         Alone, SettledStays
<1>3. ASSUME NEW t \in Tasks, CatalogStep(t), UNCHANGED pool PROVE ConnectorInv'
  BY <1>3, StartKeepsInv, ReadKeepsInv, DiscoveryKeepsInv, WriteKeepsInv DEF CatalogStep
<1>4. ASSUME NEW t \in Tasks, CallStep(t) PROVE ConnectorInv'
  BY <1>4, CallStepKeepsInv
<1>5. CASE UNCHANGED connector
  BY <1>5
     DEF connector, ConnectorInv, ConnectorTypeOK, StepsTaken, SoleIsUndisturbed, Undisturbed, Alone,
         SettledStays
<1> QED
  BY <1>1, <1>2, <1>3, <1>4, <1>5 DEF ConnectorNext

(* So it holds in every state. *)
LEMMA ConnectorInvariance == ConnectorSpec => []ConnectorInv
BY ConnectorInitInv, ConnectorStepInv, PTL DEF ConnectorSpec

(* ConnectorCalls's variables keep their types. *)
THEOREM ConnectorTypeCorrect == ConnectorSpec => []ConnectorTypeOK
BY ConnectorInvariance, PTL DEF ConnectorInv

(* "Preserve operator intent" (_upsert_seed): what an enable or a disable has left stays whatever *)
(* seeding starts afterwards; of a decision that no other task overlapped, like the property.     *)
THEOREM DecisionsStay == ConnectorSpec => []IntentSurvivesSeeding
<1>1. ConnectorInv => IntentSurvivesSeeding
  BY DEF ConnectorInv, SettledStays, IntentSurvivesSeeding
<1> QED
  BY <1>1, ConnectorInvariance, PTL

(* Once its connector is disabled no call is authorized, and of those authorized before only      *)
(* native actions still run: none is admitted to the backend (assert_profile_access, invoke).     *)
THEOREM DisabledAdmitsNoCall == ConnectorSpec => DisabledIsOff
<1> DEFINE Passes(t) == task[t].pc # task'[t].pc /\ task'[t].pc \in {"admit", "lease"}
<1>1. ConnectorInv /\ [ConnectorNext]_connector =>
        [\A t \in Tasks : Passes(t) => settled # "disabled"]_connector
  <2> SUFFICES ASSUME ConnectorInv, [ConnectorNext]_connector, NEW t \in Tasks, Passes(t),
                      settled = "disabled"
               PROVE  FALSE
    OBVIOUS
  <2>1. row # None /\ row.status = "disabled"
    BY DEF ConnectorInv, SettledStays
  <2>2. ~Access(t)
    BY <2>1 DEF Access
  <2> QED
    <3>1. task \in [Tasks -> TaskRecord]
      BY DEF ConnectorInv, ConnectorTypeOK
    <3>2. ASSUME NEW u \in Tasks, CatalogStep(u) PROVE FALSE
      <4>1. ASSUME NEW to, task' = [task EXCEPT ![u] = to], to.pc \notin {"admit", "lease"} PROVE FALSE
        BY <3>1, <4>1
      <4>2. CASE \E op \in Operations : StartTask(u, op)
        BY <4>1, <4>2 DEF StartTask, Idle
      <4>3. CASE ReadRow(u)
        BY <3>1, <4>1, <4>3, IdleIsTyped DEF ReadRow, TaskRecord
      <4>4. CASE DiscoveryFails(u)
        BY <4>1, <4>4, IdleIsTyped DEF DiscoveryFails
      <4>5. CASE WriteRow(u)
        <5> DEFINE On == [task[u] EXCEPT !.pc = "read", !.step = task[u].step + 1, !.seen = None]
        <5> DEFINE Over == [task[u] EXCEPT !.pc = "authorize", !.seen = None]
        <5>1. On.pc = "read" /\ Over.pc = "authorize"
          BY <3>1 DEF TaskRecord
        <5>2. \E to \in {On, Over, Idle} : task' = [task EXCEPT ![u] = to]
          BY <3>1, <4>5 DEF WriteRow
        <5> HIDE DEF On, Over
        <5> QED
          BY <4>1, <5>1, <5>2, IdleIsTyped
      <4> QED
        BY <3>2, <4>2, <4>3, <4>4, <4>5 DEF CatalogStep
    <3>3. ASSUME NEW u \in Tasks, CallStep(u) PROVE FALSE
      <4>1. CASE u # t
        BY <3>1, <3>3, <4>1
           DEF CallStep, Authorize, AdmitCall, InvokeNative, EndNative, Lease, Release,
               InvokeStateless, Goto, Done
      <4>2. CASE u = t
        <5>1. Done(t) => task'[t] = Idle
          BY <3>1 DEF Done
        <5>2. Authorize(t) \/ AdmitCall(t) => Done(t)
          BY <2>2 DEF Authorize, AdmitCall
        <5>3. \A place \in {"use", "run"} : Goto(t, place) => task'[t].pc = place
          BY <3>1 DEF Goto, TaskRecord
        <5> QED
          BY <3>3, <4>2, <5>1, <5>2, <5>3, IdleIsTyped
             DEF CallStep, InvokeNative, EndNative, Lease, Release, InvokeStateless
      <4> QED
        BY <4>1, <4>2
    <3>4. CASE RegisterConnector \/ BackendDies \/ BackendHangs \/ UNCHANGED connector
      BY <3>4 DEF RegisterConnector, BackendDies, BackendHangs, connector
    <3> QED
      BY <3>2, <3>3, <3>4 DEF ConnectorNext
<1> QED
  BY <1>1, ConnectorInvariance, PTL DEF ConnectorSpec, DisabledIsOff
=============================================================================
