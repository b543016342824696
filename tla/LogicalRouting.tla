---------------------------- MODULE LogicalRouting ----------------------------
(***************************************************************************)
(* Calls of one logical capability, routed over the accounts that offer it  *)
(* (ProxyManager._call_logical_tool in src/kater/proxy/manager.py, with the *)
(* SQLite tables of src/kater/control_plane/store.py and the ranking of     *)
(* src/kater/control_plane/routing.py).                                     *)
(*                                                                          *)
(* Each store function is one transaction and one step; between two of them *)
(* other calls, other processes (the kater-routes command) and time run.    *)
(* Each account has a backend of its own.  The clock is what is left of     *)
(* each deadline, as in CircuitBreaker.  Left out: scopes and schemas (they *)
(* only remove accounts from the list), more than one context, and the      *)
(* score: its latency and concurrency terms make any order possible, so     *)
(* the order of the eligible accounts is arbitrary.                         *)
(***************************************************************************)
EXTENDS CircuitBreaker, Sequences, FiniteSets

CONSTANTS Threads,         \* threads that serve calls
          Accounts,        \* account ids
          None,            \* no account
          MaxConcurrent,   \* max_concurrent of every account
          Limit,           \* limit of a quota window, in calls of one unit
          WindowLength,    \* ticks until a window resets
          Never,           \* resets_at IS NULL
          Plans            \* bounds, one of which a behaviour keeps to

(* The accounts there are and those that have a quota window; the failed    *)
(* attempts, the edits by the operator, the restarts of the proxy.          *)
Plan == [accounts : SUBSET Accounts, metered : SUBSET Accounts,
         faults : Nat, edits : Nat, restarts : Nat]

ASSUME RoutingAssumption ==
  /\ IsFiniteSet(Threads) /\ Threads # {} /\ IsFiniteSet(Accounts)
  /\ None \notin Accounts
  /\ MaxConcurrent \in Nat \ {0}
  /\ Limit \in Nat
  /\ WindowLength \in Nat \ {0} /\ Never \notin 0 .. WindowLength
  /\ Plans \subseteq Plan

VARIABLES cand,       \* control_route_candidates and control_quota_windows
          aff,        \* control_route_affinity: the account of the context
          inflight,   \* _route_in_flight
          breaker,    \* the breaker of each account's backend
          pc, elig, queue, outcome, stale,   \* the calls
          answer,     \* what the last call of a thread returned
          plan, faults, edits, restarts,
          wanted,     \* history: the state the operator last gave an account
          granted     \* history: calls charged since the window was fresh

callVars == <<pc, elig, queue, outcome, stale, answer>>
budgets  == <<plan, faults, edits, restarts>>
history  == <<wanted, granted>>
vars     == <<cand, aff, inflight, breaker, callVars, budgets, history>>

AccountState == {"active", "cooldown", "exhausted", "disabled"}

Candidate == [state : AccountState, until : 0 .. RecoveryTimeout,
              used : 0 .. Limit, resets : 0 .. WindowLength \cup {Never},
              present : BOOLEAN]

(* Where a call is: what it has listed, the account it tries (the head of   *)
(* its queue), and the transactions that remain after an attempt.           *)
Places == {"idle", "listed", "trying", "reserved", "calling", "sent", "release",
           "charge", "activate", "pin", "unpin", "cool"}

TypeOK ==
  /\ cand \in [Accounts -> Candidate]
  /\ aff \in Accounts \cup {None}
  /\ inflight \in [Accounts -> 0 .. Cardinality(Threads)]
  /\ breaker \in [Accounts -> Breaker]
  /\ pc \in [Threads -> Places]
  /\ elig \in [Threads -> SUBSET Accounts]
  /\ \A t \in Threads : queue[t] \in Seq(Accounts) /\ Len(queue[t]) <= Cardinality(Accounts)
  /\ outcome \in [Threads -> {"none", "ok", "failed", "unsent"}]
  /\ stale \in [Threads -> BOOLEAN]
  /\ answer \in [Threads -> {"none", "ok", "error"}]
  /\ plan \in Plans
  /\ faults \in 0 .. plan.faults /\ edits \in 0 .. plan.edits
  /\ restarts \in 0 .. plan.restarts
  /\ wanted \in [Accounts -> AccountState]
  /\ granted \in [Accounts -> Nat]

FreshCandidate(st) == [state |-> st, until |-> 0, used |-> 0,
                       resets |-> WindowLength, present |-> TRUE]

Init ==
  /\ plan \in Plans
  /\ cand = [a \in Accounts |-> [FreshCandidate("active") EXCEPT
                                   !.present = a \in plan.accounts]]
  /\ aff = None
  /\ inflight = [a \in Accounts |-> 0]
  /\ breaker = [a \in Accounts |-> NewBreaker]
  /\ pc = [t \in Threads |-> "idle"]
  /\ elig = [t \in Threads |-> {}]
  /\ queue = [t \in Threads |-> << >>]
  /\ outcome = [t \in Threads |-> "none"]
  /\ stale = [t \in Threads |-> FALSE]
  /\ answer = [t \in Threads |-> "none"]
  /\ faults = 0 /\ edits = 0 /\ restarts = 0
  /\ wanted = [a \in Accounts |-> "active"]
  /\ granted = [a \in Accounts |-> 0]

-------------------------------------------------------------------------------
(* Eligibility, from the row of an account (models.py and routing.py).      *)

EffectiveStateAsStored(c, metered) == c.state

EffectiveState(c, metered) ==
  IF \/ c.state = "cooldown" /\ c.until = 0
     \/ c.state = "exhausted" /\ metered /\ c.resets = 0
  THEN "active" ELSE c.state

Remaining(c) == IF c.resets = 0 THEN Limit ELSE Limit - c.used

Eligible(a) ==
  LET c == cand[a]
  IN  /\ c.present
      /\ EffectiveState(c, a \in plan.metered) = "active"
      /\ a \in plan.metered => Remaining(c) >= 1

(* All orders of a set of accounts, with the pinned account first if it is  *)
(* among them: the ranking is sorted stably on the affinity.                *)
Orders(S) == {q \in [1 .. Cardinality(S) -> S] : \A i, j \in DOMAIN q : q[i] = q[j] => i = j}

Ranked(S, pinned) == {q \in Orders(S) : pinned \in S => q[1] = pinned}

Current(t) == Head(queue[t])

-------------------------------------------------------------------------------
(* The calls. *)

Return(t, result) ==
  /\ pc' = [pc EXCEPT ![t] = "idle"]
  /\ elig' = [elig EXCEPT ![t] = {}]
  /\ queue' = [queue EXCEPT ![t] = << >>]
  /\ outcome' = [outcome EXCEPT ![t] = "none"]
  /\ stale' = [stale EXCEPT ![t] = FALSE]
  /\ answer' = [answer EXCEPT ![t] = result]

Goto(t, place) == pc' = [pc EXCEPT ![t] = place]

(* list_route_candidates: an unknown capability is an error at once. *)
List(t) ==
  /\ pc[t] = "idle"
  /\ IF \E a \in Accounts : cand[a].present
     THEN /\ Goto(t, "listed")
          /\ elig' = [elig EXCEPT ![t] = {a \in Accounts : Eligible(a)}]
          /\ UNCHANGED <<queue, outcome, stale, answer>>
     ELSE Return(t, "error")
  /\ UNCHANGED <<cand, aff, inflight, breaker, budgets, history>>

(* The in-flight counts and the affinity are read and the rest is ranked. *)
Rank(t) ==
  LET open == {a \in elig[t] : inflight[a] < MaxConcurrent}
  IN  /\ pc[t] = "listed"
      /\ IF open = {}
         THEN Return(t, "error")
         ELSE /\ Goto(t, "trying")
              /\ \E q \in Ranked(open, aff) : queue' = [queue EXCEPT ![t] = q]
              /\ elig' = [elig EXCEPT ![t] = {}]
              /\ UNCHANGED <<outcome, stale, answer>>
      /\ UNCHANGED <<cand, aff, inflight, breaker, budgets, history>>

(* The current account is left: the next one is tried, if any. *)
NextAccount(t) ==
  IF Len(queue[t]) > 1
  THEN /\ Goto(t, "trying")
       /\ queue' = [queue EXCEPT ![t] = Tail(@)]
       /\ outcome' = [outcome EXCEPT ![t] = "none"]
       /\ UNCHANGED <<elig, stale, answer>>
  ELSE Return(t, "error")

(* Under _route_lock: take a slot, or pass the account over. *)
Reserve(t) ==
  /\ pc[t] = "trying"
  /\ IF inflight[Current(t)] < MaxConcurrent
     THEN /\ inflight' = [inflight EXCEPT ![Current(t)] = @ + 1]
          /\ Goto(t, "reserved")
          /\ UNCHANGED <<elig, queue, outcome, stale, answer>>
     ELSE NextAccount(t) /\ UNCHANGED inflight
  /\ UNCHANGED <<cand, aff, breaker, budgets, history>>

(* The attempt is over, with a breaker b for its account. *)
Attempted(t, result, b) ==
  /\ Goto(t, "release")
  /\ outcome' = [outcome EXCEPT ![t] = result]
  /\ breaker' = IF stale[t] THEN breaker ELSE [breaker EXCEPT ![Current(t)] = b]
  /\ stale' = [stale EXCEPT ![t] = FALSE]
  /\ UNCHANGED <<elig, queue, answer>>

Fault == faults < plan.faults /\ faults' = faults + 1

(* _call_backend up to the dispatch. *)
Refused(t) ==
  LET b == MaybeHalfOpen(breaker[Current(t)])
  IN  /\ pc[t] = "reserved"
      /\ ~Admits(b)
      /\ Attempted(t, "unsent", b)
      /\ UNCHANGED <<cand, aff, inflight, budgets, history>>

Unreachable(t) ==
  LET b == MaybeHalfOpen(breaker[Current(t)])
  IN  /\ pc[t] = "reserved"
      /\ Admits(b)
      /\ Fault
      /\ Attempted(t, "unsent", RecordFailure(AfterAdmission(b)))
      /\ UNCHANGED <<cand, aff, inflight, plan, edits, restarts, history>>

Dispatch(t) ==
  LET b == MaybeHalfOpen(breaker[Current(t)])
  IN  /\ pc[t] = "reserved"
      /\ Admits(b)
      /\ breaker' = [breaker EXCEPT ![Current(t)] = AfterAdmission(b)]
      /\ Goto(t, "calling")
      /\ UNCHANGED <<elig, queue, outcome, stale, answer>>
      /\ UNCHANGED <<cand, aff, inflight, budgets, history>>

(* The request leaves: from here on the upstream may run it. *)
Send(t) ==
  /\ pc[t] = "calling"
  /\ Goto(t, "sent")
  /\ UNCHANGED <<elig, queue, outcome, stale, answer>>
  /\ UNCHANGED <<cand, aff, inflight, breaker, budgets, history>>

(* A result; or a business error, which the breaker takes for a success and *)
(* the router for a failure.                                                *)
Succeeded(t) ==
  /\ pc[t] = "sent"
  /\ Attempted(t, "ok", RecordSuccess(breaker[Current(t)]))
  /\ UNCHANGED <<cand, aff, inflight, budgets, history>>

BusinessError(t) ==
  /\ pc[t] = "sent"
  /\ Fault
  /\ Attempted(t, "failed", RecordSuccess(breaker[Current(t)]))
  /\ UNCHANGED <<cand, aff, inflight, plan, edits, restarts, history>>

(* A transport error marked fallback_safe: the backend found itself not     *)
(* connected, before it sent anything.                                      *)
NotSent(t) ==
  /\ pc[t] = "calling"
  /\ Fault
  /\ Attempted(t, "unsent", RecordFailure(breaker[Current(t)]))
  /\ UNCHANGED <<cand, aff, inflight, plan, edits, restarts, history>>

BrokenAsUnsent(t) ==
  /\ pc[t] \in {"calling", "sent"}
  /\ Fault
  /\ Attempted(t, "unsent", RecordFailure(breaker[Current(t)]))
  /\ UNCHANGED <<cand, aff, inflight, plan, edits, restarts, history>>

(* Any other transport error or exception, before or after the request left. *)
Broken(t) ==
  /\ pc[t] \in {"calling", "sent"}
  /\ Fault
  /\ Attempted(t, "failed", RecordFailure(breaker[Current(t)]))
  /\ UNCHANGED <<cand, aff, inflight, plan, edits, restarts, history>>

ReleaseKeepingUnsent(t) ==
  LET a == Current(t)
  IN  /\ pc[t] = "release"
      /\ inflight' = [inflight EXCEPT ![a] = IF outcome[t] = "unsent" THEN @ ELSE @ - 1]
      /\ CASE outcome[t] = "ok" -> Goto(t, "charge")
                                   /\ UNCHANGED <<elig, queue, outcome, stale, answer>>
           [] outcome[t] = "unsent" -> Goto(t, "unpin")
                                       /\ UNCHANGED <<elig, queue, outcome, stale, answer>>
           [] OTHER -> Return(t, "error")
      /\ UNCHANGED <<cand, aff, breaker, budgets, history>>

(* The slot is given back; a result that is neither a success nor safe to   *)
(* repeat elsewhere is the answer of the call.                              *)
Release(t) ==
  LET a == Current(t)
  IN  /\ pc[t] = "release"
      /\ inflight' = [inflight EXCEPT ![a] = IF @ > 0 THEN @ - 1 ELSE 0]
      /\ \/ /\ outcome[t] = "ok"
            /\ Goto(t, "charge")
            /\ UNCHANGED <<elig, queue, outcome, stale, answer>>
         \/ /\ outcome[t] = "unsent"
            /\ Goto(t, "unpin")
            /\ UNCHANGED <<elig, queue, outcome, stale, answer>>
         \/ /\ outcome[t] = "failed"
            /\ Return(t, "error")
      /\ UNCHANGED <<cand, aff, breaker, budgets, history>>

-------------------------------------------------------------------------------
(* The bookkeeping after a success: three transactions, any of which may    *)
(* fail and end it; the caller gets the result all the same.                *)

ChargedKeepingReset(c) ==
  IF c.resets = 0
  THEN [c EXCEPT !.used = IF Limit > 0 THEN 1 ELSE 0]
  ELSE [c EXCEPT !.used = IF @ < Limit THEN @ + 1 ELSE @]

Charged(c) ==
  IF c.resets = 0
  THEN [c EXCEPT !.used = IF Limit > 0 THEN 1 ELSE 0, !.resets = Never]
  ELSE [c EXCEPT !.used = IF @ < Limit THEN @ + 1 ELSE @]

Charge(t) ==
  LET a == Current(t)
  IN  /\ pc[t] = "charge"
      /\ IF cand[a].present /\ a \in plan.metered
         THEN /\ cand' = [cand EXCEPT ![a] = Charged(@)]
              /\ granted' = [granted EXCEPT ![a] = @ + 1]
         ELSE UNCHANGED <<cand, granted>>
      /\ Goto(t, "activate")
      /\ UNCHANGED <<elig, queue, outcome, stale, answer>>
      /\ UNCHANGED <<aff, inflight, breaker, budgets, wanted>>

Activate(t) ==
  LET a == Current(t)
  IN  /\ pc[t] = "activate"
      /\ cand' = IF cand[a].present
                 THEN [cand EXCEPT ![a].state = "active", ![a].until = 0]
                 ELSE cand
      /\ Goto(t, "pin")
      /\ UNCHANGED <<elig, queue, outcome, stale, answer>>
      /\ UNCHANGED <<aff, inflight, breaker, budgets, history>>

Pin(t) ==
  /\ pc[t] = "pin"
  /\ aff' = Current(t)
  /\ Return(t, "ok")
  /\ UNCHANGED <<cand, inflight, breaker, budgets, history>>

BookkeepingFails(t) ==
  /\ pc[t] \in {"charge", "activate", "pin"}
  /\ Fault
  /\ Return(t, "ok")
  /\ UNCHANGED <<cand, aff, inflight, breaker, plan, edits, restarts, history>>

(* The same transactions after an attempt that sent nothing: an error in    *)
(* one of them is the answer of the call.                                   *)
FallbackFails(t) ==
  /\ pc[t] \in {"unpin", "cool"}
  /\ Fault
  /\ Return(t, "error")
  /\ UNCHANGED <<cand, aff, inflight, breaker, plan, edits, restarts, history>>

(* After an attempt that sent nothing: unpin the account, put it in         *)
(* cooldown, try the next.                                                  *)
Unpin(t) ==
  /\ pc[t] = "unpin"
  /\ aff' = IF aff = Current(t) THEN None ELSE aff
  /\ Goto(t, "cool")
  /\ UNCHANGED <<elig, queue, outcome, stale, answer>>
  /\ UNCHANGED <<cand, inflight, breaker, budgets, history>>

Cool(t) ==
  LET a == Current(t)
  IN  /\ pc[t] = "cool"
      /\ cand' = IF cand[a].present
                 THEN [cand EXCEPT ![a].state = "cooldown", ![a].until = RecoveryTimeout]
                 ELSE cand
      /\ NextAccount(t)
      /\ UNCHANGED <<aff, inflight, breaker, budgets, history>>

-------------------------------------------------------------------------------
(* The operator edits the tables from another process (kater-routes).       *)

Upsert(a, st) ==
  /\ edits < plan.edits
  /\ edits' = edits + 1
  /\ cand' = [cand EXCEPT ![a] = FreshCandidate(st)]
  /\ wanted' = [wanted EXCEPT ![a] = st]
  /\ granted' = [granted EXCEPT ![a] = 0]
  /\ UNCHANGED <<aff, inflight, breaker, callVars, plan, faults, restarts>>

Remove(a) ==
  /\ edits < plan.edits
  /\ edits' = edits + 1
  /\ cand' = [cand EXCEPT ![a].present = FALSE]
  /\ aff' = IF aff = a THEN None ELSE aff
  /\ UNCHANGED <<inflight, breaker, callVars, plan, faults, restarts, history>>

(* The affinity row expires or is trimmed. *)
Forget ==
  /\ aff # None
  /\ aff' = None
  /\ UNCHANGED <<cand, inflight, breaker, callVars, budgets, history>>

(* stop and start of the proxy: the counts are forgotten and every breaker  *)
(* is a new object; the calls in progress keep the old one.                 *)
Restart ==
  /\ restarts < plan.restarts
  /\ restarts' = restarts + 1
  /\ inflight' = [a \in Accounts |-> 0]
  /\ breaker' = [a \in Accounts |-> NewBreaker]
  /\ stale' = [t \in Threads |-> stale[t] \/ pc[t] \in {"calling", "sent"}]
  /\ UNCHANGED <<cand, aff, pc, elig, queue, outcome, answer, plan, faults, edits, history>>

Sooner(n) == IF n = Never \/ n = 0 THEN n ELSE n - 1

(* Time passes; a window that becomes due is fresh again. *)
Tick ==
  /\ \E a \in Accounts : \/ breaker[a].wait > 0
                         \/ cand[a].until > 0
                         \/ a \in plan.metered /\ cand[a].resets \notin {0, Never}
  /\ breaker' = [a \in Accounts |-> Elapse(breaker[a])]
  /\ cand' = [a \in Accounts |->
                [cand[a] EXCEPT !.until = Sooner(@),
                                !.resets = IF a \in plan.metered THEN Sooner(@) ELSE @]]
  /\ granted' = [a \in Accounts |->
                   IF cand[a].resets # 0 /\ cand'[a].resets = 0 THEN 0 ELSE granted[a]]
  /\ UNCHANGED <<aff, inflight, callVars, budgets, wanted>>

-------------------------------------------------------------------------------
Step(t) == \/ Rank(t) \/ Reserve(t)
           \/ Refused(t) \/ Unreachable(t) \/ Dispatch(t) \/ Send(t)
           \/ Succeeded(t) \/ BusinessError(t) \/ Broken(t) \/ NotSent(t)
           \/ Release(t) \/ Charge(t) \/ Activate(t) \/ Pin(t)
           \/ BookkeepingFails(t) \/ FallbackFails(t) \/ Unpin(t) \/ Cool(t)

Operate == \E a \in plan.accounts : \/ \E st \in {"active", "exhausted", "disabled"} : Upsert(a, st)
                               \/ Remove(a)

Next == \/ \E t \in Threads : List(t) \/ Step(t)
        \/ Operate \/ Forget \/ Restart \/ Tick

Spec == Init /\ [][Next]_vars

FairSpec == /\ Spec
            /\ WF_vars(Tick)
            /\ \A t \in Threads : WF_vars(List(t)) /\ WF_vars(Step(t))

-------------------------------------------------------------------------------
Holding(a) == {t \in Threads : /\ pc[t] \in {"reserved", "calling", "sent", "release"}
                               /\ Current(t) = a}

(* No slot of an account is counted that no call holds, so none is leaked   *)
(* by an attempt that failed, and until the proxy is restarted, which       *)
(* forgets the slots of the calls in progress, none is given back twice     *)
(* ("Atomic check-and-reserve against max_concurrent", manager.py).         *)
SlotsAccounted ==
  \A a \in Accounts : /\ inflight[a] <= Cardinality(Holding(a))
                      /\ restarts = 0 => inflight[a] = Cardinality(Holding(a))

(* Eligibility is read long before the charge, so a window can be exceeded; *)
(* but by no more than one call for each other call in progress, however    *)
(* listings, charges and resets interleave (consume_quota).                 *)
OvershootBounded ==
  \A a \in plan.metered : granted[a] <= Limit + Cardinality(Threads) - 1

(* An account the operator has disabled is not eligible for a call that     *)
(* lists the candidates afterwards: "Disabled, active-cooldown and          *)
(* non-reset exhausted candidates are ineligible"                           *)
(* (kater-control-plane-wave.md).  No run checks it: a call in progress     *)
(* writes its own state over the operator's (Activate, Cool).               *)
DisabledIsIneligible ==
  [][\A t \in Threads : pc[t] = "idle" /\ pc'[t] = "listed" =>
       \A a \in elig'[t] : wanted[a] # "disabled"]_vars

(* A call goes elsewhere only if its request has not left for any upstream, *)
(* whatever the error was called, and it answers success exactly when an    *)
(* upstream succeeded, with failing bookkeeping, edits and restarts in      *)
(* between.                                                                 *)
Phase(t) ==
  IF pc[t] \in {"idle", "sent"} THEN pc[t]
  ELSE CASE outcome[t] = "ok" -> "done"
         [] outcome[t] = "failed" -> "unclear"
         [] OTHER -> "open"

Promise == INSTANCE RoutedCall WITH phase <- [t \in Threads |-> Phase(t)]

RefinesRoutedCall == Promise!Spec

(* An account the operator has removed or taken out, or whose quota is used *)
(* up, need not serve: a window that has been reset once never is again     *)
(* (consume_quota sets resets_at to NULL).                                  *)
Barred(a) == \/ ~ cand[a].present
             \/ wanted[a] # "active"
             \/ a \in plan.metered /\ Remaining(cand[a]) = 0

(* When failures stop, calls succeed again and again, until the operator or *)
(* the quota says otherwise: neither a cooldown, an open breaker, a lost    *)
(* probe nor a lost slot keeps an account out for ever.                     *)
ServesAgain ==
  \/ []<>(\E t \in Threads : pc[t] = "pin")
  \/ <>[](\A a \in Accounts : Barred(a))
===============================================================================
