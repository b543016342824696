------------------------- MODULE LogicalRouting_proofs -------------------------
(***************************************************************************)
(* Safety of LogicalRouting for every number of threads and accounts, every *)
(* concurrency limit, quota and recovery time, and the refinement of        *)
(* RoutedCall.                                                              *)
(*                                                                          *)
(* All of it rests on where a call can be with which outcome and which      *)
(* accounts left to try (CallsSound).  The slots then follow by counting    *)
(* holders.  The overshoot of a window follows from two facts: the row      *)
(* counts the calls granted up to its limit (QuotaSound), and the calls     *)
(* that may still charge the account only become fewer once it is used up   *)
(* (ViewsBounded).                                                          *)
(***************************************************************************)
EXTENDS LogicalRouting, FiniteSetTheorems, SequenceTheorems, TLAPS

(* The calls: the accounts left to try, and what the outcome can be where.  *)
CallsTyped ==
  /\ pc \in [Threads -> Places]
  /\ elig \in [Threads -> SUBSET Accounts]
  /\ queue \in [Threads -> Seq(Accounts)]
  /\ outcome \in [Threads -> {"none", "ok", "failed", "unsent"}]
  /\ stale \in [Threads -> BOOLEAN]
  /\ answer \in [Threads -> {"none", "ok", "error"}]

CallSound(t) ==
  /\ Len(queue[t]) <= Cardinality(Accounts)
  /\ pc[t] \notin {"idle", "listed"} => queue[t] # << >>
  /\ pc[t] # "listed" => elig[t] = {}
  /\ pc[t] \in {"idle", "listed", "trying", "reserved", "calling", "sent"} => outcome[t] = "none"
  /\ pc[t] = "release" => outcome[t] # "none"
  /\ pc[t] \in {"charge", "activate", "pin"} => outcome[t] = "ok"
  /\ pc[t] \in {"unpin", "cool"} => outcome[t] = "unsent"

CallsSound == CallsTyped /\ \A t \in Threads : CallSound(t)

(* The rows: the count of a window is that of the calls it granted, up to   *)
(* its limit, and starts again when the window is due.                      *)
RowsTyped ==
  /\ cand \in [Accounts -> Candidate]
  /\ aff \in Accounts \cup {None}
  /\ plan \in Plans
  /\ faults \in 0 .. plan.faults /\ edits \in 0 .. plan.edits
  /\ restarts \in 0 .. plan.restarts
  /\ wanted \in [Accounts -> AccountState]
  /\ granted \in [Accounts -> Nat]

QuotaSound ==
  \A a \in Accounts :
    /\ cand[a].resets = 0 => granted[a] = 0
    /\ cand[a].resets # 0 => cand[a].used = IF granted[a] <= Limit THEN granted[a] ELSE Limit

BreakersTyped == breaker \in [Accounts -> Breaker]

Sound == CallsSound /\ RowsTyped /\ QuotaSound /\ BreakersTyped

-------------------------------------------------------------------------------
(* The breaker's methods keep their type. *)
LEMMA BreakerMethods ==
  ASSUME NEW b \in Breaker
  PROVE  /\ Elapse(b) \in Breaker /\ MaybeHalfOpen(b) \in Breaker
         /\ AfterAdmission(b) \in Breaker
         /\ RecordSuccess(b) \in Breaker /\ RecordFailure(b) \in Breaker
<1>1. Elapse(b) \in Breaker
  BY BreakerAssumption DEF Breaker, BreakerState, Elapse
<1>2. MaybeHalfOpen(b) \in Breaker
  BY BreakerAssumption DEF Breaker, BreakerState, MaybeHalfOpen
<1>3. AfterAdmission(b) \in Breaker
  BY BreakerAssumption DEF Breaker, BreakerState, AfterAdmission
<1>4. RecordSuccess(b) \in Breaker
  BY BreakerAssumption DEF Breaker, BreakerState, RecordSuccess
<1>5. OneMoreFailure(b) \in Breaker
  BY BreakerAssumption DEF Breaker, OneMoreFailure
<1>6. Opened(OneMoreFailure(b)) \in Breaker
  BY <1>5, BreakerAssumption DEF Breaker, BreakerState, Opened
<1> QED BY <1>1, <1>2, <1>3, <1>4, <1>5, <1>6 DEF RecordFailure

(* A new breaker is one. *)
LEMMA NewBreakerTyped == NewBreaker \in Breaker
  BY BreakerAssumption DEF Breaker, BreakerState, NewBreaker

(* A ranking of some accounts is a sequence of them. *)
LEMMA RankedIsSeq ==
  ASSUME NEW S \in SUBSET Accounts, S # {}, NEW pinned, NEW q \in Ranked(S, pinned)
  PROVE  /\ q \in Seq(Accounts) /\ q # << >> /\ Len(q) <= Cardinality(Accounts)
         /\ \A i \in 1 .. Len(q) : q[i] \in S
<1>1. IsFiniteSet(S) /\ Cardinality(S) <= Cardinality(Accounts)
  BY FS_Subset, RoutingAssumption
<1>2. Cardinality(S) \in Nat /\ Cardinality(S) # 0
  BY <1>1, FS_CardinalityType, FS_EmptySet
<1>3. q \in [1 .. Cardinality(S) -> S]
  BY DEF Ranked, Orders
<1>4. q \in Seq(S) /\ Len(q) = Cardinality(S)
  BY <1>2, <1>3
<1> QED BY <1>1, <1>2, <1>4

(* What is left of a list of more than one account. *)
LEMMA TailSound ==
  ASSUME NEW s \in Seq(Accounts), Len(s) > 1
  PROVE  /\ Tail(s) \in Seq(Accounts) /\ Len(Tail(s)) = Len(s) - 1 /\ Tail(s) # << >>
         /\ \A i \in 1 .. Len(Tail(s)) : i + 1 \in 1 .. Len(s) /\ Tail(s)[i] = s[i + 1]
<1>1. s # << >>
  OBVIOUS
<1>2. Tail(s) \in Seq(Accounts) /\ Len(Tail(s)) = Len(s) - 1
  BY <1>1, HeadTailProperties
<1>3. Tail(s) # << >>
  <2>1. Len(Tail(s)) # 0
    BY <1>2, LenProperties
  <2> QED BY <2>1, EmptySeq
<1>4. \A i \in 1 .. Len(Tail(s)) : i + 1 \in 1 .. Len(s) /\ Tail(s)[i] = s[i + 1]
  BY <1>2
<1> QED BY <1>2, <1>3, <1>4

-------------------------------------------------------------------------------
(* Nothing is listed and nothing held at the start. *)
LEMMA InitSound == Init => Sound
<1> SUFFICES ASSUME Init PROVE Sound
  OBVIOUS
<1>1. CallsSound
  <2>1. Cardinality(Accounts) \in Nat
    BY RoutingAssumption, FS_CardinalityType
  <2> QED BY <2>1 DEF Init, CallsSound, CallsTyped, CallSound, Places
<1>2. RowsTyped
  <2>1. cand \in [Accounts -> Candidate]
    <3>1. FreshCandidate("active") \in Candidate
      BY RoutingAssumption, BreakerAssumption DEF FreshCandidate, Candidate, AccountState
    <3>2. \A c \in Candidate, p \in BOOLEAN : [c EXCEPT !.present = p] \in Candidate
      BY DEF Candidate
    <3>3. \A a \in Accounts :
            [FreshCandidate("active") EXCEPT !.present = a \in plan.accounts] \in Candidate
      <4> TAKE a \in Accounts
      <4> DEFINE p == a \in plan.accounts
      <4>1. p \in BOOLEAN
        OBVIOUS
      <4> HIDE DEF p
      <4>2. [FreshCandidate("active") EXCEPT !.present = p] \in Candidate
        BY <3>1, <3>2, <4>1
      <4> QED BY <4>2 DEF p
    <3> QED BY <3>3 DEF Init
  <2>2. plan \in Plan
    BY RoutingAssumption DEF Init
  <2> QED BY <2>1, <2>2 DEF Init, RowsTyped, Plan, AccountState
<1>3. QuotaSound
  BY RoutingAssumption DEF Init, QuotaSound, FreshCandidate
<1>4. BreakersTyped
  BY NewBreakerTyped DEF Init, BreakersTyped
<1> QED BY <1>1, <1>2, <1>3, <1>4 DEF Sound

(* Leaving the loop, and going on to the next account. *)
LEMMA ReturnSound ==
  ASSUME CallsSound, NEW t \in Threads, NEW r \in {"ok", "error"}, Return(t, r)
  PROVE  CallsSound'
<1>1. Cardinality(Accounts) \in Nat
  BY RoutingAssumption, FS_CardinalityType
<1> QED BY <1>1 DEF Return, CallsSound, CallsTyped, CallSound, Places

(* The next account is one of those listed. *)
LEMMA NextAccountSound ==
  ASSUME CallsSound, NEW t \in Threads, pc[t] \notin {"idle", "listed"}, NextAccount(t)
  PROVE  CallsSound'
<1>1. CASE Len(queue[t]) > 1
  <2>1. queue[t] \in Seq(Accounts) /\ queue[t] # << >>
    <3>1. CallSound(t)
      BY DEF CallsSound
    <3> QED BY <3>1 DEF CallsSound, CallsTyped, CallSound
  <2>2. Tail(queue[t]) \in Seq(Accounts) /\ Tail(queue[t]) # << >>
        /\ Len(Tail(queue[t])) <= Len(queue[t])
    BY <1>1, <2>1, TailSound, LenProperties
  <2>3. Cardinality(Accounts) \in Nat
    BY RoutingAssumption, FS_CardinalityType
  <2>4. CallsTyped'
    BY <1>1, <2>2 DEF NextAccount, Goto, CallsSound, CallsTyped, Places
  <2>5. CallSound(t)'
    BY <1>1, <2>1, <2>2, <2>3, LenProperties DEF NextAccount, Goto, CallsSound, CallsTyped, CallSound
  <2>6. \A u \in Threads \ {t} : CallSound(u)'
    BY <1>1 DEF NextAccount, Goto, CallsSound, CallsTyped, CallSound
  <2> QED BY <2>4, <2>5, <2>6 DEF CallsSound
<1>2. CASE ~(Len(queue[t]) > 1)
  BY <1>2, ReturnSound DEF NextAccount
<1> QED BY <1>1, <1>2

(* A call that moves within an attempt, with an outcome that fits the place. *)
LEMMA MoveSound ==
  ASSUME CallsSound, NEW t \in Threads, NEW p \in Places, pc[t] \notin {"idle", "listed"},
         p \notin {"idle", "listed"}, Goto(t, p), UNCHANGED <<elig, queue, answer>>,
         stale' \in [Threads -> BOOLEAN],
         outcome' \in [Threads -> {"none", "ok", "failed", "unsent"}],
         \A u \in Threads \ {t} : outcome'[u] = outcome[u],
         p \in {"trying", "reserved", "calling", "sent"} => outcome'[t] = "none",
         p = "release" => outcome'[t] # "none",
         p \in {"charge", "activate", "pin"} => outcome'[t] = "ok",
         p \in {"unpin", "cool"} => outcome'[t] = "unsent"
  PROVE  CallsSound'
<1>1. CallsTyped'
  BY DEF CallsSound, CallsTyped, Goto
<1>2. CallSound(t)
  BY DEF CallsSound
<1>3. pc'[t] = p /\ \A u \in Threads \ {t} : pc'[u] = pc[u]
  BY DEF CallsSound, CallsTyped, Goto
<1>4. CallSound(t)'
  BY <1>2, <1>3 DEF CallSound
<1>5. \A u \in Threads \ {t} : CallSound(u)'
  BY <1>3 DEF CallsSound, CallSound
<1> QED BY <1>1, <1>4, <1>5 DEF CallsSound

(* An attempt that has ended has its outcome. *)
LEMMA AttemptedSound ==
  ASSUME CallsSound, NEW t \in Threads, pc[t] \in {"reserved", "calling", "sent"},
         NEW r \in {"ok", "failed", "unsent"}, NEW b, Attempted(t, r, b)
  PROVE  CallsSound'
<1>1. /\ Goto(t, "release") /\ UNCHANGED <<elig, queue, answer>>
      /\ stale' \in [Threads -> BOOLEAN]
      /\ outcome' \in [Threads -> {"none", "ok", "failed", "unsent"}]
      /\ outcome'[t] = r /\ \A u \in Threads \ {t} : outcome'[u] = outcome[u]
  BY DEF Attempted, CallsSound, CallsTyped
<1> QED BY <1>1, MoveSound DEF Places

(* Every step leaves every call in a place that fits its outcome and its    *)
(* list.                                                                    *)
LEMMA CallsStep == Sound /\ [Next]_vars => CallsSound'
<1> SUFFICES ASSUME Sound, [Next]_vars PROVE CallsSound'
  OBVIOUS
<1> USE DEF callVars
<1>a. CallsSound /\ CallsTyped
  BY DEF Sound, CallsSound
<1>0. ASSUME UNCHANGED callVars PROVE CallsSound'
  BY <1>0, <1>a DEF CallsSound, CallsTyped, CallSound
<1>1. CASE UNCHANGED vars
  BY <1>0, <1>1 DEF vars
<1>2. ASSUME NEW t \in Threads, List(t) PROVE CallsSound'
  <2>1. CASE \E a \in Accounts : cand[a].present
    <3>1. /\ pc[t] = "idle" /\ Goto(t, "listed") /\ UNCHANGED <<queue, outcome, stale, answer>>
          /\ elig' = [elig EXCEPT ![t] = {a \in Accounts : Eligible(a)}]
      BY <1>2, <2>1 DEF List
    <3>2. {a \in Accounts : Eligible(a)} \in SUBSET Accounts
      OBVIOUS
    <3> HIDE DEF Eligible
    <3>3. CallsTyped'
      BY <1>a, <3>1, <3>2 DEF CallsTyped, Goto, Places
    <3>4. pc'[t] = "listed" /\ \A u \in Threads \ {t} : pc'[u] = pc[u] /\ elig'[u] = elig[u]
      BY <1>a, <3>1 DEF CallsTyped, Goto
    <3> QED BY <1>a, <3>1, <3>3, <3>4 DEF CallsSound, CallSound
  <2>2. CASE ~ \E a \in Accounts : cand[a].present
    BY <1>2, <1>a, <2>2, ReturnSound DEF List
  <2> QED BY <2>1, <2>2
<1>3. ASSUME NEW t \in Threads, Rank(t) PROVE CallsSound'
  <2> DEFINE open == {a \in elig[t] : inflight[a] < MaxConcurrent}
  <2>1. CASE open = {}
    BY <1>3, <1>a, <2>1, ReturnSound DEF Rank
  <2>2. CASE open # {}
    <3>1. open \in SUBSET Accounts
      BY <1>a DEF CallsTyped
    <3> HIDE DEF open
    <3>2. PICK q \in Ranked(open, aff) : queue' = [queue EXCEPT ![t] = q]
      BY <1>3, <2>2 DEF Rank, open
    <3>3. q \in Seq(Accounts) /\ q # << >> /\ Len(q) <= Cardinality(Accounts)
      BY <2>2, <3>1, <3>2, RankedIsSeq
    <3>4. /\ pc[t] = "listed" /\ Goto(t, "trying") /\ UNCHANGED <<outcome, stale, answer>>
          /\ elig' = [elig EXCEPT ![t] = {}]
      BY <1>3, <2>2 DEF Rank, open
    <3>5. CallsTyped'
      BY <1>a, <3>2, <3>3, <3>4 DEF CallsTyped, Goto, Places
    <3>6. pc'[t] = "trying" /\ queue'[t] = q /\ elig'[t] = {}
      BY <1>a, <3>2, <3>4 DEF CallsTyped, Goto
    <3>7. \A u \in Threads \ {t} : pc'[u] = pc[u] /\ queue'[u] = queue[u] /\ elig'[u] = elig[u]
      BY <1>a, <3>2, <3>4 DEF CallsTyped, Goto
    <3>8. CallSound(t)'
      BY <1>a, <3>3, <3>4, <3>6 DEF CallsSound, CallSound
    <3> QED BY <1>a, <3>4, <3>5, <3>7, <3>8 DEF CallsSound, CallSound
  <2> QED BY <2>1, <2>2
<1>4. ASSUME NEW t \in Threads, Reserve(t) PROVE CallsSound'
  <2>1. CASE inflight[Current(t)] < MaxConcurrent
    <3>1. /\ pc[t] = "trying" /\ Goto(t, "reserved")
          /\ UNCHANGED <<elig, queue, outcome, stale, answer>>
      BY <1>4, <2>1 DEF Reserve
    <3>2. outcome[t] = "none"
      BY <1>a, <3>1 DEF CallsSound, CallSound
    <3> QED BY <1>a, <3>1, <3>2, MoveSound DEF CallsTyped, Places
  <2>2. CASE ~(inflight[Current(t)] < MaxConcurrent)
    BY <1>4, <1>a, <2>2, NextAccountSound DEF Reserve
  <2> QED BY <2>1, <2>2
<1>5. ASSUME NEW t \in Threads, Refused(t) \/ Unreachable(t) PROVE CallsSound'
  BY <1>5, <1>a, AttemptedSound DEF Refused, Unreachable
<1>6. ASSUME NEW t \in Threads, Dispatch(t) \/ Send(t) PROVE CallsSound'
  <2>1. /\ pc[t] \in {"reserved", "calling"} /\ UNCHANGED <<elig, queue, outcome, stale, answer>>
        /\ Goto(t, "calling") \/ Goto(t, "sent")
    BY <1>6 DEF Dispatch, Send
  <2>2. outcome[t] = "none"
    BY <1>a, <2>1 DEF CallsSound, CallSound
  <2> QED BY <1>a, <2>1, <2>2, MoveSound DEF CallsTyped, Places
<1>7. ASSUME NEW t \in Threads,
             Succeeded(t) \/ BusinessError(t) \/ Broken(t) \/ NotSent(t)
      PROVE CallsSound'
  BY <1>7, <1>a, AttemptedSound DEF Succeeded, BusinessError, Broken, NotSent
<1>8. ASSUME NEW t \in Threads, Release(t) PROVE CallsSound'
  <2>1. CASE outcome[t] = "failed"
    BY <1>8, <1>a, <2>1, ReturnSound DEF Release
  <2>2. CASE outcome[t] # "failed"
    <3>1. \/ Goto(t, "charge") /\ outcome[t] = "ok"
          \/ Goto(t, "unpin") /\ outcome[t] = "unsent"
      BY <1>8, <2>2 DEF Release
    <3>2. pc[t] = "release" /\ UNCHANGED <<elig, queue, outcome, stale, answer>>
      BY <1>8, <2>2 DEF Release
    <3> QED BY <1>a, <3>1, <3>2, MoveSound DEF CallsTyped, Places
  <2> QED BY <2>1, <2>2
<1>9. ASSUME NEW t \in Threads, Charge(t) \/ Activate(t) \/ Unpin(t) PROVE CallsSound'
  <2>1. /\ UNCHANGED <<elig, queue, outcome, stale, answer>>
        /\ \/ pc[t] = "charge" /\ Goto(t, "activate")
           \/ pc[t] = "activate" /\ Goto(t, "pin")
           \/ pc[t] = "unpin" /\ Goto(t, "cool")
    BY <1>9 DEF Charge, Activate, Unpin
  <2>2. CallSound(t)
    BY <1>a DEF CallsSound
  <2> QED BY <1>a, <2>1, <2>2, MoveSound DEF CallsTyped, CallSound, Places
<1>10. ASSUME NEW t \in Threads, Pin(t) \/ BookkeepingFails(t) \/ FallbackFails(t) PROVE CallsSound'
  BY <1>10, <1>a, ReturnSound DEF Pin, BookkeepingFails, FallbackFails
<1>11. ASSUME NEW t \in Threads, Cool(t) PROVE CallsSound'
  BY <1>11, <1>a, NextAccountSound DEF Cool
<1>12. CASE Operate \/ Forget \/ Tick
  BY <1>0, <1>12 DEF Operate, Upsert, Remove, Forget, Tick
<1>13. CASE Restart
  <2>1. stale' \in [Threads -> BOOLEAN]
    BY <1>a, <1>13 DEF Restart, CallsTyped
  <2> QED BY <1>a, <1>13, <2>1 DEF Restart, CallsSound, CallsTyped, CallSound
<1> QED
  BY <1>1, <1>2, <1>3, <1>4, <1>5, <1>6, <1>7, <1>8, <1>9, <1>10, <1>11, <1>12, <1>13
  DEF Next, Step

-------------------------------------------------------------------------------
(* The account a call tries. *)
LEMMA CurrentIsAccount ==
  ASSUME CallsSound, NEW t \in Threads, pc[t] \notin {"idle", "listed"}
  PROVE  Current(t) \in Accounts /\ Len(queue[t]) > 0 /\ Current(t) = queue[t][1]
<1>1. queue[t] \in Seq(Accounts) /\ queue[t] # << >>
  <2>1. CallSound(t)
    BY DEF CallsSound
  <2> QED BY <2>1 DEF CallsSound, CallsTyped, CallSound
<1>2. Len(queue[t]) > 0
  BY <1>1, EmptySeq, LenProperties
<1> QED BY <1>1, <1>2, HeadTailProperties DEF Current

(* A charge counts one more call, and starts again at a window that is due. *)
LEMMA ChargedSound ==
  ASSUME NEW c \in Candidate, NEW g \in Nat,
         c.resets = 0 => g = 0,
         c.resets # 0 => c.used = IF g <= Limit THEN g ELSE Limit
  PROVE  /\ Charged(c) \in Candidate /\ Charged(c).resets # 0
         /\ Charged(c).used = IF g + 1 <= Limit THEN g + 1 ELSE Limit
<1>0. Limit \in Nat /\ Never # 0 /\ WindowLength \in Nat
  BY RoutingAssumption
<1>1. CASE c.resets = 0
  <2>1. Charged(c) = [c EXCEPT !.used = IF Limit > 0 THEN 1 ELSE 0, !.resets = Never]
    BY <1>1 DEF Charged
  <2> DEFINE u == IF Limit > 0 THEN 1 ELSE 0
  <2>4. u \in 0 .. Limit
    BY <1>0
  <2> HIDE DEF u
  <2>2. [c EXCEPT !.used = u, !.resets = Never] \in Candidate
    BY <2>4 DEF Candidate
  <2>3. Charged(c).used = u /\ Charged(c).resets = Never
    BY <2>1 DEF Candidate, u
  <2> QED BY <1>0, <1>1, <2>1, <2>2, <2>3 DEF u
<1>2. CASE c.resets # 0
  <2>1. Charged(c) = [c EXCEPT !.used = IF @ < Limit THEN @ + 1 ELSE @]
    BY <1>2 DEF Charged
  <2>2. Charged(c) \in Candidate /\ Charged(c).resets = c.resets
    BY <1>0, <2>1 DEF Candidate
  <2>3. Charged(c).used = IF c.used < Limit THEN c.used + 1 ELSE c.used
    BY <2>1 DEF Candidate
  <2> QED BY <1>0, <1>2, <2>2, <2>3
<1> QED BY <1>1, <1>2

(* The rows keep their type, and a window its count. *)
LEMMA RowsStep == Sound /\ [Next]_vars => RowsTyped' /\ QuotaSound'
<1> SUFFICES ASSUME Sound, [Next]_vars PROVE RowsTyped' /\ QuotaSound'
  OBVIOUS
<1> USE DEF budgets, history
<1>a. RowsTyped /\ QuotaSound /\ CallsSound
  BY DEF Sound
<1>b. plan \in Plan
  BY <1>a, RoutingAssumption DEF RowsTyped
<1>0. ASSUME UNCHANGED <<cand, plan, edits, restarts, history>>,
             aff' \in Accounts \cup {None}, faults' = faults \/ Fault
      PROVE RowsTyped' /\ QuotaSound'
  BY <1>0, <1>a, <1>b DEF RowsTyped, QuotaSound, Fault, Plan
<1>1. CASE UNCHANGED vars
  BY <1>0, <1>1, <1>a DEF vars, RowsTyped
<1>2. ASSUME NEW t \in Threads,
             \/ List(t) \/ Rank(t) \/ Reserve(t) \/ Refused(t) \/ Unreachable(t) \/ Dispatch(t)
             \/ Send(t) \/ Succeeded(t) \/ BusinessError(t) \/ Broken(t) \/ NotSent(t)
             \/ Release(t) \/ BookkeepingFails(t) \/ FallbackFails(t)
      PROVE RowsTyped' /\ QuotaSound'
  BY <1>2, <1>a, <1>0
  DEF List, Rank, Reserve, Refused, Unreachable, Dispatch, Send, Succeeded, BusinessError, Broken,
      NotSent, Release, BookkeepingFails, FallbackFails, RowsTyped
<1>3. ASSUME NEW t \in Threads, Charge(t) PROVE RowsTyped' /\ QuotaSound'
  <2> DEFINE a == Current(t)
  <2>1. a \in Accounts
    BY <1>3, <1>a, CurrentIsAccount DEF Charge
  <2> HIDE DEF a
  <2>2. CASE cand[a].present /\ a \in plan.metered
    <3>1. cand' = [cand EXCEPT ![a] = Charged(@)] /\ granted' = [granted EXCEPT ![a] = @ + 1]
          /\ UNCHANGED <<aff, budgets, wanted>>
      BY <1>3, <2>2 DEF Charge, a
    <3>2. /\ Charged(cand[a]) \in Candidate /\ Charged(cand[a]).resets # 0
          /\ Charged(cand[a]).used = IF granted[a] + 1 <= Limit THEN granted[a] + 1 ELSE Limit
      BY <1>a, <2>1, ChargedSound DEF RowsTyped, QuotaSound
    <3>3. /\ cand'[a] = Charged(cand[a]) /\ granted'[a] = granted[a] + 1
          /\ \A x \in Accounts \ {a} : cand'[x] = cand[x] /\ granted'[x] = granted[x]
      BY <1>a, <2>1, <3>1 DEF RowsTyped
    <3>4. RowsTyped'
      BY <1>a, <2>1, <3>1, <3>2 DEF RowsTyped
    <3>5. QuotaSound'
      BY <1>a, <3>2, <3>3 DEF QuotaSound
    <3> QED BY <3>4, <3>5
  <2>3. CASE ~(cand[a].present /\ a \in plan.metered)
    BY <1>3, <1>a, <1>0, <2>3 DEF Charge, RowsTyped, a
  <2> QED BY <2>2, <2>3
<1>4. ASSUME NEW t \in Threads, Activate(t) \/ Cool(t) PROVE RowsTyped' /\ QuotaSound'
  <2> DEFINE a == Current(t)
  <2>1. a \in Accounts
    BY <1>4, <1>a, CurrentIsAccount DEF Activate, Cool
  <2> HIDE DEF a
  <2>2. /\ UNCHANGED <<aff, budgets, history>>
        /\ \/ cand' = cand
           \/ cand' = [cand EXCEPT ![a].state = "active", ![a].until = 0]
           \/ cand' = [cand EXCEPT ![a].state = "cooldown", ![a].until = RecoveryTimeout]
    BY <1>4 DEF Activate, Cool, a
  <2>3. \A x \in Accounts : /\ cand'[x] \in Candidate
                            /\ cand'[x].resets = cand[x].resets /\ cand'[x].used = cand[x].used
    BY <1>a, <2>1, <2>2, BreakerAssumption DEF RowsTyped, Candidate, AccountState
  <2>4. RowsTyped'
    BY <1>a, <2>2, <2>3 DEF RowsTyped
  <2> QED BY <1>a, <2>2, <2>3, <2>4 DEF QuotaSound
<1>5. ASSUME NEW t \in Threads, Pin(t) \/ Unpin(t) PROVE RowsTyped' /\ QuotaSound'
  BY <1>5, <1>a, <1>0, CurrentIsAccount DEF Pin, Unpin, RowsTyped
<1>6. ASSUME NEW a \in plan.accounts, NEW st \in {"active", "exhausted", "disabled"}, Upsert(a, st)
      PROVE RowsTyped' /\ QuotaSound'
  <2>1. a \in Accounts
    BY <1>b DEF Plan
  <2>2. FreshCandidate(st) \in Candidate
    BY RoutingAssumption, BreakerAssumption DEF FreshCandidate, Candidate, AccountState
  <2>3. RowsTyped'
    BY <1>6, <1>a, <1>b, <2>1, <2>2 DEF Upsert, RowsTyped, AccountState, Plan
  <2>4. QuotaSound'
    BY <1>6, <1>a, <2>1, RoutingAssumption DEF Upsert, RowsTyped, QuotaSound, FreshCandidate
  <2> QED BY <2>3, <2>4
<1>7. ASSUME NEW a \in plan.accounts, Remove(a) PROVE RowsTyped' /\ QuotaSound'
  <2>1. a \in Accounts
    BY <1>b DEF Plan
  <2>2. \A x \in Accounts : /\ cand'[x] \in Candidate
                            /\ cand'[x].resets = cand[x].resets /\ cand'[x].used = cand[x].used
    BY <1>7, <1>a, <2>1 DEF Remove, RowsTyped, Candidate
  <2>3. RowsTyped'
    <3>1. cand' \in [Accounts -> Candidate]
      BY <1>7, <1>a, <2>2 DEF Remove, RowsTyped
    <3>2. edits' \in 0 .. plan.edits /\ aff' \in Accounts \cup {None}
      BY <1>7, <1>a, <1>b DEF Remove, RowsTyped, Plan
    <3> QED BY <1>7, <1>a, <3>1, <3>2 DEF Remove, RowsTyped
  <2> QED BY <1>7, <1>a, <2>2, <2>3 DEF Remove, QuotaSound
<1>8. CASE Forget
  BY <1>8, <1>a, <1>0 DEF Forget
<1>9. CASE Restart
  BY <1>9, <1>a, <1>b DEF Restart, RowsTyped, QuotaSound, Plan
<1>10. CASE Tick
  <2>1. \A a \in Accounts : cand'[a] \in Candidate /\ cand'[a].used = cand[a].used
    <3> TAKE a \in Accounts
    <3>1. cand'[a] = [cand[a] EXCEPT !.until = Sooner(@),
                                     !.resets = IF a \in plan.metered THEN Sooner(@) ELSE @]
      BY <1>10 DEF Tick
    <3>2. cand[a] \in Candidate
      BY <1>a DEF RowsTyped
    <3>3. Sooner(cand[a].until) \in 0 .. RecoveryTimeout
      BY <3>2, BreakerAssumption DEF Sooner, Candidate
    <3>4. Sooner(cand[a].resets) \in 0 .. WindowLength \cup {Never}
      BY <3>2, RoutingAssumption DEF Sooner, Candidate
    <3> QED BY <3>1, <3>2, <3>3, <3>4 DEF Candidate
  <2>2. \A a \in Accounts : cand[a].resets = 0 => cand'[a].resets = 0
    BY <1>10, <1>a DEF Tick, Sooner, RowsTyped, Candidate
  <2>3. \A a \in Accounts :
          granted'[a] = IF cand[a].resets # 0 /\ cand'[a].resets = 0 THEN 0 ELSE granted[a]
    BY <1>10 DEF Tick
  <2>4. RowsTyped'
    BY <1>10, <1>a, <2>1 DEF Tick, RowsTyped
  <2> QED BY <1>a, <2>1, <2>2, <2>3, <2>4 DEF QuotaSound
<1> QED
  BY <1>1, <1>2, <1>3, <1>4, <1>5, <1>6, <1>7, <1>8, <1>9, <1>10 DEF Next, Step, Operate

(* Every breaker stays one. *)
LEMMA BreakersStep == Sound /\ [Next]_vars => BreakersTyped'
<1> SUFFICES ASSUME Sound, [Next]_vars PROVE BreakersTyped'
  OBVIOUS
<1>a. BreakersTyped /\ CallsSound
  BY DEF Sound
<1>0. ASSUME breaker' = breaker PROVE BreakersTyped'
  BY <1>0, <1>a DEF BreakersTyped
<1>b. ASSUME NEW t \in Threads, pc[t] \notin {"idle", "listed"}, NEW b \in Breaker,
             breaker' = [breaker EXCEPT ![Current(t)] = b]
      PROVE BreakersTyped'
  BY <1>b, <1>a, CurrentIsAccount DEF BreakersTyped
<1>c. ASSUME NEW t \in Threads, pc[t] \notin {"idle", "listed"}, NEW b \in Breaker, NEW r,
             Attempted(t, r, b)
      PROVE BreakersTyped'
  BY <1>c, <1>0, <1>b DEF Attempted
<1>d. ASSUME NEW t \in Threads, pc[t] \notin {"idle", "listed"}
      PROVE breaker[Current(t)] \in Breaker
  BY <1>d, <1>a, CurrentIsAccount DEF BreakersTyped
<1>1. CASE UNCHANGED vars
  BY <1>0, <1>1 DEF vars
<1>2. ASSUME NEW t \in Threads,
             \/ List(t) \/ Rank(t) \/ Reserve(t) \/ Send(t) \/ Release(t) \/ Charge(t)
             \/ Activate(t) \/ Pin(t) \/ BookkeepingFails(t) \/ FallbackFails(t)
             \/ Unpin(t) \/ Cool(t)
      PROVE BreakersTyped'
  BY <1>2, <1>0
  DEF List, Rank, Reserve, Send, Release, Charge, Activate, Pin, BookkeepingFails,
      FallbackFails, Unpin, Cool
<1>3. ASSUME NEW t \in Threads, Refused(t) \/ Unreachable(t) \/ Dispatch(t) PROVE BreakersTyped'
  <2>1. breaker[Current(t)] \in Breaker /\ pc[t] \notin {"idle", "listed"}
    BY <1>3, <1>d DEF Refused, Unreachable, Dispatch
  <2>2. MaybeHalfOpen(breaker[Current(t)]) \in Breaker
    BY <2>1, BreakerMethods
  <2>3. AfterAdmission(MaybeHalfOpen(breaker[Current(t)])) \in Breaker
    BY <2>2, BreakerMethods
  <2>4. RecordFailure(AfterAdmission(MaybeHalfOpen(breaker[Current(t)]))) \in Breaker
    BY <2>3, BreakerMethods
  <2> QED BY <1>3, <1>b, <1>c, <2>1, <2>2, <2>3, <2>4 DEF Refused, Unreachable, Dispatch
<1>4. ASSUME NEW t \in Threads,
             Succeeded(t) \/ BusinessError(t) \/ Broken(t) \/ NotSent(t)
      PROVE BreakersTyped'
  <2>1. breaker[Current(t)] \in Breaker /\ pc[t] \notin {"idle", "listed"}
    BY <1>4, <1>d DEF Succeeded, BusinessError, Broken, NotSent
  <2>2. RecordSuccess(breaker[Current(t)]) \in Breaker /\ RecordFailure(breaker[Current(t)]) \in Breaker
    BY <2>1, BreakerMethods
  <2> QED BY <1>4, <1>c, <2>1, <2>2 DEF Succeeded, BusinessError, Broken, NotSent
<1>5. CASE Operate \/ Forget
  BY <1>0, <1>5 DEF Operate, Upsert, Remove, Forget
<1>6. CASE Restart
  BY <1>6, NewBreakerTyped DEF Restart, BreakersTyped
<1>7. CASE Tick
  BY <1>7, <1>a, BreakerMethods DEF Tick, BreakersTyped
<1> QED
  BY <1>1, <1>2, <1>3, <1>4, <1>5, <1>6, <1>7 DEF Next, Step

(* Every step keeps the types and the places of the calls. *)
LEMMA SoundStep == Sound /\ [Next]_vars => Sound'
  BY CallsStep, RowsStep, BreakersStep DEF Sound

-------------------------------------------------------------------------------
(* The slots.                                                               *)

HoldingPlaces == {"reserved", "calling", "sent", "release"}

(* The calls that hold a slot are some of the threads. *)
LEMMA HoldingFinite ==
  ASSUME NEW a PROVE IsFiniteSet(Holding(a)) /\ Cardinality(Holding(a)) \in Nat
                     /\ Cardinality(Holding(a)) <= Cardinality(Threads)
<1>1. Holding(a) \in SUBSET Threads
  BY DEF Holding
<1> QED BY <1>1, RoutingAssumption, FS_Subset, FS_CardinalityType

(* Counts of slots are numbers; before a restart they are exact. *)
SlotsSound == inflight \in [Accounts -> Nat] /\ SlotsAccounted

(* A step that neither takes nor gives a slot. *)
LEMMA SlotsKept ==
  ASSUME SlotsSound, inflight' = inflight, restarts' = restarts,
         \A a \in Accounts : Holding(a)' = Holding(a)
  PROVE  SlotsSound'
  BY DEF SlotsSound, SlotsAccounted

(* A call that stays on its account, and on its side of the reservation.    *)
LEMMA HoldingKept ==
  ASSUME CallsSound, NEW t \in Threads,
         \A u \in Threads \ {t} : pc'[u] = pc[u] /\ queue'[u] = queue[u],
         \/ pc[t] \notin HoldingPlaces /\ pc'[t] \notin HoldingPlaces
         \/ pc[t] \in HoldingPlaces /\ pc'[t] \in HoldingPlaces /\ queue'[t] = queue[t]
  PROVE  \A a \in Accounts : Holding(a)' = Holding(a)
  BY DEF Holding, HoldingPlaces, Current

(* What a step of one call does to the places and lists of the calls. *)
LEMMA ReturnMoves ==
  ASSUME CallsSound, NEW t \in Threads, NEW r, Return(t, r)
  PROVE  /\ pc'[t] = "idle" /\ queue'[t] = << >> /\ elig'[t] = {}
         /\ \A u \in Threads \ {t} : pc'[u] = pc[u] /\ queue'[u] = queue[u] /\ elig'[u] = elig[u]
  BY DEF CallsSound, CallsTyped, Return

(* What Goto writes. *)
LEMMA GotoMoves ==
  ASSUME CallsSound, NEW t \in Threads, NEW p, Goto(t, p)
  PROVE  pc'[t] = p /\ \A u \in Threads \ {t} : pc'[u] = pc[u]
  BY DEF CallsSound, CallsTyped, Goto

(* What NextAccount writes. *)
LEMMA NextAccountMoves ==
  ASSUME CallsSound, NEW t \in Threads, pc[t] \notin {"idle", "listed"}, NextAccount(t)
  PROVE  /\ pc'[t] \in {"idle", "trying"} /\ elig'[t] = {}
         /\ queue'[t] = << >> \/ (Len(queue[t]) > 1 /\ queue'[t] = Tail(queue[t]))
         /\ \A u \in Threads \ {t} : pc'[u] = pc[u] /\ queue'[u] = queue[u] /\ elig'[u] = elig[u]
<1>1. CASE Len(queue[t]) > 1
  BY <1>1 DEF NextAccount, Goto, CallsSound, CallsTyped, CallSound
<1>2. CASE ~(Len(queue[t]) > 1)
  BY <1>2, ReturnMoves DEF NextAccount
<1> QED BY <1>1, <1>2

(* No slot is taken at the start. *)
LEMMA SlotsInit == Init => SlotsSound
<1> SUFFICES ASSUME Init PROVE SlotsSound
  OBVIOUS
<1>1. \A a \in Accounts : Holding(a) = {}
  BY DEF Init, Holding
<1>2. \A a \in Accounts : inflight[a] = 0 /\ Cardinality(Holding(a)) = 0
  BY <1>1, FS_EmptySet DEF Init
<1> QED BY <1>2 DEF Init, SlotsSound, SlotsAccounted

(* A slot is counted exactly while a call holds it; a restart forgets the   *)
(* count and lets the calls go on, so that the count can only be too low.   *)
LEMMA SlotsStep == Sound /\ SlotsSound /\ [Next]_vars => SlotsSound'
<1> SUFFICES ASSUME Sound, SlotsSound, [Next]_vars PROVE SlotsSound'
  OBVIOUS
<1> USE DEF callVars, budgets
<1>a. CallsSound /\ RowsTyped
  BY DEF Sound
<1>0. ASSUME UNCHANGED <<pc, queue, inflight, restarts>> PROVE SlotsSound'
  <2>1. \A a \in Accounts : Holding(a)' = Holding(a)
    BY <1>0 DEF Holding, Current
  <2> QED BY <1>0, <2>1, SlotsKept
<1>b. ASSUME NEW t \in Threads, UNCHANGED <<inflight, restarts>>,
             \A u \in Threads \ {t} : pc'[u] = pc[u] /\ queue'[u] = queue[u],
             \/ pc[t] \notin HoldingPlaces /\ pc'[t] \notin HoldingPlaces
             \/ pc[t] \in HoldingPlaces /\ pc'[t] \in HoldingPlaces /\ queue'[t] = queue[t]
      PROVE SlotsSound'
  BY <1>a, <1>b, HoldingKept, SlotsKept
<1>1. CASE UNCHANGED vars
  BY <1>0, <1>1 DEF vars
<1>2. ASSUME NEW t \in Threads, List(t) \/ Rank(t) PROVE SlotsSound'
  <2>1. /\ pc[t] \in {"idle", "listed"} /\ UNCHANGED <<inflight, restarts>>
        /\ \/ \E p \in {"listed", "trying"} : Goto(t, p)
           \/ Return(t, "error")
        /\ \A u \in Threads \ {t} : queue'[u] = queue[u]
    BY <1>2, <1>a DEF List, Rank, Return, CallsSound, CallsTyped
  <2>2. pc'[t] \notin HoldingPlaces /\ \A u \in Threads \ {t} : pc'[u] = pc[u]
    BY <1>a, <2>1, GotoMoves, ReturnMoves DEF HoldingPlaces
  <2> QED BY <1>b, <2>1, <2>2 DEF HoldingPlaces
<1>3. ASSUME NEW t \in Threads, Reserve(t) PROVE SlotsSound'
  <2>0. PICK a \in Accounts : a = Current(t)
    BY <1>3, <1>a, CurrentIsAccount DEF Reserve
  <2>1. CASE inflight[a] < MaxConcurrent
    <3>1. /\ pc[t] = "trying" /\ Goto(t, "reserved") /\ UNCHANGED <<queue, restarts>>
          /\ inflight' = [inflight EXCEPT ![a] = @ + 1]
      BY <1>3, <2>0, <2>1 DEF Reserve
    <3>3. pc'[t] = "reserved" /\ \A u \in Threads \ {t} : pc'[u] = pc[u]
      BY <1>a, <3>1, GotoMoves
    <3>4. t \notin Holding(a) /\ Holding(a)' = Holding(a) \cup {t}
      BY <2>0, <3>1, <3>3 DEF Holding, Current
    <3>5. \A x \in Accounts \ {a} : Holding(x)' = Holding(x)
      BY <2>0, <3>1, <3>3 DEF Holding, Current
    <3>6. Cardinality(Holding(a)') = Cardinality(Holding(a)) + 1
      BY <3>4, HoldingFinite, FS_AddElement
    <3>7. /\ inflight' \in [Accounts -> Nat] /\ inflight'[a] = inflight[a] + 1
          /\ \A x \in Accounts \ {a} : inflight'[x] = inflight[x]
      BY <3>1 DEF SlotsSound
    <3>8. Cardinality(Holding(a)) \in Nat /\ inflight[a] \in Nat
      BY HoldingFinite DEF SlotsSound
    <3>9. ASSUME NEW x \in Accounts
          PROVE  /\ inflight'[x] <= Cardinality(Holding(x)')
                 /\ restarts' = 0 => inflight'[x] = Cardinality(Holding(x)')
      <4>1. CASE x = a
        BY <3>1, <3>6, <3>7, <3>8, <4>1 DEF SlotsSound, SlotsAccounted
      <4>2. CASE x # a
        BY <3>1, <3>5, <3>7, <4>2 DEF SlotsSound, SlotsAccounted
      <4> QED BY <4>1, <4>2
    <3> QED BY <3>7, <3>9 DEF SlotsSound, SlotsAccounted
  <2>2. CASE ~(inflight[a] < MaxConcurrent)
    BY <1>3, <1>a, <1>b, <2>0, <2>2, NextAccountMoves DEF Reserve, HoldingPlaces
  <2> QED BY <2>1, <2>2
<1>4. ASSUME NEW t \in Threads,
             \/ Refused(t) \/ Unreachable(t) \/ Dispatch(t) \/ Send(t)
             \/ Succeeded(t) \/ BusinessError(t) \/ Broken(t) \/ NotSent(t)
      PROVE SlotsSound'
  <2>1. /\ pc[t] \in HoldingPlaces /\ UNCHANGED <<queue, inflight, restarts>>
        /\ \E p \in HoldingPlaces : Goto(t, p)
    BY <1>4
    DEF Refused, Unreachable, Dispatch, Send, Succeeded, BusinessError, Broken, NotSent, Attempted,
        HoldingPlaces
  <2> QED BY <1>a, <1>b, <2>1, GotoMoves
<1>5. ASSUME NEW t \in Threads, Release(t) PROVE SlotsSound'
  <2>0. PICK a \in Accounts : a = Current(t)
    BY <1>5, <1>a, CurrentIsAccount DEF Release
  <2>1. /\ pc[t] = "release" /\ restarts' = restarts
        /\ inflight' = [inflight EXCEPT ![a] = IF @ > 0 THEN @ - 1 ELSE 0]
    BY <1>5, <2>0 DEF Release
  <2>3. pc'[t] \notin HoldingPlaces
        /\ \A u \in Threads \ {t} : pc'[u] = pc[u] /\ queue'[u] = queue[u]
    BY <1>5, <1>a, GotoMoves, ReturnMoves DEF Release, HoldingPlaces
  <2>4. t \in Holding(a) /\ Holding(a)' = Holding(a) \ {t}
    BY <2>0, <2>1, <2>3 DEF Holding, HoldingPlaces, Current
  <2>5. \A x \in Accounts \ {a} : Holding(x)' = Holding(x)
    BY <2>0, <2>1, <2>3 DEF Holding, HoldingPlaces, Current
  <2>6. Cardinality(Holding(a)') = Cardinality(Holding(a)) - 1
    BY <2>4, HoldingFinite, FS_RemoveElement
  <2>7. Cardinality(Holding(a)) \in Nat /\ Cardinality(Holding(a)) # 0 /\ inflight[a] \in Nat
    BY <2>4, HoldingFinite, FS_EmptySet DEF SlotsSound
  <2>8. /\ inflight' \in [Accounts -> Nat]
        /\ inflight'[a] = IF inflight[a] > 0 THEN inflight[a] - 1 ELSE 0
        /\ \A x \in Accounts \ {a} : inflight'[x] = inflight[x]
    BY <2>1 DEF SlotsSound
  <2>9. ASSUME NEW x \in Accounts
        PROVE  /\ inflight'[x] <= Cardinality(Holding(x)')
               /\ restarts' = 0 => inflight'[x] = Cardinality(Holding(x)')
    <3>1. CASE x = a
      BY <2>1, <2>6, <2>7, <2>8, <3>1 DEF SlotsSound, SlotsAccounted
    <3>2. CASE x # a
      BY <2>1, <2>5, <2>8, <3>2 DEF SlotsSound, SlotsAccounted
    <3> QED BY <3>1, <3>2
  <2> QED BY <2>8, <2>9 DEF SlotsSound, SlotsAccounted
<1>6. ASSUME NEW t \in Threads, Charge(t) \/ Activate(t) \/ Unpin(t) PROVE SlotsSound'
  <2>1. /\ pc[t] \notin HoldingPlaces /\ UNCHANGED <<queue, inflight, restarts>>
        /\ \E p \in {"activate", "pin", "cool"} : Goto(t, p)
    BY <1>6 DEF Charge, Activate, Unpin, HoldingPlaces
  <2>2. pc'[t] \notin HoldingPlaces /\ \A u \in Threads \ {t} : pc'[u] = pc[u]
    BY <1>a, <2>1, GotoMoves DEF HoldingPlaces
  <2> QED BY <1>b, <2>1, <2>2
<1>7. ASSUME NEW t \in Threads, Pin(t) \/ BookkeepingFails(t) \/ FallbackFails(t)
      PROVE SlotsSound'
  <2>1. /\ pc[t] \notin HoldingPlaces /\ UNCHANGED <<inflight, restarts>>
        /\ \E r \in {"ok", "error"} : Return(t, r)
    BY <1>7 DEF Pin, BookkeepingFails, FallbackFails, HoldingPlaces
  <2>2. pc'[t] \notin HoldingPlaces
        /\ \A u \in Threads \ {t} : pc'[u] = pc[u] /\ queue'[u] = queue[u]
    BY <1>a, <2>1, ReturnMoves DEF HoldingPlaces
  <2> QED BY <1>b, <2>1, <2>2
<1>8. ASSUME NEW t \in Threads, Cool(t) PROVE SlotsSound'
  BY <1>8, <1>a, <1>b, NextAccountMoves DEF Cool, HoldingPlaces
<1>9. CASE Operate \/ Forget \/ Tick
  BY <1>0, <1>9 DEF Operate, Upsert, Remove, Forget, Tick
<1>10. CASE Restart
  <2>1. restarts' # 0
    BY <1>10, <1>a DEF Restart, RowsTyped
  <2>2. inflight' = [a \in Accounts |-> 0] /\ \A a \in Accounts : Cardinality(Holding(a)') \in Nat
    <3>1. \A a \in Accounts : Holding(a)' = Holding(a)
      BY <1>10 DEF Restart, Holding, Current
    <3> QED BY <1>10, <3>1, HoldingFinite DEF Restart
  <2> QED BY <2>1, <2>2 DEF SlotsSound, SlotsAccounted
<1> QED
  BY <1>1, <1>2, <1>3, <1>4, <1>5, <1>6, <1>7, <1>8, <1>9, <1>10 DEF Next, Step

(* The slots counted are at most the threads, which completes the type. *)
LEMMA TypeFollows == Sound /\ SlotsSound => TypeOK
<1> SUFFICES ASSUME Sound, SlotsSound PROVE TypeOK
  OBVIOUS
<1>1. inflight \in [Accounts -> 0 .. Cardinality(Threads)]
  <2>1. Cardinality(Threads) \in Nat
    BY RoutingAssumption, FS_CardinalityType
  <2>2. \A a \in Accounts : inflight[a] \in 0 .. Cardinality(Threads)
    BY <2>1, HoldingFinite DEF SlotsSound, SlotsAccounted
  <2> QED BY <2>2 DEF SlotsSound
<1>2. \A t \in Threads : queue[t] \in Seq(Accounts) /\ Len(queue[t]) <= Cardinality(Accounts)
  BY DEF Sound, CallsSound, CallsTyped, CallSound
<1> QED
  BY <1>1, <1>2 DEF TypeOK, Sound, CallsSound, CallsTyped, RowsTyped, BreakersTyped

-------------------------------------------------------------------------------
(* The overshoot.                                                           *)

(* The calls that may still charge the account. *)
Views(a) ==
  {t \in Threads : \/ a \in elig[t]
                   \/ /\ pc[t] \notin {"activate", "pin"}
                      /\ \E i \in 1 .. Len(queue[t]) : queue[t][i] = a}

(* Once the limit is reached, what was granted and what may still be is     *)
(* within the bound: the call that reached the limit does not view the      *)
(* account any more, and no call begins to.                                 *)
ViewsBounded ==
  \A a \in plan.metered :
    /\ Limit = 0 => Views(a) = {}
    /\ granted[a] >= Limit =>
         granted[a] + Cardinality(Views(a)) <= Limit + Cardinality(Threads) - 1

(* The calls that may still take from an account are some of the threads. *)
LEMMA ViewsFinite ==
  ASSUME NEW a
  PROVE  /\ IsFiniteSet(Views(a)) /\ Cardinality(Views(a)) \in Nat
         /\ Cardinality(Threads) \in Nat \ {0}
         /\ Cardinality(Views(a)) <= Cardinality(Threads)
<1>1. Views(a) \in SUBSET Threads
  BY DEF Views
<1> QED BY <1>1, RoutingAssumption, FS_Subset, FS_CardinalityType, FS_EmptySet

(* Only a listing makes a call view an account. *)
LEMMA ViewsShrink ==
  ASSUME CallsSound, NEW t \in Threads, NEW a,
         \A u \in Threads \ {t} : pc'[u] = pc[u] /\ queue'[u] = queue[u] /\ elig'[u] = elig[u],
         elig'[t] \subseteq elig[t],
         \/ queue'[t] = queue[t] /\ pc[t] \notin {"activate", "pin"}
         \/ pc'[t] \in {"activate", "pin"}
         \/ queue'[t] = << >>
         \/ /\ queue'[t] = Tail(queue[t]) /\ Len(queue[t]) > 1
            /\ pc[t] \notin {"activate", "pin"}
  PROVE  Views(a)' \subseteq Views(a)
<1> SUFFICES ASSUME t \in Views(a)' PROVE t \in Views(a)
  BY DEF Views
<1>1. queue[t] \in Seq(Accounts)
  BY DEF CallsSound, CallsTyped
<1>2. CASE queue'[t] = << >>
  <2>1. Len(queue'[t]) = 0
    BY <1>2, EmptySeq
  <2> QED BY <2>1 DEF Views
<1>3. CASE /\ queue'[t] = Tail(queue[t]) /\ Len(queue[t]) > 1
           /\ pc[t] \notin {"activate", "pin"}
  <2>1. CASE a \in elig'[t]
    BY <2>1 DEF Views
  <2>2. CASE a \notin elig'[t]
    <3>1. PICK i \in 1 .. Len(Tail(queue[t])) : Tail(queue[t])[i] = a
      BY <1>3, <2>2 DEF Views
    <3>2. i + 1 \in 1 .. Len(queue[t]) /\ queue[t][i + 1] = a
      BY <1>1, <1>3, <3>1, TailSound
    <3> QED BY <1>3, <3>2 DEF Views
  <2> QED BY <2>1, <2>2
<1> QED BY <1>2, <1>3 DEF Views

(* A step that gives no call a view of an account keeps the bound. *)
LEMMA ViewsKept ==
  ASSUME Sound, ViewsBounded, plan' = plan,
         \A a \in plan.metered : Views(a)' \subseteq Views(a)
                                 /\ granted'[a] \in {0, granted[a]}
  PROVE  ViewsBounded'
<1> SUFFICES ASSUME NEW a \in plan.metered
             PROVE  /\ Limit = 0 => Views(a)' = {}
                    /\ granted'[a] >= Limit =>
                         granted'[a] + Cardinality(Views(a)') <= Limit + Cardinality(Threads) - 1
  BY DEF ViewsBounded
<1>1. Limit = 0 => Views(a) = {} /\ Views(a)' = {}
  BY DEF ViewsBounded
<1>2. /\ Cardinality(Views(a)') \in Nat /\ Cardinality(Views(a)) \in Nat
      /\ Cardinality(Views(a)') <= Cardinality(Views(a))
      /\ Cardinality(Threads) \in Nat \ {0}
  BY ViewsFinite, FS_Subset, FS_CardinalityType
<1>3. Limit = 0 => Cardinality(Views(a)') = 0
  BY <1>1, FS_EmptySet
<1>4. granted[a] \in Nat /\ Limit \in Nat
  BY RoutingAssumption DEF Sound, RowsTyped, Plan
<1>5. CASE granted'[a] = granted[a]
  BY <1>1, <1>2, <1>4, <1>5 DEF ViewsBounded
<1>6. CASE granted'[a] = 0
  BY <1>1, <1>2, <1>3, <1>4, <1>6
<1> QED BY <1>5, <1>6

(* Nothing is viewed or granted at the start. *)
LEMMA ViewsInit == Init => ViewsBounded
<1> SUFFICES ASSUME Init, NEW a \in plan.metered
             PROVE  /\ Limit = 0 => Views(a) = {}
                    /\ granted[a] >= Limit =>
                         granted[a] + Cardinality(Views(a)) <= Limit + Cardinality(Threads) - 1
  BY DEF ViewsBounded
<1>1. Views(a) = {}
  <2>1. \A t \in Threads : Len(queue[t]) = 0 /\ elig[t] = {}
    BY EmptySeq DEF Init
  <2> QED BY <2>1 DEF Views
<1>2. a \in Accounts
  BY RoutingAssumption DEF Init, Plan
<1>3. granted[a] = 0 /\ Cardinality(Views(a)) = 0 /\ Cardinality(Threads) \in Nat \ {0}
  BY <1>1, <1>2, FS_EmptySet, ViewsFinite DEF Init
<1> QED BY <1>1, <1>3, RoutingAssumption

(* A metered account that a listing finds has a call left in its window. *)
LEMMA EligibleHasQuota ==
  ASSUME Sound, NEW a \in plan.metered, Eligible(a)
  PROVE  granted[a] < Limit
<1>1. a \in Accounts
  BY RoutingAssumption DEF Sound, RowsTyped, Plan
<1>2. cand[a] \in Candidate /\ granted[a] \in Nat /\ Limit \in Nat
  BY <1>1, RoutingAssumption DEF Sound, RowsTyped
<1>3. Remaining(cand[a]) >= 1
  BY DEF Eligible
<1> QED BY <1>1, <1>2, <1>3 DEF Sound, QuotaSound, Remaining, Candidate

(* Every step keeps the bound: what is granted is granted to a call with a view. *)
LEMMA ViewsStep == Sound /\ ViewsBounded /\ [Next]_vars => ViewsBounded'
<1> SUFFICES ASSUME Sound, ViewsBounded, [Next]_vars PROVE ViewsBounded'
  OBVIOUS
<1> USE DEF callVars, budgets, history
<1>a. CallsSound /\ RowsTyped /\ CallsTyped
  BY DEF Sound, CallsSound
<1>b. plan.metered \subseteq Accounts /\ Limit \in Nat
  BY <1>a, RoutingAssumption DEF RowsTyped, Plan
<1>0. ASSUME plan' = plan, granted' = granted, \A a \in Accounts : Views(a)' \subseteq Views(a)
      PROVE ViewsBounded'
  BY <1>0, <1>b, ViewsKept
<1>c. ASSUME NEW t \in Threads, UNCHANGED <<plan, granted>>,
             Return(t, "ok") \/ Return(t, "error")
      PROVE ViewsBounded'
  <2>1. \A a \in Accounts : Views(a)' \subseteq Views(a)
    BY <1>a, <1>c, ReturnMoves, ViewsShrink
  <2> QED BY <1>0, <1>c, <2>1
<1>d. ASSUME NEW t \in Threads, NEW p, Goto(t, p), UNCHANGED <<plan, granted, elig, queue>>,
             pc[t] \notin {"activate", "pin"} \/ p \in {"activate", "pin"}
      PROVE ViewsBounded'
  <2>1. pc'[t] = p /\ \A u \in Threads \ {t} : pc'[u] = pc[u]
    BY <1>a, <1>d, GotoMoves
  <2>2. \A a \in Accounts : Views(a)' \subseteq Views(a)
    BY <1>a, <1>d, <2>1, ViewsShrink
  <2> QED BY <1>0, <1>d, <2>2
<1>e. ASSUME NEW t \in Threads, UNCHANGED <<plan, granted>>, NextAccount(t),
             pc[t] \in {"trying", "cool"}
      PROVE ViewsBounded'
  <2>1. /\ elig'[t] = {}
        /\ queue'[t] = << >> \/ (Len(queue[t]) > 1 /\ queue'[t] = Tail(queue[t]))
        /\ \A u \in Threads \ {t} : pc'[u] = pc[u] /\ queue'[u] = queue[u] /\ elig'[u] = elig[u]
    BY <1>a, <1>e, NextAccountMoves
  <2>2. \A a \in Accounts : Views(a)' \subseteq Views(a)
    BY <1>a, <1>e, <2>1, ViewsShrink
  <2> QED BY <1>0, <1>e, <2>2
<1>1. CASE UNCHANGED vars
  BY <1>0, <1>1 DEF vars, Views
<1>2. ASSUME NEW t \in Threads, List(t) PROVE ViewsBounded'
  <2>1. CASE \E a \in Accounts : cand[a].present
    <3>1. /\ pc[t] = "idle" /\ Goto(t, "listed") /\ UNCHANGED <<queue, plan, granted>>
          /\ elig' = [elig EXCEPT ![t] = {a \in Accounts : Eligible(a)}]
      BY <1>2, <2>1 DEF List
    <3>2. /\ pc'[t] = "listed" /\ \A a \in elig'[t] : Eligible(a)
          /\ \A u \in Threads \ {t} : pc'[u] = pc[u] /\ elig'[u] = elig[u]
      BY <1>a, <3>1, GotoMoves DEF CallsTyped
    <3> SUFFICES ASSUME NEW a \in plan.metered
                 PROVE  /\ Limit = 0 => Views(a)' = {}
                        /\ granted[a] >= Limit =>
                             granted[a] + Cardinality(Views(a)') <= Limit + Cardinality(Threads) - 1
      BY <3>1 DEF ViewsBounded
    <3>3. granted[a] \in Nat
      BY <1>a, <1>b DEF RowsTyped
    <3>4. CASE a \in elig'[t]
      <4>1. granted[a] < Limit
        BY <3>2, <3>4, EligibleHasQuota
      <4> QED BY <1>b, <3>3, <4>1
    <3>5. CASE a \notin elig'[t]
      <4>1. Views(a)' \subseteq Views(a)
        BY <3>1, <3>2, <3>5 DEF Views
      <4>2. Cardinality(Views(a)') <= Cardinality(Views(a)) /\ Cardinality(Views(a)') \in Nat
            /\ Cardinality(Views(a)) \in Nat /\ Cardinality(Threads) \in Nat
        BY <4>1, ViewsFinite, FS_Subset, FS_CardinalityType
      <4> QED BY <1>b, <3>3, <4>1, <4>2 DEF ViewsBounded
    <3> QED BY <3>4, <3>5
  <2>2. CASE ~ \E a \in Accounts : cand[a].present
    BY <1>2, <1>c, <2>2 DEF List
  <2> QED BY <2>1, <2>2
<1>3. ASSUME NEW t \in Threads, Rank(t) PROVE ViewsBounded'
  <2> DEFINE open == {a \in elig[t] : inflight[a] < MaxConcurrent}
  <2>1. CASE open = {}
    BY <1>3, <1>c, <2>1 DEF Rank
  <2>2. CASE open # {}
    <3>1. open \in SUBSET Accounts /\ open \subseteq elig[t]
      BY <1>a DEF CallsTyped
    <3> HIDE DEF open
    <3>2. PICK q \in Ranked(open, aff) : queue' = [queue EXCEPT ![t] = q]
      BY <1>3, <2>2 DEF Rank, open
    <3>3. \A i \in 1 .. Len(q) : q[i] \in elig[t]
      BY <2>2, <3>1, <3>2, RankedIsSeq
    <3>4. /\ Goto(t, "trying") /\ UNCHANGED <<plan, granted>>
          /\ elig' = [elig EXCEPT ![t] = {}]
      BY <1>3, <2>2 DEF Rank, open
    <3>5. /\ queue'[t] = q /\ elig'[t] = {}
          /\ \A u \in Threads \ {t} : pc'[u] = pc[u] /\ queue'[u] = queue[u] /\ elig'[u] = elig[u]
      BY <1>a, <3>2, <3>4, GotoMoves DEF CallsTyped
    <3>6. \A a \in Accounts : Views(a)' \subseteq Views(a)
      BY <3>3, <3>5 DEF Views
    <3> QED BY <1>0, <3>4, <3>6
  <2> QED BY <2>1, <2>2
<1>4. ASSUME NEW t \in Threads, Reserve(t) \/ Cool(t) PROVE ViewsBounded'
  BY <1>4, <1>d, <1>e DEF Reserve, Cool
<1>5. ASSUME NEW t \in Threads,
             \/ Refused(t) \/ Unreachable(t) \/ Dispatch(t) \/ Send(t)
             \/ Succeeded(t) \/ BusinessError(t) \/ Broken(t) \/ NotSent(t) \/ Unpin(t)
      PROVE ViewsBounded'
  <2>1. /\ UNCHANGED <<plan, granted, elig, queue>> /\ pc[t] \notin {"activate", "pin"}
        /\ \E p \in Places : Goto(t, p)
    BY <1>5
    DEF Refused, Unreachable, Dispatch, Send, Succeeded, BusinessError, Broken, NotSent, Unpin,
        Attempted, Places
  <2> QED BY <1>d, <2>1
<1>6. ASSUME NEW t \in Threads, Release(t) PROVE ViewsBounded'
  BY <1>6, <1>c, <1>d DEF Release
<1>7. ASSUME NEW t \in Threads, Charge(t) PROVE ViewsBounded'
  <2>0. PICK b \in Accounts : b = Current(t)
    BY <1>7, <1>a, CurrentIsAccount DEF Charge
  <2>1. /\ pc[t] = "charge" /\ Goto(t, "activate") /\ UNCHANGED <<plan, elig, queue>>
    BY <1>7 DEF Charge
  <2>2. CASE cand[b].present /\ b \in plan.metered
    <3>1. granted' = [granted EXCEPT ![b] = @ + 1]
      BY <1>7, <2>0, <2>2 DEF Charge
    <3>2. pc'[t] = "activate" /\ \A u \in Threads \ {t} : pc'[u] = pc[u]
      BY <1>a, <2>1, GotoMoves
    <3>3. elig[t] = {}
      BY <1>a, <2>1 DEF CallsSound, CallSound
    <3>4. t \in Views(b) /\ Views(b)' \subseteq Views(b) \ {t}
      <4>1. Len(queue[t]) > 0 /\ b = queue[t][1] /\ queue[t] \in Seq(Accounts)
        BY <1>a, <2>0, <2>1, CurrentIsAccount DEF CallsTyped
      <4>2. 1 \in 1 .. Len(queue[t])
        BY <4>1, LenProperties
      <4> QED BY <2>1, <3>2, <3>3, <4>1, <4>2 DEF Views
    <3>5. \A a \in Accounts : Views(a)' \subseteq Views(a)
      BY <2>1, <3>2, <3>3 DEF Views
    <3> SUFFICES ASSUME NEW a \in plan.metered
                 PROVE  /\ Limit = 0 => Views(a)' = {}
                        /\ granted'[a] >= Limit =>
                             granted'[a] + Cardinality(Views(a)') <= Limit + Cardinality(Threads) - 1
      BY <2>1 DEF ViewsBounded
    <3>6. granted[a] \in Nat /\ Limit # 0
      BY <1>a, <1>b, <2>2, <3>4 DEF RowsTyped, ViewsBounded
    <3>7. CASE a = b
      <4>1. Cardinality(Views(a) \ {t}) = Cardinality(Views(a)) - 1 /\ IsFiniteSet(Views(a) \ {t})
        BY <3>4, <3>7, ViewsFinite, FS_RemoveElement
      <4>2. Cardinality(Views(a)') <= Cardinality(Views(a)) - 1 /\ Cardinality(Views(a)') \in Nat
        BY <3>4, <3>7, <4>1, FS_Subset, FS_CardinalityType
      <4>3. Cardinality(Views(a)) \in Nat /\ Cardinality(Threads) \in Nat
            /\ Cardinality(Views(a)) <= Cardinality(Threads)
        BY ViewsFinite
      <4>4. granted'[a] = granted[a] + 1
        BY <1>a, <3>1, <3>7 DEF RowsTyped
      <4> QED BY <1>b, <3>6, <4>2, <4>3, <4>4 DEF ViewsBounded
    <3>8. CASE a # b
      <4>1. granted'[a] = granted[a]
        BY <1>a, <1>b, <3>1, <3>8 DEF RowsTyped
      <4>2. Cardinality(Views(a)') <= Cardinality(Views(a)) /\ Cardinality(Views(a)') \in Nat
            /\ Cardinality(Views(a)) \in Nat /\ Cardinality(Threads) \in Nat
        BY <1>b, <3>5, ViewsFinite, FS_Subset, FS_CardinalityType
      <4> QED BY <1>b, <3>6, <4>1, <4>2 DEF ViewsBounded
    <3> QED BY <3>7, <3>8
  <2>3. CASE ~(cand[b].present /\ b \in plan.metered)
    BY <1>7, <1>d, <2>0, <2>3 DEF Charge
  <2> QED BY <2>2, <2>3
<1>8. ASSUME NEW t \in Threads, Activate(t) PROVE ViewsBounded'
  BY <1>8, <1>d DEF Activate
<1>9. ASSUME NEW t \in Threads, Pin(t) \/ BookkeepingFails(t) \/ FallbackFails(t)
      PROVE ViewsBounded'
  BY <1>9, <1>c DEF Pin, BookkeepingFails, FallbackFails
<1>10. CASE Operate \/ Tick
  <2>1. UNCHANGED <<plan, pc, elig, queue>>
    BY <1>10 DEF Operate, Upsert, Remove, Tick
  <2>2. \A a \in Accounts : granted'[a] \in {0, granted[a]}
    BY <1>10, <1>a DEF Operate, Upsert, Remove, Tick, RowsTyped
  <2>3. \A a \in Accounts : Views(a)' \subseteq Views(a)
    BY <2>1 DEF Views
  <2> QED BY <1>b, <2>1, <2>2, <2>3, ViewsKept
<1>11. CASE Forget \/ Restart
  BY <1>0, <1>11 DEF Forget, Restart, Views
<1> QED
  BY <1>1, <1>2, <1>3, <1>4, <1>5, <1>6, <1>7, <1>8, <1>9, <1>10, <1>11 DEF Next, Step

-------------------------------------------------------------------------------
(* The invariant of all of it, and what it says. *)
IInv == Sound /\ SlotsSound /\ ViewsBounded

(* The invariant holds in every state. *)
LEMMA Invariance == Spec => []IInv
<1>1. Init => IInv
  BY InitSound, SlotsInit, ViewsInit DEF IInv
<1>2. IInv /\ [Next]_vars => IInv'
  BY SoundStep, SlotsStep, ViewsStep DEF IInv
<1> QED BY <1>1, <1>2, PTL DEF Spec

(* Type correctness: no count of slots exceeds the calls there are, and no  *)
(* call tries an account it did not list (_call_logical_tool).              *)
THEOREM TypeCorrect == Spec => []TypeOK
<1>1. IInv => TypeOK
  BY TypeFollows DEF IInv
<1> QED BY Invariance, <1>1, PTL

(* The check-and-reserve leaks no slot, whatever fails between taking it    *)
(* and giving it back, and before a restart gives none back twice.          *)
THEOREM SlotsAreAccounted == Spec => []SlotsAccounted
<1>1. IInv => SlotsAccounted
  BY DEF IInv, SlotsSound
<1> QED BY Invariance, <1>1, PTL

(* A window is exceeded by at most one call for each other thread, although *)
(* consume_quota does not look at what is left (store.py).                  *)
THEOREM OvershootIsBounded == Spec => []OvershootBounded
<1>1. IInv => OvershootBounded
  <2> SUFFICES ASSUME IInv, NEW a \in plan.metered
               PROVE  granted[a] <= Limit + Cardinality(Threads) - 1
    BY DEF OvershootBounded
  <2>1. granted[a] \in Nat /\ Limit \in Nat
    BY RoutingAssumption DEF IInv, Sound, RowsTyped, Plan
  <2>2. Cardinality(Views(a)) \in Nat /\ Cardinality(Threads) \in Nat \ {0}
    BY ViewsFinite
  <2> QED BY <2>1, <2>2 DEF IInv, ViewsBounded
<1> QED BY Invariance, <1>1, PTL

-------------------------------------------------------------------------------
(* The refinement: what each step is to the client of the call.             *)

Phases == [t \in Threads |-> Phase(t)]

(* The phase a call shows, *)
LEMMA PhaseIs ==
  ASSUME NEW t \in Threads
  PROVE  /\ pc[t] = "idle" => Phase(t) = "idle"
         /\ pc[t] = "sent" => Phase(t) = "sent"
         /\ pc[t] \notin {"idle", "sent"} =>
              /\ outcome[t] = "ok" => Phase(t) = "done"
              /\ outcome[t] = "failed" => Phase(t) = "unclear"
              /\ outcome[t] \notin {"ok", "failed"} => Phase(t) = "open"
  BY DEF Phase

(* and after a step. *)
LEMMA NextPhaseIs ==
  ASSUME NEW t \in Threads
  PROVE  /\ pc'[t] = "idle" => Phase(t)' = "idle"
         /\ pc'[t] = "sent" => Phase(t)' = "sent"
         /\ pc'[t] \notin {"idle", "sent"} =>
              /\ outcome'[t] = "ok" => Phase(t)' = "done"
              /\ outcome'[t] = "failed" => Phase(t)' = "unclear"
              /\ outcome'[t] \notin {"ok", "failed"} => Phase(t)' = "open"
  BY DEF Phase

(* A step of one call moves its phase alone. *)
LEMMA PhasesMove ==
  ASSUME NEW t \in Threads, NEW x, Phase(t)' = x,
         \A u \in Threads \ {t} : pc'[u] = pc[u] /\ outcome'[u] = outcome[u]
  PROVE  Phases' = [Phases EXCEPT ![t] = x]
<1>1. \A u \in Threads \ {t} : Phase(u)' = Phase(u)
  BY DEF Phase
<1> QED BY <1>1 DEF Phases

(* One that leaves its phase alone is nothing to the client. *)
LEMMA PhasesKept ==
  ASSUME NEW t \in Threads, Phase(t)' = Phase(t), answer' = answer,
         \A u \in Threads \ {t} : pc'[u] = pc[u] /\ outcome'[u] = outcome[u]
  PROVE  UNCHANGED <<Phases, answer>>
<1>1. \A u \in Threads \ {t} : Phase(u)' = Phase(u)
  BY DEF Phase
<1> QED BY <1>1 DEF Phases

(* A call that ends answers what its outcome says. *)
LEMMA ReturnAnswers ==
  ASSUME CallsSound, NEW t \in Threads, pc[t] \notin {"idle", "sent"}, NEW r, Return(t, r),
         r = IF outcome[t] = "ok" THEN "ok" ELSE "error"
  PROVE  Promise!Answer(t)
<1>1. outcome[t] \in {"none", "ok", "failed", "unsent"}
  BY DEF CallsSound, CallsTyped
<1>2. Phase(t) \in {"open", "done", "unclear"} /\ (Phase(t) = "done" <=> outcome[t] = "ok")
  BY <1>1, PhaseIs
<1>3. pc'[t] = "idle" /\ \A u \in Threads \ {t} : pc'[u] = pc[u] /\ outcome'[u] = outcome[u]
  BY DEF CallsSound, CallsTyped, Return
<1>4. Phases' = [Phases EXCEPT ![t] = "idle"]
  BY <1>3, NextPhaseIs, PhasesMove
<1>5. answer' = [answer EXCEPT ![t] = r]
  BY DEF Return
<1>6. Phases[t] = Phase(t)
  BY DEF Phases
<1> QED BY <1>2, <1>4, <1>5, <1>6 DEF Promise!Answer, Phases

(* An attempt that is over settles the outcome, unless it sent nothing. *)
LEMMA AttemptedSettles ==
  ASSUME CallsSound, NEW t \in Threads, NEW r \in {"ok", "failed", "unsent"}, NEW b,
         Attempted(t, r, b),
         \/ pc[t] = "sent" /\ r # "unsent"
         \/ pc[t] \in {"reserved", "calling"} /\ r # "ok"
  PROVE  Promise!Settle(t) \/ UNCHANGED <<Phases, answer>>
<1>1. /\ pc'[t] = "release" /\ outcome'[t] = r /\ answer' = answer
      /\ \A u \in Threads \ {t} : pc'[u] = pc[u] /\ outcome'[u] = outcome[u]
  BY DEF CallsSound, CallsTyped, Attempted, Goto
<1>2. outcome[t] = "none"
  BY DEF CallsSound, CallSound
<1>3. Phase(t) = IF pc[t] = "sent" THEN "sent" ELSE "open"
  BY <1>2, PhaseIs
<1>4. Phase(t)' = CASE r = "ok" -> "done" [] r = "failed" -> "unclear" [] r = "unsent" -> "open"
  BY <1>1, NextPhaseIs
<1>5. CASE r = "unsent"
  BY <1>1, <1>3, <1>4, <1>5, PhasesKept
<1>6. CASE r # "unsent"
  <2>1. PICK x \in {"done", "unclear"} : Phase(t)' = x /\ (x = "done" <=> r = "ok")
    BY <1>4, <1>6
  <2>2. Phases' = [Phases EXCEPT ![t] = x]
    BY <1>1, <2>1, PhasesMove
  <2>3. Phases[t] = Phase(t)
    BY DEF Phases
  <2> QED BY <1>1, <1>3, <1>6, <2>1, <2>2, <2>3 DEF Promise!Settle, Phases
<1> QED BY <1>5, <1>6

(* A call that goes on without sending anything is open still. *)
LEMMA NextAccountAnswers ==
  ASSUME CallsSound, NEW t \in Threads, pc[t] \in {"trying", "cool"}, NextAccount(t)
  PROVE  Promise!Answer(t) \/ UNCHANGED <<Phases, answer>>
<1>1. outcome[t] \notin {"ok", "failed"}
  BY DEF CallsSound, CallSound
<1>2. CASE Len(queue[t]) > 1
  <2>1. /\ pc'[t] = "trying" /\ outcome'[t] = "none" /\ answer' = answer
        /\ \A u \in Threads \ {t} : pc'[u] = pc[u] /\ outcome'[u] = outcome[u]
    BY <1>2 DEF NextAccount, Goto, CallsSound, CallsTyped
  <2>2. Phase(t) = "open" /\ Phase(t)' = "open"
    BY <1>1, <2>1, PhaseIs, NextPhaseIs
  <2> QED BY <2>1, <2>2, PhasesKept
<1>3. CASE ~(Len(queue[t]) > 1)
  BY <1>1, <1>3, ReturnAnswers DEF NextAccount
<1> QED BY <1>2, <1>3

(* What each step shows the client is a step of the promise, or nothing. *)
LEMMA StepSimulation ==
  ASSUME Sound, [Next]_vars
  PROVE  [Promise!Next]_<<Phases, answer>>
<1> USE DEF callVars
<1> DEFINE Quiet == UNCHANGED <<Phases, answer>>
<1>a. CallsSound /\ CallsTyped
  BY DEF Sound, CallsSound
<1>0. ASSUME UNCHANGED <<pc, outcome, answer>> PROVE Quiet
  BY <1>0 DEF Phases, Phase
<1>b. ASSUME NEW t \in Threads, NEW p, Goto(t, p), UNCHANGED <<outcome, answer>>,
             pc[t] \notin {"idle", "sent"}, p \notin {"idle", "sent"}
      PROVE Quiet
  <2>1. pc'[t] = p /\ \A u \in Threads \ {t} : pc'[u] = pc[u] /\ outcome'[u] = outcome[u]
    BY <1>a, <1>b, GotoMoves
  <2>2. Phase(t)' = Phase(t)
    BY <1>a, <1>b, <2>1, PhaseIs, NextPhaseIs DEF CallsTyped
  <2> QED BY <1>b, <2>1, <2>2, PhasesKept
<1>1. CASE UNCHANGED vars
  BY <1>0, <1>1 DEF vars
<1>2. ASSUME NEW t \in Threads, List(t) PROVE Promise!Begin(t) \/ Promise!Reject(t)
  <2>0. Phases[t] = "idle" /\ outcome[t] = "none"
    BY <1>2, <1>a, PhaseIs DEF List, Phases, CallsSound, CallSound
  <2>1. CASE \E a \in Accounts : cand[a].present
    <3>1. Goto(t, "listed") /\ UNCHANGED <<outcome, answer>>
      BY <1>2, <2>1 DEF List
    <3>2. pc'[t] = "listed" /\ \A u \in Threads \ {t} : pc'[u] = pc[u] /\ outcome'[u] = outcome[u]
      BY <1>a, <3>1, GotoMoves
    <3>3. Phases' = [Phases EXCEPT ![t] = "open"]
      BY <2>0, <3>1, <3>2, NextPhaseIs, PhasesMove
    <3> QED BY <2>0, <3>1, <3>3 DEF Promise!Begin, Phases
  <2>2. CASE ~ \E a \in Accounts : cand[a].present
    <3>1. Return(t, "error") /\ pc[t] = "idle"
      BY <1>2, <2>2 DEF List
    <3>2. pc'[t] = "idle" /\ \A u \in Threads \ {t} : pc'[u] = pc[u] /\ outcome'[u] = outcome[u]
      BY <1>a, <3>1 DEF CallsTyped, Return
    <3>3. Phases' = Phases
      <4>1. Phases' = [Phases EXCEPT ![t] = "idle"]
        BY <3>2, NextPhaseIs, PhasesMove
      <4> QED BY <2>0, <4>1 DEF Phases
    <3> QED BY <2>0, <3>1, <3>3 DEF Promise!Reject, Return, Phases
  <2> QED BY <2>1, <2>2
<1>3. ASSUME NEW t \in Threads, Rank(t) PROVE Promise!Answer(t) \/ Quiet
  <2>1. outcome[t] = "none" /\ pc[t] = "listed"
    BY <1>3, <1>a DEF Rank, CallsSound, CallSound
  <2>2. Return(t, "error") \/ (Goto(t, "trying") /\ UNCHANGED <<outcome, answer>>)
    BY <1>3 DEF Rank
  <2> QED BY <1>a, <1>b, <2>1, <2>2, ReturnAnswers
<1>4. ASSUME NEW t \in Threads, Reserve(t) \/ Cool(t) PROVE Promise!Answer(t) \/ Quiet
  BY <1>4, <1>a, <1>b, NextAccountAnswers DEF Reserve, Cool
<1>5. ASSUME NEW t \in Threads,
             \/ Refused(t) \/ Unreachable(t) \/ NotSent(t)
             \/ Succeeded(t) \/ BusinessError(t) \/ Broken(t)
      PROVE Promise!Settle(t) \/ Quiet
  BY <1>5, <1>a, AttemptedSettles
  DEF Refused, Unreachable, NotSent, Succeeded, BusinessError, Broken
<1>6. ASSUME NEW t \in Threads, Dispatch(t) \/ Charge(t) \/ Activate(t) \/ Unpin(t) PROVE Quiet
  BY <1>6, <1>b DEF Dispatch, Charge, Activate, Unpin
<1>7. ASSUME NEW t \in Threads, Send(t) PROVE Promise!Send(t)
  <2>1. pc[t] = "calling" /\ Goto(t, "sent") /\ UNCHANGED <<outcome, answer>>
    BY <1>7 DEF Send
  <2>2. Phases[t] = "open"
    BY <1>a, <2>1, PhaseIs DEF CallsSound, CallSound, Phases
  <2>3. pc'[t] = "sent" /\ \A u \in Threads \ {t} : pc'[u] = pc[u] /\ outcome'[u] = outcome[u]
    BY <1>a, <2>1, GotoMoves
  <2>4. Phases' = [Phases EXCEPT ![t] = "sent"]
    BY <2>3, NextPhaseIs, PhasesMove
  <2> QED BY <2>1, <2>2, <2>4 DEF Promise!Send, Phases
<1>8. ASSUME NEW t \in Threads, Release(t) PROVE Promise!Answer(t) \/ Quiet
  BY <1>8, <1>a, <1>b, ReturnAnswers DEF Release
<1>9. ASSUME NEW t \in Threads, Pin(t) \/ BookkeepingFails(t) \/ FallbackFails(t)
      PROVE Promise!Answer(t)
  <2>1. \/ pc[t] \in {"charge", "activate", "pin"} /\ Return(t, "ok")
        \/ pc[t] \in {"unpin", "cool"} /\ Return(t, "error")
    BY <1>9 DEF Pin, BookkeepingFails, FallbackFails
  <2>2. CallSound(t)
    BY <1>a DEF CallsSound
  <2> QED BY <1>a, <2>1, <2>2, ReturnAnswers DEF CallSound
<1>10. CASE Operate \/ Forget \/ Restart \/ Tick
  BY <1>0, <1>10 DEF Operate, Upsert, Remove, Forget, Restart, Tick
<1> QED
  BY <1>1, <1>2, <1>3, <1>4, <1>5, <1>6, <1>7, <1>8, <1>9, <1>10 DEF Next, Step, Promise!Next

(* A call is sent on only while no earlier attempt of it can have run       *)
(* upstream, and answers success exactly when an upstream succeeded         *)
(* (_call_logical_tool, with _call_backend's fallback_safe).                *)
THEOREM Refinement == Spec => RefinesRoutedCall
<1>1. Init => Promise!Init
  <2> SUFFICES ASSUME Init PROVE Promise!Init
    OBVIOUS
  <2>1. \A t \in Threads : Phase(t) = "idle"
    BY PhaseIs DEF Init
  <2> QED BY <2>1 DEF Init, Promise!Init
<1>2. IInv /\ [Next]_vars => [Promise!Next]_<<Phases, answer>>
  BY StepSimulation DEF IInv
<1> QED BY <1>1, <1>2, Invariance, PTL DEF Spec, RefinesRoutedCall, Promise!Spec, Phases
===============================================================================
