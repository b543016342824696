-------------------------- MODULE IdempotentExecution --------------------------
(***************************************************************************)
(* Calls of execute() that carry the same principal and idempotency key     *)
(* (src/kater/executor.py), the row they share in execution_idempotency,    *)
(* and the threads their attempts run in (src/kater/execution.py).          *)
(*                                                                          *)
(* Each call is a process of its own (the API server, kater execute), so    *)
(* the SELECT and the INSERT of a reservation are two steps: _lock orders    *)
(* only the threads of one process.  An answer is named after the call that *)
(* computed it, an input after its fingerprint.  Left out: calls that       *)
(* _prepare refuses (they never see the row), the audit, and the wording of *)
(* errors.  Every call has a deadline, its own or its connector's.          *)
(***************************************************************************)
EXTENDS Naturals, FiniteSets

CONSTANTS Calls, Prints,   \* calls, and the fingerprints of their inputs
          None,            \* no row, no answer
          MaxRetries,      \* policy.max_retries, clamped to 0..5
          MaxCrashes,      \* bound: processes that die in a call
          MaxErrors        \* bound: sqlite errors while a row is settled

Row == [print : Prints, status : {"pending", "completed"}, result : Calls \cup {None}]

ASSUME ExecutionAssumption ==
  /\ None \notin Calls \cup Row
  /\ MaxRetries \in 0 .. 5
  /\ MaxCrashes \in Nat /\ MaxErrors \in Nat

VARIABLES row,       \* the row of the key
          print,     \* fingerprint of each call
          pc, attempts,
          worker,    \* the thread of the current attempt
          orphan,    \* the thread an expired deadline left behind
          told,      \* the answer each call returned
          crashes, errors,
          applied,   \* history: times each call's action took effect
          holder     \* history: the call whose reservation the row is

execution == <<row, print, pc, attempts, worker, orphan, told, crashes, errors, applied, holder>>
budgets == <<crashes, errors>>

Pending(c)   == [print |-> print[c], status |-> "pending", result |-> None]
Completed(c) == [print |-> print[c], status |-> "completed", result |-> c]

(* An action computes, takes effect, and returns; or it fails on the way.   *)
Alive   == {"computing", "effective"}
Results == {"ok", "unavailable", "fatal"}
Ended   == {"done", "replayed", "refused", "failed", "raised", "crashed"}
Working == {"reserved", "running", "storing", "releasing"}

ExecutionTypeOK ==
  /\ row \in {None} \cup Row
  /\ print \in [Calls -> Prints]
  /\ pc \in [Calls -> {"new", "inserting", "conflict"} \cup Working \cup Ended]
  /\ attempts \in [Calls -> 0 .. MaxRetries + 1]
  /\ worker \in [Calls -> {"none"} \cup Alive \cup Results]
  /\ orphan \in [Calls -> {"none"} \cup Alive]
  /\ told \in [Calls -> Calls \cup {None}]
  /\ crashes \in 0 .. MaxCrashes /\ errors \in 0 .. MaxErrors
  /\ applied \in [Calls -> 0 .. MaxRetries + 1]
  /\ holder \in Calls \cup {None}

ExecutionInit ==
  /\ row = None /\ holder = None
  /\ print \in [Calls -> Prints]
  /\ pc = [c \in Calls |-> "new"]
  /\ attempts = [c \in Calls |-> 0]
  /\ worker = [c \in Calls |-> "none"]
  /\ orphan = [c \in Calls |-> "none"]
  /\ told = [c \in Calls |-> None]
  /\ crashes = 0 /\ errors = 0
  /\ applied = [c \in Calls |-> 0]

Goto(c, place) == pc' = [pc EXCEPT ![c] = place]

-------------------------------------------------------------------------------
(* reserve_idempotency.                                                     *)

(* What a row that is there means for the call. *)
VerdictOnStatus(c) ==
  IF row.status = "completed" THEN "replayed" ELSE "refused"

Verdict(c) ==
  CASE row.print # print[c] -> "refused"
    [] row.print = print[c] /\ row.status = "completed" -> "replayed"
    [] OTHER -> "refused"

Judged(c) == /\ Goto(c, Verdict(c))
             /\ told' = [told EXCEPT ![c] = IF Verdict(c) = "replayed" THEN row.result ELSE @]

Look(c) ==
  /\ pc[c] = "new"
  /\ \/ row = None /\ Goto(c, "inserting") /\ UNCHANGED told
     \/ row # None /\ Judged(c)
  /\ UNCHANGED <<row, print, attempts, worker, orphan, budgets, applied, holder>>

Insert(c) ==
  /\ pc[c] = "inserting"
  /\ \/ /\ row = None
        /\ row' = Pending(c) /\ holder' = c /\ Goto(c, "reserved")
     \/ row # None /\ Goto(c, "conflict") /\ UNCHANGED <<row, holder>>
  /\ UNCHANGED <<print, attempts, worker, orphan, told, budgets, applied>>

(* The SELECT after the IntegrityError; the row may be gone again. *)
LookAgain(c) ==
  /\ pc[c] = "conflict"
  /\ \/ row = None /\ Goto(c, "refused") /\ UNCHANGED told
     \/ row # None /\ Judged(c)
  /\ UNCHANGED <<row, print, attempts, worker, orphan, budgets, applied, holder>>

-------------------------------------------------------------------------------
(* _run_attempts and run_with_timeout.                                      *)

Attempt(c) ==
  /\ pc[c] = "reserved"
  /\ Goto(c, "running")
  /\ attempts' = [attempts EXCEPT ![c] = @ + 1]
  /\ worker' = [worker EXCEPT ![c] = "computing"]
  /\ UNCHANGED <<row, print, orphan, told, budgets, applied, holder>>

Effect(c) ==
  /\ worker[c] = "computing"
  /\ worker' = [worker EXCEPT ![c] = "effective"]
  /\ applied' = [applied EXCEPT ![c] = @ + 1]
  /\ UNCHANGED <<row, print, pc, attempts, orphan, told, budgets, holder>>

(* A failure may come before the effect or after it (a lost reply); "fatal" *)
(* is all that is not retried: denials, exceptions, no result.              *)
Return(c) ==
  /\ worker[c] \in Alive
  /\ \E r \in Results :
       /\ r = "ok" => worker[c] = "effective"
       /\ worker' = [worker EXCEPT ![c] = r]
  /\ UNCHANGED <<row, print, pc, attempts, orphan, told, budgets, applied, holder>>

Retryable(result) == result = "unavailable"

RetriesLeft(c) == attempts[c] <= MaxRetries

Join(c) ==
  /\ pc[c] = "running" /\ worker[c] \in Results
  /\ \/ worker[c] = "ok" /\ Goto(c, "storing")
     \/ Retryable(worker[c]) /\ RetriesLeft(c) /\ Goto(c, "reserved")
     \/ worker[c] # "ok" /\ ~ (Retryable(worker[c]) /\ RetriesLeft(c)) /\ Goto(c, "releasing")
  /\ worker' = [worker EXCEPT ![c] = "none"]
  /\ UNCHANGED <<row, print, attempts, orphan, told, budgets, applied, holder>>

(* The join waits as long as the action takes. *)
ExpireNever(c) == FALSE

(* The join gives up on a live thread: its code is "timeout", which is not  *)
(* retryable, and the thread runs on.                                       *)
Expire(c) ==
  /\ pc[c] = "running" /\ worker[c] \in Alive
  /\ Goto(c, "releasing")
  /\ orphan' = [orphan EXCEPT ![c] = worker[c]]
  /\ worker' = [worker EXCEPT ![c] = "none"]
  /\ UNCHANGED <<row, print, attempts, told, budgets, applied, holder>>

OrphanEffect(c) ==
  /\ orphan[c] = "computing"
  /\ orphan' = [orphan EXCEPT ![c] = "effective"]
  /\ applied' = [applied EXCEPT ![c] = @ + 1]
  /\ UNCHANGED <<row, print, pc, attempts, worker, told, budgets, holder>>

OrphanEnd(c) ==
  /\ orphan[c] \in Alive
  /\ orphan' = [orphan EXCEPT ![c] = "none"]
  /\ UNCHANGED <<row, print, pc, attempts, worker, told, budgets, applied, holder>>

-------------------------------------------------------------------------------
(* The call settles its row.                                                *)

(* store_idempotency; the UPDATE finds no row if there is none. *)
Store(c) ==
  /\ pc[c] = "storing"
  /\ row' = IF row = None THEN None ELSE Completed(c)
  /\ told' = [told EXCEPT ![c] = c]
  /\ Goto(c, "done")
  /\ UNCHANGED <<print, attempts, worker, orphan, budgets, applied, holder>>

(* The DELETE does not look at the status. *)
ReleaseAny(c) ==
  /\ \/ pc[c] = "releasing" /\ Goto(c, "failed")
     \/ pc[c] = "conflict" /\ row # None /\ Verdict(c) = "refused" /\ Goto(c, "refused")
  /\ row' = None
  /\ UNCHANGED <<print, attempts, worker, orphan, told, budgets, applied, holder>>

(* release_idempotency, from the except clause of _invoke. *)
Release(c) ==
  /\ pc[c] = "releasing"
  /\ row' = IF row # None /\ row.status = "pending" THEN None ELSE row
  /\ Goto(c, "failed")
  /\ UNCHANGED <<print, attempts, worker, orphan, told, budgets, applied, holder>>

(* sqlite3.Error is not a ConnectorError: it leaves _invoke as it is. *)
Raise(c) ==
  /\ pc[c] \in {"new", "inserting", "conflict", "storing", "releasing"}
  /\ errors < MaxErrors
  /\ errors' = errors + 1
  /\ Goto(c, "raised")
  /\ UNCHANGED <<row, print, attempts, worker, orphan, told, crashes, applied, holder>>

(* The process ends, in the middle of the call or after it, and takes its   *)
(* threads (they are daemons) with it.                                      *)
Crash(c) ==
  /\ pc[c] \notin Ended /\ crashes < MaxCrashes
  /\ crashes' = crashes + 1
  /\ Goto(c, "crashed")
  /\ worker' = [worker EXCEPT ![c] = "none"]
  /\ orphan' = [orphan EXCEPT ![c] = "none"]
  /\ UNCHANGED <<row, print, attempts, told, errors, applied, holder>>

Exit(c) ==
  /\ pc[c] \in Ended /\ orphan[c] # "none"
  /\ orphan' = [orphan EXCEPT ![c] = "none"]
  /\ UNCHANGED <<row, print, pc, attempts, worker, told, budgets, applied, holder>>

Own(c) == \/ Look(c) \/ Insert(c) \/ LookAgain(c)
          \/ Attempt(c) \/ Join(c) \/ Expire(c)
          \/ Store(c) \/ Release(c) \/ Raise(c)

ExecutionNext == \E c \in Calls : \/ Own(c) \/ Effect(c) \/ Return(c) \/ OrphanEffect(c)
                         \/ OrphanEnd(c) \/ Crash(c) \/ Exit(c)

ExecutionSpec == ExecutionInit /\ [][ExecutionNext]_execution

(* The thread of a call runs and its deadline passes; an action need not    *)
(* return.                                                                  *)
FairSpec == ExecutionSpec /\ \A c \in Calls : WF_execution(Own(c))

-------------------------------------------------------------------------------
(* Properties                                                               *)

(* A replayed answer was computed by another call for the same input, and   *)
(* that call's action did take effect; no action takes effect more often    *)
(* than its call may try it, the threads left behind included.              *)
AnswersMatchEffects ==
  \A c \in Calls :
    /\ pc[c] = "replayed" => /\ told[c] \in Calls \ {c}
                             /\ print[told[c]] = print[c]
                             /\ applied[told[c]] > 0
    /\ applied[c] <= MaxRetries + 1

(* Every call comes to an end, even if its action never returns. *)
CallsEnd == \A c \in Calls : <>(pc[c] \in Ended)

(* The row and its callers keep the promise of IdempotencyKey: the two      *)
(* statements of a reservation, retries, abandoned threads, crashes and     *)
(* sqlite errors do not show.                                               *)
Held    == IF row # None /\ row.status = "pending" THEN holder ELSE None
Settled == IF row # None /\ row.status = "completed" THEN row.result ELSE None

KeySpec == INSTANCE IdempotencyKey
             WITH Nobody <- None, held <- Held, settled <- Settled, told <- told

RefinesIdempotencyKey == KeySpec!Spec
===============================================================================
