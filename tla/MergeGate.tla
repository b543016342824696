----------------------------- MODULE MergeGate -----------------------------
(***************************************************************************)
(* The decisions pr_control.py takes about a pull request, as functions of *)
(* what was read about it.  A review is a record [login, state, at, head]: *)
(* who, what was said, when (Undated when GitHub gave no time) and which   *)
(* commit it covers.  The runs of the checks on a commit are, per name,    *)
(* the sequence of the outcomes of its attempts.                           *)
(***************************************************************************)
EXTENDS Integers, Sequences, FiniteSets

CONSTANTS
    Logins,         \* accounts that review
    Author,         \* the account that opened the pull request
    Bots,           \* accounts GitHub marks as bots
    Denylist,       \* independent_reviewer_denylist
    Apps,           \* the bots that are GitHub Apps the allowlist names by identity
    Allowlist,      \* independent_reviewer_allowlist, {} for none
    Fixers,         \* fixer_logins
    Checks,         \* names of checks
    Required,       \* the checks branch protection or the policy requires
    Policy          \* the boolean and numeric fields of GatePolicy

ASSUME GateAssumption ==
    /\ Author \in Logins /\ Bots \subseteq Logins /\ Apps \subseteq Bots
    /\ Allowlist \subseteq Logins /\ Denylist \subseteq Logins /\ Fixers \subseteq Logins
    /\ Required \subseteq Checks
    /\ Policy.require_approvals \in Nat

Undated == 0

(* review_order: by time, and the undated ones after all others. *)
NotBefore(r, q) == r.at = Undated \/ (q.at # Undated /\ q.at =< r.at)

ReviewsOf(l, reviews) == {r \in reviews : r.login = l}

Latest(l, reviews) ==
    CHOOSE r \in ReviewsOf(l, reviews) : \A q \in ReviewsOf(l, reviews) : NotBefore(r, q)

(* The Apps whose installation was confirmed; a failed lookup confirms none. *)
TrustedApps(reviews, found) ==
    {a \in Apps : found /\ \E r \in ReviewsOf(a, reviews) : r.state = "APPROVED"}

OnAllowlist(l, trusted) == l \in Allowlist /\ (l \in Apps => l \in trusted)

ApprovalsOfAnyCommit(reviews, pin, trusted) ==
    {l \in Logins :
        /\ ReviewsOf(l, reviews) # {}
        /\ LET r == Latest(l, reviews)
           IN  r.state = "APPROVED" /\ r.at # Undated
        /\ Allowlist # {} => OnAllowlist(l, trusted)
        /\ ~(Policy.reject_author_approval /\ l = Author)
        /\ ~(Policy.reject_bot_approval
               /\ (l \in Denylist \/ (l \in Bots /\ l \notin trusted \cap Allowlist)))
        /\ ~(Policy.reject_fixer_approval /\ l \in Fixers)}

(* Whose approval of exactly the pinned commit counts. *)
IndependentApprovals(reviews, pin, trusted) ==
    {l \in Logins :
        /\ ReviewsOf(l, reviews) # {}
        /\ LET r == Latest(l, reviews)
           IN  r.state = "APPROVED" /\ r.at # Undated /\ r.head = pin
        /\ Allowlist # {} => OnAllowlist(l, trusted)
        /\ ~(Policy.reject_author_approval /\ l = Author)
        /\ ~(Policy.reject_bot_approval
               /\ (l \in Denylist \/ (l \in Bots /\ l \notin trusted \cap Allowlist)))
        /\ ~(Policy.reject_fixer_approval /\ l \in Fixers)}

(* The latest attempt of a check decides; a check without a run is missing. *)
CheckState(attempts) == IF attempts = << >> THEN "missing" ELSE attempts[Len(attempts)]

WithState(runs, names, states) == {n \in names : CheckState(runs[n]) \in states}

If(condition, reason) == IF condition THEN {reason} ELSE {}

(* The reasons evaluate_gate finds: pr is what was read of the pull, approvals and runs what was counted. *)
GateReasons(pr, threads, approvals, runs) ==
    LET pending == WithState(runs, Checks, {"pending"})
        failed  == WithState(runs, Checks, {"failed"})
        missing == WithState(runs, Required, {"missing", "other"})
    IN  If(pr.state = "MERGED", "ALREADY_MERGED")
        \cup If(pr.state = "CLOSED", "ALREADY_CLOSED")
        \cup If("draft" \in pr.flags /\ Policy.block_drafts, "DRAFT")
        \cup If(threads /\ ~Policy.allow_unresolved_threads, "UNRESOLVED_THREAD")
        \cup If("conflict" \in pr.flags, "MERGE_CONFLICT")
        \cup If("unknown" \in pr.flags /\ pr.state = "OPEN", "HEAD_STALE")
        \cup If(pending # {} /\ (~Policy.allow_pending_checks \/ pending \cap Required # {}),
                "PENDING_CHECKS")
        \cup If((failed # {} \/ (Policy.require_required_checks /\ missing # {}))
                  /\ Policy.block_failed_checks, "FAILED_CHECKS")
        \cup If("latch" \in pr.flags /\ Policy.block_p1_latch, "P1_LATCH")
        \cup If(Cardinality(approvals) < Policy.require_approvals, "NO_REVIEWS")

(* Only no reason at all passes; a pull that has already ended is a warning, the rest blocks. *)
Verdict(reasons) ==
    IF reasons = {} THEN "PASS"
    ELSE IF reasons \subseteq {"ALREADY_MERGED", "ALREADY_CLOSED"} THEN "WARN" ELSE "BLOCK"

(* gate_for_pr: what the lookups that failed and the pinned commit add to the reasons. *)
GateForPr(pr, reviews, threads, runs, pin, lookups) ==
    LET trusted   == TrustedApps(reviews, lookups.apps)
        approvals == IndependentApprovals(reviews, pin, trusted)
    IN  GateReasons(pr, threads, approvals, runs)
        \cup If(~lookups.apps /\ Cardinality(approvals) < Policy.require_approvals,
                "REVIEWER_APP_LOOKUP_FAILED")
        \cup If(~lookups.checks, "REQUIRED_CHECK_LOOKUP")
        \cup If(pr.head # pin, "HEAD_STALE")
=============================================================================
