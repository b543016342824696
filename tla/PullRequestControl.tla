------------------------- MODULE PullRequestControl -------------------------
(***************************************************************************)
(* merge_pr (pr_control.py) and the scan of stale branches                 *)
(* (branch_lifecycle.py), over the GitHub they share.  A merge reads the   *)
(* pull, its reviews, its threads and its checks one request after the     *)
(* other, decides, and sends one write pinned to the commit the caller     *)
(* named; while it does, people push, review, open threads and merge by    *)
(* hand, requests fail, and an answer that is late counts as a failure.    *)
(***************************************************************************)
EXTENDS MergeGate

CONSTANTS
    Calls,          \* calls of merge_pr
    Commits,        \* the commits the topic branch can be at
    Base,           \* the commit of the base branch the topic starts from
    Flags,          \* what others put on the pull: "draft", "latch", "conflict", "unknown", "thread"
    EndKinds,       \* how a check ends: "success", "failed", "other"
    ReviewStates,   \* what a review says: "APPROVED", "CHANGES_REQUESTED", "PENDING"
    MaxReviews,     \* bound on the reviews submitted
    MaxAttempts,    \* bound on the attempts of one check on one commit
    NoCall, NoPin, Gone

ASSUME PullAssumption ==
    /\ Base \in Commits /\ Gone \notin Commits /\ NoPin \notin Commits /\ NoCall \notin Calls
    /\ EndKinds \subseteq {"success", "failed", "other"}
    /\ MaxReviews \in Nat /\ MaxAttempts \in Nat

VARIABLES
    ref,        \* where the topic branch is, or Gone
    pull,       \* [state, head, flags]: the pull request from the topic branch
    reviews,    \* the reviews submitted so far
    runs,       \* for every commit and check, the outcomes of its attempts
    request,    \* for every call its merge request: none, sent, landed (the pull is merged, the
                \* branch not removed yet), cleaned or uncleaned (then it was), refused or lost
    merged,     \* [by, head]: the call whose request merged the pull (NoCall: a person)
    call,       \* for every call: pc, its pin, what it read, and before: the reviews there
                \* were when it began (for the properties)
    audit,      \* rows of gate_audit: [call, action, pin]
    scan        \* the scan of branches: pc and what it read

hub  == <<ref, pull, reviews, runs, merged>>
vars == <<hub, request, call, audit, scan>>

Unread    == [head |-> Base, state |-> "NONE", flags |-> {}]
NotMerged == [by |-> NoCall, head |-> Gone]

Init ==
    /\ ref = Base
    /\ pull = [state |-> "NONE", head |-> Base, flags |-> {}]
    /\ reviews = {}
    /\ runs = [c \in Commits |-> [n \in Checks |-> << >>]]
    /\ request = [c \in Calls |-> "none"]
    /\ merged = NotMerged
    /\ call = [c \in Calls |-> [pc |-> "idle", pin |-> NoPin, before |-> {}, pr |-> Unread,
                                reviews |-> {}, threads |-> FALSE,
                                lookups |-> [apps |-> TRUE, checks |-> TRUE]]]
    /\ audit = {}
    /\ scan = [pc |-> "idle", open |-> FALSE]

-----------------------------------------------------------------------------
(* What happens on GitHub. *)

(* Also after the merge, and to a branch that was removed: the pull no longer follows. *)
Push(c) ==
    /\ c \in Commits \ {ref, Base}
    /\ ref' = c
    /\ pull' = IF pull.state = "OPEN" THEN [pull EXCEPT !.head = c] ELSE pull
    /\ UNCHANGED <<reviews, runs, merged, request, call, audit, scan>>

OpenPull ==
    /\ pull.state = "NONE" /\ ref \notin {Gone, Base}
    /\ pull' = [pull EXCEPT !.state = "OPEN", !.head = ref]
    /\ UNCHANGED <<ref, reviews, runs, merged, request, call, audit, scan>>

ClosePull ==
    /\ pull.state = "OPEN"
    /\ pull' = [pull EXCEPT !.state = "CLOSED"]
    /\ UNCHANGED <<ref, reviews, runs, merged, request, call, audit, scan>>

(* A review that its author has not submitted yet is visible to him, and has no time. *)
Review(l, state) ==
    /\ pull.state = "OPEN" /\ Cardinality(reviews) < MaxReviews
    /\ reviews' = reviews \cup
         {[login |-> l, state |-> state, head |-> pull.head,
           at |-> IF state = "PENDING" THEN Undated ELSE Cardinality(reviews) + 1]}
    /\ UNCHANGED <<ref, pull, runs, merged, request, call, audit, scan>>

ToggleFlag(f) ==
    /\ pull.state = "OPEN"
    /\ pull' = [pull EXCEPT !.flags = IF f \in @ THEN @ \ {f} ELSE @ \cup {f}]
    /\ UNCHANGED <<ref, reviews, runs, merged, request, call, audit, scan>>

StartCheck(c, n) ==
    /\ c # Base /\ Len(runs[c][n]) < MaxAttempts /\ CheckState(runs[c][n]) # "pending"
    /\ runs' = [runs EXCEPT ![c][n] = Append(@, "pending")]
    /\ UNCHANGED <<ref, pull, reviews, merged, request, call, audit, scan>>

EndCheck(c, n, kind) ==
    /\ CheckState(runs[c][n]) = "pending"
    /\ runs' = [runs EXCEPT ![c][n][Len(runs[c][n])] = kind]
    /\ UNCHANGED <<ref, pull, reviews, merged, request, call, audit, scan>>

MergeByHand ==
    /\ pull.state = "OPEN" /\ "conflict" \notin pull.flags
    /\ pull' = [pull EXCEPT !.state = "MERGED"]
    /\ merged' = [by |-> NoCall, head |-> pull.head]
    /\ ref' \in {ref, Gone}
    /\ UNCHANGED <<reviews, runs, request, call, audit, scan>>

(* The merge request: --match-head-commit lets it land only at its pin, and a draft or a *)
(* conflict is refused whatever was read before.                                          *)
AnswerMerge(c) ==
    /\ request[c] = "sent"
    /\ IF pull.state = "OPEN" /\ pull.head = call[c].pin /\ pull.flags \cap {"draft", "conflict"} = {}
       THEN /\ request' = [request EXCEPT ![c] = "landed"]
            /\ pull' = [pull EXCEPT !.state = "MERGED"]
            /\ merged' = [by |-> c, head |-> pull.head]
       ELSE /\ request' = [request EXCEPT ![c] = "refused"]
            /\ UNCHANGED <<pull, merged>>
    /\ UNCHANGED <<ref, reviews, runs, call, audit, scan>>

(* --delete-branch is one more request after the merge, and names the branch, not a commit: *)
(* it removes whatever is there by then.                                                     *)
DeleteBranch(c) ==
    /\ request[c] = "landed"
    /\ request' = [request EXCEPT ![c] = "cleaned"]
    /\ ref' = Gone
    /\ UNCHANGED <<pull, reviews, runs, merged, call, audit, scan>>

(* That request fails: gh says so, and nothing of the merge. *)
KeepBranch(c) ==
    /\ request[c] = "landed"
    /\ request' = [request EXCEPT ![c] = "uncleaned"]
    /\ UNCHANGED <<hub, call, audit, scan>>

LoseRequest(c) ==
    /\ request[c] = "sent"
    /\ request' = [request EXCEPT ![c] = "lost"]
    /\ UNCHANGED <<hub, call, audit, scan>>

Hub ==
    \/ \E c \in Commits : Push(c)
    \/ OpenPull
    \/ ClosePull
    \/ MergeByHand
    \/ \E l \in Logins, state \in ReviewStates : Review(l, state)
    \/ \E f \in Flags : ToggleFlag(f)
    \/ \E c \in Commits, n \in Checks : StartCheck(c, n)
    \/ \E c \in Commits, n \in Checks, kind \in EndKinds : EndCheck(c, n, kind)
    \/ \E c \in Calls : AnswerMerge(c) \/ DeleteBranch(c) \/ KeepBranch(c) \/ LoseRequest(c)

-----------------------------------------------------------------------------
(* One call of merge_pr. *)

Go(c, pc) == call' = [call EXCEPT ![c].pc = pc]

(* What was read serves the decision only. *)
Forget(c, pc) ==
    call' = [call EXCEPT ![c].pc = pc, ![c].pr = Unread, ![c].reviews = {}, ![c].threads = FALSE,
                         ![c].lookups = [apps |-> TRUE, checks |-> TRUE]]

Record(c, action) == audit' = audit \cup {[call |-> c, action |-> action, pin |-> call[c].pin]}

End(c, action) ==
    /\ Forget(c, "done")
    /\ Record(c, action)
    /\ UNCHANGED <<hub, request, scan>>

Begin(c, pin) ==
    /\ call[c].pc = "idle"
    /\ call' = [call EXCEPT ![c].pc = "pull", ![c].pin = pin,
                         ![c].before = reviews]
    /\ UNCHANGED <<hub, request, audit, scan>>

(* normalize_rest_pull: the threads are not among the fields of the REST answer. *)
AsRead(p) == [p EXCEPT !.flags = @ \ {"thread"}]

(* pull_request: the pull, its reviews and its threads are three requests, at three moments. *)
ReadPull(c) ==
    /\ call[c].pc = "pull" /\ pull.state # "NONE"
    /\ call' = [call EXCEPT ![c].pc = "reviews", ![c].pr = AsRead(pull)]
    /\ UNCHANGED <<hub, request, audit, scan>>

ReadReviews(c) ==
    /\ call[c].pc = "reviews"
    /\ call' = [call EXCEPT ![c].pc = "threads", ![c].reviews = reviews]
    /\ UNCHANGED <<hub, request, audit, scan>>

ReadThreads(c) ==
    /\ call[c].pc = "threads"
    /\ call' = [call EXCEPT ![c].pc = "scope", ![c].threads = "thread" \in pull.flags]
    /\ UNCHANGED <<hub, request, audit, scan>>

(* A read that fails for good, or for the last time, ends the call before any row is written. *)
ReadFails(c) ==
    /\ call[c].pc \in {"pull", "reviews", "threads"}
    /\ Forget(c, "done")
    /\ UNCHANGED <<hub, request, audit, scan>>

(* A repository or plane the policy does not allow and a missing pin are refused before the *)
(* gate.  Which repository a call names is left open, so that the first is always possible.  *)
RejectScope(c) ==
    /\ call[c].pc = "scope"
    /\ End(c, "merge_rejected")

(* The lookups of the reviewing Apps, the protection and the required checks; they may fail. *)
LookUp(c) ==
    /\ call[c].pc = "scope" /\ call[c].pin # NoPin
    /\ \E apps \in IF Allowlist \cap Apps = {} THEN {TRUE} ELSE BOOLEAN, checks \in BOOLEAN :
         call' = [call EXCEPT ![c].pc = "checks",
                              ![c].lookups = [apps |-> apps, checks |-> checks]]
    /\ UNCHANGED <<hub, request, audit, scan>>

(* The checks are read for the head the pull had; a failed read has no rows and blocks. *)
GateOf(c, rows, found) ==
    GateForPr(call[c].pr, call[c].reviews, call[c].threads, rows, call[c].pin,
              [call[c].lookups EXCEPT !.checks = @ /\ found])

Decide(c) ==
    /\ call[c].pc = "checks"
    /\ \E found \in BOOLEAN :
         LET rows == IF found THEN runs[call[c].pr.head] ELSE [n \in Checks |-> << >>]
         IN  IF Verdict(GateOf(c, rows, found)) = "PASS"
             THEN /\ Forget(c, "gated")
                  /\ UNCHANGED <<hub, request, audit, scan>>
             ELSE End(c, "merge_rejected")

(* gh pr merge --squash --match-head-commit pin, sent once and never again. *)
SendMerge(c) ==
    /\ call[c].pc = "gated"
    /\ request' = [request EXCEPT ![c] = "sent"]
    /\ Go(c, "writing")
    /\ UNCHANGED <<hub, audit, scan>>

MergeApplied(c) ==
    /\ call[c].pc = "writing" /\ request[c] = "cleaned"
    /\ End(c, "merge_applied")

MergeRefusedUnrecorded(c) ==
    /\ call[c].pc = "writing" /\ request[c] \in {"refused", "uncleaned"}
    /\ Forget(c, "done")
    /\ UNCHANGED <<hub, request, audit, scan>>

MergeRefused(c) ==
    /\ call[c].pc = "writing" /\ request[c] \in {"refused", "uncleaned"}
    /\ End(c, "merge_failed")

(* The write timed out or failed on the way: nothing is known of it. *)
WriteUnknown(c) ==
    /\ call[c].pc = "writing"
    /\ Go(c, "reconciling")
    /\ UNCHANGED <<hub, request, audit, scan>>

(* One read decides: merged, and at the pin; a read that fails proves nothing. *)
Reconcile(c) ==
    /\ call[c].pc = "reconciling"
    /\ \E read \in BOOLEAN :
         IF read /\ pull.state = "MERGED" /\ pull.head = call[c].pin
         THEN End(c, "merge_applied")
         ELSE End(c, "merge_failed")

CallStep(c) ==
    \/ ReadPull(c) \/ ReadReviews(c) \/ ReadThreads(c) \/ ReadFails(c)
    \/ RejectScope(c) \/ LookUp(c) \/ Decide(c) \/ SendMerge(c)
    \/ MergeApplied(c) \/ MergeRefused(c) \/ WriteUnknown(c) \/ Reconcile(c)

-----------------------------------------------------------------------------
(* scan --apply for the topic branch, whose class is not one of those always retained. *)

(* A failed gh pr list answers no open pull at all. *)
ScanPulls ==
    /\ scan.pc = "idle"
    /\ \E read \in BOOLEAN : scan' = [pc |-> "refs", open |-> read /\ pull.state = "OPEN"]
    /\ UNCHANGED <<hub, request, call, audit>>

(* Only a commit contained in the base, without an open pull, would be deleted; a count git  *)
(* cannot give retains.                                                                       *)
IsAutoDeletable(sha, known, open) == known /\ sha = Base /\ ~open

(* The branches are fetched and their unique commits counted in that copy.  A failed fetch    *)
(* answers no branch at all.                                                                  *)
ScanRefs ==
    /\ scan.pc = "refs"
    /\ \E read, known \in BOOLEAN :
         scan' = [pc |-> IF read /\ ref # Gone /\ IsAutoDeletable(ref, known, scan.open)
                         THEN "verify" ELSE "idle",
                  open |-> FALSE]
    /\ UNCHANGED <<hub, request, call, audit>>

DeleteRefByName ==
    /\ scan.pc = "verify"
    /\ ref' = Gone
    /\ scan' = [pc |-> "idle", open |-> FALSE]
    /\ UNCHANGED <<pull, reviews, runs, merged, request, call, audit>>

(* git_delete_ref looks at the ref once more, and retains it either way: push --delete cannot *)
(* assert the commit it deletes.                                                               *)
DeleteRef ==
    /\ scan.pc = "verify"
    /\ scan' = [pc |-> "idle", open |-> FALSE]
    /\ UNCHANGED <<hub, request, call, audit>>

ScanStep == ScanPulls \/ ScanRefs \/ DeleteRef

Next ==
    \/ Hub
    \/ \E c \in Calls, pin \in (Commits \ {Base}) \cup {NoPin} : Begin(c, pin)
    \/ \E c \in Calls : CallStep(c)
    \/ ScanStep

(* A call keeps taking its steps, each of which is bounded by the transport's timeout. *)
Fairness == \A c \in Calls : WF_vars(CallStep(c))

Spec == Init /\ [][Next]_vars /\ Fairness

-----------------------------------------------------------------------------
TypeOK ==
    /\ ref \in Commits \cup {Gone}
    /\ pull \in [state : {"NONE", "OPEN", "CLOSED", "MERGED"}, head : Commits, flags : SUBSET Flags]
    /\ reviews \subseteq [login : Logins, state : ReviewStates,
                           head : Commits, at : 0..MaxReviews]
    /\ runs \in [Commits -> [Checks -> Seq(EndKinds \cup {"pending"})]]
    /\ request \in [Calls -> {"none", "sent", "landed", "cleaned", "uncleaned", "refused", "lost"}]
    /\ merged \in [by : Calls \cup {NoCall}, head : Commits \cup {Gone}]
    /\ audit \subseteq [call : Calls, pin : Commits \cup {NoPin},
                         action : {"merge_rejected", "merge_failed", "merge_applied"}]

(* A pull that a call merged was merged at the commit its caller named; that very commit was   *)
(* approved by somebody other than the author, a fixer and the denied accounts, who had not     *)
(* taken it back when the call began, and every required check succeeded on it: the reads are   *)
(* minutes and several requests old by the time the write lands, and the pull may have moved    *)
(* between any two of them.                                                                      *)
MergeIsJustified ==
    merged.by \in Calls =>
        LET pin == call[merged.by].pin
        IN  /\ merged.head = pin
            /\ \E r \in reviews :
                 /\ r.head = pin /\ r.state = "APPROVED"
                 /\ r.login \notin {Author} \cup Denylist \cup Fixers \cup (Bots \ Apps)
                 /\ \A q \in ReviewsOf(r.login, call[merged.by].before) : q.at =< r.at
            /\ \A n \in Required : \E k \in DOMAIN runs[pin][n] : runs[pin][n][k] = "success"

(* A row that says a merge was applied is true, also when the answer of the write was lost.     *)
AuditIsTrue ==
    \A row \in audit : row.action = "merge_applied" =>
        pull.state = "MERGED" /\ merged.head = row.pin

(* A branch disappears only once its pull is merged, and at the commit that was merged unless   *)
(* somebody pushed to it after the merge: neither a call whose request was refused because the   *)
(* branch moved, nor a scan whose picture of pulls and branches is stale by the time it comes to *)
(* delete, takes work of a pull with it.                                                          *)
OnlyMergedBranchesGo ==
    [][ref # Gone /\ ref' = Gone =>
          pull'.state = "MERGED" /\ (merged'.head = ref \/ pull.state = "MERGED")]_vars

(* A commit of its own never disappears with its branch.  No run checks it: what is pushed       *)
(* between the merge and the request that removes the branch by its name is lost.                *)
NothingUniqueLost ==
    [][ref \notin {Gone, Base} /\ ref' = Gone => merged'.head = ref]_vars

(* Every merge request that was sent is accounted for by a row, whatever became of it, and a    *)
(* row that says it was applied is true: the pull is merged at the pin of the row, even when    *)
(* the answer was lost and somebody else merged the pull at another commit.                     *)
SentIsAudited ==
    []AuditIsTrue /\ \A c \in Calls : call[c].pc = "writing" ~> \E row \in audit : row.call = c

(* "Records the attempt in the audit trail regardless of outcome" (merge_pr).  No run checks    *)
(* it: a read that fails before the decision leaves no row.                                      *)
AttemptIsAudited ==
    \A c \in Calls : call[c].pc = "done" => \E row \in audit : row.call = c
=============================================================================
