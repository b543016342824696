----------------------- MODULE MCPullRequestControl -----------------------
EXTENDS PullRequestControl

(* The defaults of GatePolicy. *)
DefaultPolicy ==
    [require_approvals |-> 1, block_drafts |-> TRUE, allow_pending_checks |-> TRUE,
     allow_unresolved_threads |-> FALSE, block_failed_checks |-> TRUE, block_p1_latch |-> TRUE,
     require_required_checks |-> TRUE, reject_author_approval |-> TRUE,
     reject_bot_approval |-> TRUE, reject_fixer_approval |-> TRUE]

(* Bounds: checks run on the head of an open pull, and succeed, and are run again, with any    *)
(* outcome, between the decision and the answer of the write; a thread is opened or resolved     *)
(* while the call reads; the second review is of the account of the first, and not of the author; *)
(* a pull is closed or merged by hand between the reads and the end of the call; a scan begins    *)
(* before the first push, the only time it finds something to delete, and ends before the call    *)
(* has read the pull; once the call is over, nobody reviews and no check runs.                    *)
Reruns(attempts) == Len(attempts) > 1
Deciding == \E c \in Calls : call[c].pc \in {"checks", "gated", "writing", "reconciling"}
Decided  == \E c \in Calls : call[c].pc \in {"gated", "writing"} /\ request[c] \in {"none", "sent"}

Bounded ==
    /\ runs' # runs =>
         \A c \in Commits, n \in Checks : runs'[c][n] # runs[c][n] =>
           /\ pull.state = "OPEN" /\ c = pull.head
           /\ IF Reruns(runs'[c][n]) THEN Decided
              ELSE CheckState(runs'[c][n]) \in {"pending", "success"}
    /\ pull.state = "OPEN" /\ pull'.state # "OPEN" => Deciding
    /\ pull'.flags # pull.flags => \E c \in Calls : call[c].pc \in {"reviews", "threads"}
    /\ reviews' # reviews => \A r \in reviews, q \in reviews' : q.login = r.login /\ q.login # Author
    /\ scan.pc = "idle" /\ scan'.pc # "idle" => ref = Base
    /\ scan.pc # "idle" => \A c \in Calls : call'[c].pc \in {"idle", "pull", "reviews"}
    /\ (\A c \in Calls : call[c].pc = "done") => UNCHANGED <<reviews, runs>>

BoundedSpec == Init /\ [][Next /\ Bounded]_vars /\ Fairness
=============================================================================
