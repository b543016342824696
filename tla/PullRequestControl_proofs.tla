---------------------- MODULE PullRequestControl_proofs ----------------------
(***************************************************************************)
(* Safety of PullRequestControl for any calls, commits, checks, accounts   *)
(* and bounds.                                                             *)
(*                                                                         *)
(* That rows are true needs what each call's request can be at each stage, *)
(* and that a request that landed merged its pin (RequestsSound).  That a  *)
(* merge is justified needs, besides, that what justified it is still      *)
(* there when the request lands: no review is ever unsubmitted and no      *)
(* attempt of a check undone, so what a call found when it decided holds   *)
(* of its pin ever after (GateSound), however far the pull itself has      *)
(* moved on.                                                               *)
(***************************************************************************)
EXTENDS PullRequestControl, FiniteSetTheorems, SequenceTheorems, TLAPS

(* What the variables hold, calls included. *)
Reviews == [login : Logins, state : ReviewStates, head : Commits, at : 0 .. MaxReviews]

Pulls == [state : {"NONE", "OPEN", "CLOSED", "MERGED"}, head : Commits, flags : SUBSET Flags]

Outcomes == {"none", "sent", "landed", "cleaned", "uncleaned", "refused", "lost"}

(* The requests that merged the pull, whatever became of the branch. *)
Landed == {"landed", "cleaned", "uncleaned"}

Stages == {"idle", "pull", "reviews", "threads", "scope", "checks", "gated", "writing",
           "reconciling", "done"}

CallRecord ==
    [pc : Stages, pin : Commits \cup {NoPin}, before : SUBSET Reviews, pr : Pulls, reviews : SUBSET Reviews,
     threads : BOOLEAN, lookups : [apps : BOOLEAN, checks : BOOLEAN]]

PullTypeInv ==
    /\ TypeOK /\ IsFiniteSet(reviews)
    /\ call \in [Calls -> CallRecord]

(* An open pull is where its branch is, and a merged one stays what was merged. *)
PullSound ==
    /\ pull.state = "OPEN" => ref = pull.head
    /\ pull.state = "MERGED" => merged.head = pull.head
    /\ merged.by \in Calls => request[merged.by] \in Landed

(* A call has no request before it writes, and one that landed merged its pin. *)
RequestsSound ==
    \A c \in Calls :
        /\ call[c].pc \notin {"writing", "reconciling", "done"} => request[c] = "none"
        /\ request[c] \in Landed => pull.state = "MERGED" /\ merged.head = call[c].pin

PullInv == PullTypeInv /\ PullSound /\ RequestsSound /\ AuditIsTrue

(* Somebody whose word counts approved the commit and had not taken it back before, and what it must pass it has passed. *)
Approved(pin, before) ==
    \E r \in reviews : /\ r.head = pin /\ r.state = "APPROVED"
                       /\ r.login \notin {Author} \cup Denylist \cup Fixers \cup (Bots \ Apps)
                       /\ \A q \in ReviewsOf(r.login, before) : q.at =< r.at

Checked(pin) ==
    \A n \in Required : \E k \in DOMAIN runs[pin][n] : runs[pin][n][k] = "success"

(* The stages of a call that has read the reviews and not decided yet. *)
Informed == {"threads", "scope", "checks"}

(* What a call has read was there, and a call past its gate has a pin that passed it. *)
Decided(c) ==
    call[c].pc \in {"gated", "writing", "reconciling"} \/ request[c] # "none" =>
        call[c].pin \in Commits /\ Approved(call[c].pin, call[c].before) /\ Checked(call[c].pin)

Heard(c) ==
    /\ call[c].reviews \subseteq reviews /\ call[c].before \subseteq reviews
    /\ call[c].pc \in Informed => call[c].before \subseteq call[c].reviews

GateSound == \A c \in Calls : Heard(c) /\ Decided(c)

(* The policy asks for a review and for the checks, as GatePolicy does unless told otherwise. *)
StrictPolicy ==
    /\ Policy.require_approvals > 0
    /\ Policy.reject_author_approval /\ Policy.reject_bot_approval /\ Policy.reject_fixer_approval
    /\ Policy.require_required_checks /\ Policy.block_failed_checks

-----------------------------------------------------------------------------
(* The gate.                                                                *)

(* Whoever reviewed has a latest review: none is later than one with the fewest after it. *)
LEMMA LatestIsReview ==
  ASSUME NEW all \in SUBSET Reviews, IsFiniteSet(all), NEW l, ReviewsOf(l, all) # {}
  PROVE  /\ Latest(l, all) \in ReviewsOf(l, all)
         /\ \A q \in ReviewsOf(l, all) : NotBefore(Latest(l, all), q)
<1> DEFINE own == ReviewsOf(l, all)
           Later(r) == {q \in own : ~NotBefore(r, q)}
           laters == {Later(r) : r \in own}
<1>1. own \subseteq all /\ IsFiniteSet(own)
  BY FS_Subset DEF ReviewsOf
<1>2. laters \subseteq FiniteSubsetsOf(own) /\ laters # {}
  <2>1. \A r \in own : Later(r) \subseteq own /\ IsFiniteSet(Later(r))
    BY <1>1, FS_Subset
  <2> QED
    BY <2>1 DEF FiniteSubsetsOf
<1>3. PICK d \in laters : \A e \in laters : <<e, d>> \notin StrictSubsetOrdering(own)
  BY <1>2, FS_StrictSubsetOrderingWellFounded, WFMin
<1>4. PICK r \in own : d = Later(r)
  OBVIOUS
<1>5. ASSUME NEW q \in own PROVE NotBefore(r, q)
  <2> SUFFICES ASSUME ~NotBefore(r, q) PROVE FALSE
    OBVIOUS
  <2>0. \A p \in own : p.at \in Nat
    BY <1>1 DEF Reviews
  <2>1. q \in Later(r) /\ q \notin Later(q)
    BY <2>0 DEF NotBefore
  <2>2. Later(q) \subseteq Later(r)
    BY <2>0 DEF NotBefore, Undated
  <2>3. <<Later(q), Later(r)>> \in StrictSubsetOrdering(own)
    BY <2>1, <2>2 DEF StrictSubsetOrdering
  <2> QED
    BY <1>3, <1>4, <2>3
<1> QED
  BY <1>5 DEF Latest

(* An approval that counts is of the pinned commit, by none of those whose word does not, and *)
(* the last of its author's.                                                                    *)
LEMMA ApprovalsAreIndependent ==
  ASSUME StrictPolicy, NEW all \in SUBSET Reviews, IsFiniteSet(all), NEW pin, NEW found,
         NEW l \in IndependentApprovals(all, pin, TrustedApps(all, found))
  PROVE  \E r \in all : /\ r.head = pin /\ r.state = "APPROVED"
                        /\ r.login \notin {Author} \cup Denylist \cup Fixers \cup (Bots \ Apps)
                        /\ \A q \in ReviewsOf(r.login, all) : q.at =< r.at
<1> DEFINE r == Latest(l, all)
<1>1. ReviewsOf(l, all) # {} /\ r.state = "APPROVED" /\ r.head = pin /\ r.at # Undated
  BY DEF IndependentApprovals
<1>2. r \in all /\ r.login = l
  BY <1>1, LatestIsReview DEF ReviewsOf
<1>3. l \notin {Author} \cup Denylist \cup Fixers \cup (Bots \ Apps)
  <2>1. TrustedApps(all, found) \subseteq Apps
    BY DEF TrustedApps
  <2> QED
    BY <2>1 DEF IndependentApprovals, StrictPolicy
<1>4. \A q \in ReviewsOf(l, all) : NotBefore(r, q)
  BY <1>1, LatestIsReview
<1> HIDE DEF r
<1> QED
  BY <1>1, <1>2, <1>3, <1>4 DEF NotBefore

(* What a gate that passes has found. *)
LEMMA GateHasPassed ==
  ASSUME StrictPolicy, NEW pr, NEW all, NEW threads, NEW rows, NEW pin, NEW lookups,
         Verdict(GateForPr(pr, all, threads, rows, pin, lookups)) = "PASS"
  PROVE  /\ pr.head = pin /\ lookups.checks
         /\ IndependentApprovals(all, pin, TrustedApps(all, lookups.apps)) # {}
         /\ \A n \in Required : CheckState(rows[n]) \notin {"pending", "failed", "missing", "other"}
<1> DEFINE approvals == IndependentApprovals(all, pin, TrustedApps(all, lookups.apps))
<1>1. GateForPr(pr, all, threads, rows, pin, lookups) = {}
  BY DEF Verdict
<1>2. /\ GateReasons(pr, threads, approvals, rows) = {}
      /\ pr.head = pin /\ lookups.checks
  BY <1>1 DEF GateForPr, If
<1>3. ~(Cardinality(approvals) < Policy.require_approvals)
  <2> HIDE DEF approvals
  <2> QED
    BY <1>2 DEF GateReasons, If
<1>4. approvals # {}
  BY <1>3, FS_EmptySet DEF StrictPolicy
<1>5. ASSUME NEW n \in Required PROVE CheckState(rows[n]) \notin {"pending", "failed", "missing", "other"}
  <2> HIDE DEF approvals
  <2>1. n \in Checks
    BY GateAssumption
  <2>2. ~(WithState(rows, Checks, {"pending"}) \cap Required # {})
    BY <1>2 DEF GateReasons, If
  <2>3. WithState(rows, Checks, {"failed"}) = {} /\ WithState(rows, Required, {"missing", "other"}) = {}
    BY <1>2 DEF GateReasons, If, StrictPolicy
  <2> QED
    BY <2>1, <2>2, <2>3 DEF WithState
<1> QED
  BY <1>2, <1>4, <1>5

-----------------------------------------------------------------------------
(* What people and checks do on GitHub.                                     *)

(* The pull is changed but not merged, and everything else is as it was. *)
LEMMA PullMoves ==
  ASSUME PullInv, pull' \in Pulls, ref' \in Commits \cup {Gone},
         pull' = pull \/ (pull.state # "MERGED" /\ pull'.state # "MERGED"), pull'.state = "OPEN" => ref' = pull'.head,
         UNCHANGED <<reviews, runs, merged, request, call, audit>>
  PROVE  PullInv'
<1>1. PullTypeInv'
  BY DEF PullInv, PullTypeInv, TypeOK, Pulls
<1>2. PullSound'
  BY DEF PullInv, PullSound
<1>3. RequestsSound'
  BY DEF PullInv, RequestsSound
<1>4. AuditIsTrue'
  BY DEF PullInv, AuditIsTrue
<1> QED
  BY <1>1, <1>2, <1>3, <1>4 DEF PullInv

(* The pull is merged by hand or by the request of a call. *)
LEMMA PullMerges ==
  ASSUME PullInv, pull.state = "OPEN", NEW by \in Calls \cup {NoCall},
         pull' = [pull EXCEPT !.state = "MERGED"], merged' = [by |-> by, head |-> pull.head],
         ref' \in {ref, Gone}, UNCHANGED <<reviews, runs, call, audit>>,
         \/ by = NoCall /\ request' = request
         \/ /\ by \in Calls /\ request[by] = "sent" /\ pull.head = call[by].pin
            /\ request' = [request EXCEPT ![by] = "landed"]
  PROVE  PullInv'
<1>1. /\ pull' \in Pulls /\ pull'.state = "MERGED" /\ pull'.head = pull.head /\ pull.head \in Commits
      /\ merged'.head = pull.head /\ merged'.by = by
  BY DEF PullInv, PullTypeInv, TypeOK, Pulls
<1>2. \A c \in Calls : request[c] \notin Landed
  BY DEF PullInv, RequestsSound
<1>3. /\ request' \in [Calls -> Outcomes]
      /\ \A c \in Calls : /\ request'[c] \in Landed => c = by /\ pull.head = call[c].pin
                          /\ request[c] = "none" => request'[c] = "none"
  BY <1>2 DEF PullInv, PullTypeInv, TypeOK, Outcomes, Landed
<1>4. PullTypeInv'
  BY <1>1, <1>3 DEF PullInv, PullTypeInv, TypeOK, Pulls
<1>5. PullSound'
  BY <1>1, PullAssumption DEF PullInv, PullTypeInv, TypeOK, PullSound, Landed
<1>6. RequestsSound'
  BY <1>1, <1>3 DEF PullInv, RequestsSound
<1>7. AuditIsTrue'
  BY DEF PullInv, AuditIsTrue
<1> QED
  BY <1>4, <1>5, <1>6, <1>7 DEF PullInv

(* A request of a call ends without a merge, or the one after its merge does. *)
LEMMA RequestEnds ==
  ASSUME PullInv, NEW c \in Calls, NEW end,
         \/ request[c] = "sent" /\ end \in {"refused", "lost"} /\ ref' = ref
         \/ request[c] = "landed" /\ end \in {"cleaned", "uncleaned"} /\ ref' \in {ref, Gone},
         request' = [request EXCEPT ![c] = end],
         UNCHANGED <<pull, reviews, runs, merged, call, audit>>
  PROVE  PullInv'
<1>1. /\ request' \in [Calls -> Outcomes]
      /\ \A d \in Calls : /\ request'[d] \in Landed <=> request[d] \in Landed
                          /\ request[d] = "none" => request'[d] = "none"
  BY DEF PullInv, PullTypeInv, TypeOK, Outcomes, Landed
<1>2. PullTypeInv' /\ AuditIsTrue'
  BY <1>1 DEF PullInv, PullTypeInv, TypeOK, AuditIsTrue
<1>3. PullSound' /\ RequestsSound'
  BY <1>1 DEF PullInv, PullSound, RequestsSound, Landed
<1> QED
  BY <1>2, <1>3 DEF PullInv

(* The checks go on: an attempt is added, or the pending one ends. *)
LEMMA ChecksGoOn ==
  ASSUME PullInv, NEW c \in Commits, NEW n \in Checks,
         (StartCheck(c, n) \/ \E kind \in EndKinds : EndCheck(c, n, kind))
  PROVE  /\ runs' \in [Commits -> [Checks -> Seq(EndKinds \cup {"pending"})]]
         /\ \A pin \in Commits : Checked(pin) => Checked(pin)'
<1> DEFINE old == runs[c][n]
<1>1. old \in Seq(EndKinds \cup {"pending"}) /\ Len(old) \in Nat /\ DOMAIN old = 1 .. Len(old)
      /\ runs \in [Commits -> [Checks -> Seq(EndKinds \cup {"pending"})]]
  BY DEF PullInv, PullTypeInv, TypeOK, Outcomes, Landed
<1>2. PICK new : /\ runs' = [runs EXCEPT ![c] = [runs[c] EXCEPT ![n] = new]]
                 /\ new \in Seq(EndKinds \cup {"pending"})
                 /\ \A k \in DOMAIN old : k \in DOMAIN new /\ (old[k] = "success" => new[k] = "success")
  <2>1. CASE StartCheck(c, n)
    <3> DEFINE new == Append(old, "pending")
    <3>1. runs' = [runs EXCEPT ![c] = [runs[c] EXCEPT ![n] = new]]
      BY <2>1 DEF StartCheck
    <3>2. new \in Seq(EndKinds \cup {"pending"}) /\ Len(new) = Len(old) + 1
      BY <1>1
    <3>3. \A k \in 1 .. Len(old) : new[k] = old[k]
      BY <1>1, AppendProperties
    <3>4. DOMAIN new = 1 .. Len(new)
      BY <3>2
    <3> HIDE DEF new
    <3>5. \A k \in DOMAIN old : k \in DOMAIN new /\ new[k] = old[k]
      BY <1>1, <3>2, <3>3, <3>4
    <3> QED
      BY <3>1, <3>2, <3>5
  <2>2. ASSUME NEW kind \in EndKinds, EndCheck(c, n, kind)
        PROVE  \E new : /\ runs' = [runs EXCEPT ![c] = [runs[c] EXCEPT ![n] = new]]
                        /\ new \in Seq(EndKinds \cup {"pending"})
                        /\ \A k \in DOMAIN old : k \in DOMAIN new /\ (old[k] = "success" => new[k] = "success")
    <3> DEFINE new == [old EXCEPT ![Len(old)] = kind]
    <3>1. runs' = [runs EXCEPT ![c] = [runs[c] EXCEPT ![n] = new]]
      BY <2>2, <1>1 DEF EndCheck
    <3>2. old[Len(old)] = "pending"
      BY <2>2, <1>1 DEF EndCheck, CheckState
    <3>3. new \in Seq(EndKinds \cup {"pending"}) /\ DOMAIN new = DOMAIN old
      <4>1. Len(old) \in 1 .. Len(old)
        BY <2>2, <1>1, EmptySeq, LenProperties DEF EndCheck, CheckState
      <4> QED
        BY <4>1, <1>1, ExceptSeq
    <3>4. \A k \in DOMAIN old : old[k] = "success" => new[k] = "success"
      BY <3>2, <1>1
    <3> QED
      BY <3>1, <3>3, <3>4
  <2> QED
    BY <2>1, <2>2
<1>3. runs' \in [Commits -> [Checks -> Seq(EndKinds \cup {"pending"})]]
  BY <1>1, <1>2
<1>4. \A pin \in Commits, m \in Checks :
         runs'[pin][m] = IF pin = c /\ m = n THEN new ELSE runs[pin][m]
  BY <1>1, <1>2
<1>5. ASSUME NEW pin \in Commits, Checked(pin) PROVE Checked(pin)'
  <2> SUFFICES ASSUME NEW m \in Required PROVE \E k \in DOMAIN runs'[pin][m] : runs'[pin][m][k] = "success"
    BY DEF Checked
  <2>1. PICK k \in DOMAIN runs[pin][m] : runs[pin][m][k] = "success"
    BY <1>5 DEF Checked
  <2>2. m \in Checks
    BY GateAssumption
  <2> QED
    BY <2>1, <2>2, <1>2, <1>4
<1> QED
  BY <1>3, <1>5

(* Nothing else is touched by the checks. *)
LEMMA ChecksKeepInv ==
  ASSUME PullInv, runs' \in [Commits -> [Checks -> Seq(EndKinds \cup {"pending"})]],
         UNCHANGED <<ref, pull, reviews, merged, request, call, audit>>
  PROVE  PullInv'
BY DEF PullInv, PullTypeInv, TypeOK, PullSound, RequestsSound, AuditIsTrue

(* A review is submitted. *)
LEMMA ReviewKeepsInv ==
  ASSUME PullInv, NEW l \in Logins, NEW state \in ReviewStates, Review(l, state)
  PROVE  PullInv' /\ reviews \subseteq reviews'
<1> DEFINE new == [login |-> l, state |-> state, head |-> pull.head,
                   at |-> IF state = "PENDING" THEN Undated ELSE Cardinality(reviews) + 1]
<1>1. /\ reviews' = reviews \cup {new} /\ Cardinality(reviews) < MaxReviews
      /\ UNCHANGED <<ref, pull, runs, merged, request, call, audit>>
  BY DEF Review
<1>2. Cardinality(reviews) \in Nat /\ pull.head \in Commits
  BY FS_CardinalityType DEF PullInv, PullTypeInv, TypeOK, Outcomes, Landed
<1>3. new \in Reviews
  BY <1>1, <1>2, PullAssumption DEF Reviews, Undated
<1>4. reviews' \subseteq Reviews /\ IsFiniteSet(reviews')
  BY <1>1, <1>3, FS_AddElement DEF PullInv, PullTypeInv, TypeOK, Reviews
<1>5. PullTypeInv'
  BY <1>1, <1>4 DEF PullInv, PullTypeInv, TypeOK, Reviews
<1>6. PullSound' /\ RequestsSound' /\ AuditIsTrue'
  BY <1>1 DEF PullInv, PullSound, RequestsSound, AuditIsTrue
<1> QED
  BY <1>1, <1>5, <1>6 DEF PullInv

(* Every step on GitHub keeps the invariant, and takes no approval and no passed check back. *)
LEMMA HubKeepsInv ==
  ASSUME PullInv, Hub
  PROVE  /\ PullInv'
         /\ call' = call /\ reviews \subseteq reviews' /\ scan' = scan
         /\ \A pin \in Commits : Checked(pin) => Checked(pin)'
         /\ \A c \in Calls : request'[c] # "none" <=> request[c] # "none"
<1> DEFINE Goal == /\ PullInv'
                   /\ call' = call /\ reviews \subseteq reviews' /\ scan' = scan
                   /\ \A pin \in Commits : Checked(pin) => Checked(pin)'
                   /\ \A c \in Calls : request'[c] # "none" <=> request[c] # "none"
<1>0. pull \in Pulls /\ pull.head \in Commits /\ PullTypeInv
  BY DEF PullInv, PullTypeInv, TypeOK, Pulls
<1>a. ASSUME runs' = runs PROVE \A pin \in Commits : Checked(pin) => Checked(pin)'
  BY <1>a DEF Checked
<1>1. ASSUME NEW c \in Commits, Push(c) PROVE Goal
  <2>1. /\ ref' = c
        /\ pull' = IF pull.state = "OPEN" THEN [pull EXCEPT !.head = c] ELSE pull
        /\ UNCHANGED <<reviews, runs, merged, request, call, audit, scan>>
    BY <1>1 DEF Push
  <2>2. pull' \in Pulls /\ (pull'.state = "OPEN" => pull'.head = c)
        /\ (pull' = pull \/ (pull.state = "OPEN" /\ pull'.state = "OPEN"))
    BY <2>1, <1>0 DEF Pulls
  <2> QED
    BY <2>1, <2>2, <1>a, PullMoves
<1>2. CASE OpenPull \/ ClosePull
  <2>1. /\ pull.state # "MERGED" /\ ref' = ref /\ ref \in Commits \cup {Gone}
        /\ pull' \in Pulls /\ pull'.state # "MERGED"
        /\ pull'.state = "OPEN" => pull'.head = ref
        /\ UNCHANGED <<reviews, runs, merged, request, call, audit, scan>>
    BY <1>2, <1>0 DEF OpenPull, ClosePull, Pulls, PullTypeInv, TypeOK
  <2> QED
    BY <2>1, <1>a, PullMoves
<1>3. ASSUME NEW f \in Flags, ToggleFlag(f) PROVE Goal
  <2>1. /\ pull.state = "OPEN" /\ ref' = ref /\ ref \in Commits \cup {Gone} /\ ref = pull.head
        /\ pull' = [pull EXCEPT !.flags = IF f \in pull.flags THEN pull.flags \ {f} ELSE pull.flags \cup {f}]
        /\ UNCHANGED <<reviews, runs, merged, request, call, audit, scan>>
    BY <1>3 DEF ToggleFlag, PullInv, PullSound, PullTypeInv, TypeOK
  <2>2. pull' \in Pulls /\ pull'.state = "OPEN" /\ pull'.head = pull.head
    BY <2>1, <1>0 DEF Pulls
  <2> QED
    BY <2>1, <2>2, <1>a, PullMoves
<1>4. CASE MergeByHand
  <2>1. /\ pull.state = "OPEN" /\ pull' = [pull EXCEPT !.state = "MERGED"]
        /\ merged' = [by |-> NoCall, head |-> pull.head] /\ ref' \in {ref, Gone}
        /\ UNCHANGED <<reviews, runs, request, call, audit, scan>>
    BY <1>4 DEF MergeByHand
  <2>2. PullInv'
    BY <2>1, PullMerges
  <2> QED
    BY <2>1, <2>2, <1>a
<1>5. ASSUME NEW l \in Logins, NEW state \in ReviewStates, Review(l, state) PROVE Goal
  <2>1. UNCHANGED <<runs, request, call, scan>>
    BY <1>5 DEF Review
  <2> QED
    BY <1>5, <2>1, <1>a, ReviewKeepsInv
<1>6. ASSUME NEW c \in Commits, NEW n \in Checks,
             (StartCheck(c, n) \/ \E kind \in EndKinds : EndCheck(c, n, kind))
      PROVE  Goal
  <2>1. UNCHANGED <<ref, pull, reviews, merged, request, call, audit, scan>>
    BY <1>6 DEF StartCheck, EndCheck
  <2>2. /\ runs' \in [Commits -> [Checks -> Seq(EndKinds \cup {"pending"})]]
        /\ \A pin \in Commits : Checked(pin) => Checked(pin)'
    BY <1>6, ChecksGoOn
  <2> QED
    BY <2>1, <2>2, ChecksKeepInv
<1>7. ASSUME NEW c \in Calls, AnswerMerge(c) PROVE Goal
  <2>1. /\ request[c] = "sent" /\ UNCHANGED <<ref, reviews, runs, call, audit, scan>>
    BY <1>7 DEF AnswerMerge
  <2>2. CASE pull.state = "OPEN" /\ pull.head = call[c].pin /\ request' = [request EXCEPT ![c] = "landed"]
             /\ pull' = [pull EXCEPT !.state = "MERGED"] /\ merged' = [by |-> c, head |-> pull.head]
    <3>1. PullInv'
      BY <2>1, <2>2, PullMerges
    <3> QED
      BY <2>1, <2>2, <3>1, <1>a DEF PullTypeInv, TypeOK, PullInv
  <2>3. CASE request' = [request EXCEPT ![c] = "refused"] /\ UNCHANGED <<pull, merged>>
    <3>1. PullInv'
      BY <2>1, <2>3, RequestEnds
    <3> QED
      BY <2>1, <2>3, <3>1, <1>a DEF PullTypeInv, TypeOK, PullInv
  <2> QED
    BY <2>2, <2>3, <1>7 DEF AnswerMerge
<1>8. ASSUME NEW c \in Calls, LoseRequest(c) PROVE Goal
  <2>1. /\ request[c] = "sent" /\ request' = [request EXCEPT ![c] = "lost"]
        /\ UNCHANGED <<ref, pull, reviews, runs, merged, call, audit, scan>>
    BY <1>8 DEF LoseRequest, hub
  <2>2. PullInv'
    BY <2>1, RequestEnds
  <2> QED
    BY <2>1, <2>2, <1>a DEF PullTypeInv, TypeOK, PullInv
<1>9. ASSUME NEW c \in Calls, DeleteBranch(c) \/ KeepBranch(c) PROVE Goal
  <2>1. PICK end \in {"cleaned", "uncleaned"} :
          /\ request[c] = "landed" /\ request' = [request EXCEPT ![c] = end] /\ ref' \in {ref, Gone}
          /\ UNCHANGED <<pull, reviews, runs, merged, call, audit, scan>>
    BY <1>9 DEF DeleteBranch, KeepBranch, hub
  <2>2. PullInv'
    BY <2>1, RequestEnds
  <2> QED
    BY <2>1, <2>2, <1>a DEF PullTypeInv, TypeOK, PullInv
<1> QED
  BY <1>1, <1>2, <1>3, <1>4, <1>5, <1>6, <1>7, <1>8, <1>9 DEF Hub

-----------------------------------------------------------------------------
(* What a call does.                                                        *)

(* One call takes a step on what it alone writes: it reads, decides, sends or records. *)
Alone(c) ==
    /\ call' \in [Calls -> CallRecord]
    /\ \A d \in Calls \ {c} : call'[d] = call[d]
    /\ UNCHANGED <<ref, pull, reviews, runs, merged, scan>>
    /\ call'[c].reviews \in {call[c].reviews, reviews, {}}
    /\ \/ call'[c].pin = call[c].pin /\ call'[c].before = call[c].before
       \/ call[c].pc = "idle" /\ call'[c].pc = "pull" /\ call'[c].before = reviews

Sends(c) ==
    \/ request' = request
    \/ /\ call[c].pc = "gated" /\ call'[c].pc = "writing"
       /\ request' = [request EXCEPT ![c] = "sent"]

(* The stages only go forward, and only the gate leads to the write. *)
Proceeds(c) ==
    /\ call'[c].pc \in {"writing", "reconciling"} => call[c].pc \in {"gated", "writing"}
    /\ call'[c].pc \notin {"writing", "reconciling", "done"} =>
         call[c].pc \notin {"writing", "reconciling", "done"}
    /\ call'[c].pc = "gated" => Decide(c)
    /\ call'[c].pc \in Informed =>
         \/ call'[c].reviews = reviews
         \/ call[c].pc \in Informed /\ call'[c].reviews = call[c].reviews

Applied(c) == pull.state = "MERGED" /\ merged.head = call[c].pin

Records(c) ==
    \/ audit' = audit
    \/ \E action \in {"merge_rejected", "merge_failed", "merge_applied"} :
         /\ audit' = audit \cup {[call |-> c, action |-> action, pin |-> call[c].pin]}
         /\ action = "merge_applied" => Applied(c)

Steps(c) == Alone(c) /\ Sends(c) /\ Proceeds(c) /\ Records(c)

(* Such a step keeps the invariant. *)
LEMMA StepsKeepInv == ASSUME PullInv, NEW c \in Calls, Steps(c) PROVE PullInv'
<1> USE DEF PullInv, Steps
<1>1. request' \in [Calls -> Outcomes]
      /\ \A d \in Calls : /\ request'[d] \in Landed => request[d] \in Landed
                          /\ d # c => request'[d] = request[d]
  BY DEF Sends, PullTypeInv, TypeOK, Outcomes, Landed
<1>2. audit' \subseteq [call : Calls, pin : Commits \cup {NoPin},
                        action : {"merge_rejected", "merge_failed", "merge_applied"}]
  <2>1. call[c].pin \in Commits \cup {NoPin}
    BY DEF PullTypeInv, CallRecord
  <2> QED
    BY <2>1 DEF Records, PullTypeInv, TypeOK
<1>3. PullTypeInv'
  BY <1>1, <1>2 DEF Alone, PullTypeInv, TypeOK, Outcomes
<1>4. PullSound'
  <2>1. \A d \in Calls : request[d] \in Landed => request'[d] \in Landed
    BY DEF Sends, RequestsSound, PullTypeInv, TypeOK, Landed
  <2> QED
    BY <2>1 DEF PullSound, Alone
<1>5. RequestsSound'
  <2> SUFFICES ASSUME NEW d \in Calls
               PROVE  /\ call'[d].pc \notin {"writing", "reconciling", "done"} => request'[d] = "none"
                      /\ request'[d] \in Landed => pull'.state = "MERGED" /\ merged'.head = call'[d].pin
    BY DEF RequestsSound
  <2>1. CASE d # c
    BY <1>1, <2>1 DEF Alone, RequestsSound
  <2>2. CASE d = c
    <3>1. call'[c].pc \notin {"writing", "reconciling", "done"} => request'[c] = "none"
      BY DEF Sends, Proceeds, RequestsSound
    <3>2. ASSUME request'[c] \in Landed PROVE pull'.state = "MERGED" /\ merged'.head = call'[c].pin
      <4>1. request[c] \in Landed /\ call[c].pc # "idle"
        BY <3>2, <1>1 DEF RequestsSound, Landed
      <4> QED
        BY <4>1 DEF Alone, RequestsSound
    <3> QED
      BY <2>2, <3>1, <3>2
  <2> QED
    BY <2>1, <2>2
<1>6. AuditIsTrue'
  BY DEF Records, Applied, Alone, AuditIsTrue
<1> QED
  BY <1>3, <1>4, <1>5, <1>6

(* A call with one of its parts replaced. *)
LEMMA CallIsReplaced ==
  ASSUME PullInv, NEW c \in Calls, NEW to \in CallRecord, call' = [call EXCEPT ![c] = to],
         to.reviews \in {call[c].reviews, reviews, {}}, to.pin = call[c].pin, to.before = call[c].before,
         UNCHANGED <<ref, pull, reviews, runs, merged, scan>>
  PROVE  Alone(c) /\ call'[c] = to
BY DEF PullInv, PullTypeInv, Alone

(* What was read is forgotten once the call has decided. *)
LEMMA ForgetIsAlone ==
  ASSUME PullInv, NEW c \in Calls, NEW pc \in Stages, Forget(c, pc),
         UNCHANGED <<ref, pull, reviews, runs, merged, scan>>
  PROVE  Alone(c) /\ call'[c].pc = pc
<1> DEFINE to == [call[c] EXCEPT !.pc = pc, !.pr = Unread, !.reviews = {}, !.threads = FALSE,
                                 !.lookups = [apps |-> TRUE, checks |-> TRUE]]
<1>1. call \in [Calls -> CallRecord] /\ call[c] \in CallRecord
  BY DEF PullInv, PullTypeInv
<1>2. Unread \in Pulls
  BY PullAssumption DEF Unread, Pulls
<1>3. to \in CallRecord
  BY <1>1, <1>2 DEF CallRecord
<1>4. to.pc = pc /\ to.pin = call[c].pin /\ to.before = call[c].before /\ to.reviews = {}
  BY <1>1 DEF CallRecord
<1>5. call' = [call EXCEPT ![c] = to]
  BY <1>1 DEF Forget
<1> HIDE DEF to
<1> QED
  BY <1>3, <1>4, <1>5, CallIsReplaced

(* A call is begun with a pin, or reads the pull, its reviews or its threads. *)
LEMMA ReadsAreSteps ==
  ASSUME PullInv, NEW c \in Calls,
         \/ \E pin \in (Commits \ {Base}) \cup {NoPin} : Begin(c, pin)
         \/ ReadPull(c) \/ ReadReviews(c) \/ ReadThreads(c) \/ LookUp(c)
  PROVE  Steps(c)
<1>1. call \in [Calls -> CallRecord] /\ call[c] \in CallRecord /\ pull \in Pulls /\ reviews \in SUBSET Reviews
  BY DEF PullInv, PullTypeInv, TypeOK, Pulls, Reviews
<1>2. ASSUME NEW pin \in (Commits \ {Base}) \cup {NoPin}, Begin(c, pin) PROVE Steps(c)
  <2> DEFINE to == [call[c] EXCEPT !.pc = "pull", !.pin = pin, !.before = reviews]
  <2>1. to \in CallRecord
    BY <1>1 DEF CallRecord, Stages
  <2>2. to.pc = "pull" /\ to.reviews = call[c].reviews /\ to.before = reviews
    BY <1>1 DEF CallRecord
  <2>3. call' = [call EXCEPT ![c] = to] /\ call[c].pc = "idle"
    BY <1>2, <1>1 DEF Begin
  <2> HIDE DEF to
  <2>4. Alone(c) /\ call'[c].pc = "pull"
    BY <2>1, <2>2, <2>3, <1>1, <1>2 DEF Alone, Begin, hub
  <2> QED
    BY <2>3, <2>4, <1>2 DEF Steps, Sends, Proceeds, Informed, Records, Begin
<1>3. CASE ReadPull(c)
  <2> DEFINE to == [call[c] EXCEPT !.pc = "reviews", !.pr = AsRead(pull)]
  <2>1. AsRead(pull) \in Pulls
    BY <1>1 DEF AsRead, Pulls
  <2>2. to \in CallRecord
    BY <1>1, <2>1 DEF CallRecord, Stages
  <2>3. to.pc = "reviews" /\ to.reviews = call[c].reviews /\ to.pin = call[c].pin /\ to.before = call[c].before
    BY <1>1 DEF CallRecord
  <2>4. call' = [call EXCEPT ![c] = to] /\ call[c].pc = "pull"
    BY <1>3, <1>1 DEF ReadPull
  <2> HIDE DEF to
  <2>5. Alone(c) /\ call'[c].pc = "reviews" /\ call'[c].reviews = call[c].reviews
    BY <2>2, <2>3, <2>4, <1>3, CallIsReplaced DEF ReadPull, hub
  <2> QED
    BY <2>4, <2>5, <1>3 DEF Steps, Sends, Proceeds, Informed, Records, ReadPull
<1>4. CASE ReadReviews(c)
  <2> DEFINE to == [call[c] EXCEPT !.pc = "threads", !.reviews = reviews]
  <2>2. to \in CallRecord
    BY <1>1 DEF CallRecord, Stages
  <2>3. to.pc = "threads" /\ to.reviews = reviews /\ to.pin = call[c].pin /\ to.before = call[c].before
    BY <1>1 DEF CallRecord
  <2>4. call' = [call EXCEPT ![c] = to] /\ call[c].pc = "reviews"
    BY <1>4, <1>1 DEF ReadReviews
  <2> HIDE DEF to
  <2>5. Alone(c) /\ call'[c].pc = "threads" /\ call'[c].reviews = reviews
    BY <2>2, <2>3, <2>4, <1>4, CallIsReplaced DEF ReadReviews, hub
  <2> QED
    BY <2>4, <2>5, <1>4 DEF Steps, Sends, Proceeds, Informed, Records, ReadReviews
<1>5. CASE ReadThreads(c)
  <2> DEFINE to == [call[c] EXCEPT !.pc = "scope", !.threads = "thread" \in pull.flags]
  <2>1. ("thread" \in pull.flags) \in BOOLEAN
    OBVIOUS
  <2>2. to \in CallRecord
    BY <1>1, <2>1 DEF CallRecord, Stages
  <2>3. to.pc = "scope" /\ to.reviews = call[c].reviews /\ to.pin = call[c].pin /\ to.before = call[c].before
    BY <1>1 DEF CallRecord
  <2>4. call' = [call EXCEPT ![c] = to] /\ call[c].pc = "threads"
    BY <1>5, <1>1 DEF ReadThreads
  <2> HIDE DEF to
  <2>5. Alone(c) /\ call'[c].pc = "scope" /\ call'[c].reviews = call[c].reviews
    BY <2>2, <2>3, <2>4, <1>5, CallIsReplaced DEF ReadThreads, hub
  <2> QED
    BY <2>4, <2>5, <1>5 DEF Steps, Sends, Proceeds, Informed, Records, ReadThreads
<1>6. CASE LookUp(c)
  <2>1. PICK apps \in BOOLEAN, checks \in BOOLEAN :
           call' = [call EXCEPT ![c].pc = "checks", ![c].lookups = [apps |-> apps, checks |-> checks]]
    BY <1>6 DEF LookUp
  <2> DEFINE to == [call[c] EXCEPT !.pc = "checks", !.lookups = [apps |-> apps, checks |-> checks]]
  <2>2. to \in CallRecord
    BY <1>1 DEF CallRecord, Stages
  <2>3. to.pc = "checks" /\ to.reviews = call[c].reviews /\ to.pin = call[c].pin /\ to.before = call[c].before
    BY <1>1 DEF CallRecord
  <2>4. call' = [call EXCEPT ![c] = to] /\ call[c].pc = "scope"
    BY <1>6, <1>1, <2>1 DEF LookUp
  <2> HIDE DEF to
  <2>5. Alone(c) /\ call'[c].pc = "checks" /\ call'[c].reviews = call[c].reviews
    BY <2>2, <2>3, <2>4, <1>6, CallIsReplaced DEF LookUp, hub
  <2> QED
    BY <2>4, <2>5, <1>6 DEF Steps, Sends, Proceeds, Informed, Records, LookUp
<1> QED
  BY <1>2, <1>3, <1>4, <1>5, <1>6

(* A call ends, with a row or without. *)
LEMMA EndIsStep ==
  ASSUME PullInv, NEW c \in Calls,
         NEW action \in {"merge_rejected", "merge_failed", "merge_applied"}, End(c, action),
         action = "merge_applied" => Applied(c)
  PROVE  Steps(c)
<1>1. Alone(c) /\ call'[c].pc = "done"
  BY ForgetIsAlone DEF End, hub, Stages
<1> QED
  BY <1>1 DEF Steps, Sends, Proceeds, Informed, Records, End, Record

(* The gate, the write and its outcome. *)
LEMMA WritesAreSteps ==
  ASSUME PullInv, NEW c \in Calls,
         \/ ReadFails(c) \/ RejectScope(c) \/ Decide(c) \/ SendMerge(c)
         \/ MergeApplied(c) \/ MergeRefused(c) \/ WriteUnknown(c) \/ Reconcile(c)
  PROVE  Steps(c)
<1>1. call \in [Calls -> CallRecord] /\ call[c] \in CallRecord
  BY DEF PullInv, PullTypeInv
<1>2. CASE ReadFails(c)
  <2>1. Alone(c) /\ call'[c].pc = "done"
    BY <1>2, ForgetIsAlone DEF ReadFails, hub, Stages
  <2> QED
    BY <1>2, <2>1 DEF Steps, Sends, Proceeds, Informed, Records, ReadFails
<1>3. CASE RejectScope(c)
  BY <1>3, EndIsStep DEF RejectScope
<1>4. CASE Decide(c)
  <2>1. CASE End(c, "merge_rejected")
    BY <2>1, EndIsStep
  <2>2. CASE Forget(c, "gated") /\ UNCHANGED <<hub, request, audit, scan>>
    <3>1. Alone(c) /\ call'[c].pc = "gated"
      BY <2>2, ForgetIsAlone DEF hub, Stages
    <3>2. call[c].pc = "checks"
      BY <1>4 DEF Decide
    <3> QED
      BY <1>4, <2>2, <3>1, <3>2 DEF Steps, Sends, Proceeds, Informed, Records
  <2> QED
    BY <1>4, <2>1, <2>2 DEF Decide
<1>5. ASSUME NEW pc \in {"writing", "reconciling"}, Go(c, pc), UNCHANGED <<hub, audit, scan>>
      PROVE  Alone(c) /\ call'[c].pc = pc
  <2> DEFINE to == [call[c] EXCEPT !.pc = pc]
  <2>1. to \in CallRecord /\ to.pc = pc /\ to.reviews = call[c].reviews /\ to.pin = call[c].pin
        /\ to.before = call[c].before
    BY <1>1 DEF CallRecord, Stages
  <2>2. call' = [call EXCEPT ![c] = to]
    BY <1>5 DEF Go
  <2> HIDE DEF to
  <2> QED
    BY <2>1, <2>2, <1>5, CallIsReplaced DEF hub
<1>6. CASE SendMerge(c)
  <2>1. Alone(c) /\ call'[c].pc = "writing"
    BY <1>5, <1>6 DEF SendMerge
  <2> QED
    BY <1>6, <2>1 DEF Steps, Sends, Proceeds, Informed, Records, SendMerge
<1>7. CASE MergeApplied(c)
  BY <1>7, EndIsStep DEF MergeApplied, PullInv, RequestsSound, Applied, Landed
<1>8. CASE MergeRefused(c)
  BY <1>8, EndIsStep DEF MergeRefused
<1>9. CASE WriteUnknown(c)
  <2>1. Alone(c) /\ call'[c].pc = "reconciling"
    BY <1>5, <1>9 DEF WriteUnknown
  <2> QED
    BY <1>9, <2>1 DEF Steps, Sends, Proceeds, Informed, Records, WriteUnknown
<1>10. CASE Reconcile(c)
  <2>1. CASE End(c, "merge_failed")
    BY <2>1, EndIsStep
  <2>2. CASE pull.state = "MERGED" /\ pull.head = call[c].pin /\ End(c, "merge_applied")
    BY <2>2, EndIsStep DEF PullInv, PullSound, Applied
  <2> QED
    BY <1>10, <2>1, <2>2 DEF Reconcile
<1> QED
  BY <1>2, <1>3, <1>4, <1>6, <1>7, <1>8, <1>9, <1>10

(* Every step of a call is such a step. *)
LEMMA CallsStep ==
  ASSUME PullInv, NEW c \in Calls,
         CallStep(c) \/ \E pin \in (Commits \ {Base}) \cup {NoPin} : Begin(c, pin)
  PROVE  Steps(c)
BY ReadsAreSteps, WritesAreSteps DEF CallStep

-----------------------------------------------------------------------------
(* The scan deletes nothing. *)
LEMMA ScanIsQuiet ==
  ASSUME ScanStep PROVE UNCHANGED <<ref, pull, reviews, runs, merged, request, call, audit>>
BY DEF ScanStep, ScanPulls, ScanRefs, DeleteRef, hub

(* A step of the scan, or none at all, keeps the invariant. *)
LEMMA QuietKeepsInv ==
  ASSUME PullInv, UNCHANGED <<ref, pull, reviews, runs, merged, request, call, audit>>
  PROVE  PullInv'
BY DEF PullInv, PullTypeInv, TypeOK, PullSound, RequestsSound, AuditIsTrue

(* There is no pull, no review, no call and no row at the start. *)
LEMMA PullInitInv == Init => PullInv
<1> SUFFICES ASSUME Init PROVE PullInv
  OBVIOUS
<1>1. Unread \in Pulls
  BY PullAssumption DEF Unread, Pulls
<1>2. call \in [Calls -> CallRecord]
  BY <1>1 DEF Init, CallRecord, Stages
<1>3. runs \in [Commits -> [Checks -> Seq(EndKinds \cup {"pending"})]]
  BY EmptySeq DEF Init
<1>4. PullTypeInv
  BY <1>2, <1>3, FS_EmptySet, PullAssumption DEF Init, PullTypeInv, TypeOK, NotMerged
<1>5. PullSound /\ RequestsSound /\ AuditIsTrue
  BY PullAssumption DEF Init, PullSound, RequestsSound, AuditIsTrue, NotMerged, Landed
<1> QED
  BY <1>4, <1>5 DEF PullInv

(* Every step keeps the invariant. *)
LEMMA PullStepInv == PullInv /\ [Next]_vars => PullInv'
<1> SUFFICES ASSUME PullInv, [Next]_vars PROVE PullInv'
  OBVIOUS
<1>1. CASE Hub
  BY <1>1, HubKeepsInv
<1>2. ASSUME NEW c \in Calls,
             CallStep(c) \/ \E pin \in (Commits \ {Base}) \cup {NoPin} : Begin(c, pin)
      PROVE  PullInv'
  BY <1>2, CallsStep, StepsKeepInv
<1>3. CASE ScanStep \/ UNCHANGED vars
  BY <1>3, ScanIsQuiet, QuietKeepsInv DEF vars, hub
<1> QED
  BY <1>1, <1>2, <1>3 DEF Next

(* So it holds in every state. *)
LEMMA PullInvariance == Spec => []PullInv
BY PullInitInv, PullStepInv, PTL DEF Spec

(* The pull, its reviews and checks, the calls and the audit have their types. *)
THEOREM TypeCorrect == Spec => []TypeOK
BY PullInvariance, PTL DEF PullInv, PullTypeInv

(* A row that says a merge was applied is true, also when the answer of the write was lost. *)
THEOREM AuditTellsTheTruth == Spec => []AuditIsTrue
BY PullInvariance, PTL DEF PullInv

-----------------------------------------------------------------------------
(* What is merged was approved and checked.                                 *)

(* A review that was read stays, so an approval that was found stays. *)
LEMMA ApprovalsStay ==
  ASSUME reviews \subseteq reviews', NEW pin, NEW before, Approved(pin, before)
  PROVE  \E r \in reviews' : /\ r.head = pin /\ r.state = "APPROVED"
                             /\ r.login \notin {Author} \cup Denylist \cup Fixers \cup (Bots \ Apps)
                             /\ \A q \in ReviewsOf(r.login, before) : q.at =< r.at
BY DEF Approved

(* A call that passes its gate has a pin that was approved and whose checks succeeded. *)
LEMMA GateIsSound ==
  ASSUME StrictPolicy, PullInv, GateSound, NEW c \in Calls, Decide(c), call'[c].pc = "gated"
  PROVE  call[c].pin \in Commits /\ Approved(call[c].pin, call[c].before) /\ Checked(call[c].pin)
<1>1. /\ call \in [Calls -> CallRecord] /\ call[c].pr.head \in Commits /\ call[c].lookups.checks \in BOOLEAN
      /\ runs \in [Commits -> [Checks -> Seq(EndKinds \cup {"pending"})]]
      /\ call[c].lookups \in [apps : BOOLEAN, checks : BOOLEAN]
  BY DEF PullInv, PullTypeInv, TypeOK, CallRecord, Pulls
<1>2. ~End(c, "merge_rejected")
  <2> SUFFICES ASSUME End(c, "merge_rejected") PROVE FALSE
    OBVIOUS
  <2>1. call'[c].pc = "done"
    BY ForgetIsAlone DEF End, hub, Stages
  <2> QED
    BY <2>1
<1>3. PICK found \in BOOLEAN :
         Verdict(GateOf(c, IF found THEN runs[call[c].pr.head] ELSE [n \in Checks |-> << >>], found)) = "PASS"
  BY <1>2 DEF Decide
<1> DEFINE rows == IF found THEN runs[call[c].pr.head] ELSE [n \in Checks |-> << >>]
           lookups == [call[c].lookups EXCEPT !.checks = @ /\ found]
<1>4. Verdict(GateForPr(call[c].pr, call[c].reviews, call[c].threads, rows, call[c].pin, lookups)) = "PASS"
  BY <1>3 DEF GateOf
<1>5. lookups.checks = (call[c].lookups.checks /\ found)
  BY <1>1
<1>6. /\ call[c].pr.head = call[c].pin /\ lookups.checks
      /\ IndependentApprovals(call[c].reviews, call[c].pin, TrustedApps(call[c].reviews, lookups.apps)) # {}
      /\ \A n \in Required : CheckState(rows[n]) \notin {"pending", "failed", "missing", "other"}
  <2> HIDE DEF rows, lookups
  <2> QED
    BY <1>4, GateHasPassed
<1>7. found /\ rows = runs[call[c].pin]
  BY <1>5, <1>6
<1>8. Checked(call[c].pin)
  <2> SUFFICES ASSUME NEW n \in Required
               PROVE  \E k \in DOMAIN runs[call[c].pin][n] : runs[call[c].pin][n][k] = "success"
    BY DEF Checked
  <2> DEFINE attempts == runs[call[c].pin][n]
  <2>1. attempts \in Seq(EndKinds \cup {"pending"}) /\ CheckState(attempts) \notin {"pending", "failed", "missing", "other"}
    BY <1>1, <1>6, <1>7, GateAssumption
  <2> HIDE DEF attempts
  <2>2. attempts # << >> /\ attempts[Len(attempts)] \notin {"pending", "failed", "missing", "other"}
    BY <2>1 DEF CheckState
  <2>3. Len(attempts) \in DOMAIN attempts /\ attempts[Len(attempts)] \in EndKinds \cup {"pending"}
    BY <2>1, <2>2, EmptySeq, LenProperties
  <2> QED
    BY <2>2, <2>3, PullAssumption DEF attempts
<1>9. Approved(call[c].pin, call[c].before)
  <2>1. /\ call[c].reviews \subseteq reviews /\ IsFiniteSet(call[c].reviews) /\ call[c].reviews \in SUBSET Reviews
        /\ call[c].before \subseteq call[c].reviews
    BY FS_Subset DEF GateSound, Heard, Informed, Decide, PullInv, PullTypeInv, TypeOK, Reviews
  <2> HIDE DEF lookups
  <2>2. PICK l \in IndependentApprovals(call[c].reviews, call[c].pin, TrustedApps(call[c].reviews, lookups.apps)) : TRUE
    BY <1>6
  <2>3. \E r \in call[c].reviews : /\ r.head = call[c].pin /\ r.state = "APPROVED"
                                   /\ r.login \notin {Author} \cup Denylist \cup Fixers \cup (Bots \ Apps)
                                   /\ \A q \in ReviewsOf(r.login, call[c].reviews) : q.at =< r.at
    BY <2>1, <2>2, ApprovalsAreIndependent
  <2>4. \A u : ReviewsOf(u, call[c].before) \subseteq ReviewsOf(u, call[c].reviews)
    BY <2>1 DEF ReviewsOf
  <2> QED
    BY <2>1, <2>3, <2>4 DEF Approved
<1> QED
  BY <1>1, <1>6, <1>8, <1>9

(* Nothing on GitHub unsubmits a review or undoes a check that succeeded. *)
LEMMA HubKeepsSound == ASSUME PullInv, GateSound, Hub PROVE GateSound'
<1>1. /\ call' = call /\ reviews \subseteq reviews'
      /\ \A pin \in Commits : Checked(pin) => Checked(pin)'
      /\ \A c \in Calls : request'[c] # "none" <=> request[c] # "none"
  BY HubKeepsInv
<1>2. ASSUME NEW c \in Calls PROVE Heard(c)' /\ Decided(c)'
  <2>1. Heard(c)'
    BY <1>1 DEF GateSound, Heard
  <2>2. ASSUME call'[c].pc \in {"gated", "writing", "reconciling"} \/ request'[c] # "none"
        PROVE  call'[c].pin \in Commits /\ Approved(call[c].pin, call[c].before)' /\ Checked(call[c].pin)'
    <3>1. call[c].pin \in Commits /\ Approved(call[c].pin, call[c].before) /\ Checked(call[c].pin)
      BY <2>2, <1>1 DEF GateSound, Decided
    <3>2. Approved(call[c].pin, call[c].before)'
      BY <1>1, <3>1, ApprovalsStay DEF Approved
    <3>3. PICK pin \in Commits : pin = call[c].pin /\ Checked(pin)
      BY <3>1
    <3>4. Checked(pin)'
      BY <1>1, <3>3
    <3> QED
      BY <1>1, <3>1, <3>2, <3>3, <3>4 DEF Checked
  <2>3. Decided(c)'
    BY <2>2 DEF Decided
  <2> QED
    BY <2>1, <2>3
<1> QED
  BY <1>2 DEF GateSound

(* A call decides for itself, and only through its gate. *)
LEMMA CallKeepsSound ==
  ASSUME StrictPolicy, PullInv, GateSound, NEW c \in Calls, Steps(c) PROVE GateSound'
<1>1. UNCHANGED <<reviews, runs>> /\ \A d \in Calls \ {c} : call'[d] = call[d]
  BY DEF Steps, Alone
<1>2. \A d \in Calls \ {c} : request'[d] = request[d]
  BY DEF Steps, Sends, PullInv, PullTypeInv, TypeOK
<1>3. \A d \in Calls \ {c} : Heard(d)' /\ Decided(d)'
  BY <1>1, <1>2 DEF GateSound, Heard, Decided, Approved, Checked
<1>4. Heard(c)'
  <2>1. Heard(c) /\ call'[c].reviews \in {call[c].reviews, reviews, {}} /\ call'[c].before \in {call[c].before, reviews}
    BY DEF Steps, Alone, GateSound
  <2>2. call'[c].pc \in Informed => call'[c].before = call[c].before
    BY DEF Steps, Alone, Informed
  <2> QED
    BY <1>1, <2>1, <2>2 DEF Steps, Proceeds, Heard
<1>5. ASSUME call'[c].pc \in {"gated", "writing", "reconciling"} \/ request'[c] # "none"
      PROVE  call[c].pin \in Commits /\ Approved(call[c].pin, call[c].before) /\ Checked(call[c].pin)
  <2>1. CASE call'[c].pc = "gated"
    BY <2>1, GateIsSound DEF Steps, Proceeds
  <2>2. CASE call[c].pc \in {"gated", "writing", "reconciling"} \/ request[c] # "none"
    BY <2>2 DEF GateSound, Decided
  <2>3. call'[c].pc \in {"writing", "reconciling"} => call[c].pc \in {"gated", "writing"}
    BY DEF Steps, Proceeds
  <2>4. request'[c] # "none" => request[c] # "none" \/ call[c].pc = "gated"
    BY DEF Steps, Sends
  <2> QED
    BY <1>5, <2>1, <2>2, <2>3, <2>4
<1>6. call'[c].pc \in {"gated", "writing", "reconciling"} \/ request'[c] # "none" =>
         call'[c].pin = call[c].pin /\ call'[c].before = call[c].before
  <2>1. call[c].pc = "idle" => request[c] = "none" /\ request' = request
    BY DEF PullInv, RequestsSound, Steps, Sends
  <2> QED
    BY <2>1 DEF Steps, Alone
<1>7. Decided(c)'
  BY <1>1, <1>5, <1>6 DEF Decided, Approved, Checked
<1> QED
  BY <1>3, <1>4, <1>7 DEF GateSound

(* So every step keeps both invariants, and there is nothing decided at the start. *)
LEMMA SoundInvariance == ASSUME StrictPolicy PROVE Spec => []GateSound
<1>1. Init => GateSound
  BY DEF Init, GateSound, Heard, Informed, Decided
<1>2. PullInv /\ GateSound /\ [Next]_vars => GateSound'
  <2> SUFFICES ASSUME PullInv, GateSound, [Next]_vars PROVE GateSound'
    OBVIOUS
  <2>1. CASE Hub
    BY <2>1, HubKeepsSound
  <2>2. ASSUME NEW c \in Calls,
               CallStep(c) \/ \E pin \in (Commits \ {Base}) \cup {NoPin} : Begin(c, pin)
        PROVE  GateSound'
    BY <2>2, CallsStep, CallKeepsSound
  <2>3. CASE ScanStep \/ UNCHANGED vars
    <3>1. UNCHANGED <<reviews, runs, request, call>>
      BY <2>3, ScanIsQuiet DEF vars, hub
    <3> QED
      BY <3>1 DEF GateSound, Heard, Decided, Approved, Checked
  <2> QED
    BY <2>1, <2>2, <2>3 DEF Next
<1> QED
  BY <1>1, <1>2, PullInvariance, PTL DEF Spec

(* Under a policy that asks for a review and for the checks, a pull that a call merged was     *)
(* merged at its pin, approved by somebody whose word counts and with its checks passed.       *)
THEOREM MergesAreJustified == ASSUME StrictPolicy PROVE Spec => []MergeIsJustified
<1>1. PullInv /\ GateSound => MergeIsJustified
  <2> SUFFICES ASSUME PullInv, GateSound, merged.by \in Calls PROVE MergeIsJustified
    BY DEF MergeIsJustified
  <2>1. request[merged.by] \in Landed
    BY DEF PullInv, PullSound
  <2>2. merged.head = call[merged.by].pin
    BY <2>1 DEF PullInv, RequestsSound
  <2>3. Approved(call[merged.by].pin, call[merged.by].before) /\ Checked(call[merged.by].pin)
    BY <2>1 DEF GateSound, Decided, Landed
  <2> QED
    BY <2>2, <2>3 DEF MergeIsJustified, Approved, Checked
<1> QED
  BY <1>1, PullInvariance, SoundInvariance, PTL

(* A branch disappears only once its pull is merged, at the merged commit unless it was pushed *)
(* to since: neither a refused call nor a scan takes it away.                                    *)
THEOREM BranchesAreKept == Spec => OnlyMergedBranchesGo
<1> DEFINE Kept == ref # Gone /\ ref' = Gone =>
                     pull'.state = "MERGED" /\ (merged'.head = ref \/ pull.state = "MERGED")
<1>1. ASSUME PullInv, [Next]_vars PROVE Kept
  <2>1. SUFFICES ASSUME ref # Gone, ref' = Gone
                 PROVE  pull'.state = "MERGED" /\ (merged'.head = ref \/ pull.state = "MERGED")
    OBVIOUS
  <2>2. Hub
    BY <1>1, <2>1, CallsStep, ScanIsQuiet DEF Next, Steps, Alone, vars, hub
  <2>3. (pull.state = "OPEN" => ref = pull.head) /\ pull \in Pulls
    BY <1>1 DEF PullInv, PullSound, PullTypeInv, TypeOK, Pulls
  <2>4. ASSUME NEW c \in Commits PROVE ~Push(c)
    BY <2>1, PullAssumption DEF Push
  <2>5. CASE MergeByHand
    BY <2>5, <2>3 DEF MergeByHand, Pulls
  <2>6. ASSUME NEW c \in Calls, DeleteBranch(c) PROVE pull'.state = "MERGED" /\ pull.state = "MERGED"
    BY <1>1, <2>6 DEF DeleteBranch, PullInv, RequestsSound, Landed
  <2>7. MergeByHand \/ \E c \in Calls : DeleteBranch(c)
    BY <2>1, <2>2, <2>4
    DEF Hub, OpenPull, ClosePull, Review, ToggleFlag, StartCheck, EndCheck, AnswerMerge, KeepBranch,
        LoseRequest, hub
  <2> QED
    BY <2>5, <2>6, <2>7
<1>2. PullInv /\ [Next]_vars => [Kept]_vars
  BY <1>1
<1> QED
  BY <1>2, PullInvariance, PTL DEF Spec, OnlyMergedBranchesGo
=============================================================================
