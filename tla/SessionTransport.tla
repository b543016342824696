--------------------------- MODULE SessionTransport ---------------------------
(***************************************************************************)
(* The work and the events of one agent session                             *)
(* (src/kater/control_plane/session_transport.py): requests that write to   *)
(* it, clients that follow its events, and the context whose activity is    *)
(* checked before a request opens its transaction.                          *)
(*                                                                          *)
(* Requests run in threads and processes of their own.  What orders them is *)
(* the write lock of the database (BEGIN IMMEDIATE), and a transaction      *)
(* works on a draft nobody else sees.  A request is a script of statements. *)
(* Prompts, payloads, times and audit rows are left out; an event keeps its *)
(* number, its work, and the state _apply_state recorded in it (None when a *)
(* client appended it, whatever its type says).                             *)
(***************************************************************************)
EXTENDS Naturals, Sequences

CONSTANTS Writers, Readers,   \* requests, and clients that follow the events
          Works,              \* ids of work; a new one is drawn at random
          None,
          Limit,              \* limit of list_events
          MaxEvents           \* bound: events of the session

AgentState == {"idle", "working", "waiting", "blocked", "failed", "review",
               "completed", "cancelled"}

ASSUME TransportAssumption ==
  /\ None \notin Works \cup Writers \cup AgentState
  /\ Limit \in Nat \ {0} /\ MaxEvents \in Nat

VARIABLES ctx,            \* the context: "active", "ended" or "purged"
          log, work,      \* the two tables, as committed
          lock,           \* the request whose transaction is open
          draft,          \* the tables as an open transaction sees them
          pc, op, todo,   \* where a request stands, what it is, its statements
          seen, cursor    \* events a client was given, its after_seq

session == <<ctx, log, work, lock, draft, pc, op, todo, seen, cursor>>
tables  == <<log, work>>
clients == <<seen, cursor>>

(* AGENT_STATE_MACHINE. *)
Moves ==
  [idle      |-> {"working", "waiting", "cancelled"},
   working   |-> {"waiting", "blocked", "failed", "review", "completed", "cancelled"},
   waiting   |-> {"working", "blocked", "failed", "cancelled"},
   blocked   |-> {"working", "failed", "review", "cancelled"},
   failed    |-> {"working", "review"},
   review    |-> {"working", "blocked", "completed", "cancelled"},
   completed |-> {},
   cancelled |-> {}]

Event == [seq : 1 .. MaxEvents, work : Works \cup {None}, to : AgentState \cup {None}]
Op    == [kind : {"none", "submit", "move", "note"}, work : Works \cup {None},
          to : AgentState \cup {None}]
Statement == [do : {"insert", "update", "event"}, to : AgentState \cup {None}]
Table     == [Works -> AgentState \cup {None}]

NoOp    == [kind |-> "none", work |-> None, to |-> None]
NoWork  == [w \in Works |-> None]
NoDraft == [log |-> <<>>, work |-> NoWork]

IsEventSeq(s) == s \in Seq(Event) /\ Len(s) <= MaxEvents

SessionTypeOK ==
  /\ ctx \in {"active", "ended", "purged"}
  /\ IsEventSeq(log) /\ work \in Table
  /\ lock \in Writers \cup {None}
  /\ draft \in [Writers -> [log : Seq(Event), work : Table]]
  /\ \A c \in Writers : IsEventSeq(draft[c].log)
  /\ pc \in [Writers -> {"idle", "gated", "open"}]
  /\ op \in [Writers -> Op]
  /\ todo \in [Writers -> Seq(Statement)]
  /\ seen \in [Readers -> Seq(Event)] /\ \A r \in Readers : IsEventSeq(seen[r])
  /\ cursor \in [Readers -> 0 .. MaxEvents]

SessionInit ==
  /\ ctx = "active"
  /\ log = <<>> /\ work = NoWork
  /\ lock = None /\ draft = [c \in Writers |-> NoDraft]
  /\ pc = [c \in Writers |-> "idle"]
  /\ op = [c \in Writers |-> NoOp]
  /\ todo = [c \in Writers |-> <<>>]
  /\ seen = [r \in Readers |-> <<>>] /\ cursor = [r \in Readers |-> 0]

-------------------------------------------------------------------------------
(* The statements of a transaction.                                         *)

NextSeq(events) ==
  LET taken == {events[i].seq : i \in 1 .. Len(events)}
  IN  IF taken = {} THEN 1 ELSE 1 + CHOOSE m \in taken : \A n \in taken : n <= m

InsertWork == [do |-> "insert", to |-> None]
Update(s)  == [do |-> "update", to |-> s]
Emit(s)    == [do |-> "event", to |-> s]

(* submit_work; cancel_work, transition_work and append_event of work.state; *)
(* continue_session and append_event of anything else.                       *)
Script(o) ==
  CASE o.kind = "submit" -> <<InsertWork, Emit(None), Update("waiting"), Emit("waiting")>>
    [] o.kind = "move"   -> <<Update(o.to), Emit(o.to)>>
    [] OTHER             -> <<Emit(None)>>

(* The work exists, and may move as it is asked to (_apply_state). *)
Possible(d, o, s) ==
  CASE s.do = "insert" -> TRUE
    [] s.do = "update" -> /\ d.work[o.work] # None
                          /\ s.to \in Moves[d.work[o.work]] \cup {d.work[o.work]}
    [] OTHER           -> o.work # None => d.work[o.work] # None

After(d, o, s) ==
  CASE s.do = "insert" -> [d EXCEPT !.work[o.work] = "idle"]
    [] s.do = "update" -> [d EXCEPT !.work[o.work] = s.to]
    [] OTHER -> [d EXCEPT !.log =
                   Append(@, [seq |-> NextSeq(@), work |-> o.work, to |-> s.to])]

-------------------------------------------------------------------------------
(* The requests.                                                            *)

Events(o) == IF o.kind = "submit" THEN 2 ELSE 1

Fresh(w) == work[w] = None /\ \A c \in Writers : op[c].kind = "submit" => op[c].work # w

Requests == {o \in Op : \/ o.kind = "submit" /\ o.work # None /\ o.to = None /\ Fresh(o.work)
                        \/ o.kind = "move" /\ o.work # None /\ o.to # None
                        \/ o.kind = "note" /\ o.to = None}

(* _gate_context with write=True. *)
Gate(c) ==
  /\ pc[c] = "idle"
  /\ ctx = "active"
  /\ \E o \in Requests : op' = [op EXCEPT ![c] = o]
  /\ pc' = [pc EXCEPT ![c] = "gated"]
  /\ UNCHANGED <<ctx, tables, lock, draft, todo, clients>>

(* BEGIN: the write lock is taken at the first write, after the reads. *)
BeginDeferred(c) ==
  /\ pc[c] = "gated"
  /\ Len(log) + Events(op[c]) <= MaxEvents
  /\ lock' = c
  /\ draft' = [draft EXCEPT ![c] = [log |-> log, work |-> work]]
  /\ todo' = [todo EXCEPT ![c] = Script(op[c])]
  /\ pc' = [pc EXCEPT ![c] = "open"]
  /\ UNCHANGED <<ctx, tables, op, clients>>

(* BEGIN IMMEDIATE. *)
Begin(c) ==
  /\ pc[c] = "gated"
  /\ lock = None
  /\ Len(log) + Events(op[c]) <= MaxEvents
  /\ lock' = c
  /\ draft' = [draft EXCEPT ![c] = [log |-> log, work |-> work]]
  /\ todo' = [todo EXCEPT ![c] = Script(op[c])]
  /\ pc' = [pc EXCEPT ![c] = "open"]
  /\ UNCHANGED <<ctx, tables, op, clients>>

Execute(c) ==
  /\ pc[c] = "open" /\ todo[c] # <<>>
  /\ Possible(draft[c], op[c], Head(todo[c]))
  /\ draft' = [draft EXCEPT ![c] = After(@, op[c], Head(todo[c]))]
  /\ todo' = [todo EXCEPT ![c] = Tail(@)]
  /\ UNCHANGED <<ctx, tables, lock, pc, op, clients>>

(* The transaction ends and the request is answered. *)
Close(c) ==
  /\ lock' = None
  /\ draft' = [draft EXCEPT ![c] = NoDraft]
  /\ todo' = [todo EXCEPT ![c] = <<>>]
  /\ op' = [op EXCEPT ![c] = NoOp]
  /\ pc' = [pc EXCEPT ![c] = "idle"]
  /\ UNCHANGED <<ctx, clients>>

Commit(c) ==
  /\ pc[c] = "open" /\ todo[c] = <<>>
  /\ log' = draft[c].log /\ work' = draft[c].work
  /\ Close(c)

(* A failure keeps the connection as it is: the next request on it commits. *)
RollbackLate(c) ==
  /\ pc[c] = "open"
  /\ log' = draft[c].log /\ work' = draft[c].work
  /\ Close(c)

(* 404, 409, a sqlite error in a statement or in the commit, or the end of   *)
(* the process: each rolls back.                                             *)
Rollback(c) ==
  /\ pc[c] = "open"
  /\ Close(c)
  /\ UNCHANGED tables

(* The lock is not had in busy_timeout, or the request dies before it.      *)
GiveUp(c) ==
  /\ pc[c] = "gated"
  /\ pc' = [pc EXCEPT ![c] = "idle"]
  /\ op' = [op EXCEPT ![c] = NoOp]
  /\ UNCHANGED <<ctx, tables, lock, draft, todo, clients>>

-------------------------------------------------------------------------------
(* list_events: the rows after a number, in the order of the numbers, which  *)
(* is the order of the log.                                                  *)

FirstPage(rows) == SubSeq(rows, 1, IF Len(rows) < Limit THEN Len(rows) ELSE Limit)

Page(after) ==
  LET newer == {i \in 1 .. Len(log) : log[i].seq > after}
      first == CHOOSE i \in newer : \A j \in newer : i <= j
  IN  IF newer = {} THEN <<>> ELSE FirstPage(SubSeq(log, first, Len(log)))

(* The answer to a long poll waits until its page is full. *)
PollFullPages(r) ==
  LET page == Page(cursor[r])
  IN  /\ ctx # "purged"
      /\ Len(page) = Limit
      /\ seen' = [seen EXCEPT ![r] = @ \o page]
      /\ cursor' = [cursor EXCEPT ![r] = page[Len(page)].seq]
      /\ UNCHANGED <<ctx, tables, lock, draft, pc, op, todo>>

Poll(r) ==
  LET page == Page(cursor[r])
  IN  /\ ctx # "purged"
      /\ page # <<>>
      /\ seen' = [seen EXCEPT ![r] = @ \o page]
      /\ cursor' = [cursor EXCEPT ![r] = page[Len(page)].seq]
      /\ UNCHANGED <<ctx, tables, lock, draft, pc, op, todo>>

-------------------------------------------------------------------------------
(* The context: revoked or expired, and later deleted by purge_expired.     *)

End ==
  /\ ctx = "active" /\ ctx' = "ended"
  /\ UNCHANGED <<tables, lock, draft, pc, op, todo, clients>>

PurgeContext ==
  /\ ctx = "ended" /\ ctx' = "purged"
  /\ UNCHANGED <<tables, lock, draft, pc, op, todo, clients>>

SessionNext ==
  \/ \E c \in Writers : \/ Gate(c) \/ GiveUp(c) \/ Begin(c) \/ Execute(c)
                        \/ Commit(c) \/ Rollback(c)
  \/ \E r \in Readers : Poll(r)
  \/ End \/ PurgeContext

SessionSpec == SessionInit /\ [][SessionNext]_session

(* Clients keep polling. *)
FairSpec == SessionSpec /\ \A r \in Readers : WF_session(Poll(r))

-------------------------------------------------------------------------------
(* Properties                                                               *)

(* The state events of each work are a path of the state machine, so what   *)
(* was completed or cancelled stays so, and the work is where the path      *)
(* ends: no work is stored without the events of its submission, and none   *)
(* is left idle between the insert and the handoff.                         *)
StatesOf(w, events) ==
  {i \in 1 .. Len(events) : events[i].work = w /\ events[i].to # None}

IsPathTo(state, w, events) ==
  LET path == StatesOf(w, events)
  IN  /\ state = None <=> path = {}
      /\ \A i \in path : (\A j \in path : j <= i) => state = events[i].to
      /\ \A i, j \in path : i < j /\ (\A k \in path : k <= i \/ j <= k) =>
           events[j].to \in Moves[events[i].to] \cup {events[i].to}

WorkFollowsLog == \A w \in Works : IsPathTo(work[w], w, log)

(* The table, its transactions and its readers keep the promise of          *)
(* SessionLog: each transaction is one addition, and each client reads the  *)
(* log from its beginning, without a gap and without a repetition.          *)
Follower == INSTANCE SessionLog

RefinesSessionLog == Follower!Spec

(* An event that is committed reaches every client that keeps polling,      *)
(* unless the context is purged first.                                      *)
EventsArrive ==
  \A r \in Readers : \A n \in 1 .. MaxEvents :
     Len(log) >= n ~> (Len(seen[r]) >= n \/ ctx = "purged")

(* "context is not active" (session_transport.py:284) is the answer to a    *)
(* write after the context was revoked: nothing is written from then on.    *)
(* No run checks it: the gate is passed before the transaction begins.      *)
NothingAfterEnd == [][ctx # "active" => UNCHANGED tables]_session
===============================================================================
