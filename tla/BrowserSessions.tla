---------------------------- MODULE BrowserSessions ----------------------------
(***************************************************************************)
(* The browser session manager (src/kater/browser/session.py) with its      *)
(* provider's pages and the rows of browser_sessions (store.py).            *)
(*                                                                          *)
(* A step is what happens under one hold of _lock, one write of a row, or   *)
(* one call of the provider; API requests, MCP tools and the janitor of the *)
(* runtime are the threads.  A session is its state; viewport, title, URL   *)
(* and the list of actions are left out, and so is the clock: any live      *)
(* session may have outlived its TTL.                                       *)
(***************************************************************************)
EXTENDS Naturals, FiniteSets

CONSTANTS Sessions,      \* session ids
          Threads,
          MaxSessions,   \* policy.max_sessions
          MaxFaults,     \* bound: calls of the provider and writes that fail,
                         \* closes by another process, restarts of this one
          MaxBatches     \* bound: runs of reap_expired and close_all

ASSUME BrowserAssumption ==
  /\ MaxSessions \in Nat
  /\ MaxFaults \in Nat /\ MaxBatches \in Nat

VARIABLES mem,       \* _sessions: the state of each session
          handles,   \* _handles: the sessions whose page handle is registered
          pages,     \* the sessions whose page is open in the provider's browser
          stored,    \* browser_sessions
          pc, sid,   \* each thread, and the session it works on
          next,      \* the state it will write
          held,      \* whether it carries the page handle itself
          batch, todo,   \* the batch of closes it is in, and what is left of it
          faults, batches,
          raced,         \* history: sessions on which two calls have overlapped
          stranded,      \* history: pages left open by a close that failed, or
                         \* in a browser the provider has given up
          astray         \* history: sessions whose last write of a row failed,
                         \* or was another process's

calls   == <<pc, sid, next, held, batch, todo>>
budgets == <<faults, batches>>
history == <<raced, stranded, astray>>
vars    == <<mem, handles, pages, stored, calls, budgets, history>>

Live  == {"pending", "ready", "busy"}
State == Live \cup {"closed", "failed"}
NoSession == "absent"   \* no session, no row

Places == {"idle", "created", "opening", "opened", "broken", "acting", "acted",
           "finish", "closing", "closed", "dropping", "save"}

TypeOK ==
  /\ mem \in [Sessions -> State \cup {NoSession}]
  /\ stored \in [Sessions -> State \cup {NoSession}]
  /\ handles \subseteq Sessions /\ pages \subseteq Sessions
  /\ pc \in [Threads -> Places]
  /\ sid \in [Threads -> Sessions \cup {NoSession}]
  /\ next \in [Threads -> State]
  /\ held \in [Threads -> BOOLEAN]
  /\ \A t \in Threads : held[t] => pc[t] \in {"opened", "closing", "dropping"}
  /\ batch \in [Threads -> {"none", "reap", "all"}]
  /\ todo \in [Threads -> SUBSET Sessions]
  /\ faults \in 0 .. MaxFaults /\ batches \in 0 .. MaxBatches
  /\ raced \subseteq Sessions /\ stranded \subseteq Sessions /\ astray \subseteq Sessions

Idle == [t \in Threads |-> "idle"]

Init ==
  /\ mem = [s \in Sessions |-> NoSession]
  /\ stored = [s \in Sessions |-> NoSession]
  /\ handles = {} /\ pages = {}
  /\ pc = Idle
  /\ sid = [t \in Threads |-> NoSession]
  /\ next = [t \in Threads |-> "closed"]
  /\ held = [t \in Threads |-> FALSE]
  /\ batch = [t \in Threads |-> "none"]
  /\ todo = [t \in Threads |-> {}]
  /\ faults = 0 /\ batches = 0
  /\ raced = {} /\ stranded = {} /\ astray = {}

Goto(t, place) == pc' = [pc EXCEPT ![t] = place]

LiveSessions == {s \in Sessions : mem[s] \in Live}

WorkedOn == {sid[t] : t \in {u \in Threads : pc[u] # "idle"}}

Use(s) == raced' = raced \cup ({s} \cap WorkedOn)

Free(t) == pc[t] = "idle" /\ batch[t] = "none"

Fault == faults < MaxFaults /\ faults' = faults + 1

(* A call of the provider that misses its deadline leaves its worker stuck, *)
(* and the browser behind: "leaking one Chromium until process exit".       *)
AbandonBrowser == pages' = {} /\ stranded' = stranded \cup pages

-------------------------------------------------------------------------------
(* create *)

(* The limit is compared before the lock is taken for the insertion. *)
CreateOverLimit(t, s) ==
  /\ Free(t) /\ Cardinality(LiveSessions) <= MaxSessions
  /\ mem[s] = NoSession /\ stored[s] = NoSession
  /\ mem' = [mem EXCEPT ![s] = "pending"]
  /\ sid' = [sid EXCEPT ![t] = s] /\ next' = [next EXCEPT ![t] = "pending"]
  /\ Goto(t, "created")
  /\ UNCHANGED <<handles, pages, stored, held, batch, todo, budgets, history>>

Create(t, s) ==
  /\ Free(t) /\ Cardinality(LiveSessions) < MaxSessions
  /\ mem[s] = NoSession /\ stored[s] = NoSession
  /\ mem' = [mem EXCEPT ![s] = "pending"]
  /\ sid' = [sid EXCEPT ![t] = s] /\ next' = [next EXCEPT ![t] = "pending"]
  /\ Goto(t, "created")
  /\ UNCHANGED <<handles, pages, stored, held, batch, todo, budgets, history>>

NewPage(t) ==
  /\ pc[t] = "opening"
  /\ pages' = pages \cup {sid[t]}
  /\ held' = [held EXCEPT ![t] = TRUE]
  /\ Goto(t, "opened")
  /\ UNCHANGED <<mem, handles, stored, sid, next, batch, todo, budgets, history>>

(* The browser does not start or open a page, the guard is not installed on *)
(* the page it opened, or the deadline passes.                              *)
NewPageFails(t) ==
  /\ pc[t] = "opening" /\ Fault
  /\ \/ UNCHANGED <<pages, stranded>>
     \/ pages' = pages \cup {sid[t]} /\ stranded' = stranded \cup {sid[t]}
     \/ AbandonBrowser
  /\ Goto(t, "broken")
  /\ UNCHANGED <<mem, handles, stored, sid, next, held, batch, todo,
                 batches, raced, astray>>

Opened(t) ==
  /\ pc[t] = "opened"
  /\ handles' = handles \cup {sid[t]}
  /\ held' = [held EXCEPT ![t] = FALSE]
  /\ mem' = [mem EXCEPT ![sid[t]] = "ready"]
  /\ next' = [next EXCEPT ![t] = "ready"]
  /\ Goto(t, "save")
  /\ UNCHANGED <<pages, stored, sid, batch, todo, budgets, history>>

Broken(t) ==
  /\ pc[t] = "broken"
  /\ mem' = [mem EXCEPT ![sid[t]] = "failed"]
  /\ next' = [next EXCEPT ![t] = "failed"]
  /\ Goto(t, "save")
  /\ UNCHANGED <<handles, pages, stored, sid, held, batch, todo, budgets, history>>

-------------------------------------------------------------------------------
(* close, reap_expired and close_all *)

Known(s) == mem[s] # NoSession \/ stored[s] # NoSession

(* The handle is read, and stays registered until the page is closed. *)
BeginCloseKeepingHandle(t, s) ==
  /\ Known(s) /\ Use(s)
  /\ held' = [held EXCEPT ![t] = s \in handles]
  /\ sid' = [sid EXCEPT ![t] = s] /\ next' = [next EXCEPT ![t] = "closed"]
  /\ Goto(t, "closing")
  /\ UNCHANGED <<mem, handles, pages, stored, batch, budgets, stranded, astray>>

BeginClose(t, s) ==
  /\ Known(s) /\ Use(s)
  /\ held' = [held EXCEPT ![t] = s \in handles]
  /\ handles' = handles \ {s}
  /\ sid' = [sid EXCEPT ![t] = s] /\ next' = [next EXCEPT ![t] = "closed"]
  /\ Goto(t, "closing")
  /\ UNCHANGED <<mem, pages, stored, batch, budgets, stranded, astray>>

Close(t, s) == Free(t) /\ BeginClose(t, s) /\ UNCHANGED todo

(* A close that fails is swallowed, the handle is dropped all the same: the *)
(* page stays open, or is given up with its browser after a timeout.        *)
ClosePage(t) ==
  /\ pc[t] \in {"closing", "dropping"}
  /\ \/ /\ pages' = IF held[t] THEN pages \ {sid[t]} ELSE pages
        /\ UNCHANGED <<faults, stranded>>
     \/ /\ held[t] /\ Fault
        /\ \/ stranded' = stranded \cup (pages \cap {sid[t]}) /\ UNCHANGED pages
           \/ AbandonBrowser
  /\ held' = [held EXCEPT ![t] = FALSE]
  /\ Goto(t, IF pc[t] = "closing" THEN "closed" ELSE "save")
  /\ UNCHANGED <<mem, handles, stored, sid, next, batch, todo, batches,
                 raced, astray>>

Closed(t) ==
  /\ pc[t] = "closed"
  /\ mem' = [mem EXCEPT ![sid[t]] = "closed"]
  /\ Goto(t, "save")
  /\ UNCHANGED <<handles, pages, stored, sid, next, held, batch, todo, budgets, history>>

(* Any of the live sessions may be past its TTL. *)
ReapExpired(t) ==
  /\ Free(t) /\ batches < MaxBatches
  /\ \E expired \in SUBSET LiveSessions \ {{}} : todo' = [todo EXCEPT ![t] = expired]
  /\ batch' = [batch EXCEPT ![t] = "reap"]
  /\ batches' = batches + 1
  /\ UNCHANGED <<mem, handles, pages, stored, pc, sid, next, held, faults, history>>

CloseAll(t) ==
  /\ Free(t) /\ batches < MaxBatches
  /\ todo' = [todo EXCEPT ![t] = handles \cup LiveSessions]
  /\ batch' = [batch EXCEPT ![t] = "all"]
  /\ batches' = batches + 1
  /\ UNCHANGED <<mem, handles, pages, stored, pc, sid, next, held, faults, history>>

CloseNext(t) ==
  /\ pc[t] = "idle" /\ batch[t] # "none"
  /\ \E s \in todo[t] : BeginClose(t, s) /\ todo' = [todo EXCEPT ![t] = @ \ {s}]

(* provider.stop() takes the browser down, and every page with it; one that *)
(* is only attached to, or that does not stop, is left behind with them.    *)
EndBatch(t) ==
  /\ pc[t] = "idle" /\ batch[t] # "none" /\ todo[t] = {}
  /\ \/ batch[t] = "reap" /\ UNCHANGED <<pages, stranded>>
     \/ batch[t] = "all" /\ pages' = {} /\ stranded' = stranded \ pages
     \/ batch[t] = "all" /\ AbandonBrowser
  /\ batch' = [batch EXCEPT ![t] = "none"]
  /\ UNCHANGED <<mem, handles, stored, pc, sid, next, held, todo, budgets, raced, astray>>

-------------------------------------------------------------------------------
(* act and _finish *)

Act(t, s) ==
  /\ Free(t) /\ mem[s] \in {"pending", "ready"} /\ s \in handles /\ Use(s)
  /\ mem' = [mem EXCEPT ![s] = "busy"]
  /\ sid' = [sid EXCEPT ![t] = s] /\ next' = [next EXCEPT ![t] = "busy"]
  /\ Goto(t, "acting")
  /\ UNCHANGED <<handles, pages, stored, held, batch, todo, budgets, stranded, astray>>

(* A page that is gone raises; others may fail, or miss their deadline.     *)
Acted(t) ==
  /\ pc[t] = "acted"
  /\ \/ /\ next' = [next EXCEPT ![t] = IF sid[t] \in pages THEN "ready" ELSE "failed"]
        /\ UNCHANGED <<pages, stranded, faults>>
     \/ /\ sid[t] \in pages /\ Fault
        /\ next' = [next EXCEPT ![t] = "failed"]
        /\ UNCHANGED <<pages, stranded>> \/ AbandonBrowser
  /\ Goto(t, "finish")
  /\ UNCHANGED <<mem, handles, stored, sid, held, batch, todo, batches, raced, astray>>

(* The state is written whatever it has become in the meantime. *)
Finish(t) ==
  /\ pc[t] = "finish"
  /\ mem' = [mem EXCEPT ![sid[t]] = next[t]]
  /\ IF next[t] = "failed"
     THEN /\ held' = [held EXCEPT ![t] = sid[t] \in handles]
          /\ handles' = handles \ {sid[t]}
          /\ Goto(t, IF sid[t] \in handles THEN "dropping" ELSE "save")
     ELSE Goto(t, "save") /\ UNCHANGED <<handles, held>>
  /\ UNCHANGED <<pages, stored, sid, next, batch, todo, budgets, history>>

-------------------------------------------------------------------------------

After == [created |-> "opening", acting |-> "acted", save |-> "idle"]

EndCall(t) == sid' = [sid EXCEPT ![t] = NoSession] /\ next' = [next EXCEPT ![t] = "closed"]

(* A close leaves the row as it is. *)
SaveExceptClosed(t) ==
  /\ pc[t] \in {"created", "acting", "save"}
  /\ stored' = [stored EXCEPT ![sid[t]] = IF next[t] = "closed" THEN @ ELSE next[t]]
  /\ Goto(t, After[pc[t]])
  /\ IF pc[t] = "save" THEN EndCall(t) ELSE UNCHANGED <<sid, next>>
  /\ UNCHANGED <<mem, handles, pages, held, batch, todo, budgets, history>>

(* store.upsert_session, after _lock is released. *)
Save(t) ==
  /\ pc[t] \in {"created", "acting", "save"}
  /\ stored' = [stored EXCEPT ![sid[t]] = next[t]]
  /\ astray' = astray \ {sid[t]}
  /\ Goto(t, After[pc[t]])
  /\ IF pc[t] = "save" THEN EndCall(t) ELSE UNCHANGED <<sid, next>>
  /\ UNCHANGED <<mem, handles, pages, held, batch, todo, budgets, raced, stranded>>

(* The write raises and nobody in between catches it: the call ends here,   *)
(* and what it put into _sessions stays, "pending" or "busy" included.      *)
SaveFails(t) ==
  /\ pc[t] \in {"created", "acting", "save"} /\ Fault
  /\ astray' = astray \cup {sid[t]}
  /\ Goto(t, "idle") /\ EndCall(t)
  /\ UNCHANGED <<mem, handles, pages, stored, held, batch, todo, batches,
                 raced, stranded>>

(* "kater browser close" in a process of its own: it knows the row only,    *)
(* and has no page to close.                                                *)
CloseElsewhere(s) ==
  /\ stored[s] # NoSession /\ Fault
  /\ stored' = [stored EXCEPT ![s] = "closed"]
  /\ astray' = astray \cup {s}
  /\ UNCHANGED <<mem, handles, pages, calls, batches, raced, stranded>>

(* The process ends and another one starts: rows stay, pages do not. *)
Restart ==
  /\ Fault
  /\ mem' = [s \in Sessions |-> NoSession]
  /\ handles' = {} /\ pages' = {}
  /\ pc' = Idle
  /\ held' = [t \in Threads |-> FALSE]
  /\ batch' = [t \in Threads |-> "none"]
  /\ todo' = [t \in Threads |-> {}]
  /\ sid' = [t \in Threads |-> NoSession]
  /\ next' = [t \in Threads |-> "closed"]
  /\ raced' = {} /\ stranded' = {} /\ astray' = {}
  /\ UNCHANGED <<stored, batches>>

Next ==
  \/ \E t \in Threads :
       \/ \E s \in Sessions : Create(t, s) \/ Close(t, s) \/ Act(t, s)
       \/ NewPage(t) \/ NewPageFails(t) \/ Opened(t) \/ Broken(t)
       \/ ClosePage(t) \/ Closed(t)
       \/ ReapExpired(t) \/ CloseAll(t) \/ CloseNext(t) \/ EndBatch(t)
       \/ Acted(t) \/ Finish(t) \/ Save(t) \/ SaveFails(t)
  \/ \E s \in Sessions : CloseElsewhere(s)
  \/ Restart

Spec == Init /\ [][Next]_vars

-------------------------------------------------------------------------------
(* Properties                                                               *)

InAct(t) == pc[t] \in {"acting", "acted", "finish"}

(* A page open in the provider's browser is either registered in _handles or *)
(* carried by exactly one thread that will register or close it, never both: *)
(* no page is closed twice, and none is lost while create, act, close and    *)
(* the janitor race, except by a close that failed or a page that was left   *)
(* half open (stranded: nothing keeps those but the browser).  No two calls  *)
(* act on one page at a time ("session is busy"), even when it is closed     *)
(* under one of them, and a failed session keeps no page.                    *)
PageHasOneOwner ==
  /\ \A s \in pages \ stranded : s \in handles \/ \E t \in Threads : held[t] /\ sid[t] = s
  /\ \A t \in Threads : held[t] =>
       /\ sid[t] \notin handles
       /\ \A u \in Threads \ {t} : held[u] => sid[u] # sid[t]
  /\ \A t, u \in Threads : InAct(t) /\ InAct(u) /\ t # u => sid[t] # sid[u]
  /\ \A s \in Sessions : mem[s] = "failed" => s \notin handles

(* The number of live sessions stays within policy.max_sessions, as long as *)
(* no two calls on one session have overlapped: the check and the insertion *)
(* of concurrent creates are one step.                                      *)
LimitUnlessRaced == raced = {} => Cardinality(LiveSessions) <= MaxSessions

(* "enforces the policy limits" (session.py:3), overlapping calls or not.   *)
(* No run checks it: a session closed while it is opened comes back.        *)
SessionLimit == Cardinality(LiveSessions) <= MaxSessions

(* Once no call works on a session its row tells its state, unless calls    *)
(* on it overlapped (rows are written after _lock is released, in any       *)
(* order), its last write failed, or another process wrote the row since.   *)
RowsAgreeAtRest ==
  \A s \in Sessions \ (WorkedOn \cup raced \cup astray) :
     mem[s] # NoSession => stored[s] = mem[s]
===============================================================================
