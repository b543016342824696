------------------------ MODULE BrowserSessions_proofs ------------------------
(***************************************************************************)
(* Safety of BrowserSessions for every number of sessions and threads and   *)
(* every limit.                                                             *)
(*                                                                          *)
(* That a page has one owner rests on three exclusions: a session has one   *)
(* call that creates it, nobody acts on it or carries its page meanwhile    *)
(* (OneCreator), and a session that is acted on is not ready for another    *)
(* action (ActsAreMarked).  The limit and the rows rest on what a call      *)
(* knows of its session as long as no other has overlapped it               *)
(* (AloneKnowsState).                                                       *)
(***************************************************************************)
EXTENDS BrowserSessions, FiniteSetTheorems, TLAPS

Busy(t)     == pc[t] # "idle"
Creating(t) == pc[t] \in {"created", "opening", "opened", "broken"}

(* A call works on a session there is, or was. *)
WorkIsKnown == \A t \in Threads : Busy(t) => sid[t] \in Sessions /\ Known(sid[t])

(* What a call will write, by its place. *)
NextSound ==
  \A t \in Threads :
    /\ pc[t] \in {"closing", "closed"} => next[t] = "closed"
    /\ pc[t] = "finish" => next[t] \in {"ready", "failed"}
    /\ pc[t] = "dropping" => next[t] = "failed"

(* Registered and carried pages are of sessions this process knows. *)
PagesAreKnown ==
  /\ \A s \in handles : mem[s] # NoSession
  /\ \A t \in Threads : held[t] => mem[sid[t]] # NoSession

OneCreator ==
  \A t \in Threads : Creating(t) =>
    /\ mem[sid[t]] # NoSession /\ sid[t] \notin handles
    /\ \A u \in Threads \ {t} : Creating(u) \/ InAct(u) \/ held[u] => sid[u] # sid[t]

ActsAreMarked ==
  \A t \in Threads : InAct(t) => mem[sid[t]] \notin {NoSession, "pending", "ready"}

OwnInv == /\ TypeOK /\ WorkIsKnown /\ NextSound /\ PagesAreKnown /\ OneCreator /\ ActsAreMarked
          /\ PageHasOneOwner

(* Calls on one session at a time are recorded as having raced. *)
OverlapsAreRaced ==
  \A t, u \in Threads : Busy(t) /\ Busy(u) /\ t # u /\ sid[t] = sid[u] => sid[t] \in raced

(* A call that nobody has overlapped knows the state of its session. *)
AloneKnowsState ==
  \A t \in Threads : Busy(t) /\ sid[t] \notin raced =>
    /\ Creating(t) => mem[sid[t]] = "pending"
    /\ InAct(t) => mem[sid[t]] = "busy"
    /\ pc[t] \in {"dropping", "save"} => mem[sid[t]] = next[t]

LimitInv == IsFiniteSet(LiveSessions) /\ LimitUnlessRaced

RestInv == OverlapsAreRaced /\ AloneKnowsState /\ RowsAgreeAtRest /\ LimitInv

IInv == OwnInv /\ RestInv

-------------------------------------------------------------------------------
(* No session exists and no thread works at the start. *)
LEMMA InitInv == Init => IInv
<1> SUFFICES ASSUME Init PROVE IInv
  OBVIOUS
<1>1. TypeOK
  BY BrowserAssumption DEF Init, TypeOK, State, Live, NoSession, Places, Idle
<1>2. WorkIsKnown /\ NextSound /\ PagesAreKnown /\ OneCreator /\ ActsAreMarked
  BY DEF Init, Idle, WorkIsKnown, NextSound, PagesAreKnown, OneCreator, ActsAreMarked, Busy,
         Creating, InAct
<1>3. PageHasOneOwner
  BY DEF Init, Idle, PageHasOneOwner, InAct, NoSession
<1>4. OverlapsAreRaced /\ AloneKnowsState /\ RowsAgreeAtRest
  BY DEF Init, Idle, OverlapsAreRaced, AloneKnowsState, RowsAgreeAtRest, Busy
<1>5. LimitInv
  <2>1. LiveSessions = {}
    BY DEF Init, LiveSessions, Live, NoSession
  <2> QED BY <2>1, FS_EmptySet, BrowserAssumption DEF LimitInv, LimitUnlessRaced
<1> QED BY <1>1, <1>2, <1>3, <1>4, <1>5 DEF IInv, OwnInv, RestInv

-------------------------------------------------------------------------------
(* How an action ends: with a page to drop, without one, or well. *)
LEMMA FinishCases ==
  ASSUME OwnInv, NEW t \in Threads, Finish(t)
  PROVE  /\ pc[t] = "finish" /\ sid[t] \in Sessions /\ mem' = [mem EXCEPT ![sid[t]] = next[t]]
         /\ UNCHANGED <<pages, stored, sid, next, batch, todo, budgets, history>>
         /\ \/ /\ next[t] = "failed" /\ sid[t] \in handles /\ handles' = handles \ {sid[t]}
               /\ held' = [held EXCEPT ![t] = TRUE] /\ Goto(t, "dropping")
            \/ /\ next[t] = "failed" /\ sid[t] \notin handles /\ handles' = handles
               /\ held' = held /\ Goto(t, "save")
            \/ next[t] = "ready" /\ UNCHANGED <<handles, held>> /\ Goto(t, "save")
<1>1. pc[t] = "finish" /\ sid[t] \in Sessions /\ next[t] \in {"ready", "failed"}
  BY DEF Finish, OwnInv, WorkIsKnown, NextSound, Busy
<1>2. CASE next[t] = "failed" /\ sid[t] \in handles
  <2>1. (sid[t] \in handles) = TRUE
    BY <1>2
  <2> QED BY <1>1, <1>2, <2>1 DEF Finish
<1>3. CASE next[t] = "failed" /\ sid[t] \notin handles
  <2>1. (sid[t] \in handles) = FALSE
    BY <1>3
  <2>2. held \in [Threads -> BOOLEAN] /\ ~held[t]
    BY <1>1 DEF OwnInv, TypeOK
  <2>3. held' = held
    BY <1>3, <2>1, <2>2 DEF Finish
  <2> QED BY <1>1, <1>3, <2>3 DEF Finish
<1>4. CASE next[t] = "ready"
  BY <1>1, <1>4 DEF Finish
<1> QED BY <1>1, <1>2, <1>3, <1>4

(* How a close begins: it takes the handle, if there is one. *)
LEMMA BeginCloseCases ==
  ASSUME OwnInv, NEW t \in Threads, NEW s \in Sessions, pc[t] = "idle", BeginClose(t, s)
  PROVE  /\ Known(s) /\ Use(s) /\ handles' = handles \ {s}
         /\ sid' = [sid EXCEPT ![t] = s] /\ next' = [next EXCEPT ![t] = "closed"]
         /\ Goto(t, "closing") /\ UNCHANGED <<mem, pages, stored, batch, budgets, stranded, astray>>
         /\ \/ s \in handles /\ held' = [held EXCEPT ![t] = TRUE]
            \/ s \notin handles /\ held' = held
<1>1. CASE s \in handles
  <2>1. (s \in handles) = TRUE
    BY <1>1
  <2> QED BY <1>1, <2>1 DEF BeginClose
<1>2. CASE s \notin handles
  <2>1. (s \in handles) = FALSE
    BY <1>2
  <2>2. held \in [Threads -> BOOLEAN] /\ ~held[t]
    BY DEF OwnInv, TypeOK
  <2>3. held' = held
    BY <2>1, <2>2 DEF BeginClose
  <2> QED BY <1>2, <2>3 DEF BeginClose
<1> QED BY <1>1, <1>2

(* Every step keeps the type. *)
LEMMA TypeStep == OwnInv /\ [Next]_vars => TypeOK'
<1> SUFFICES ASSUME OwnInv, [Next]_vars PROVE TypeOK'
  OBVIOUS
<1> USE BrowserAssumption DEF OwnInv, TypeOK, State, Live, Places, Goto, calls, budgets, history
<1>a. \A t \in Threads : Busy(t) => sid[t] \in Sessions
  BY DEF WorkIsKnown
<1>b. ASSUME NEW t \in Threads, NEW s \in Sessions, pc[t] = "idle", BeginClose(t, s),
             todo' \in [Threads -> SUBSET Sessions]
      PROVE TypeOK'
  <2>1. /\ sid' = [sid EXCEPT ![t] = s] /\ next' = [next EXCEPT ![t] = "closed"]
        /\ pc' = [pc EXCEPT ![t] = "closing"] /\ handles' = handles \ {s}
        /\ UNCHANGED <<mem, pages, stored, batch, budgets, stranded, astray>>
        /\ raced' = raced \cup ({s} \cap WorkedOn)
        /\ held' = [held EXCEPT ![t] = TRUE] \/ held' = held
    BY <1>b, BeginCloseCases DEF Use
  <2>2. /\ held' \in [Threads -> BOOLEAN]
        /\ \A u \in Threads : held'[u] => pc'[u] \in {"opened", "closing", "dropping"}
    BY <2>1
  <2> QED BY <1>b, <2>1, <2>2
<1>1. CASE UNCHANGED vars
  BY <1>1 DEF vars
<1>2. ASSUME NEW t \in Threads, NEW s \in Sessions, Create(t, s) PROVE TypeOK'
  BY <1>2 DEF Create, Free
<1>3. ASSUME NEW t \in Threads, NEW s \in Sessions, Close(t, s) PROVE TypeOK'
  BY <1>3, <1>b DEF Close, Free
<1>4. ASSUME NEW t \in Threads, NEW s \in Sessions, Act(t, s) PROVE TypeOK'
  BY <1>4 DEF Act, Free, Use
<1>5. ASSUME NEW t \in Threads, NewPage(t) PROVE TypeOK'
  BY <1>5, <1>a DEF NewPage, Busy
<1>6. ASSUME NEW t \in Threads, NewPageFails(t) PROVE TypeOK'
  BY <1>6, <1>a DEF NewPageFails, Fault, AbandonBrowser, Busy
<1>7. ASSUME NEW t \in Threads, Opened(t) PROVE TypeOK'
  BY <1>7, <1>a DEF Opened, Busy
<1>8. ASSUME NEW t \in Threads, Broken(t) \/ Closed(t) PROVE TypeOK'
  BY <1>8, <1>a DEF Broken, Closed, Busy
<1>9. ASSUME NEW t \in Threads, ClosePage(t) PROVE TypeOK'
  BY <1>9 DEF ClosePage, Fault, AbandonBrowser
<1>10. ASSUME NEW t \in Threads, ReapExpired(t) \/ CloseAll(t) PROVE TypeOK'
  BY <1>10 DEF ReapExpired, CloseAll, LiveSessions
<1>11. ASSUME NEW t \in Threads, CloseNext(t) PROVE TypeOK'
  BY <1>11, <1>b DEF CloseNext
<1>12. ASSUME NEW t \in Threads, EndBatch(t) PROVE TypeOK'
  BY <1>12 DEF EndBatch, AbandonBrowser
<1>13. ASSUME NEW t \in Threads, Acted(t) PROVE TypeOK'
  BY <1>13 DEF Acted, Fault, AbandonBrowser
<1>14. ASSUME NEW t \in Threads, Finish(t) PROVE TypeOK'
  <2>1. /\ pc[t] = "finish" /\ sid[t] \in Sessions /\ mem' = [mem EXCEPT ![sid[t]] = next[t]]
        /\ UNCHANGED <<pages, stored, sid, next, batch, todo, budgets, history>>
        /\ handles' \subseteq handles
    BY <1>14, FinishCases
  <2>2. /\ pc' \in [Threads -> Places] /\ held' \in [Threads -> BOOLEAN]
        /\ \A u \in Threads : held'[u] => pc'[u] \in {"opened", "closing", "dropping"}
    <3>1. CASE held' = [held EXCEPT ![t] = TRUE] /\ pc' = [pc EXCEPT ![t] = "dropping"]
      BY <3>1
    <3>2. CASE held' = held /\ pc' = [pc EXCEPT ![t] = "save"]
      BY <2>1, <3>2
    <3> QED BY <1>14, <3>1, <3>2, FinishCases
  <2> QED BY <2>1, <2>2
<1>15. ASSUME NEW t \in Threads, Save(t) PROVE TypeOK'
  BY <1>15, <1>a DEF Save, EndCall, Busy, After
<1>16. CASE Restart
  BY <1>16 DEF Restart, Idle, Fault
<1>17. ASSUME NEW t \in Threads, SaveFails(t) PROVE TypeOK'
  BY <1>17, <1>a DEF SaveFails, EndCall, Fault, Busy
<1>18. ASSUME NEW s \in Sessions, CloseElsewhere(s) PROVE TypeOK'
  BY <1>18 DEF CloseElsewhere, Fault
<1> QED
  BY <1>1, <1>2, <1>3, <1>4, <1>5, <1>6, <1>7, <1>8, <1>9, <1>10, <1>11, <1>12, <1>13, <1>14,
     <1>15, <1>16, <1>17, <1>18 DEF Next

(* Every step keeps the owners of pages and sessions.                       *)
LEMMA OwnStep == OwnInv /\ [Next]_vars => OwnInv'
<1> SUFFICES ASSUME OwnInv, [Next]_vars PROVE OwnInv'
  OBVIOUS
<1> USE DEF Goto, calls, budgets, history
<1>a. TypeOK /\ TypeOK'
  BY TypeStep DEF OwnInv
<1> DEFINE Parts == /\ WorkIsKnown /\ NextSound /\ PagesAreKnown /\ OneCreator /\ ActsAreMarked
                    /\ PageHasOneOwner
<1>b. Parts
  BY DEF OwnInv
<1>c. ASSUME Parts' PROVE OwnInv'
  BY <1>a, <1>c DEF OwnInv
<1>d. ASSUME UNCHANGED <<mem, handles, pages, pc, sid, next, held, stored, stranded>> PROVE Parts'
  BY <1>b, <1>d
  DEF WorkIsKnown, NextSound, PagesAreKnown, OneCreator, ActsAreMarked, PageHasOneOwner,
      Busy, Creating, InAct, Known
<1>1. CASE UNCHANGED vars
  BY <1>1, <1>c, <1>d DEF vars
<1>2. ASSUME NEW t \in Threads, NEW s \in Sessions, Create(t, s) PROVE Parts'
  <2>1. /\ pc[t] = "idle" /\ mem[s] = NoSession /\ stored[s] = NoSession
        /\ mem'[s] = "pending" /\ pc'[t] = "created" /\ sid'[t] = s /\ ~held[t]
        /\ UNCHANGED <<handles, pages, stranded, stored, held>>
        /\ \A r \in Sessions \ {s} : mem'[r] = mem[r]
        /\ \A u \in Threads \ {t} : pc'[u] = pc[u] /\ sid'[u] = sid[u] /\ next'[u] = next[u]
    BY <1>2, <1>a DEF Create, Free, TypeOK
  <2>2. \A u \in Threads : Busy(u) => sid[u] \in Sessions \ {s}
    <3>1. \A u \in Threads : held[u] \/ Creating(u) \/ InAct(u) => sid[u] # s
      BY <1>b, <2>1 DEF PagesAreKnown, OneCreator, ActsAreMarked, NoSession
    <3> QED BY <1>b, <2>1 DEF WorkIsKnown, Known
  <2>3. s \notin handles
    BY <1>b, <2>1 DEF PagesAreKnown
  <2>4. \A u \in Threads : held[u] => Busy(u)
    BY <1>a DEF TypeOK, Busy
  <2>5. WorkIsKnown' /\ NextSound'
    BY <1>b, <2>1, <2>2 DEF WorkIsKnown, NextSound, Busy, Known, NoSession
  <2>6. PagesAreKnown' /\ ActsAreMarked'
    BY <1>a, <1>b, <2>1, <2>2, <2>3, <2>4
    DEF PagesAreKnown, ActsAreMarked, InAct, Busy, TypeOK
  <2>7. OneCreator'
    BY <1>b, <2>1, <2>2, <2>3, <2>4 DEF OneCreator, Creating, InAct, Busy, NoSession
  <2>8. PageHasOneOwner'
    BY <1>b, <2>1, <2>2, <2>3, <2>4 DEF PageHasOneOwner, InAct, Busy
  <2> QED BY <2>5, <2>6, <2>7, <2>8
<1>3. ASSUME NEW t \in Threads, NewPage(t) PROVE Parts'
  <2>1. /\ pc[t] = "opening" /\ pc'[t] = "opened" /\ held'[t] /\ pages' = pages \cup {sid[t]}
        /\ UNCHANGED <<mem, handles, stored, sid, next, stranded>>
        /\ \A u \in Threads \ {t} : pc'[u] = pc[u] /\ held'[u] = held[u]
    BY <1>3, <1>a, <1>b DEF NewPage, TypeOK
  <2>2. WorkIsKnown' /\ NextSound'
    BY <1>a, <1>b, <2>1 DEF WorkIsKnown, NextSound, Busy, Known, TypeOK, NoSession
  <2>3. PagesAreKnown' /\ ActsAreMarked'
    BY <1>a, <1>b, <2>1
    DEF WorkIsKnown, PagesAreKnown, OneCreator, ActsAreMarked, PageHasOneOwner, InAct, Creating, Busy,
        TypeOK, NoSession
  <2>4. OneCreator'
    BY <1>a, <1>b, <2>1 DEF OneCreator, PageHasOneOwner, WorkIsKnown, Creating, InAct, Busy, TypeOK, NoSession
  <2>5. PageHasOneOwner'
    BY <1>a, <1>b, <2>1 DEF PageHasOneOwner, OneCreator, ActsAreMarked, Creating, InAct, Busy, TypeOK
  <2> QED BY <2>2, <2>3, <2>4, <2>5
<1>4. ASSUME NEW t \in Threads, NewPageFails(t) PROVE Parts'
  <2>1. /\ pc[t] = "opening" /\ pc'[t] = "broken" /\ UNCHANGED <<mem, handles, stored, sid, next, held>>
        /\ pages' \ stranded' \subseteq pages \ stranded
        /\ \A u \in Threads \ {t} : pc'[u] = pc[u]
    BY <1>4, <1>a, <1>b DEF NewPageFails, AbandonBrowser, TypeOK
  <2>2. WorkIsKnown' /\ NextSound'
    BY <1>a, <1>b, <2>1 DEF WorkIsKnown, NextSound, Busy, Known, TypeOK, NoSession
  <2>3. PagesAreKnown' /\ ActsAreMarked'
    BY <1>a, <1>b, <2>1
    DEF WorkIsKnown, PagesAreKnown, OneCreator, ActsAreMarked, PageHasOneOwner, InAct, Creating, Busy,
        TypeOK, NoSession
  <2>4. OneCreator'
    BY <1>a, <1>b, <2>1 DEF OneCreator, PageHasOneOwner, WorkIsKnown, Creating, InAct, Busy, TypeOK, NoSession
  <2>5. PageHasOneOwner'
    BY <1>a, <1>b, <2>1 DEF PageHasOneOwner, OneCreator, ActsAreMarked, Creating, InAct, Busy, TypeOK
  <2> QED BY <2>2, <2>3, <2>4, <2>5
<1>5. ASSUME NEW t \in Threads, Opened(t) PROVE Parts'
  <2>1. /\ pc[t] = "opened" /\ pc'[t] = "save" /\ ~held'[t] /\ handles' = handles \cup {sid[t]}
        /\ sid[t] \in Sessions /\ mem'[sid[t]] = "ready" /\ UNCHANGED <<pages, stranded, stored, sid>>
        /\ \A s \in Sessions \ {sid[t]} : mem'[s] = mem[s]
        /\ \A u \in Threads \ {t} : pc'[u] = pc[u] /\ held'[u] = held[u] /\ next'[u] = next[u]
    BY <1>5, <1>a, <1>b DEF Opened, TypeOK, WorkIsKnown, Busy
  <2>2. WorkIsKnown' /\ NextSound'
    BY <1>a, <1>b, <2>1 DEF WorkIsKnown, NextSound, Busy, Known, TypeOK, NoSession
  <2>3. PagesAreKnown' /\ ActsAreMarked'
    BY <1>a, <1>b, <2>1
    DEF WorkIsKnown, PagesAreKnown, OneCreator, ActsAreMarked, PageHasOneOwner, InAct, Creating, Busy,
        TypeOK, NoSession
  <2>4. OneCreator'
    BY <1>a, <1>b, <2>1 DEF OneCreator, PageHasOneOwner, WorkIsKnown, Creating, InAct, Busy, TypeOK, NoSession
  <2>5. PageHasOneOwner'
    BY <1>a, <1>b, <2>1 DEF PageHasOneOwner, OneCreator, ActsAreMarked, Creating, InAct, Busy, TypeOK
  <2> QED BY <2>2, <2>3, <2>4, <2>5
<1>6. ASSUME NEW t \in Threads, Broken(t) PROVE Parts'
  <2>1. /\ pc[t] = "broken" /\ pc'[t] = "save" /\ UNCHANGED <<handles, pages, stranded, stored, sid, held>>
        /\ sid[t] \in Sessions /\ mem'[sid[t]] = "failed"
        /\ \A s \in Sessions \ {sid[t]} : mem'[s] = mem[s]
        /\ \A u \in Threads \ {t} : pc'[u] = pc[u] /\ next'[u] = next[u]
    BY <1>6, <1>a, <1>b DEF Broken, TypeOK, WorkIsKnown, Busy
  <2>2. WorkIsKnown' /\ NextSound'
    BY <1>a, <1>b, <2>1 DEF WorkIsKnown, NextSound, Busy, Known, TypeOK, NoSession
  <2>3. PagesAreKnown' /\ ActsAreMarked'
    BY <1>a, <1>b, <2>1
    DEF WorkIsKnown, PagesAreKnown, OneCreator, ActsAreMarked, PageHasOneOwner, InAct, Creating, Busy,
        TypeOK, NoSession
  <2>4. OneCreator'
    BY <1>a, <1>b, <2>1 DEF OneCreator, PageHasOneOwner, WorkIsKnown, Creating, InAct, Busy, TypeOK, NoSession
  <2>5. PageHasOneOwner'
    BY <1>a, <1>b, <2>1 DEF PageHasOneOwner, OneCreator, ActsAreMarked, Creating, InAct, Busy, TypeOK
  <2> QED BY <2>2, <2>3, <2>4, <2>5
<1>7. ASSUME NEW t \in Threads, ClosePage(t) PROVE Parts'
  <2>1. /\ pc[t] \in {"closing", "dropping"} /\ pc'[t] \in {"closed", "save"} /\ ~held'[t]
        /\ pc'[t] = "closed" => pc[t] = "closing"
        /\ UNCHANGED <<mem, handles, stored, sid, next>>
        /\ pages' \ stranded' \subseteq pages \ stranded
        /\ held[t] => sid[t] \notin pages' \ stranded'
        /\ \A u \in Threads \ {t} : pc'[u] = pc[u] /\ held'[u] = held[u]
    BY <1>7, <1>a, <1>b DEF ClosePage, AbandonBrowser, TypeOK
  <2>2. WorkIsKnown' /\ NextSound'
    BY <1>a, <1>b, <2>1 DEF WorkIsKnown, NextSound, Busy, Known, TypeOK, NoSession
  <2>3. PagesAreKnown' /\ ActsAreMarked'
    BY <1>a, <1>b, <2>1
    DEF WorkIsKnown, PagesAreKnown, OneCreator, ActsAreMarked, PageHasOneOwner, InAct, Creating, Busy,
        TypeOK, NoSession
  <2>4. OneCreator'
    BY <1>a, <1>b, <2>1 DEF OneCreator, PageHasOneOwner, WorkIsKnown, Creating, InAct, Busy, TypeOK, NoSession
  <2>5. PageHasOneOwner'
    BY <1>a, <1>b, <2>1 DEF PageHasOneOwner, OneCreator, ActsAreMarked, Creating, InAct, Busy, TypeOK
  <2> QED BY <2>2, <2>3, <2>4, <2>5
<1>8. ASSUME NEW t \in Threads, Closed(t) PROVE Parts'
  <2>1. /\ pc[t] = "closed" /\ pc'[t] = "save" /\ UNCHANGED <<handles, pages, stranded, stored, sid, next, held>>
        /\ sid[t] \in Sessions /\ mem'[sid[t]] = "closed"
        /\ \A s \in Sessions \ {sid[t]} : mem'[s] = mem[s]
        /\ \A u \in Threads \ {t} : pc'[u] = pc[u]
    BY <1>8, <1>a, <1>b DEF Closed, TypeOK, WorkIsKnown, Busy
  <2>2. WorkIsKnown' /\ NextSound'
    BY <1>a, <1>b, <2>1 DEF WorkIsKnown, NextSound, Busy, Known, TypeOK, NoSession
  <2>3. PagesAreKnown' /\ ActsAreMarked'
    BY <1>a, <1>b, <2>1
    DEF WorkIsKnown, PagesAreKnown, OneCreator, ActsAreMarked, PageHasOneOwner, InAct, Creating, Busy,
        TypeOK, NoSession
  <2>4. OneCreator'
    BY <1>a, <1>b, <2>1 DEF OneCreator, PageHasOneOwner, WorkIsKnown, Creating, InAct, Busy, TypeOK, NoSession
  <2>5. PageHasOneOwner'
    BY <1>a, <1>b, <2>1 DEF PageHasOneOwner, OneCreator, ActsAreMarked, Creating, InAct, Busy, TypeOK
  <2> QED BY <2>2, <2>3, <2>4, <2>5
<1>e. ASSUME NEW t \in Threads, NEW s \in Sessions, pc[t] = "idle", BeginClose(t, s) PROVE Parts'
  <2>1. /\ Known(s) /\ pc'[t] = "closing" /\ sid'[t] = s /\ next'[t] = "closed" /\ ~held[t]
        /\ handles' = handles \ {s} /\ (held'[t] <=> s \in handles)
        /\ UNCHANGED <<mem, pages, stranded, stored>>
        /\ \A u \in Threads \ {t} : /\ pc'[u] = pc[u] /\ sid'[u] = sid[u] /\ next'[u] = next[u]
                                    /\ held'[u] = held[u]
    BY <1>e, <1>a, BeginCloseCases DEF TypeOK
  <2>2. WorkIsKnown' /\ NextSound'
    BY <1>b, <1>e, <2>1 DEF WorkIsKnown, NextSound, Busy, Known
  <2>3. PagesAreKnown' /\ ActsAreMarked'
    BY <1>b, <1>e, <2>1 DEF PagesAreKnown, ActsAreMarked, InAct
  <2>4. OneCreator'
    BY <1>b, <1>e, <2>1 DEF OneCreator, Creating, InAct
  <2>5. PageHasOneOwner'
    BY <1>b, <1>e, <2>1 DEF PageHasOneOwner, InAct
  <2> QED BY <2>2, <2>3, <2>4, <2>5
<1>9. ASSUME NEW t \in Threads, NEW s \in Sessions, Close(t, s) PROVE Parts'
  BY <1>9, <1>e DEF Close, Free
<1>10. ASSUME NEW t \in Threads, CloseNext(t) PROVE Parts'
  BY <1>10, <1>a, <1>e DEF CloseNext, TypeOK
<1>11. ASSUME NEW t \in Threads, ReapExpired(t) \/ CloseAll(t) PROVE Parts'
  BY <1>11, <1>d DEF ReapExpired, CloseAll
<1>12. ASSUME NEW t \in Threads, EndBatch(t) PROVE Parts'
  <2>1. /\ pages' \ stranded' \subseteq pages \ stranded
        /\ UNCHANGED <<mem, handles, stored, pc, sid, next, held>>
    BY <1>12 DEF EndBatch, AbandonBrowser
  <2>2. WorkIsKnown' /\ NextSound' /\ PagesAreKnown' /\ OneCreator' /\ ActsAreMarked'
    BY <1>b, <2>1
    DEF WorkIsKnown, NextSound, PagesAreKnown, OneCreator, ActsAreMarked, Busy, Creating, InAct, Known
  <2>3. PageHasOneOwner'
    BY <1>b, <2>1 DEF PageHasOneOwner, InAct
  <2> QED BY <2>2, <2>3
<1>13. ASSUME NEW t \in Threads, NEW s \in Sessions, Act(t, s) PROVE Parts'
  <2>1. /\ pc[t] = "idle" /\ pc'[t] = "acting" /\ sid'[t] = s /\ s \in handles /\ ~held[t]
        /\ mem[s] \in {"pending", "ready"} /\ mem'[s] = "busy"
        /\ UNCHANGED <<handles, pages, stranded, stored, held>>
        /\ \A r \in Sessions \ {s} : mem'[r] = mem[r]
        /\ \A u \in Threads \ {t} : pc'[u] = pc[u] /\ sid'[u] = sid[u] /\ next'[u] = next[u]
    BY <1>13, <1>a, <1>b DEF Act, Free, TypeOK
  <2>2. WorkIsKnown' /\ NextSound'
    BY <1>a, <1>b, <2>1 DEF WorkIsKnown, NextSound, Busy, Known, TypeOK, NoSession
  <2>3. PagesAreKnown' /\ ActsAreMarked'
    BY <1>a, <1>b, <2>1
    DEF WorkIsKnown, PagesAreKnown, OneCreator, ActsAreMarked, PageHasOneOwner, InAct, Creating, Busy,
        TypeOK, NoSession
  <2>4. OneCreator'
    BY <1>a, <1>b, <2>1 DEF OneCreator, PageHasOneOwner, WorkIsKnown, Creating, InAct, Busy, TypeOK, NoSession
  <2>5. PageHasOneOwner'
    BY <1>a, <1>b, <2>1 DEF PageHasOneOwner, OneCreator, ActsAreMarked, Creating, InAct, Busy, TypeOK
  <2> QED BY <2>2, <2>3, <2>4, <2>5
<1>14. ASSUME NEW t \in Threads, Acted(t) PROVE Parts'
  <2>1. /\ pc[t] = "acted" /\ pc'[t] = "finish" /\ next'[t] \in {"ready", "failed"}
        /\ UNCHANGED <<mem, handles, stored, sid, held>>
        /\ pages' \ stranded' \subseteq pages \ stranded
        /\ \A u \in Threads \ {t} : pc'[u] = pc[u] /\ next'[u] = next[u]
    BY <1>14, <1>a, <1>b DEF Acted, AbandonBrowser, TypeOK
  <2>2. WorkIsKnown' /\ NextSound'
    BY <1>a, <1>b, <2>1 DEF WorkIsKnown, NextSound, Busy, Known, TypeOK, NoSession
  <2>3. PagesAreKnown' /\ ActsAreMarked'
    BY <1>a, <1>b, <2>1
    DEF WorkIsKnown, PagesAreKnown, OneCreator, ActsAreMarked, PageHasOneOwner, InAct, Creating, Busy,
        TypeOK, NoSession
  <2>4. OneCreator'
    BY <1>a, <1>b, <2>1 DEF OneCreator, PageHasOneOwner, WorkIsKnown, Creating, InAct, Busy, TypeOK, NoSession
  <2>5. PageHasOneOwner'
    BY <1>a, <1>b, <2>1 DEF PageHasOneOwner, OneCreator, ActsAreMarked, Creating, InAct, Busy, TypeOK
  <2> QED BY <2>2, <2>3, <2>4, <2>5
<1>15. ASSUME NEW t \in Threads, Finish(t) PROVE Parts'
  <2>1. /\ pc[t] = "finish" /\ pc'[t] \in {"dropping", "save"} /\ UNCHANGED <<pages, stranded, stored, sid, next>>
        /\ sid[t] \in Sessions /\ mem'[sid[t]] = next[t] /\ ~held[t]
        /\ \A s \in Sessions \ {sid[t]} : mem'[s] = mem[s]
        /\ \A u \in Threads \ {t} : pc'[u] = pc[u] /\ held'[u] = held[u]
        /\ \/ /\ next[t] = "failed" /\ sid[t] \in handles /\ held'[t] /\ handles' = handles \ {sid[t]}
           \/ /\ next[t] = "failed" /\ sid[t] \notin handles /\ ~held'[t] /\ handles' = handles
              /\ pc'[t] = "save"
           \/ /\ next[t] = "ready" /\ ~held'[t] /\ handles' = handles /\ pc'[t] = "save"
    BY <1>15, <1>a, FinishCases DEF TypeOK
  <2>2. WorkIsKnown' /\ NextSound'
    BY <1>a, <1>b, <2>1 DEF WorkIsKnown, NextSound, Busy, Known, TypeOK, NoSession
  <2>3. PagesAreKnown' /\ ActsAreMarked'
    BY <1>a, <1>b, <2>1
    DEF WorkIsKnown, PagesAreKnown, OneCreator, ActsAreMarked, PageHasOneOwner, InAct, Creating, Busy,
        TypeOK, NoSession
  <2>4. OneCreator'
    BY <1>a, <1>b, <2>1 DEF OneCreator, PageHasOneOwner, WorkIsKnown, Creating, InAct, Busy, TypeOK, NoSession
  <2>5. PageHasOneOwner'
    BY <1>a, <1>b, <2>1 DEF PageHasOneOwner, OneCreator, ActsAreMarked, Creating, InAct, Busy, TypeOK
  <2> QED BY <2>2, <2>3, <2>4, <2>5
<1>16. ASSUME NEW t \in Threads, Save(t) PROVE Parts'
  <2>1. /\ pc[t] \in {"created", "acting", "save"} /\ UNCHANGED <<mem, handles, pages, stranded, held>>
        /\ sid[t] \in Sessions /\ stored'[sid[t]] # NoSession /\ ~held[t]
        /\ \A s \in Sessions \ {sid[t]} : stored'[s] = stored[s]
        /\ \A u \in Threads \ {t} : pc'[u] = pc[u] /\ sid'[u] = sid[u] /\ next'[u] = next[u]
        /\ \/ pc[t] = "created" /\ pc'[t] = "opening" /\ sid'[t] = sid[t]
           \/ pc[t] = "acting" /\ pc'[t] = "acted" /\ sid'[t] = sid[t]
           \/ pc[t] = "save" /\ pc'[t] = "idle"
    BY <1>16, <1>a, <1>b DEF Save, EndCall, After, TypeOK, WorkIsKnown, Busy, State, Live, NoSession
  <2>2. WorkIsKnown' /\ NextSound'
    BY <1>a, <1>b, <2>1 DEF WorkIsKnown, NextSound, Busy, Known, TypeOK, NoSession
  <2>3. PagesAreKnown' /\ ActsAreMarked'
    BY <1>a, <1>b, <2>1
    DEF WorkIsKnown, PagesAreKnown, OneCreator, ActsAreMarked, PageHasOneOwner, InAct, Creating, Busy,
        TypeOK, NoSession
  <2>4. OneCreator'
    BY <1>a, <1>b, <2>1 DEF OneCreator, PageHasOneOwner, WorkIsKnown, Creating, InAct, Busy, TypeOK, NoSession
  <2>5. PageHasOneOwner'
    BY <1>a, <1>b, <2>1 DEF PageHasOneOwner, OneCreator, ActsAreMarked, Creating, InAct, Busy, TypeOK
  <2> QED BY <2>2, <2>3, <2>4, <2>5
<1>17. CASE Restart
  <2>1. /\ \A t \in Threads : pc'[t] = "idle" /\ ~held'[t]
        /\ handles' = {} /\ pages' = {} /\ \A s \in Sessions : mem'[s] = NoSession
    BY <1>17 DEF Restart, Idle
  <2>2. Parts'
    BY <2>1 DEF WorkIsKnown, NextSound, PagesAreKnown, OneCreator, ActsAreMarked, PageHasOneOwner,
                Busy, Creating, InAct, NoSession
  <2> QED BY <2>2, <1>c
<1>18. ASSUME NEW t \in Threads, SaveFails(t) PROVE Parts'
  <2>1. /\ pc'[t] = "idle" /\ ~held[t] /\ UNCHANGED <<mem, handles, pages, stranded, stored, held>>
        /\ \A u \in Threads \ {t} : pc'[u] = pc[u] /\ sid'[u] = sid[u] /\ next'[u] = next[u]
    BY <1>18, <1>a DEF SaveFails, EndCall, TypeOK
  <2>2. WorkIsKnown' /\ NextSound'
    BY <1>b, <2>1 DEF WorkIsKnown, NextSound, Busy, Known
  <2>3. PagesAreKnown' /\ ActsAreMarked'
    BY <1>a, <1>b, <2>1 DEF PagesAreKnown, ActsAreMarked, InAct, TypeOK
  <2>4. OneCreator'
    BY <1>a, <1>b, <2>1 DEF OneCreator, Creating, InAct
  <2>5. PageHasOneOwner'
    BY <1>a, <1>b, <2>1 DEF PageHasOneOwner, InAct
  <2> QED BY <2>2, <2>3, <2>4, <2>5
<1>19. ASSUME NEW s \in Sessions, CloseElsewhere(s) PROVE Parts'
  <2>1. /\ stored'[s] # NoSession /\ \A r \in Sessions \ {s} : stored'[r] = stored[r]
        /\ UNCHANGED <<mem, handles, pages, stranded, pc, sid, next, held>>
    BY <1>19, <1>a DEF CloseElsewhere, TypeOK, NoSession
  <2>2. WorkIsKnown' /\ NextSound' /\ PagesAreKnown' /\ OneCreator' /\ ActsAreMarked'
    BY <1>b, <2>1
    DEF WorkIsKnown, NextSound, PagesAreKnown, OneCreator, ActsAreMarked, Busy, Creating, InAct, Known
  <2>3. PageHasOneOwner'
    BY <1>b, <2>1 DEF PageHasOneOwner, InAct
  <2> QED BY <2>2, <2>3
<1> QED
  BY <1>c, <1>1, <1>2, <1>3, <1>4, <1>5, <1>6, <1>7, <1>8, <1>9, <1>10, <1>11, <1>12, <1>13,
     <1>14, <1>15, <1>16, <1>17, <1>18, <1>19 DEF Next
-------------------------------------------------------------------------------
(* The rest: what calls know of their sessions, the rows and the limit.     *)

(* The number of live sessions is kept when one session changes, and, as    *)
(* long as nothing has raced, does not come to life.                        *)
LEMMA LimitKept ==
  ASSUME LimitInv, NEW s \in Sessions, \A r \in Sessions \ {s} : mem'[r] = mem[r],
         raced' = {} => raced = {} /\ (mem'[s] \in Live => mem[s] \in Live)
  PROVE  LimitInv'
<1>1. LiveSessions' \subseteq LiveSessions \cup {s}
  BY DEF LiveSessions
<1>2. IsFiniteSet(LiveSessions') /\ IsFiniteSet(LiveSessions)
  BY <1>1, FS_AddElement, FS_Subset DEF LimitInv
<1>3. ASSUME raced' = {} PROVE Cardinality(LiveSessions') <= MaxSessions
  <2>1. LiveSessions' \subseteq LiveSessions /\ raced = {}
    BY <1>1, <1>3 DEF LiveSessions
  <2>2. Cardinality(LiveSessions') <= Cardinality(LiveSessions)
    BY <1>2, <2>1, FS_Subset
  <2> QED BY <1>2, <2>1, <2>2, FS_CardinalityType, BrowserAssumption DEF LimitInv, LimitUnlessRaced
<1> QED BY <1>2, <1>3 DEF LimitInv, LimitUnlessRaced

(* What t knows of its session, as long as it is the only one on it. *)
Knows(t) ==
  /\ Creating(t) => mem[sid[t]] = "pending"
  /\ InAct(t) => mem[sid[t]] = "busy"
  /\ pc[t] \in {"dropping", "save"} => mem[sid[t]] = next[t]

(* A step of a call that goes on or ends, and touches its own session only. *)
Continues(t) ==
  /\ Busy(t) /\ (Busy(t)' => sid'[t] = sid[t]) /\ raced' = raced
  /\ astray \ {sid[t]} \subseteq astray'
  /\ \A u \in Threads \ {t} : pc'[u] = pc[u] /\ sid'[u] = sid[u] /\ next'[u] = next[u]
  /\ \A r \in Sessions \ {sid[t]} : mem'[r] = mem[r] /\ stored'[r] = stored[r]

LeavesWell(t) ==
  sid[t] \notin raced =>
    /\ Busy(t)' => Knows(t)'
    /\ ~Busy(t)' => sid[t] \in astray' \/ stored'[sid[t]] = mem'[sid[t]]
    /\ mem'[sid[t]] \in Live => mem[sid[t]] \in Live

(* A thread that leaves its session as it found it keeps what is known at rest. *)
LEMMA WorkStep ==
  ASSUME OwnInv, RestInv, NEW t \in Threads, Continues(t), LeavesWell(t)
  PROVE  RestInv'
<1> USE DEF Continues, LeavesWell
<1>1. sid[t] \in Sessions
  BY DEF OwnInv, WorkIsKnown
<1>2. OverlapsAreRaced'
  BY DEF RestInv, OverlapsAreRaced, Busy
<1>3. \A u \in Threads \ {t} : Busy(u) /\ sid[u] \notin raced => sid[u] \in Sessions \ {sid[t]}
  BY DEF OwnInv, WorkIsKnown, RestInv, OverlapsAreRaced
<1>4. AloneKnowsState'
  <2> SUFFICES ASSUME NEW u \in Threads, Busy(u)', sid'[u] \notin raced' PROVE Knows(u)'
    BY DEF AloneKnowsState, Knows
  <2>1. CASE u = t
    BY <2>1
  <2>2. CASE u # t
    BY <2>2, <1>3 DEF RestInv, AloneKnowsState, Knows, Busy, Creating, InAct
  <2> QED BY <2>1, <2>2
<1>5. RowsAgreeAtRest'
  <2> SUFFICES ASSUME NEW r \in Sessions, r \notin WorkedOn', r \notin raced', r \notin astray',
                      mem'[r] # NoSession
               PROVE  stored'[r] = mem'[r]
    BY DEF RowsAgreeAtRest
  <2>1. CASE r = sid[t]
    BY <2>1 DEF WorkedOn, Busy
  <2>2. CASE r # sid[t]
    <3>1. r \notin WorkedOn
      BY <2>2 DEF WorkedOn
    <3> QED BY <2>2, <3>1 DEF RestInv, RowsAgreeAtRest
  <2> QED BY <2>1, <2>2
<1>6. LimitInv'
  BY <1>1, LimitKept DEF RestInv
<1> QED BY <1>2, <1>4, <1>5, <1>6 DEF RestInv

(* A step that begins a call on s. *)
LEMMA BeginStep ==
  ASSUME OwnInv, RestInv, NEW t \in Threads, NEW s \in Sessions,
         pc[t] = "idle", Busy(t)', sid'[t] = s,
         raced' = raced \cup ({s} \cap WorkedOn),
         \A u \in Threads \ {t} : pc'[u] = pc[u] /\ sid'[u] = sid[u] /\ next'[u] = next[u],
         \A r \in Sessions \ {s} : mem'[r] = mem[r] /\ stored'[r] = stored[r], astray' = astray,
         Knows(t)', LimitInv'
  PROVE  RestInv'
<1>1. \A u \in Threads \ {t} : Busy(u) /\ sid[u] = s => s \in raced'
  BY DEF WorkedOn, Busy
<1>2. OverlapsAreRaced'
  BY <1>1 DEF RestInv, OverlapsAreRaced, Busy
<1>3. AloneKnowsState'
  <2> SUFFICES ASSUME NEW u \in Threads, Busy(u)', sid'[u] \notin raced' PROVE Knows(u)'
    BY DEF AloneKnowsState, Knows
  <2>1. CASE u = t
    BY <2>1
  <2>2. CASE u # t
    <3>1. Busy(u) /\ sid[u] \in Sessions \ {s} /\ sid[u] \notin raced
      BY <2>2, <1>1 DEF Busy, OwnInv, WorkIsKnown
    <3> QED BY <2>2, <3>1 DEF RestInv, AloneKnowsState, Knows, Busy, Creating, InAct
  <2> QED BY <2>1, <2>2
<1>4. RowsAgreeAtRest'
  <2> SUFFICES ASSUME NEW r \in Sessions, r \notin WorkedOn', r \notin raced', r \notin astray',
                      mem'[r] # NoSession
               PROVE  stored'[r] = mem'[r]
    BY DEF RowsAgreeAtRest
  <2>1. r # s
    BY DEF WorkedOn, Busy
  <2>2. r \notin WorkedOn
    BY DEF WorkedOn
  <2> QED BY <2>1, <2>2 DEF RestInv, RowsAgreeAtRest
<1> QED BY <1>2, <1>3, <1>4 DEF RestInv

(* Nothing is known to change when the calls, sessions and rows do not.     *)
LEMMA RestStutters == RestInv /\ UNCHANGED <<mem, stored, pc, sid, next, raced, astray>> => RestInv'
<1> SUFFICES ASSUME RestInv, UNCHANGED <<mem, stored, pc, sid, next, raced, astray>> PROVE RestInv'
  OBVIOUS
<1>1. LiveSessions' = LiveSessions /\ WorkedOn' = WorkedOn
  BY DEF LiveSessions, WorkedOn
<1>2. OverlapsAreRaced' /\ AloneKnowsState'
  BY DEF RestInv, OverlapsAreRaced, AloneKnowsState, Busy, Creating, InAct
<1>3. RowsAgreeAtRest' /\ LimitInv'
  BY <1>1 DEF RestInv, RowsAgreeAtRest, LimitInv, LimitUnlessRaced
<1> QED BY <1>2, <1>3 DEF RestInv

(* Every step keeps the rest. *)
LEMMA RestStep == IInv /\ [Next]_vars => RestInv'
<1> SUFFICES ASSUME IInv, [Next]_vars PROVE RestInv'
  OBVIOUS
<1> USE DEF Goto, calls, budgets, history
<1>a. OwnInv /\ RestInv /\ TypeOK
  BY DEF IInv, OwnInv
<1>b. \A t \in Threads : Busy(t) => sid[t] \in Sessions /\ (sid[t] \notin raced => Knows(t))
  BY <1>a DEF OwnInv, WorkIsKnown, RestInv, AloneKnowsState, Knows
<1>c. ASSUME NEW t \in Threads, NEW s \in Sessions, pc[t] = "idle", BeginClose(t, s) PROVE RestInv'
  <2>1. /\ Busy(t)' /\ Knows(t)' /\ sid'[t] = s /\ UNCHANGED <<mem, stored, astray>>
        /\ raced' = raced \cup ({s} \cap WorkedOn)
        /\ \A u \in Threads \ {t} : pc'[u] = pc[u] /\ sid'[u] = sid[u] /\ next'[u] = next[u]
    BY <1>a, <1>c DEF BeginClose, Use, TypeOK, Busy, Knows, Creating, InAct
  <2>2. LimitInv'
    BY <1>a, <2>1, LimitKept DEF RestInv
  <2> QED BY <1>a, <1>c, <2>1, <2>2, BeginStep
<1>1. CASE UNCHANGED vars
  BY <1>1, <1>a, RestStutters DEF vars
<1>2. ASSUME NEW t \in Threads, NEW s \in Sessions, Create(t, s) PROVE RestInv'
  <2>1. /\ pc[t] = "idle" /\ mem[s] = NoSession /\ stored[s] = NoSession
        /\ Busy(t)' /\ Knows(t)' /\ sid'[t] = s /\ UNCHANGED <<stored, raced, astray>>
        /\ mem'[s] = "pending" /\ \A r \in Sessions \ {s} : mem'[r] = mem[r]
        /\ \A u \in Threads \ {t} : pc'[u] = pc[u] /\ sid'[u] = sid[u] /\ next'[u] = next[u]
    BY <1>2, <1>a DEF Create, Free, TypeOK, Busy, Knows, Creating, InAct
  <2>2. s \notin WorkedOn
    BY <1>a, <2>1 DEF OwnInv, WorkIsKnown, WorkedOn, Busy, Known
  <2>3. LiveSessions' = LiveSessions \cup {s}
    BY <2>1 DEF LiveSessions, Live
  <2>4. Cardinality(LiveSessions) < MaxSessions /\ IsFiniteSet(LiveSessions) /\ s \notin LiveSessions
    BY <1>2, <1>a, <2>1 DEF Create, RestInv, LimitInv, LiveSessions, Live, NoSession
  <2>5. IsFiniteSet(LiveSessions') /\ Cardinality(LiveSessions') = Cardinality(LiveSessions) + 1
    BY <2>3, <2>4, FS_AddElement
  <2>6. Cardinality(LiveSessions') <= MaxSessions
    BY <2>4, <2>5, FS_CardinalityType, BrowserAssumption
  <2>7. LimitInv'
    BY <2>5, <2>6 DEF LimitInv, LimitUnlessRaced
  <2> QED BY <1>a, <2>1, <2>2, <2>7, BeginStep
<1>3. ASSUME NEW t \in Threads, NEW s \in Sessions, Close(t, s) PROVE RestInv'
  BY <1>3, <1>c DEF Close, Free
<1>4. ASSUME NEW t \in Threads, NEW s \in Sessions, Act(t, s) PROVE RestInv'
  <2>1. /\ pc[t] = "idle" /\ mem[s] \in Live
        /\ Busy(t)' /\ Knows(t)' /\ sid'[t] = s /\ raced' = raced \cup ({s} \cap WorkedOn)
        /\ UNCHANGED <<stored, astray>> /\ \A r \in Sessions \ {s} : mem'[r] = mem[r]
        /\ \A u \in Threads \ {t} : pc'[u] = pc[u] /\ sid'[u] = sid[u] /\ next'[u] = next[u]
    BY <1>4, <1>a DEF Act, Free, Use, TypeOK, Busy, Knows, Creating, InAct, Live
  <2>2. LimitInv'
    BY <1>a, <2>1, LimitKept DEF RestInv
  <2> QED BY <1>a, <2>1, <2>2, BeginStep
<1>5. ASSUME NEW t \in Threads, NewPage(t) PROVE RestInv'
  <2>1. Busy(t) /\ sid[t] \in Sessions /\ (sid[t] \notin raced => Knows(t))
    BY <1>5, <1>b DEF NewPage, Busy
  <2>2. Continues(t)
    BY <1>5, <1>a, <2>1 DEF NewPage, Continues, Busy, TypeOK
  <2>3. LeavesWell(t)
    BY <1>5, <1>a, <2>1 DEF NewPage, LeavesWell, Knows, Busy, Creating, InAct, TypeOK, Live
  <2> QED BY <1>a, <2>1, <2>2, <2>3, WorkStep
<1>6. ASSUME NEW t \in Threads, NewPageFails(t) PROVE RestInv'
  <2>1. Busy(t) /\ sid[t] \in Sessions /\ (sid[t] \notin raced => Knows(t))
    BY <1>6, <1>b DEF NewPageFails, Busy
  <2>2. Continues(t)
    BY <1>6, <1>a, <2>1 DEF NewPageFails, Continues, Busy, TypeOK
  <2>3. LeavesWell(t)
    BY <1>6, <1>a, <2>1 DEF NewPageFails, LeavesWell, Knows, Busy, Creating, InAct, TypeOK, Live
  <2> QED BY <1>a, <2>1, <2>2, <2>3, WorkStep
<1>7. ASSUME NEW t \in Threads, Opened(t) PROVE RestInv'
  <2>1. Busy(t) /\ sid[t] \in Sessions /\ (sid[t] \notin raced => Knows(t))
    BY <1>7, <1>b DEF Opened, Busy
  <2>2. Continues(t)
    BY <1>7, <1>a, <2>1 DEF Opened, Continues, Busy, TypeOK
  <2>3. LeavesWell(t)
    BY <1>7, <1>a, <2>1 DEF Opened, LeavesWell, Knows, Busy, Creating, InAct, TypeOK, Live
  <2> QED BY <1>a, <2>1, <2>2, <2>3, WorkStep
<1>8. ASSUME NEW t \in Threads, Broken(t) PROVE RestInv'
  <2>1. Busy(t) /\ sid[t] \in Sessions /\ (sid[t] \notin raced => Knows(t))
    BY <1>8, <1>b DEF Broken, Busy
  <2>2. Continues(t)
    BY <1>8, <1>a, <2>1 DEF Broken, Continues, Busy, TypeOK
  <2>3. LeavesWell(t)
    BY <1>8, <1>a, <2>1 DEF Broken, LeavesWell, Knows, Busy, Creating, InAct, TypeOK, Live
  <2> QED BY <1>a, <2>1, <2>2, <2>3, WorkStep
<1>9. ASSUME NEW t \in Threads, ClosePage(t) PROVE RestInv'
  <2>1. Busy(t) /\ sid[t] \in Sessions /\ (sid[t] \notin raced => Knows(t))
    BY <1>9, <1>b DEF ClosePage, Busy
  <2>2. Continues(t)
    BY <1>9, <1>a, <2>1 DEF ClosePage, Continues, Busy, TypeOK
  <2>3. LeavesWell(t)
    <3>1. CASE pc[t] = "closing"
      BY <1>9, <1>a, <2>1, <3>1 DEF ClosePage, LeavesWell, Knows, Busy, Creating, InAct, TypeOK
    <3>2. CASE pc[t] = "dropping"
      BY <1>9, <1>a, <2>1, <3>2 DEF ClosePage, LeavesWell, Knows, Busy, Creating, InAct, TypeOK
    <3> QED BY <1>9, <3>1, <3>2 DEF ClosePage
  <2> QED BY <1>a, <2>1, <2>2, <2>3, WorkStep
<1>10. ASSUME NEW t \in Threads, Closed(t) PROVE RestInv'
  <2>1. Busy(t) /\ sid[t] \in Sessions /\ (sid[t] \notin raced => Knows(t))
    BY <1>10, <1>b DEF Closed, Busy
  <2>2. Continues(t)
    BY <1>10, <1>a, <2>1 DEF Closed, Continues, Busy, TypeOK
  <2>3. LeavesWell(t)
    BY <1>10, <1>a, <2>1 DEF Closed, OwnInv, NextSound, LeavesWell, Knows, Busy, Creating, InAct, TypeOK, Live
  <2> QED BY <1>a, <2>1, <2>2, <2>3, WorkStep
<1>11. ASSUME NEW t \in Threads, Acted(t) PROVE RestInv'
  <2>1. Busy(t) /\ sid[t] \in Sessions /\ (sid[t] \notin raced => Knows(t))
    BY <1>11, <1>b DEF Acted, Busy
  <2>2. Continues(t)
    BY <1>11, <1>a, <2>1 DEF Acted, Continues, Busy, TypeOK
  <2>3. LeavesWell(t)
    BY <1>11, <1>a, <2>1 DEF Acted, LeavesWell, Knows, Busy, Creating, InAct, TypeOK, Live
  <2> QED BY <1>a, <2>1, <2>2, <2>3, WorkStep
<1>12. ASSUME NEW t \in Threads, Finish(t) PROVE RestInv'
  <2>1. Busy(t) /\ sid[t] \in Sessions /\ (sid[t] \notin raced => Knows(t))
    BY <1>12, <1>b DEF Finish, Busy
  <2>2. Continues(t)
    BY <1>12, <1>a, <2>1 DEF Finish, Continues, Busy, TypeOK
  <2>3. LeavesWell(t)
    BY <1>12, <1>a, <2>1 DEF Finish, LeavesWell, Knows, Busy, Creating, InAct, TypeOK, Live
  <2> QED BY <1>a, <2>1, <2>2, <2>3, WorkStep
<1>13. ASSUME NEW t \in Threads, Save(t) PROVE RestInv'
  <2>1. Busy(t) /\ sid[t] \in Sessions /\ (sid[t] \notin raced => Knows(t))
    BY <1>13, <1>b DEF Save, EndCall, After, Busy
  <2>2. Continues(t)
    BY <1>13, <1>a, <2>1 DEF Save, EndCall, After, Continues, Busy, TypeOK
  <2>3. LeavesWell(t)
    <3>1. CASE pc[t] \in {"created", "acting"}
      BY <1>13, <1>a, <2>1, <3>1 DEF Save, EndCall, After, LeavesWell, Knows, Busy, Creating, InAct, TypeOK
    <3>2. CASE pc[t] = "save"
      BY <1>13, <1>a, <2>1, <3>2 DEF Save, EndCall, After, LeavesWell, Knows, Busy, Creating, InAct, TypeOK
    <3> QED BY <1>13, <3>1, <3>2 DEF Save
  <2> QED BY <1>a, <2>1, <2>2, <2>3, WorkStep
<1>14. ASSUME NEW t \in Threads, ReapExpired(t) \/ CloseAll(t) \/ EndBatch(t) PROVE RestInv'
  BY <1>14, <1>a, RestStutters DEF ReapExpired, CloseAll, EndBatch
<1>15. ASSUME NEW t \in Threads, CloseNext(t) PROVE RestInv'
  BY <1>15, <1>a, <1>c DEF CloseNext, TypeOK
<1>16. CASE Restart
  <2>1. /\ \A t \in Threads : pc'[t] = "idle"
        /\ \A s \in Sessions : mem'[s] = NoSession
    BY <1>16 DEF Restart, Idle
  <2>2. LiveSessions' = {}
    BY <2>1 DEF LiveSessions, Live, NoSession
  <2>3. LimitInv'
    BY <2>2, FS_EmptySet, BrowserAssumption DEF LimitInv, LimitUnlessRaced
  <2> QED
    BY <2>1, <2>3 DEF RestInv, OverlapsAreRaced, AloneKnowsState, RowsAgreeAtRest, Busy
<1>17. ASSUME NEW t \in Threads, SaveFails(t) PROVE RestInv'
  <2>1. Busy(t) /\ sid[t] \in Sessions
    BY <1>17, <1>b DEF SaveFails, Busy
  <2>2. Continues(t)
    BY <1>17, <1>a, <2>1 DEF SaveFails, EndCall, Continues, Busy, TypeOK
  <2>3. LeavesWell(t)
    BY <1>17, <1>a, <2>1 DEF SaveFails, EndCall, LeavesWell, Busy, TypeOK
  <2> QED BY <1>a, <2>1, <2>2, <2>3, WorkStep
<1>18. ASSUME NEW s \in Sessions, CloseElsewhere(s) PROVE RestInv'
  <2>1. /\ astray' = astray \cup {s} /\ \A r \in Sessions \ {s} : stored'[r] = stored[r]
        /\ UNCHANGED <<mem, pc, sid, next, raced>>
    BY <1>18, <1>a DEF CloseElsewhere, TypeOK
  <2>2. LiveSessions' = LiveSessions /\ WorkedOn' = WorkedOn
    BY <2>1 DEF LiveSessions, WorkedOn
  <2>3. OverlapsAreRaced' /\ AloneKnowsState'
    BY <1>a, <2>1 DEF RestInv, OverlapsAreRaced, AloneKnowsState, Busy, Creating, InAct
  <2>4. RowsAgreeAtRest' /\ LimitInv'
    BY <1>a, <2>1, <2>2 DEF RestInv, RowsAgreeAtRest, LimitInv, LimitUnlessRaced
  <2> QED BY <2>3, <2>4 DEF RestInv
<1> QED
  BY <1>1, <1>2, <1>3, <1>4, <1>5, <1>6, <1>7, <1>8, <1>9, <1>10, <1>11, <1>12, <1>13, <1>14, <1>15, <1>16,
     <1>17, <1>18 DEF Next

-------------------------------------------------------------------------------
(* The invariant is one of the specification. *)
LEMMA Invariance == Spec => []IInv
<1>1. IInv /\ [Next]_vars => IInv'
  BY OwnStep, RestStep DEF IInv
<1> QED BY <1>1, InitInv, PTL DEF Spec

(* Sessions, rows and calls stay what they are declared to be; a page is    *)
(* carried only between opening or taking it and registering or closing it. *)
THEOREM TypeCorrect == Spec => []TypeOK
<1>1. IInv => TypeOK
  BY DEF IInv, OwnInv
<1> QED BY <1>1, Invariance, PTL

(* Every open page is registered or carried by one thread unless a failing  *)
(* close or opening left it behind, no two threads act on one page, and no  *)
(* failed session keeps its page, however create, act, close, the janitor,  *)
(* failures of the provider and restarts interleave.                        *)
THEOREM PagesHaveOneOwner == Spec => []PageHasOneOwner
<1>1. IInv => PageHasOneOwner
  BY DEF IInv, OwnInv
<1> QED BY <1>1, Invariance, PTL

(* As long as no two calls on one session have overlapped, at most          *)
(* policy.max_sessions sessions are live, however many threads create them. *)
THEOREM LimitHoldsUnlessRaced == Spec => []LimitUnlessRaced
<1>1. IInv => LimitUnlessRaced
  BY DEF IInv, RestInv, LimitInv
<1> QED BY <1>1, Invariance, PTL

(* A session at rest has the row of its state, unless calls on it have      *)
(* overlapped, its last write failed or another process wrote its row.      *)
THEOREM RowsAgree == Spec => []RowsAgreeAtRest
<1>1. IInv => RowsAgreeAtRest
  BY DEF IInv, RestInv
<1> QED BY <1>1, Invariance, PTL
===============================================================================
