---------------------------- MODULE BrowserPage -----------------------------
(***************************************************************************)
(* The browser workspace of the dashboard page (web/dashboard.py): the     *)
(* selected session, the timer that polls its picture, and the session     *)
(* list, which events, navigations, openings and closings all reload.      *)
(* Answers come in any order, and also after the view was left.            *)
(***************************************************************************)
EXTENDS Naturals, FiniteSets

CONSTANTS Sessions, Nobody, MaxLists

ASSUME BrowserAssumption == Nobody \notin Sessions

VARIABLES
    inBrowser,  \* whether the browser view is the current one
    pages,      \* the sessions the server has
    selected,   \* browserSelectedId, Nobody for null
    poll,       \* whether the interval timer runs: browserPollTimer
    lists,      \* loads of the view under way: those the server has not answered
    answers,    \* and the answers of the others, sets of sessions
    calls,      \* requests under way: [does, session], does open, close or act
    soon        \* the timer that reloads the list after an event

browser == <<inBrowser, pages, selected, poll, lists, answers, calls, soon>>

BrowserInit ==
    /\ inBrowser \in BOOLEAN
    /\ pages \in SUBSET Sessions
    /\ selected = Nobody /\ poll = FALSE
    /\ lists = (IF inBrowser THEN 1 ELSE 0) /\ answers = {}
    /\ calls = {} /\ soon = FALSE

(* selectBrowserSession: without a selection, or in another view, nothing is polled. *)
Select(id) ==
    /\ selected' = id
    /\ poll' = (id # Nobody /\ inBrowser)

SelectBrowserSession(id) ==
    /\ inBrowser /\ Select(id)
    /\ UNCHANGED <<inBrowser, pages, lists, answers, calls, soon>>

Busy == lists + Cardinality(answers) >= MaxLists

ShowBrowser ==
    /\ ~inBrowser /\ ~Busy
    /\ inBrowser' = TRUE
    /\ lists' = lists + 1
    /\ UNCHANGED <<pages, selected, poll, answers, calls, soon>>

(* switchView stops the timer, the Back button does not. *)
LeaveBrowser ==
    /\ inBrowser
    /\ inBrowser' = FALSE
    /\ poll' \in {poll, FALSE}
    /\ UNCHANGED <<pages, selected, lists, answers, calls, soon>>

(* GET /api/browser/sessions; a request that fails reads as an empty list. *)
ListServed ==
    /\ lists > 0
    /\ lists' = lists - 1
    /\ \E read \in {pages, {}} : answers' = answers \cup {read}
    /\ UNCHANGED <<inBrowser, pages, selected, poll, calls, soon>>

(* loadBrowserView: a selection that is not listed gives way to the first of the list. *)
ListShown(list) ==
    /\ list \in answers
    /\ answers' = answers \ {list}
    /\ Select(IF selected \in list \/ list = {} THEN (IF list = {} THEN Nobody ELSE selected)
              ELSE CHOOSE id \in list : TRUE)
    /\ UNCHANGED <<inBrowser, pages, lists, calls, soon>>

(* createBrowserSession, closeBrowserSession, browserNavigate and browserReload. *)
Request(does) ==
    /\ inBrowser /\ (does = "open" \/ selected # Nobody)
    /\ \A c \in calls : c.does # does
    /\ calls' = calls \cup {[does |-> does, session |-> IF does = "open" THEN Nobody ELSE selected]}
    /\ UNCHANGED <<inBrowser, pages, selected, poll, lists, answers, soon>>

SessionOpened(c, id) ==
    /\ c \in calls /\ c.does = "open" /\ id \notin pages /\ ~Busy
    /\ calls' = calls \ {c}
    /\ pages' = pages \cup {id}
    /\ selected' = id
    /\ lists' = lists + 1
    /\ UNCHANGED <<inBrowser, poll, answers, soon>>

SessionClosedPolling(c) ==
    /\ c \in calls /\ c.does = "close" /\ ~Busy
    /\ calls' = calls \ {c}
    /\ pages' = pages \ {c.session}
    /\ selected' = Nobody
    /\ lists' = lists + 1
    /\ UNCHANGED <<inBrowser, poll, answers, soon>>

SessionClosed(c) ==
    /\ c \in calls /\ c.does = "close" /\ ~Busy
    /\ calls' = calls \ {c}
    /\ pages' = pages \ {c.session}
    /\ selected' = Nobody /\ poll' = FALSE
    /\ lists' = lists + 1
    /\ UNCHANGED <<inBrowser, answers, soon>>

(* A navigation loads the list anew, a reload does not; a failure only leaves a line in the log. *)
Answered(c) ==
    /\ c \in calls /\ ~Busy
    /\ calls' = calls \ {c}
    /\ lists' \in {lists} \cup {lists + n : n \in {m \in {1} : c.does = "act"}}
    /\ UNCHANGED <<inBrowser, pages, selected, poll, answers, soon>>

(* onBrowserWsEvent: another client's session, or the idle sweep. *)
SessionEvent ==
    /\ \E id \in Sessions : pages' \in {pages \cup {id}, pages \ {id}}
    /\ soon' = (soon \/ inBrowser)
    /\ UNCHANGED <<inBrowser, selected, poll, lists, answers, calls>>

ReloadSoon ==
    /\ soon /\ ~Busy
    /\ soon' = FALSE
    /\ lists' = lists + 1
    /\ UNCHANGED <<inBrowser, pages, selected, poll, answers, calls>>

BrowserStep ==
    \/ \E id \in pages : SelectBrowserSession(id)
    \/ ShowBrowser \/ LeaveBrowser
    \/ ListServed
    \/ \E list \in SUBSET Sessions : ListShown(list)
    \/ \E does \in {"open", "close", "act"} : Request(does)
    \/ \E c \in calls : SessionClosed(c) \/ Answered(c) \/ \E id \in Sessions : SessionOpened(c, id)
    \/ SessionEvent \/ ReloadSoon
-----------------------------------------------------------------------------
(* The picture is polled for a session and for nothing else: never without a selection, and once *)
(* the lists and requests under way have been answered, always while one is selected in the view.  *)
PollFollowsSelection ==
    /\ poll => selected # Nobody
    /\ inBrowser /\ lists = 0 /\ answers = {} /\ selected # Nobody => poll
=============================================================================
