---------------------------- MODULE CatalogPage -----------------------------
(***************************************************************************)
(* The catalogue view and the detail panel of the dashboard page           *)
(* (web/dashboard.py).  Every function runs to its next await; answers     *)
(* come in any order, and a catalogue answer that is not of the newest     *)
(* load is dropped.                                                        *)
(***************************************************************************)
EXTENDS LiveSocket

CONSTANTS Queries, Servers, None

Loads == [query : Queries, read : Nat \cup {None}]

ASSUME PageAssumption == None \notin Nat \cup Loads

VARIABLES
    inCatalog,  \* whether the catalogue view is the current one
    typed,      \* the text in the search field
    debounce,   \* its timer
    load,       \* the newest catalogue load: None or [query, read], read None before the server's
    stale,      \* the load it superseded, if it is still under way
    shown,      \* the rendered catalogue: None or [query, read]
    failed,     \* whether the last load failed
    missed,     \* whether a change was not announced, or the announcement lost or the reload it led to,
                \* and nothing was loaded since
    refresh,    \* the timer of scheduleCatalogReload
    routes,     \* reloads of the route list under way, each going on to the catalogue
    post,       \* a toggle of a card: none, sent or done
    panel,      \* the server in the detail panel, or None when it is closed
    asked       \* detail requests: sets of [server, kind], kind open (newest), refresh (newest) or row

catalog == <<inCatalog, typed, debounce, load, stale, shown, failed, missed, refresh, routes, post>>
detail == <<panel, asked>>

CatalogInit ==
    /\ inCatalog \in BOOLEAN
    /\ typed \in Queries
    /\ debounce = FALSE
    /\ load = None /\ stale = None
    /\ shown = None
    /\ failed = TRUE
    /\ missed = FALSE
    /\ refresh = FALSE /\ routes = 0
    /\ post = "none"
    /\ panel = None /\ asked = {}

(* loadCatalogView up to its await; the load it supersedes stays under way. *)
StartLoad ==
    /\ load' = [query |-> typed, read |-> None]
    /\ stale' = IF load # None THEN load ELSE stale
    /\ missed' = FALSE

NoLoad == UNCHANGED <<load, stale, missed>>

LoadIf(wanted) == IF wanted THEN StartLoad ELSE NoLoad

(* A change of the server is announced, to the page if it listens. *)
Change ==
    /\ Publish
    /\ missed' = (missed \/ ~Connected)
    /\ UNCHANGED <<wires, breaks, logins, inCatalog, typed, debounce, load, stale, shown, failed, refresh,
                   routes, post, detail>>

(* A connection is made by the callback of a provider, or removed: nothing is announced. *)
ChangeUnannounced ==
    /\ Save
    /\ missed' = TRUE
    /\ UNCHANGED <<news, wires, breaks, logins, inCatalog, typed, debounce, load, stale, shown, failed, refresh,
                   routes, post, detail>>

(* A broken socket takes the announcement with it. *)
CatalogSocketStep ==
    /\ SocketStep
    /\ missed' = (missed \/ (news /\ ~news'))
    /\ UNCHANGED <<inCatalog, typed, debounce, load, stale, shown, failed, refresh, routes, post, detail>>

(* A key in the search field: the load under way is for the text before. *)
Type(q) ==
    /\ inCatalog /\ typed # q
    /\ typed' = q
    /\ debounce' = TRUE
    /\ load' = None /\ stale' = IF load # None THEN load ELSE stale
    /\ UNCHANGED <<socket, inCatalog, shown, failed, missed, refresh, routes, post, detail>>

DebounceEnds ==
    /\ debounce
    /\ debounce' = FALSE
    /\ LoadIf(inCatalog)
    /\ UNCHANGED <<socket, inCatalog, typed, shown, failed, refresh, routes, post, detail>>

SwitchViewCached(catalogue) ==
    /\ inCatalog' = catalogue
    /\ LoadIf(catalogue /\ shown = None)
    /\ UNCHANGED <<socket, typed, debounce, shown, failed, refresh, routes, post, detail>>

(* switchView and onPopState: the catalogue is loaded when it is entered. *)
SwitchView(catalogue) ==
    /\ inCatalog' = catalogue
    /\ LoadIf(catalogue)
    /\ UNCHANGED <<socket, typed, debounce, shown, failed, refresh, routes, post, detail>>

(* GET /api/catalog *)
ReadNewest ==
    /\ load # None /\ load.read = None
    /\ load' = [load EXCEPT !.read = version]
    /\ UNCHANGED <<socket, inCatalog, typed, debounce, stale, shown, failed, missed, refresh, routes, post, detail>>

ReadStale ==
    /\ stale # None /\ stale.read = None
    /\ stale' = [stale EXCEPT !.read = version]
    /\ UNCHANGED <<socket, inCatalog, typed, debounce, load, shown, failed, missed, refresh, routes, post, detail>>

(* loadCatalogView after its await; an error leaves the cards as they are. *)
Render ==
    /\ load # None
    /\ \/ load.read # None /\ shown' = load /\ failed' = FALSE
       \/ UNCHANGED shown /\ failed' = TRUE
    /\ load' = None
    /\ UNCHANGED <<socket, inCatalog, typed, debounce, stale, missed, refresh, routes, post, detail>>

RenderStale ==
    /\ stale # None /\ stale.read # None
    /\ stale' = None
    /\ shown' = stale
    /\ UNCHANGED <<socket, inCatalog, typed, debounce, load, failed, missed, refresh, routes, post, detail>>

(* "superseded by a newer search/filter load; ignore stale response" *)
Ignore ==
    /\ stale # None
    /\ stale' = None
    /\ UNCHANGED <<socket, inCatalog, typed, debounce, load, shown, failed, missed, refresh, routes, post, detail>>

(* openServerDetail: the answers to the requests before are ignored. *)
Newest(d) == {old \in asked : old.kind = "row"} \cup {d}

(* handleWSMessage: the lists are reloaded soon, the panel of the server at once. *)
Deliver ==
    /\ news
    /\ news' = FALSE
    /\ refresh' = TRUE
    /\ \E about \in Servers : asked' = IF panel = about THEN Newest([server |-> about, kind |-> "refresh"]) ELSE asked
    /\ UNCHANGED <<version, wires, breaks, logins, inCatalog, typed, debounce, load, stale, shown,
                   failed, missed, routes, post, panel>>

(* scheduleCatalogReload: the route list first. *)
RefreshEnds ==
    /\ refresh /\ routes < 2
    /\ refresh' = FALSE
    /\ routes' = routes + 1
    /\ UNCHANGED <<socket, inCatalog, typed, debounce, load, stale, shown, failed, missed, post, detail>>

RoutesLoaded ==
    /\ routes > 0
    /\ routes' = routes - 1
    /\ \/ LoadIf(inCatalog)
       \/ UNCHANGED <<load, stale>> /\ missed' = TRUE
    /\ UNCHANGED <<socket, inCatalog, typed, debounce, shown, failed, refresh, post, detail>>

(* toggleServerCard: the request, the server's change, the answer. *)
Toggle ==
    /\ inCatalog /\ post = "none"
    /\ post' = "sent"
    /\ UNCHANGED <<socket, inCatalog, typed, debounce, load, stale, shown, failed, missed, refresh, routes, detail>>

ToggleServed ==
    /\ post = "sent"
    /\ post' = "done"
    /\ Publish
    /\ missed' = (missed \/ ~Connected)
    /\ UNCHANGED <<wires, breaks, logins, inCatalog, typed, debounce, load, stale, shown, failed, refresh,
                   routes, detail>>

Toggled ==
    /\ post # "none"
    /\ post' = "none"
    /\ LoadIf(post = "done" /\ inCatalog)
    /\ UNCHANGED <<socket, inCatalog, typed, debounce, shown, failed, refresh, routes, detail>>

-----------------------------------------------------------------------------
(* openServerDetail of a card. *)
AskDetail(s) ==
    /\ asked' = Newest([server |-> s, kind |-> "open"])
    /\ UNCHANGED <<socket, catalog, panel>>

(* At most one such request at a time: onServerMapClick, openSelectedRoute and the end of detailToggle: no generation is looked at. *)
AskRow(s) ==
    /\ \A d \in asked : d.kind # "row"
    /\ asked' = asked \cup {[server |-> s, kind |-> "row"]}
    /\ UNCHANGED <<socket, catalog, panel>>

ClosePanel ==
    /\ panel # None
    /\ panel' = None
    /\ UNCHANGED <<socket, catalog, asked>>

(* openDetail of the answer; a refresh only while the panel shows the server. *)
DetailAnswered(d) ==
    /\ d \in asked
    /\ asked' = asked \ {d}
    /\ panel' = IF d.kind = "refresh" /\ panel # d.server THEN panel ELSE d.server
    /\ UNCHANGED <<socket, catalog>>

(* A row is shown as the list has it then. *)
DetailFailed(d) ==
    /\ d \in asked
    /\ asked' = asked \ {d}
    /\ panel' \in {panel} \cup {s \in {d.server} : d.kind = "row"}
    /\ UNCHANGED <<socket, catalog>>

PanelStep ==
    \/ \E s \in Servers : AskDetail(s) \/ AskRow(s)
    \/ ClosePanel
    \/ \E d \in asked : DetailAnswered(d) \/ DetailFailed(d)

CatalogStep ==
    \/ Change \/ ChangeUnannounced \/ CatalogSocketStep
    \/ \E q \in Queries : Type(q)
    \/ DebounceEnds
    \/ \E catalogue \in BOOLEAN : SwitchView(catalogue)
    \/ ReadNewest \/ ReadStale \/ Render \/ Ignore
    \/ Deliver \/ RefreshEnds \/ RoutesLoaded
    \/ Toggle \/ ToggleServed \/ Toggled
-----------------------------------------------------------------------------
(* Whatever was typed, switched and announced while answers came in any order: once nothing is    *)
(* under way, the catalogue on the screen is for the typed text and the state of the server,      *)
(* unless the last load failed, or the server has changed since without the page hearing of it:   *)
(* connections come and go unannounced, and announcements are lost with the socket.               *)
AtRest ==
    load = None /\ ~debounce /\ ~refresh /\ routes = 0 /\ post = "none" /\ ~news

CatalogSettles ==
    inCatalog /\ AtRest /\ ~failed /\ ~missed => shown = [query |-> typed, read |-> version]

(* The catalogue never goes back to an answer the server gave before the one it shows; and the    *)
(* answer to a refresh that an announcement started never opens the panel, nor moves it to       *)
(* another server: the operator closed it, or has asked for another one, in the meantime.        *)
LateAnswersChangeNothing ==
    [][/\ shown # None /\ shown' # shown => shown'.read >= shown.read
       /\ (\E d \in asked : d.kind = "refresh" /\ asked' = asked \ {d})
             => panel' = panel]_<<socket, catalog, detail>>
=============================================================================
