----------------------------- MODULE Dashboard ------------------------------
(***************************************************************************)
(* The dashboard page on its event socket.  The catalogue and the detail   *)
(* panel share the socket and its announcements and nothing else, the      *)
(* browser workspace only the page: a behaviour works in one of the three. *)
(***************************************************************************)
EXTENDS CatalogPage, BrowserPage

VARIABLE workspace

dashboard == <<socket, catalog, detail, browser, workspace>>

DashboardInit ==
    /\ workspace \in {"catalogue", "panel", "browser"}
    /\ SocketInit /\ CatalogInit /\ BrowserInit
    /\ workspace # "browser" => ~inBrowser /\ pages = {}
    /\ workspace # "catalogue" => ~inCatalog /\ typed = (CHOOSE q \in Queries : TRUE)

DashboardNext ==
    \/ workspace = "catalogue" /\ CatalogStep /\ UNCHANGED <<browser, workspace>>
    \/ workspace = "panel" /\ (PanelStep \/ Change \/ CatalogSocketStep \/ Deliver) /\ UNCHANGED <<browser, workspace>>
    \/ workspace = "browser" /\ BrowserStep /\ UNCHANGED <<socket, catalog, detail, workspace>>

(* Timers fire, a ticket request ends one way or the other, and so does a handshake; *)
(* a socket that can be asked for again and again is made.                            *)
Fairness ==
    /\ SF_socket(workspace # "browser" /\ Open)
    /\ WF_socket(workspace # "browser" /\ (Open \/ CannotOpen))
    /\ WF_socket(workspace # "browser" /\ Reconnect)
    /\ \A s \in Sockets : WF_socket(workspace # "browser" /\ Opened(s))

DashboardSpec == DashboardInit /\ [][DashboardNext]_dashboard /\ Fairness
-----------------------------------------------------------------------------
(* However logins, tickets that arrive late and broken sockets overlap, a page comes to listen   *)
(* again and goes on listening, unless the server has closed its socket cleanly.                  *)
LiveAgain == workspace # "browser" => <>[](Connected \/ cleanly)
=============================================================================
