----------------------------- MODULE LiveSocket -----------------------------
(***************************************************************************)
(* The event socket between the server and the dashboard page: the hub of  *)
(* websocket.py, which sends an event to every socket that is connected,   *)
(* and the page's client (web/dashboard.py), which asks for a ticket,      *)
(* connects, and connects again with a growing delay when the socket       *)
(* breaks.  Ticket requests overlap: each carries a generation.            *)
(***************************************************************************)
EXTENDS Naturals, FiniteSets

CONSTANTS MaxChanges,   \* changes of the server's state in a behaviour
          MaxBreaks,    \* sockets that break
          MaxLogins     \* logins while the page is open

Sockets == {1, 2}

VARIABLES
    version,    \* what the server would answer: the number of changes so far
    news,       \* whether an event is under way on the open socket
    sockets,    \* sockets with the page's handlers: none, connecting or open
    ws,         \* the page's socket, 0 for null
    timer,      \* the reconnect timer
    ticket,     \* whether the ticket of the newest generation is awaited
    older,      \* whether a ticket of an older generation is awaited
    cleanly,    \* whether the last close was a clean one
    breaks, logins

socket == <<version, news, sockets, ws, timer, ticket, older, cleanly, breaks, logins>>

wires == <<sockets, ws, timer, ticket, older, cleanly>>

(* initWebSocket up to its await: the reconnect timer and the old socket go. *)
Connect ==
    /\ timer' = FALSE
    /\ sockets' = [s \in Sockets |-> IF s = ws THEN "none" ELSE sockets[s]]
    /\ ws' = 0
    /\ ticket' = TRUE
    /\ older' = (older \/ ticket)
    /\ cleanly' = FALSE
    /\ news' = (news /\ ws = 0)

SocketInit ==
    /\ version = 0 /\ news = FALSE
    /\ sockets = [s \in Sockets |-> "none"] /\ ws = 0
    /\ timer = FALSE /\ ticket = TRUE /\ older = FALSE
    /\ cleanly = FALSE
    /\ breaks = 0 /\ logins = 0

Connected == \E s \in Sockets : sockets[s] = "open"

(* The state of the server changes. *)
Save == version < MaxChanges /\ version' = version + 1

(* A server is enabled, disabled or given credentials, or a browser session changes; *)
(* _ws_broadcast after the change has been saved.                                     *)
Publish ==
    /\ Save
    /\ news' = (news \/ Connected)

-----------------------------------------------------------------------------
(* The newest ticket is there, or was refused: the page connects without one then. *)
Open ==
    /\ ticket
    /\ ticket' = FALSE
    /\ \E s \in Sockets : /\ sockets[s] = "none"
                          /\ sockets' = [sockets EXCEPT ![s] = "connecting"]
                          /\ ws' = s
    /\ UNCHANGED <<version, news, timer, older, cleanly, breaks, logins>>

(* The browser refuses to make the socket. *)
CannotOpen ==
    /\ ticket
    /\ ticket' = FALSE
    /\ timer' = TRUE
    /\ UNCHANGED <<version, news, sockets, ws, older, cleanly, breaks, logins>>

(* A ticket for an older generation is there: "superseded by another concurrent call". *)
Superseded ==
    /\ older
    /\ older' = FALSE
    /\ UNCHANGED <<version, news, sockets, ws, timer, ticket, cleanly, breaks, logins>>

(* do_GET: the hub knows the client, then says hello; the page subscribes to everything. *)
Opened(s) ==
    /\ sockets[s] = "connecting"
    /\ sockets' = [sockets EXCEPT ![s] = "open"]
    /\ UNCHANGED <<version, news, ws, timer, ticket, older, cleanly, breaks, logins>>

ClosedForGood(s) ==
    /\ sockets[s] # "none" /\ breaks < MaxBreaks
    /\ breaks' = breaks + 1
    /\ sockets' = [sockets EXCEPT ![s] = "none"]
    /\ ws' = 0
    /\ news' = FALSE
    /\ \E clean \in BOOLEAN : cleanly' = clean
    /\ UNCHANGED <<version, timer, ticket, older, logins>>

(* onclose: only a clean close is not followed by a reconnect; what was on its way is lost. *)
Closed(s) ==
    /\ sockets[s] # "none" /\ breaks < MaxBreaks
    /\ breaks' = breaks + 1
    /\ sockets' = [sockets EXCEPT ![s] = "none"]
    /\ ws' = 0
    /\ news' = FALSE
    /\ \E clean \in BOOLEAN : cleanly' = clean /\ timer' = (timer \/ ~clean)
    /\ UNCHANGED <<version, ticket, older, logins>>

Reconnect ==
    /\ timer
    /\ Connect
    /\ UNCHANGED <<version, breaks, logins>>

(* A key is entered while the page is running: it connects anew. *)
Login ==
    /\ logins < MaxLogins
    /\ logins' = logins + 1
    /\ Connect
    /\ UNCHANGED <<version, breaks>>

SocketStep ==
    \/ Open \/ CannotOpen \/ Superseded
    \/ \E s \in Sockets : Opened(s) \/ Closed(s)
    \/ Reconnect
    \/ Login
-----------------------------------------------------------------------------
=============================================================================
