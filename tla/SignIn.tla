------------------------------- MODULE SignIn -------------------------------
(***************************************************************************)
(* Signing in: logins at the OIDC provider and the browser sessions or     *)
(* authorization codes they end in (oidc.py, browser_auth.py), the consent *)
(* page without a provider, the codes and tokens of Kater's own OAuth      *)
(* server (oauth.py), the connections of catalog servers (mcp_oauth.py),   *)
(* and the handlers of api/routes.py that join them.  Requests run in      *)
(* threads; what the provider says is asked over the network, between      *)
(* steps, and the process may be restarted.                                *)
(***************************************************************************)
EXTENDS Naturals, FiniteSets

CONSTANTS
    Logins,         \* redirects to a provider, each with a state of its own
    Callbacks,      \* requests that come back with a state
    Consents,       \* consent pages shown
    Pages,          \* requests with a session cookie
    Exchanges,      \* requests of /token
    MaxPending, MaxSessions, MaxTokens, \* limits of the code
    MaxRestarts     \* bound on restarts

Grants == Callbacks \cup Consents
Kinds  == {"browser", "client", "connect"}

ASSUME SignInAssumption ==
    /\ Callbacks \cap Consents = {}
    /\ MaxPending \in Nat /\ MaxSessions \in Nat /\ MaxTokens \in Nat /\ MaxRestarts \in Nat

VARIABLES
    oidc,       \* whether a provider is configured
    login,      \* [st, kind, old]: the pending state of every login
    vouched,    \* whether the provider stands by the access token of a login
    callback,   \* [pc, login]
    session,    \* the browser session a callback made: none, live, expired or gone
    page,       \* [pc, session]
    nonce,      \* the nonce of a consent page: none, live, expired or gone
    code,       \* the code of every grant: none, fresh, old, used or gone
    token,      \* [st, code]: the token of every exchange
    restarts

vars == <<oidc, login, vouched, callback, session, page, nonce, code, token, restarts>>

NoLogin == [st |-> "none", kind |-> "browser", old |-> FALSE]

Init ==
    /\ oidc \in BOOLEAN
    /\ login = [l \in Logins |-> NoLogin]
    /\ vouched = [l \in Logins |-> TRUE]
    /\ \E l \in Logins : callback = [c \in Callbacks |-> [pc |-> "idle", login |-> l]]
    /\ session = [c \in Callbacks |-> "none"]
    /\ \E c \in Callbacks : page = [p \in Pages |-> [pc |-> "idle", session |-> c]]
    /\ nonce = [n \in Consents |-> "none"]
    /\ code = [g \in Grants |-> "none"]
    /\ \E g \in Grants : token = [x \in Exchanges |-> [st |-> "none", code |-> g]]
    /\ restarts = 0

-----------------------------------------------------------------------------
(* Logins. *)

Live(st) == st \in {"pending", "consumed"}

(* _purge_pending_locked, and _prune_locked for connections. *)
Purge(kinds) == [l \in Logins |-> IF login[l].old /\ login[l].kind \in kinds
                                  THEN [login[l] EXCEPT !.st = "gone"] ELSE login[l]]

Full(all) == Cardinality({l \in Logins : Live(all[l].st) /\ all[l].kind # "connect"}) >= MaxPending

(* /oidc/login and, for a client, /authorize: after the discovery the login becomes pending. *)
BeginLogin(l, kind) ==
    /\ oidc /\ login[l].st = "none" /\ kind \in {"browser", "client"}
    /\ LET all == Purge({"browser", "client"})
       IN  login' = [all EXCEPT ![l] = [st |-> IF Full(all) THEN "busy" ELSE "pending",
                                        kind |-> kind, old |-> FALSE]]
    /\ UNCHANGED <<oidc, vouched, callback, session, page, nonce, code, token, restarts>>

(* start_authorize: the state of a connection is kept in a file. *)
BeginConnect(l) ==
    /\ login[l].st = "none"
    /\ login' = [Purge({"connect"}) EXCEPT ![l] = [st |-> "pending", kind |-> "connect", old |-> FALSE]]
    /\ UNCHANGED <<oidc, vouched, callback, session, page, nonce, code, token, restarts>>

LoginAges(l) ==
    /\ Live(login[l].st) /\ ~login[l].old
    /\ login' = [login EXCEPT ![l].old = TRUE]
    /\ UNCHANGED <<oidc, vouched, callback, session, page, nonce, code, token, restarts>>

ProviderRevokes(l) ==
    /\ vouched[l] /\ login[l].st \in {"pending", "consumed", "gone"}
    /\ vouched' = [vouched EXCEPT ![l] = FALSE]
    /\ UNCHANGED <<oidc, login, callback, session, page, nonce, code, token, restarts>>

Turn(c, pc) == callback' = [callback EXCEPT ![c].pc = pc]

TakeStateTwice(c, l, bound) ==
    /\ callback[c].pc = "idle" /\ login[l].kind # "connect" /\ login[l].st # "none"
    /\ LET all == Purge({"browser", "client"})
           valid == Live(all[l].st) /\ bound
       IN  /\ login' = [all EXCEPT ![l].st = IF valid THEN "consumed" ELSE @]
           /\ callback' = [callback EXCEPT ![c] = [pc |-> IF valid THEN "exchange" ELSE "failed",
                                                   login |-> l]]
    /\ UNCHANGED <<oidc, vouched, session, page, nonce, code, token, restarts>>

(* complete_callback: the state must be pending, not consumed, and bound to this browser. *)
TakeState(c, l, bound) ==
    /\ callback[c].pc = "idle" /\ login[l].kind # "connect" /\ login[l].st # "none"
    /\ LET all == Purge({"browser", "client"})
           valid == all[l].st = "pending" /\ bound
       IN  /\ login' = [all EXCEPT ![l].st = IF valid THEN "consumed" ELSE @]
           /\ callback' = [callback EXCEPT ![c] = [pc |-> IF valid THEN "exchange" ELSE "failed",
                                                   login |-> l]]
    /\ UNCHANGED <<oidc, vouched, session, page, nonce, code, token, restarts>>

EndExchangeKeeping(c) ==
    /\ callback[c].pc = "exchange" /\ login[callback[c].login].kind # "connect"
    /\ \E ok \in BOOLEAN :
         /\ Turn(c, IF ok THEN "check" ELSE "failed")
         /\ login' = [login EXCEPT ![callback[c].login].st = IF ok THEN "gone" ELSE @]
    /\ UNCHANGED <<oidc, vouched, session, page, nonce, code, token, restarts>>

(* The code is exchanged and the id token verified, or not; the state goes either way. *)
EndExchange(c) ==
    /\ callback[c].pc = "exchange" /\ login[callback[c].login].kind # "connect"
    /\ \E ok \in BOOLEAN : Turn(c, IF ok THEN "check" ELSE "failed")
    /\ login' = [login EXCEPT ![callback[c].login].st = "gone"]
    /\ UNCHANGED <<oidc, vouched, session, page, nonce, code, token, restarts>>

(* The userinfo endpoint must vouch for the subject before anything is granted. *)
CheckUserinfo(c) ==
    /\ callback[c].pc = "check"
    /\ \E answered \in BOOLEAN :
         Turn(c, IF answered /\ vouched[callback[c].login] THEN "grant" ELSE "failed")
    /\ UNCHANGED <<oidc, login, vouched, session, page, nonce, code, token, restarts>>

(* The login of a client ends in a code for that client, *)
GrantCode(c) ==
    /\ callback[c].pc = "grant" /\ login[callback[c].login].kind = "client"
    /\ code' = [code EXCEPT ![c] = "fresh"]
    /\ Turn(c, "done")
    /\ UNCHANGED <<oidc, login, vouched, session, page, nonce, token, restarts>>

(* the login of a browser in a session; expired sessions make room first. *)
CreateSession(c) ==
    /\ callback[c].pc = "grant" /\ login[callback[c].login].kind = "browser"
    /\ LET kept == [d \in Callbacks |-> IF session[d] = "expired" THEN "gone" ELSE session[d]]
           room == Cardinality({d \in Callbacks : kept[d] = "live"}) < MaxSessions
       IN  /\ session' = [kept EXCEPT ![c] = IF room THEN "live" ELSE @]
           /\ Turn(c, IF room THEN "done" ELSE "failed")
    /\ UNCHANGED <<oidc, login, vouched, page, nonce, code, token, restarts>>

(* The callback of a connection looks the state up, *)
PeekPending(c, l) ==
    /\ callback[c].pc = "idle" /\ login[l].kind = "connect" /\ login[l].st # "none"
    /\ callback' = [callback EXCEPT ![c] =
                       [pc |-> IF login[l].st = "pending" /\ ~login[l].old THEN "peeked" ELSE "failed",
                        login |-> l]]
    /\ UNCHANGED <<oidc, login, vouched, session, page, nonce, code, token, restarts>>

(* abandons it when the policy or the origin forbids the connection, *)
AbandonPending(c) ==
    /\ callback[c].pc = "peeked"
    /\ login' = [Purge({"connect"}) EXCEPT ![callback[c].login].st = "gone"]
    /\ Turn(c, "failed")
    /\ UNCHANGED <<oidc, vouched, session, page, nonce, code, token, restarts>>

(* or takes it out and exchanges the code. *)
ConsumeCallback(c) ==
    /\ callback[c].pc = "peeked"
    /\ LET l == callback[c].login
           all == Purge({"connect"})
       IN  /\ Turn(c, IF all[l].st = "pending" THEN "exchange" ELSE "failed")
           /\ login' = [all EXCEPT ![l].st = "gone"]
    /\ UNCHANGED <<oidc, vouched, session, page, nonce, code, token, restarts>>

EndConnect(c) ==
    /\ callback[c].pc = "exchange" /\ login[callback[c].login].kind = "connect"
    /\ \E ok \in BOOLEAN : Turn(c, IF ok THEN "done" ELSE "failed")
    /\ UNCHANGED <<oidc, login, vouched, session, page, nonce, code, token, restarts>>

-----------------------------------------------------------------------------
(* Browser sessions. *)

Refuse(p) == page' = [page EXCEPT ![p].pc = "refused"]

(* authenticate_session: the session is looked up, *)
LookUpSession(p, s) ==
    /\ page[p].pc = "idle" /\ session[s] # "none"
    /\ page' = [page EXCEPT ![p] = [pc |-> IF session[s] = "live" THEN "check" ELSE "refused",
                                    session |-> s]]
    /\ session' = [session EXCEPT ![s] = IF @ = "live" THEN @ ELSE "gone"]
    /\ UNCHANGED <<oidc, login, vouched, callback, nonce, code, token, restarts>>

(* the provider asked, whose refusal ends the session and whose failure does not, *)
AskProvider(p) ==
    /\ page[p].pc = "check"
    /\ LET s == page[p].session
       IN  \/ /\ vouched[callback[s].login]
              /\ page' = [page EXCEPT ![p].pc = "recheck"]
              /\ UNCHANGED session
           \/ /\ ~vouched[callback[s].login]
              /\ session' = [session EXCEPT ![s] = "gone"]
              /\ Refuse(p)
           \/ Refuse(p) /\ UNCHANGED session
    /\ UNCHANGED <<oidc, login, vouched, callback, nonce, code, token, restarts>>

ServeUnchecked(p) ==
    /\ page[p].pc = "recheck"
    /\ page' = [page EXCEPT ![p].pc = "served"]
    /\ UNCHANGED <<oidc, login, vouched, callback, session, nonce, code, token, restarts>>

(* and the session looked up once more. *)
Serve(p) ==
    /\ page[p].pc = "recheck"
    /\ page' = [page EXCEPT ![p].pc =
                   IF session[page[p].session] \in {"live", "expired"} THEN "served" ELSE "refused"]
    /\ UNCHANGED <<oidc, login, vouched, callback, session, nonce, code, token, restarts>>

Logout(s) ==
    /\ session[s] \in {"live", "expired"}
    /\ session' = [session EXCEPT ![s] = "gone"]
    /\ UNCHANGED <<oidc, login, vouched, callback, page, nonce, code, token, restarts>>

SessionExpires(s) ==
    /\ session[s] = "live"
    /\ session' = [session EXCEPT ![s] = "expired"]
    /\ UNCHANGED <<oidc, login, vouched, callback, page, nonce, code, token, restarts>>

-----------------------------------------------------------------------------
(* Consent pages, codes and tokens. *)

NewConsentNonce(n) ==
    /\ ~oidc /\ nonce[n] = "none"
    /\ nonce' = [m \in Consents |-> IF m = n THEN "live" ELSE IF nonce[m] = "expired" THEN "gone"
                                    ELSE nonce[m]]
    /\ UNCHANGED <<oidc, login, vouched, callback, session, page, code, token, restarts>>

(* The nonce of the page is taken out whether it is still good or not; a good one buys a code *)
(* when the owner approves.                                                                    *)
ConsumeConsentNonce(n, approve) ==
    /\ nonce[n] \in {"live", "expired"}
    /\ nonce' = [nonce EXCEPT ![n] = "gone"]
    /\ code' = [code EXCEPT ![n] = IF approve /\ nonce[n] = "live" THEN "fresh" ELSE @]
    /\ UNCHANGED <<oidc, login, vouched, callback, session, page, token, restarts>>

NonceExpires(n) ==
    /\ nonce[n] = "live"
    /\ nonce' = [nonce EXCEPT ![n] = "expired"]
    /\ UNCHANGED <<oidc, login, vouched, callback, session, page, code, token, restarts>>

CodeAges(g) ==
    /\ code[g] = "fresh"
    /\ code' = [code EXCEPT ![g] = "old"]
    /\ UNCHANGED <<oidc, login, vouched, callback, session, page, nonce, token, restarts>>

CreateToken(x, g) ==
    token' = [token EXCEPT ![x] =
                 [st |-> IF Cardinality({y \in Exchanges : token[y].st \in {"live", "expired"}}) < MaxTokens
                         THEN "live" ELSE "refused",
                  code |-> g]]

(* The code is marked and saved before its token is made: at the limit of tokens it is spent *)
(* for nothing.                                                                               *)
ExchangeCode(x, g) ==
    /\ token[x].st = "none" /\ code[g] = "fresh"
    /\ code' = [code EXCEPT ![g] = "used"]
    /\ CreateToken(x, g)
    /\ UNCHANGED <<oidc, login, vouched, callback, session, page, nonce, restarts>>

RevokeToken(x) ==
    /\ token[x].st \in {"live", "expired"}
    /\ token' = [token EXCEPT ![x].st = "gone"]
    /\ UNCHANGED <<oidc, login, vouched, callback, session, page, nonce, code, restarts>>

TokenExpires(x) ==
    /\ token[x].st = "live"
    /\ token' = [token EXCEPT ![x].st = "expired"]
    /\ UNCHANGED <<oidc, login, vouched, callback, session, page, nonce, code, restarts>>

(* The sparse wake of the janitor: expired tokens go, and the codes of more than ten minutes. *)
CleanupExpired ==
    \E aged \in SUBSET {g \in Grants : code[g] \in {"old", "used"}} :
        /\ aged # {} \/ \E x \in Exchanges : token[x].st = "expired"
        /\ token' = [x \in Exchanges |->
                        [token[x] EXCEPT !.st = IF @ = "expired" THEN "gone" ELSE @]]
        /\ code' = [g \in Grants |-> IF g \in aged THEN "gone" ELSE code[g]]
        /\ UNCHANGED <<oidc, login, vouched, callback, session, page, nonce, restarts>>

(* A restart forgets logins, sessions and nonces; connections, codes and tokens are in files. *)
Restart ==
    /\ restarts < MaxRestarts
    /\ restarts' = restarts + 1
    /\ login' = [l \in Logins |-> IF Live(login[l].st) /\ login[l].kind # "connect"
                                  THEN [login[l] EXCEPT !.st = "gone"] ELSE login[l]]
    /\ session' = [c \in Callbacks |-> IF session[c] = "none" THEN "none" ELSE "gone"]
    /\ nonce' = [n \in Consents |-> IF nonce[n] = "none" THEN "none" ELSE "gone"]
    /\ callback' = [c \in Callbacks |-> [callback[c] EXCEPT !.pc =
                       IF @ \in {"idle", "done"} THEN @ ELSE "failed"]]
    /\ page' = [p \in Pages |-> [page[p] EXCEPT !.pc =
                       IF @ \in {"idle", "served"} THEN @ ELSE "refused"]]
    /\ UNCHANGED <<oidc, vouched, code, token>>

LoginStep(c) == EndExchange(c) \/ CheckUserinfo(c) \/ GrantCode(c) \/ CreateSession(c)
                \/ AbandonPending(c) \/ ConsumeCallback(c) \/ EndConnect(c)

Next ==
    \/ \E l \in Logins, kind \in Kinds : BeginLogin(l, kind)
    \/ \E l \in Logins : BeginConnect(l) \/ LoginAges(l) \/ ProviderRevokes(l)
    \/ \E c \in Callbacks, l \in Logins :
         (\E bound \in BOOLEAN : TakeState(c, l, bound)) \/ PeekPending(c, l)
    \/ \E c \in Callbacks : LoginStep(c)
    \/ \E p \in Pages, s \in Callbacks : LookUpSession(p, s)
    \/ \E p \in Pages : AskProvider(p) \/ Serve(p)
    \/ \E s \in Callbacks : Logout(s) \/ SessionExpires(s)
    \/ \E n \in Consents : NewConsentNonce(n) \/ NonceExpires(n)
    \/ \E n \in Consents, approve \in BOOLEAN : ConsumeConsentNonce(n, approve)
    \/ \E g \in Grants : CodeAges(g) \/ \E x \in Exchanges : ExchangeCode(x, g)
    \/ \E x \in Exchanges : RevokeToken(x) \/ TokenExpires(x)
    \/ CleanupExpired
    \/ Restart

Spec == Init /\ [][Next]_vars

-----------------------------------------------------------------------------
TypeOK ==
    /\ oidc \in BOOLEAN
    /\ login \in [Logins -> [st : {"none", "pending", "consumed", "busy", "gone"}, kind : Kinds,
                             old : BOOLEAN]]
    /\ vouched \in [Logins -> BOOLEAN]
    /\ callback \in [Callbacks -> [pc : {"idle", "exchange", "check", "grant", "peeked", "done",
                                         "failed"}, login : Logins]]
    /\ session \in [Callbacks -> {"none", "live", "expired", "gone"}]
    /\ page \in [Pages -> [pc : {"idle", "check", "recheck", "served", "refused"},
                           session : Callbacks]]
    /\ nonce \in [Consents -> {"none", "live", "expired", "gone"}]
    /\ code \in [Grants -> {"none", "fresh", "old", "used", "gone"}]
    /\ token \in [Exchanges -> [st : {"none", "live", "expired", "refused", "gone"}, code : Grants]]
    /\ restarts \in 0..MaxRestarts

(* One login ends in one session, one code or one connection, however often and however        *)
(* concurrently its callback comes in, restarts between its steps included; and one code buys   *)
(* one token at most, however the two are revoked, cleaned up and expired in between.           *)
OneGrantPerLogin ==
    /\ \A c, d \in Callbacks :
         callback[c].pc = "done" /\ callback[d].pc = "done" /\ callback[c].login = callback[d].login
             => c = d
    /\ \A x, y \in Exchanges :
         ( /\ {token[x].st, token[y].st} \subseteq {"live", "expired", "gone"}
           /\ token[x].code = token[y].code ) => x = y

(* A login whose state was taken is being completed by a callback: a failing exchange does not  *)
(* leave states behind that count against the limit and turn other logins away.                 *)
NoLoginIsStuck ==
    \A l \in Logins : login[l].st = "consumed" =>
        \E c \in Callbacks : callback[c].pc = "exchange" /\ callback[c].login = l

(* "Logout racing an in-flight upstream check must not restore authorization": no page is       *)
(* served for a session that a logout, a refusal of the provider or a restart has ended.        *)
LogoutIsFinal ==
    [][\A p \in Pages : page'[p].pc = "served" /\ page[p].pc # "served"
           => session[page[p].session] \in {"live", "expired"}]_vars
=============================================================================
