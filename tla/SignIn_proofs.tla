---------------------------- MODULE SignIn_proofs ----------------------------
(***************************************************************************)
(* Safety of SignIn for any number of logins, callbacks, consent pages,    *)
(* sessions and tokens, and any limits, and, in the second part, of        *)
(* Dashboard.                                                              *)
(*                                                                         *)
(* That a login ends in one grant rests on what the states of logins tell  *)
(* of the callbacks: whoever exchanges a code has taken the state out      *)
(* (TakenOnce), and no two have; that a code buys one token, on codes      *)
(* being made once and never becoming fresh again (CodesAreSpent).         *)
(***************************************************************************)
EXTENDS SignIn, Dashboard, TLAPS

(* Callbacks that have taken their login. *)
Attached(c) == callback[c].pc \in {"exchange", "check", "grant", "done"}

LoginsSound ==
    \A l \in Logins :
      /\ login[l].st = "none" => ~login[l].old
      /\ login[l].st = "consumed" => login[l].kind # "connect"

TakenOnce ==
    /\ \A c \in Callbacks : Attached(c) => login[callback[c].login].st \in {"consumed", "gone"}
    /\ \A c, d \in Callbacks :
         Attached(c) /\ Attached(d) /\ callback[c].login = callback[d].login => c = d

Bought(x) == token[x].st \in {"live", "expired", "gone"}

CodesAreSpent ==
    /\ \A c \in Callbacks : callback[c].pc # "done" => code[c] = "none"
    /\ \A n \in Consents : nonce[n] # "gone" => code[n] = "none"
    /\ \A x \in Exchanges : Bought(x) => code[token[x].code] \in {"used", "gone"}
    /\ \A x, y \in Exchanges : Bought(x) /\ Bought(y) /\ token[x].code = token[y].code => x = y

IInv == TypeOK /\ LoginsSound /\ TakenOnce /\ NoLoginIsStuck /\ CodesAreSpent

-----------------------------------------------------------------------------
(* Nothing is pending, taken or granted at the start. *)
LEMMA InitInv == Init => IInv
<1> SUFFICES ASSUME Init PROVE IInv
  OBVIOUS
<1> USE DEF Init, NoLogin
<1>1. TypeOK
  BY SignInAssumption DEF TypeOK, Kinds, Grants
<1>2. LoginsSound /\ TakenOnce /\ NoLoginIsStuck
  BY DEF LoginsSound, TakenOnce, NoLoginIsStuck, Attached
<1>3. CodesAreSpent
  BY DEF CodesAreSpent, Bought, Grants
<1> QED BY <1>1, <1>2, <1>3 DEF IInv

LoginStates == {"none", "pending", "consumed", "busy", "gone"}
CallbackStates == {"idle", "exchange", "check", "grant", "peeked", "done", "failed"}
PageStates == {"idle", "check", "recheck", "served", "refused"}

(* A purge ends old logins and leaves the others. *)
LEMMA PurgeSound ==
  ASSUME TypeOK, NEW kinds
  PROVE  /\ Purge(kinds) \in [Logins -> [st : LoginStates, kind : Kinds, old : BOOLEAN]]
         /\ \A l \in Logins :
              /\ Purge(kinds)[l].kind = login[l].kind /\ Purge(kinds)[l].old = login[l].old
              /\ Purge(kinds)[l].st = login[l].st \/ (Purge(kinds)[l].st = "gone" /\ login[l].old)
<1>1. ASSUME NEW l \in Logins
      PROVE  /\ Purge(kinds)[l] \in [st : LoginStates, kind : Kinds, old : BOOLEAN]
             /\ Purge(kinds)[l].kind = login[l].kind /\ Purge(kinds)[l].old = login[l].old
             /\ Purge(kinds)[l].st = login[l].st \/ (Purge(kinds)[l].st = "gone" /\ login[l].old)
  <2>1. login[l] \in [st : LoginStates, kind : Kinds, old : BOOLEAN]
    BY DEF TypeOK, LoginStates
  <2>2. CASE login[l].old /\ login[l].kind \in kinds
    <3>1. Purge(kinds)[l] = [login[l] EXCEPT !.st = "gone"]
      BY <2>2 DEF Purge
    <3> QED BY <2>1, <2>2, <3>1 DEF LoginStates
  <2>3. CASE ~(login[l].old /\ login[l].kind \in kinds)
    <3>1. Purge(kinds)[l] = login[l]
      BY <2>3 DEF Purge
    <3> QED BY <2>1, <3>1
  <2> QED BY <2>2, <2>3
<1>2. Purge(kinds) = [l \in Logins |-> Purge(kinds)[l]]
  BY DEF Purge
<1> QED BY <1>1, <1>2

-----------------------------------------------------------------------------
(* Every step keeps the type. *)
LEMMA TypeStep == TypeOK /\ [Next]_vars => TypeOK'
<1> SUFFICES ASSUME TypeOK, [Next]_vars PROVE TypeOK'
  OBVIOUS
<1> USE SignInAssumption DEF TypeOK, Turn
<1>a. \A kinds : Purge(kinds) \in [Logins -> [st : LoginStates, kind : Kinds, old : BOOLEAN]]
  BY PurgeSound
<1>b. ASSUME NEW c \in Callbacks, NEW place \in CallbackStates, Turn(c, place)
      PROVE  callback' \in [Callbacks -> [pc : CallbackStates, login : Logins]]
  <2>0. callback[c] \in [pc : CallbackStates, login : Logins]
    BY DEF CallbackStates
  <2>1. [callback[c] EXCEPT !.pc = place] \in [pc : CallbackStates, login : Logins]
    BY <2>0
  <2> QED BY <1>b, <2>1 DEF CallbackStates
<1>c. ASSUME NEW all \in [Logins -> [st : LoginStates, kind : Kinds, old : BOOLEAN]],
             NEW l \in Logins, NEW st \in LoginStates
      PROVE  [all EXCEPT ![l].st = st] \in [Logins -> [st : LoginStates, kind : Kinds, old : BOOLEAN]]
  <2>0. all[l] \in [st : LoginStates, kind : Kinds, old : BOOLEAN]
    OBVIOUS
  <2>1. [all[l] EXCEPT !.st = st] \in [st : LoginStates, kind : Kinds, old : BOOLEAN]
    BY <2>0
  <2> QED BY <2>1
<1>d. login \in [Logins -> [st : LoginStates, kind : Kinds, old : BOOLEAN]]
  BY DEF LoginStates
<1>e. ASSUME login' \in [Logins -> [st : LoginStates, kind : Kinds, old : BOOLEAN]],
             callback' \in [Callbacks -> [pc : CallbackStates, login : Logins]],
             UNCHANGED <<oidc, vouched, session, page, nonce, code, token, restarts>>
      PROVE  TypeOK'
  BY <1>e DEF LoginStates, CallbackStates
<1>1. CASE UNCHANGED vars
  BY <1>1 DEF vars
<1>2. ASSUME NEW l \in Logins, NEW kind \in Kinds, BeginLogin(l, kind) PROVE TypeOK'
  BY <1>2, <1>a DEF BeginLogin, LoginStates
<1>3. ASSUME NEW l \in Logins, BeginConnect(l) PROVE TypeOK'
  BY <1>3, <1>a DEF BeginConnect, Kinds, LoginStates
<1>4. ASSUME NEW l \in Logins, LoginAges(l) \/ ProviderRevokes(l) PROVE TypeOK'
  <2>1. CASE LoginAges(l)
    <3>0. login[l] \in [st : LoginStates, kind : Kinds, old : BOOLEAN]
      BY <1>d
    <3>1. [login[l] EXCEPT !.old = TRUE] \in [st : LoginStates, kind : Kinds, old : BOOLEAN]
      BY <3>0
    <3>2. login' \in [Logins -> [st : LoginStates, kind : Kinds, old : BOOLEAN]]
      BY <1>d, <2>1, <3>1 DEF LoginAges
    <3> QED BY <2>1, <3>2, <1>e DEF LoginAges, CallbackStates
  <2>2. CASE ProviderRevokes(l)
    BY <2>2 DEF ProviderRevokes
  <2> QED BY <1>4, <2>1, <2>2
<1>5. ASSUME NEW c \in Callbacks, NEW l \in Logins, NEW bound \in BOOLEAN, TakeState(c, l, bound)
      PROVE  TypeOK'
  <2> DEFINE all == Purge({"browser", "client"})
             valid == all[l].st = "pending" /\ bound
  <2>1. all \in [Logins -> [st : LoginStates, kind : Kinds, old : BOOLEAN]]
    BY <1>a
  <2>2. /\ login' = [all EXCEPT ![l].st = IF valid THEN "consumed" ELSE @]
        /\ callback' = [callback EXCEPT ![c] = [pc |-> IF valid THEN "exchange" ELSE "failed",
                                                login |-> l]]
        /\ UNCHANGED <<oidc, vouched, session, page, nonce, code, token, restarts>>
    BY <1>5 DEF TakeState
  <2> HIDE DEF all, valid
  <2>3. login' \in [Logins -> [st : LoginStates, kind : Kinds, old : BOOLEAN]]
    <3>1. (IF valid THEN "consumed" ELSE all[l].st) \in LoginStates
      BY <2>1 DEF LoginStates
    <3> QED BY <2>1, <2>2, <3>1, <1>c
  <2>4. callback' \in [Callbacks -> [pc : CallbackStates, login : Logins]]
    BY <2>2 DEF CallbackStates
  <2> QED BY <2>2, <2>3, <2>4, <1>e
<1>6. ASSUME NEW c \in Callbacks, NEW l \in Logins, PeekPending(c, l) PROVE TypeOK'
  BY <1>6 DEF PeekPending
<1>7. ASSUME NEW c \in Callbacks, EndExchange(c) \/ CheckUserinfo(c) \/ EndConnect(c) PROVE TypeOK'
  <2>1. PICK place \in CallbackStates : Turn(c, place)
    BY <1>7 DEF EndExchange, CheckUserinfo, EndConnect, CallbackStates
  <2>2. callback' \in [Callbacks -> [pc : CallbackStates, login : Logins]]
    BY <1>b, <2>1
  <2>3. login' \in [Logins -> [st : LoginStates, kind : Kinds, old : BOOLEAN]]
    <3>1. callback[c].login \in Logins
      OBVIOUS
    <3>2. login' = login \/ login' = [login EXCEPT ![callback[c].login].st = "gone"]
      BY <1>7 DEF EndExchange, CheckUserinfo, EndConnect
    <3>3. "gone" \in LoginStates
      BY DEF LoginStates
    <3>4. CASE login' = login
      BY <1>d, <3>4
    <3>5. CASE login' = [login EXCEPT ![callback[c].login].st = "gone"]
      BY <1>c, <1>d, <3>1, <3>3, <3>5
    <3> QED BY <3>2, <3>4, <3>5
  <2> QED BY <1>7, <2>2, <2>3, <1>e DEF EndExchange, CheckUserinfo, EndConnect
<1>8. ASSUME NEW c \in Callbacks, GrantCode(c) PROVE TypeOK'
  BY <1>8 DEF GrantCode, Grants
<1>9. ASSUME NEW c \in Callbacks, CreateSession(c) PROVE TypeOK'
  BY <1>9 DEF CreateSession
<1>10. ASSUME NEW c \in Callbacks, AbandonPending(c) \/ ConsumeCallback(c) PROVE TypeOK'
  <2>1. PICK place \in CallbackStates : Turn(c, place)
    BY <1>10 DEF AbandonPending, ConsumeCallback, CallbackStates
  <2>2. callback' \in [Callbacks -> [pc : CallbackStates, login : Logins]]
    BY <1>b, <2>1
  <2>3. login' = [Purge({"connect"}) EXCEPT ![callback[c].login].st = "gone"]
    BY <1>10 DEF AbandonPending, ConsumeCallback
  <2>4. login' \in [Logins -> [st : LoginStates, kind : Kinds, old : BOOLEAN]]
    BY <1>a, <1>c, <2>3 DEF LoginStates
  <2> QED BY <1>10, <2>2, <2>4, <1>e DEF AbandonPending, ConsumeCallback
<1>11. ASSUME NEW p \in Pages, NEW s \in Callbacks, LookUpSession(p, s) PROVE TypeOK'
  BY <1>11 DEF LookUpSession
<1>12. ASSUME NEW p \in Pages, AskProvider(p) \/ Serve(p) PROVE TypeOK'
  <2>1. PICK place \in {"recheck", "served", "refused"} : page' = [page EXCEPT ![p].pc = place]
    BY <1>12 DEF AskProvider, Serve, Refuse
  <2>2. [page[p] EXCEPT !.pc = place] \in [pc : {"idle", "check", "recheck", "served", "refused"},
                                           session : Callbacks]
    OBVIOUS
  <2>3. page' \in [Pages -> [pc : {"idle", "check", "recheck", "served", "refused"},
                             session : Callbacks]]
    BY <2>1, <2>2
  <2>4. session' \in [Callbacks -> {"none", "live", "expired", "gone"}]
    BY <1>12 DEF AskProvider, Serve
  <2> QED BY <1>12, <2>3, <2>4 DEF AskProvider, Serve
<1>13. ASSUME NEW s \in Callbacks, Logout(s) \/ SessionExpires(s) PROVE TypeOK'
  BY <1>13 DEF Logout, SessionExpires
<1>14. ASSUME NEW n \in Consents, NewConsentNonce(n) \/ NonceExpires(n) PROVE TypeOK'
  BY <1>14 DEF NewConsentNonce, NonceExpires
<1>15. ASSUME NEW n \in Consents, NEW approve \in BOOLEAN, ConsumeConsentNonce(n, approve)
       PROVE  TypeOK'
  BY <1>15 DEF ConsumeConsentNonce, Grants
<1>16. ASSUME NEW g \in Grants, CodeAges(g) PROVE TypeOK'
  BY <1>16 DEF CodeAges
<1>17. ASSUME NEW g \in Grants, NEW x \in Exchanges, ExchangeCode(x, g) PROVE TypeOK'
  BY <1>17 DEF ExchangeCode, CreateToken
<1>18. ASSUME NEW x \in Exchanges, RevokeToken(x) \/ TokenExpires(x) PROVE TypeOK'
  <2>1. PICK st \in {"expired", "gone"} : token' = [token EXCEPT ![x].st = st]
    BY <1>18 DEF RevokeToken, TokenExpires
  <2>2. [token[x] EXCEPT !.st = st] \in [st : {"none", "live", "expired", "refused", "gone"}, code : Grants]
    OBVIOUS
  <2>3. token' \in [Exchanges -> [st : {"none", "live", "expired", "refused", "gone"}, code : Grants]]
    BY <2>1, <2>2
  <2> QED BY <1>18, <2>3 DEF RevokeToken, TokenExpires
<1>19. CASE CleanupExpired
  BY <1>19 DEF CleanupExpired
<1>20. CASE Restart
  <2>1. login' \in [Logins -> [st : LoginStates, kind : Kinds, old : BOOLEAN]]
    <3>1. \A l \in Logins : [login[l] EXCEPT !.st = "gone"] \in [st : LoginStates, kind : Kinds,
                                                                old : BOOLEAN]
      BY <1>d DEF LoginStates
    <3> QED BY <1>20, <1>d, <3>1 DEF Restart
  <2>2. callback' \in [Callbacks -> [pc : CallbackStates, login : Logins]]
    <3>1. ASSUME NEW c \in Callbacks PROVE callback'[c] \in [pc : CallbackStates, login : Logins]
      <4>1. callback[c] \in [pc : CallbackStates, login : Logins]
        BY DEF CallbackStates
      <4>2. PICK place \in CallbackStates : callback'[c] = [callback[c] EXCEPT !.pc = place]
        BY <1>20, <4>1 DEF Restart, CallbackStates
      <4> QED BY <4>1, <4>2
    <3> QED BY <1>20, <3>1 DEF Restart
  <2>3. page' \in [Pages -> [pc : PageStates, session : Callbacks]]
    <3>1. ASSUME NEW p \in Pages PROVE page'[p] \in [pc : PageStates, session : Callbacks]
      <4>1. page[p] \in [pc : PageStates, session : Callbacks]
        BY DEF PageStates
      <4>2. PICK place \in PageStates : page'[p] = [page[p] EXCEPT !.pc = place]
        BY <1>20, <4>1 DEF Restart, PageStates
      <4> QED BY <4>1, <4>2
    <3> QED BY <1>20, <3>1 DEF Restart
  <2>4. /\ restarts' \in 0 .. MaxRestarts
        /\ session' \in [Callbacks -> {"none", "live", "expired", "gone"}]
        /\ nonce' \in [Consents -> {"none", "live", "expired", "gone"}]
        /\ UNCHANGED <<oidc, vouched, code, token>>
    BY <1>20 DEF Restart
  <2> QED BY <2>1, <2>2, <2>3, <2>4 DEF LoginStates, CallbackStates, PageStates
<1> QED
  BY <1>1, <1>2, <1>3, <1>4, <1>5, <1>6, <1>7, <1>8, <1>9, <1>10, <1>11, <1>12, <1>13, <1>14,
     <1>15, <1>16, <1>17, <1>18, <1>19, <1>20 DEF Next, LoginStep

-----------------------------------------------------------------------------
(* Logins and the callbacks that complete them. *)
LoginParts == LoginsSound /\ TakenOnce /\ NoLoginIsStuck

Aged(m) == login'[m].st = "gone" /\ login[m].old

(* Every login but l is left alone, or purged. *)
Others(l) ==
  \A m \in Logins \ {l} : /\ login'[m].kind = login[m].kind /\ login'[m].old = login[m].old
                          /\ login'[m].st = login[m].st \/ Aged(m)

(* A step of callback c on login l: it ends with a login of its own only if *)
(* it had one or found it pending, and takes one only to exchange its code. *)
Completes(c, l) ==
  /\ Others(l) /\ \A d \in Callbacks \ {c} : callback'[d] = callback[d]
  /\ callback[c].pc = "idle" \/ callback[c].login = l
  /\ callback'[c].login = l
  /\ login'[l].st # "none" /\ login'[l].kind = login[l].kind
  /\ \/ login'[l].st \in {login[l].st, "gone"}
     \/ login[l].st = "pending" /\ login'[l].st = "consumed" /\ login[l].kind # "connect"
  /\ login'[l].st = "consumed" =>
       callback'[c].pc = "exchange" \/ (login[l].st = "consumed" /\ callback[c].pc # "exchange")
  /\ Attached(c)' =>
       login'[l].st \in {"consumed", "gone"} /\ (Attached(c) \/ login[l].st = "pending")

(* A callback that takes its login, or goes on with the one it has, is alone with it. *)
LEMMA OneCallback ==
  ASSUME TypeOK, LoginParts, NEW c \in Callbacks, NEW l \in Logins, Completes(c, l)
  PROVE  LoginParts'
<1> USE DEF Completes
<1>1. LoginsSound'
  BY DEF LoginParts, LoginsSound, Others, Aged
<1>2. TakenOnce'
  <2>1. \A d \in Callbacks \ {c} : Attached(d)' <=> Attached(d)
    BY DEF Attached
  <2>2. ASSUME NEW d \in Callbacks, Attached(d)' PROVE login'[callback'[d].login].st \in {"consumed", "gone"}
    <3>1. CASE d = c
      BY <2>2, <3>1
    <3>2. CASE d # c
      BY <2>1, <2>2, <3>2 DEF LoginParts, TakenOnce, Others, Aged, TypeOK
    <3> QED BY <3>1, <3>2
  <2>3. ASSUME NEW d \in Callbacks \ {c}, Attached(d)', Attached(c)', callback'[d].login = l PROVE FALSE
    BY <2>1, <2>3 DEF LoginParts, TakenOnce, Attached
  <2>4. ASSUME NEW d \in Callbacks, NEW e \in Callbacks, Attached(d)', Attached(e)',
               callback'[d].login = callback'[e].login
        PROVE  d = e
    BY <2>1, <2>3, <2>4 DEF LoginParts, TakenOnce
  <2> QED BY <2>2, <2>4 DEF TakenOnce
<1>3. NoLoginIsStuck'
  <2> SUFFICES ASSUME NEW m \in Logins, login'[m].st = "consumed"
               PROVE  \E d \in Callbacks : callback'[d].pc = "exchange" /\ callback'[d].login = m
    BY DEF NoLoginIsStuck
  <2>1. CASE m = l
    BY <2>1 DEF LoginParts, NoLoginIsStuck
  <2>2. CASE m # l
    <3>1. login[m].st = "consumed"
      BY <2>2 DEF Others, Aged
    <3>2. PICK d \in Callbacks : callback[d].pc = "exchange" /\ callback[d].login = m
      BY <3>1 DEF LoginParts, NoLoginIsStuck
    <3>3. d # c
      BY <2>2, <3>2
    <3> QED BY <3>2, <3>3
  <2> QED BY <2>1, <2>2
<1> QED BY <1>1, <1>2, <1>3 DEF LoginParts

(* Logins begin, age and are purged without their callbacks. *)
LEMMA NoCallback ==
  ASSUME TypeOK, LoginParts, callback' = callback,
         \A m \in Logins :
           \/ login[m].st = "none" /\ login'[m].st \in {"busy", "pending"}
           \/ /\ login'[m].kind = login[m].kind
              /\ login'[m].st = login[m].st \/ Aged(m)
              /\ login'[m].old => login[m].old \/ login[m].st # "none"
  PROVE  LoginParts'
<1>1. LoginsSound'
  BY DEF LoginParts, LoginsSound, Aged
<1>2. TakenOnce'
  BY DEF LoginParts, TakenOnce, Attached, Aged, TypeOK
<1>3. NoLoginIsStuck'
  BY DEF LoginParts, NoLoginIsStuck, Aged
<1> QED BY <1>1, <1>2, <1>3 DEF LoginParts

(* Every step keeps the logins. *)
LEMMA LoginStepKept == TypeOK /\ LoginParts /\ [Next]_vars => LoginParts'
<1> SUFFICES ASSUME TypeOK, LoginParts, [Next]_vars PROVE LoginParts'
  OBVIOUS
<1> USE DEF Turn
<1>a. \A kinds : \A l \in Logins :
        /\ Purge(kinds)[l].kind = login[l].kind /\ Purge(kinds)[l].old = login[l].old
        /\ Purge(kinds)[l].st = login[l].st \/ (Purge(kinds)[l].st = "gone" /\ login[l].old)
  BY PurgeSound
<1>b. \A kinds : Purge(kinds) \in [Logins -> [st : LoginStates, kind : Kinds, old : BOOLEAN]]
  BY PurgeSound
<1>c. ASSUME UNCHANGED <<login, callback>> PROVE LoginParts'
  BY <1>c DEF LoginParts, LoginsSound, TakenOnce, NoLoginIsStuck, Attached
<1>d. /\ login \in [Logins -> [st : LoginStates, kind : Kinds, old : BOOLEAN]]
      /\ callback \in [Callbacks -> [pc : CallbackStates, login : Logins]]
  BY DEF TypeOK, LoginStates, CallbackStates
<1>e. \A c \in Callbacks : Attached(c) => login[callback[c].login].st \in {"consumed", "gone"}
  BY DEF LoginParts, TakenOnce
<1>1. CASE UNCHANGED vars
  BY <1>1, <1>c DEF vars
<1>2. ASSUME NEW l \in Logins, NEW kind \in Kinds, BeginLogin(l, kind) PROVE LoginParts'
  <2> DEFINE all == Purge({"browser", "client"})
             row == [st |-> IF Full(all) THEN "busy" ELSE "pending", kind |-> kind, old |-> FALSE]
  <2>1. login' = [all EXCEPT ![l] = row] /\ callback' = callback /\ login[l].st = "none"
    BY <1>2 DEF BeginLogin
  <2>2. all \in [Logins -> [st : LoginStates, kind : Kinds, old : BOOLEAN]] /\ row.st \in {"busy", "pending"}
    BY <1>b
  <2>3. \A m \in Logins : /\ all[m].kind = login[m].kind /\ all[m].old = login[m].old
                          /\ all[m].st = login[m].st \/ (all[m].st = "gone" /\ login[m].old)
    BY <1>a
  <2> HIDE DEF all, row
  <2>4. login'[l] = row /\ \A m \in Logins \ {l} : login'[m] = all[m]
    BY <2>1, <2>2
  <2> QED BY <2>1, <2>2, <2>3, <2>4, NoCallback DEF Aged
<1>3. ASSUME NEW l \in Logins, BeginConnect(l) PROVE LoginParts'
  <2> DEFINE all == Purge({"connect"})
             row == [st |-> "pending", kind |-> "connect", old |-> FALSE]
  <2>1. login' = [all EXCEPT ![l] = row] /\ callback' = callback /\ login[l].st = "none"
    BY <1>3 DEF BeginConnect
  <2>2. all \in [Logins -> [st : LoginStates, kind : Kinds, old : BOOLEAN]] /\ row.st \in {"busy", "pending"}
    BY <1>b
  <2>3. \A m \in Logins : /\ all[m].kind = login[m].kind /\ all[m].old = login[m].old
                          /\ all[m].st = login[m].st \/ (all[m].st = "gone" /\ login[m].old)
    BY <1>a
  <2> HIDE DEF all, row
  <2>4. login'[l] = row /\ \A m \in Logins \ {l} : login'[m] = all[m]
    BY <2>1, <2>2
  <2> QED BY <2>1, <2>2, <2>3, <2>4, NoCallback DEF Aged
<1>4. ASSUME NEW l \in Logins, LoginAges(l) PROVE LoginParts'
  <2>1. /\ callback' = callback /\ login'[l].st = login[l].st /\ login'[l].kind = login[l].kind
        /\ login[l].st # "none" /\ \A m \in Logins \ {l} : login'[m] = login[m]
    BY <1>4, <1>d DEF LoginAges, Live
  <2> QED BY <2>1, NoCallback
<1>5. ASSUME NEW c \in Callbacks, NEW l \in Logins, NEW bound \in BOOLEAN, TakeState(c, l, bound)
      PROVE  LoginParts'
  <2> DEFINE all == Purge({"browser", "client"})
             valid == all[l].st = "pending" /\ bound
  <2>1. /\ callback[c].pc = "idle" /\ login[l].kind # "connect" /\ login[l].st # "none"
        /\ login' = [all EXCEPT ![l].st = IF valid THEN "consumed" ELSE @]
        /\ callback' = [callback EXCEPT ![c] = [pc |-> IF valid THEN "exchange" ELSE "failed",
                                                login |-> l]]
    BY <1>5 DEF TakeState
  <2>2. all \in [Logins -> [st : LoginStates, kind : Kinds, old : BOOLEAN]]
    BY <1>b
  <2>3. \A m \in Logins : /\ all[m].kind = login[m].kind /\ all[m].old = login[m].old
                          /\ all[m].st = login[m].st \/ (all[m].st = "gone" /\ login[m].old)
    BY <1>a
  <2>4. valid => all[l].st = "pending"
    OBVIOUS
  <2> HIDE DEF all, valid
  <2>5. /\ \A m \in Logins \ {l} : login'[m] = all[m]
        /\ login'[l].kind = all[l].kind
        /\ login'[l].st = IF valid THEN "consumed" ELSE all[l].st
    BY <2>1, <2>2
  <2>6. /\ \A d \in Callbacks \ {c} : callback'[d] = callback[d]
        /\ callback'[c].login = l /\ callback'[c].pc = IF valid THEN "exchange" ELSE "failed"
    BY <2>1, <1>d
  <2>7. Others(l)
    BY <2>3, <2>5 DEF Others, Aged
  <2>8. CASE valid
    <3>1. login[l].st = "pending"
      BY <2>3, <2>4, <2>8
    <3> QED BY <2>1, <2>3, <2>5, <2>6, <2>7, <2>8, <3>1, OneCallback DEF Completes, Attached
  <2>9. CASE ~valid
    BY <2>1, <2>3, <2>5, <2>6, <2>7, <2>9, OneCallback DEF Completes, Attached
  <2> QED BY <2>8, <2>9
<1>6. ASSUME NEW c \in Callbacks, NEW l \in Logins, PeekPending(c, l) PROVE LoginParts'
  <2>1. /\ callback[c].pc = "idle" /\ login[l].kind = "connect" /\ login[l].st # "none" /\ login' = login
        /\ callback'[c].login = l /\ callback'[c].pc \in {"peeked", "failed"}
        /\ \A d \in Callbacks \ {c} : callback'[d] = callback[d]
    BY <1>6, <1>d DEF PeekPending
  <2>2. login[l].st # "consumed"
    BY <2>1 DEF LoginParts, LoginsSound
  <2> QED BY <2>1, <2>2, OneCallback DEF Completes, Others, Attached
<1>7. ASSUME NEW c \in Callbacks, EndExchange(c) PROVE LoginParts'
  <2> DEFINE l == callback[c].login
  <2>0. l \in Logins
    BY <1>d
  <2>1. /\ callback[c].pc = "exchange" /\ callback'[c].login = l /\ login'[l].st = "gone"
        /\ login'[l].kind = login[l].kind
        /\ \A m \in Logins \ {l} : login'[m] = login[m]
        /\ \A d \in Callbacks \ {c} : callback'[d] = callback[d]
    BY <1>7, <1>d DEF EndExchange
  <2> HIDE DEF l
  <2> QED BY <2>0, <2>1, OneCallback DEF Completes, Others, Attached, l
<1>8. ASSUME NEW c \in Callbacks, CheckUserinfo(c) \/ GrantCode(c) \/ CreateSession(c)
      PROVE  LoginParts'
  <2> DEFINE l == callback[c].login
  <2>0. l \in Logins
    BY <1>d
  <2>1. /\ callback[c].pc \in {"check", "grant"} /\ callback'[c].login = l /\ login' = login
        /\ callback'[c].pc \in {"grant", "done", "failed"}
        /\ \A d \in Callbacks \ {c} : callback'[d] = callback[d]
    BY <1>8, <1>d DEF CheckUserinfo, GrantCode, CreateSession
  <2>2. login[l].st \in {"consumed", "gone"}
    BY <1>e, <2>1 DEF Attached
  <2> HIDE DEF l
  <2> QED BY <2>0, <2>1, <2>2, OneCallback DEF Completes, Others, Attached, l
<1>9. ASSUME NEW c \in Callbacks, AbandonPending(c) \/ ConsumeCallback(c) PROVE LoginParts'
  <2> DEFINE l == callback[c].login
             all == Purge({"connect"})
  <2>0. l \in Logins
    BY <1>d
  <2>1. /\ callback[c].pc = "peeked" /\ login' = [all EXCEPT ![l].st = "gone"]
        /\ \/ Turn(c, "failed")
           \/ Turn(c, IF all[l].st = "pending" THEN "exchange" ELSE "failed")
    BY <1>9 DEF AbandonPending, ConsumeCallback
  <2>2. all \in [Logins -> [st : LoginStates, kind : Kinds, old : BOOLEAN]]
    BY <1>b
  <2>3. \A m \in Logins : /\ all[m].kind = login[m].kind /\ all[m].old = login[m].old
                          /\ all[m].st = login[m].st \/ (all[m].st = "gone" /\ login[m].old)
    BY <1>a
  <2>4. callback[c].login = l
    OBVIOUS
  <2> HIDE DEF l, all
  <2>5. /\ \A m \in Logins \ {l} : login'[m] = all[m]
        /\ login'[l].kind = all[l].kind /\ login'[l].st = "gone"
    BY <2>0, <2>1, <2>2
  <2>6. /\ \A d \in Callbacks \ {c} : callback'[d] = callback[d]
        /\ callback'[c].login = l
        /\ callback'[c].pc = "failed" \/ (callback'[c].pc = "exchange" /\ all[l].st = "pending")
    BY <2>1, <2>4, <1>d
  <2>7. Others(l)
    BY <2>3, <2>5 DEF Others, Aged
  <2>8. all[l].st = "pending" => login[l].st = "pending"
    BY <2>0, <2>3
  <2> QED BY <2>0, <2>1, <2>3, <2>4, <2>5, <2>6, <2>7, <2>8, OneCallback DEF Completes, Attached
<1>10. ASSUME NEW c \in Callbacks, EndConnect(c) PROVE LoginParts'
  <2> DEFINE l == callback[c].login
  <2>0. l \in Logins
    BY <1>d
  <2>1. /\ callback[c].pc = "exchange" /\ callback'[c].login = l /\ login' = login
        /\ login[l].kind = "connect" /\ callback'[c].pc \in {"done", "failed"}
        /\ \A d \in Callbacks \ {c} : callback'[d] = callback[d]
    BY <1>10, <1>d DEF EndConnect
  <2>2. login[l].st = "gone"
    BY <1>e, <2>0, <2>1 DEF Attached, LoginParts, LoginsSound
  <2> HIDE DEF l
  <2> QED BY <2>0, <2>1, <2>2, OneCallback DEF Completes, Others, Attached, l
<1>11. CASE Restart
  <2>1. ASSUME NEW l \in Logins
        PROVE  /\ login'[l].kind = login[l].kind /\ login'[l].old = login[l].old
               /\ \/ Live(login[l].st) /\ login[l].kind # "connect" /\ login'[l].st = "gone"
                  \/ ~(Live(login[l].st) /\ login[l].kind # "connect") /\ login'[l].st = login[l].st
    <3>1. login[l] \in [st : LoginStates, kind : Kinds, old : BOOLEAN]
      BY <1>d
    <3>2. login'[l] = IF Live(login[l].st) /\ login[l].kind # "connect"
                      THEN [login[l] EXCEPT !.st = "gone"] ELSE login[l]
      BY <1>11 DEF Restart
    <3> QED BY <3>1, <3>2
  <2>2. ASSUME NEW c \in Callbacks
        PROVE  /\ callback'[c].login = callback[c].login /\ callback[c].login \in Logins
               /\ callback'[c].pc \in {"idle", "done", "failed"}
               /\ callback'[c].pc = "done" => callback[c].pc = "done"
    <3>1. callback[c] \in [pc : CallbackStates, login : Logins]
      BY <1>d
    <3>2. callback'[c] = [callback[c] EXCEPT !.pc = IF @ \in {"idle", "done"} THEN @ ELSE "failed"]
      BY <1>11 DEF Restart
    <3> QED BY <3>1, <3>2
  <2>3. LoginsSound' /\ NoLoginIsStuck'
    BY <2>1 DEF LoginParts, LoginsSound, NoLoginIsStuck, Live
  <2>4. TakenOnce'
    BY <2>1, <2>2 DEF LoginParts, TakenOnce, Attached
  <2> QED BY <2>3, <2>4 DEF LoginParts
<1>12. ASSUME NEW l \in Logins, ProviderRevokes(l) PROVE LoginParts'
  BY <1>12, <1>c DEF ProviderRevokes
<1>13. ASSUME NEW p \in Pages, NEW s \in Callbacks, LookUpSession(p, s) PROVE LoginParts'
  BY <1>13, <1>c DEF LookUpSession
<1>14. ASSUME NEW p \in Pages, AskProvider(p) \/ Serve(p) PROVE LoginParts'
  BY <1>14, <1>c DEF AskProvider, Serve
<1>15. ASSUME NEW s \in Callbacks, Logout(s) \/ SessionExpires(s) PROVE LoginParts'
  BY <1>15, <1>c DEF Logout, SessionExpires
<1>16. ASSUME NEW n \in Consents, NewConsentNonce(n) \/ NonceExpires(n) PROVE LoginParts'
  BY <1>16, <1>c DEF NewConsentNonce, NonceExpires
<1>17. ASSUME NEW n \in Consents, NEW approve \in BOOLEAN, ConsumeConsentNonce(n, approve)
       PROVE  LoginParts'
  BY <1>17, <1>c DEF ConsumeConsentNonce
<1>18. ASSUME NEW g \in Grants, CodeAges(g) \/ \E x \in Exchanges : ExchangeCode(x, g) PROVE LoginParts'
  BY <1>18, <1>c DEF CodeAges, ExchangeCode
<1>19. ASSUME NEW x \in Exchanges, RevokeToken(x) \/ TokenExpires(x) PROVE LoginParts'
  BY <1>19, <1>c DEF RevokeToken, TokenExpires
<1>20. CASE CleanupExpired
  BY <1>20, <1>c DEF CleanupExpired
<1> QED
  BY <1>1, <1>2, <1>3, <1>4, <1>5, <1>6, <1>7, <1>8, <1>9, <1>10, <1>11, <1>12, <1>13, <1>14,
     <1>15, <1>16, <1>17, <1>18, <1>19, <1>20 DEF Next, LoginStep

-----------------------------------------------------------------------------
(* Every step keeps the codes: those of callbacks, of consent pages and of  *)
(* tokens.                                                                  *)
LEMMA CodeStep == TypeOK /\ CodesAreSpent /\ [Next]_vars => CodesAreSpent'
<1> SUFFICES ASSUME TypeOK, CodesAreSpent, [Next]_vars PROVE CodesAreSpent'
  OBVIOUS
<1> USE SignInAssumption DEF Turn
<1>a. /\ callback \in [Callbacks -> [pc : CallbackStates, login : Logins]]
      /\ code \in [Grants -> {"none", "fresh", "old", "used", "gone"}]
      /\ nonce \in [Consents -> {"none", "live", "expired", "gone"}]
      /\ token \in [Exchanges -> [st : {"none", "live", "expired", "refused", "gone"}, code : Grants]]
      /\ Callbacks \subseteq Grants /\ Consents \subseteq Grants
  BY DEF TypeOK, CallbackStates, Grants
<1>b. ASSUME UNCHANGED <<nonce, code, token>>,
             \A c \in Callbacks : callback[c].pc = "done" => callback'[c].pc = "done"
      PROVE  CodesAreSpent'
  BY <1>b DEF CodesAreSpent, Bought
<1>c. ASSUME NEW c \in Callbacks, callback[c].pc # "done", UNCHANGED <<nonce, code, token>>,
             \A d \in Callbacks \ {c} : callback'[d] = callback[d]
      PROVE  CodesAreSpent'
  BY <1>b, <1>c
<1>1. CASE UNCHANGED vars
  BY <1>1, <1>b DEF vars
<1>2. ASSUME NEW c \in Callbacks, NEW l \in Logins,
             PeekPending(c, l) \/ \E bound \in BOOLEAN : TakeState(c, l, bound)
      PROVE  CodesAreSpent'
  <2>1. callback[c].pc = "idle" /\ UNCHANGED <<nonce, code, token>>
        /\ \A d \in Callbacks \ {c} : callback'[d] = callback[d]
    BY <1>2, <1>a DEF PeekPending, TakeState
  <2> QED BY <2>1, <1>c
<1>3. ASSUME NEW c \in Callbacks,
             \/ EndExchange(c) \/ CheckUserinfo(c) \/ CreateSession(c)
             \/ AbandonPending(c) \/ ConsumeCallback(c) \/ EndConnect(c)
      PROVE  CodesAreSpent'
  <2>1. callback[c].pc # "done" /\ UNCHANGED <<nonce, code, token>>
        /\ \A d \in Callbacks \ {c} : callback'[d] = callback[d]
    BY <1>3, <1>a
    DEF EndExchange, CheckUserinfo, CreateSession, AbandonPending, ConsumeCallback, EndConnect
  <2> QED BY <2>1, <1>c
<1>4. ASSUME NEW c \in Callbacks, GrantCode(c) PROVE CodesAreSpent'
  <2>1. /\ callback[c].pc = "grant" /\ callback'[c].pc = "done" /\ UNCHANGED <<nonce, token>>
        /\ \A d \in Callbacks \ {c} : callback'[d] = callback[d]
        /\ \A g \in Grants \ {c} : code'[g] = code[g]
    BY <1>4, <1>a DEF GrantCode
  <2>2. code[c] = "none" /\ c \notin Consents
    BY <2>1 DEF CodesAreSpent
  <2>3. \A x \in Exchanges : Bought(x) => token[x].code \in Grants \ {c}
    BY <1>a, <2>2 DEF CodesAreSpent
  <2> QED BY <1>a, <2>1, <2>2, <2>3 DEF CodesAreSpent, Bought
<1>5. ASSUME NEW n \in Consents, NewConsentNonce(n) PROVE CodesAreSpent'
  <2>1. /\ UNCHANGED <<callback, code, token>> /\ nonce[n] = "none"
        /\ \A m \in Consents \ {n} : nonce'[m] # "gone" => nonce[m] # "gone"
    BY <1>5, <1>a DEF NewConsentNonce
  <2> QED BY <2>1 DEF CodesAreSpent, Bought
<1>6. ASSUME NEW n \in Consents, NonceExpires(n) PROVE CodesAreSpent'
  <2>1. /\ UNCHANGED <<callback, code, token>> /\ nonce[n] = "live"
        /\ \A m \in Consents \ {n} : nonce'[m] = nonce[m]
    BY <1>6, <1>a DEF NonceExpires
  <2> QED BY <2>1 DEF CodesAreSpent, Bought
<1>7. ASSUME NEW n \in Consents, NEW approve \in BOOLEAN, ConsumeConsentNonce(n, approve)
      PROVE  CodesAreSpent'
  <2>1. /\ UNCHANGED <<callback, token>> /\ nonce[n] # "gone" /\ nonce'[n] = "gone"
        /\ \A m \in Consents \ {n} : nonce'[m] = nonce[m]
        /\ \A g \in Grants \ {n} : code'[g] = code[g]
    BY <1>7, <1>a DEF ConsumeConsentNonce
  <2>2. code[n] = "none" /\ n \notin Callbacks
    BY <2>1 DEF CodesAreSpent
  <2>3. \A x \in Exchanges : Bought(x) => token[x].code \in Grants \ {n}
    BY <1>a, <2>2 DEF CodesAreSpent
  <2> QED BY <1>a, <2>1, <2>2, <2>3 DEF CodesAreSpent, Bought
<1>8. ASSUME NEW g \in Grants, CodeAges(g) PROVE CodesAreSpent'
  <2>1. /\ UNCHANGED <<callback, nonce, token>> /\ code[g] = "fresh"
        /\ \A h \in Grants \ {g} : code'[h] = code[h]
    BY <1>8, <1>a DEF CodeAges
  <2>2. \A x \in Exchanges : Bought(x) => token[x].code \in Grants \ {g}
    BY <1>a, <2>1 DEF CodesAreSpent
  <2> QED BY <1>a, <2>1, <2>2 DEF CodesAreSpent, Bought
<1>9. ASSUME NEW g \in Grants, NEW x \in Exchanges, ExchangeCode(x, g) PROVE CodesAreSpent'
  <2>1. /\ UNCHANGED <<callback, nonce>> /\ code[g] = "fresh" /\ code'[g] = "used"
        /\ \A h \in Grants \ {g} : code'[h] = code[h]
        /\ token'[x].code = g /\ \A y \in Exchanges \ {x} : token'[y] = token[y]
    BY <1>9, <1>a DEF ExchangeCode, CreateToken
  <2>2. \A y \in Exchanges : Bought(y) => token[y].code \in Grants \ {g}
    BY <1>a, <2>1 DEF CodesAreSpent
  <2>3. \A y \in Exchanges \ {x} : Bought(y)' <=> Bought(y)
    BY <2>1 DEF Bought
  <2>4. /\ \A c \in Callbacks : callback[c].pc # "done" => c # g /\ code[c] = "none"
        /\ \A n \in Consents : nonce[n] # "gone" => n # g /\ code[n] = "none"
    BY <2>1 DEF CodesAreSpent
  <2>5. \A y \in Exchanges : Bought(y)' => code'[token'[y].code] \in {"used", "gone"}
    BY <1>a, <2>1, <2>2, <2>3 DEF CodesAreSpent
  <2>6. \A y, z \in Exchanges : Bought(y)' /\ Bought(z)' /\ token'[y].code = token'[z].code => y = z
    BY <2>1, <2>2, <2>3 DEF CodesAreSpent
  <2> QED BY <1>a, <2>1, <2>4, <2>5, <2>6 DEF CodesAreSpent
<1>10. ASSUME NEW x \in Exchanges, RevokeToken(x) \/ TokenExpires(x) PROVE CodesAreSpent'
  <2>1. /\ UNCHANGED <<callback, nonce, code>> /\ Bought(x)
        /\ token'[x].code = token[x].code /\ \A y \in Exchanges \ {x} : token'[y] = token[y]
    BY <1>10, <1>a DEF RevokeToken, TokenExpires, Bought
  <2> QED BY <2>1 DEF CodesAreSpent, Bought
<1>11. CASE CleanupExpired
  <2>1. PICK aged \in SUBSET {g \in Grants : code[g] \in {"old", "used"}} :
          /\ token' = [x \in Exchanges |->
                          [token[x] EXCEPT !.st = IF @ = "expired" THEN "gone" ELSE @]]
          /\ code' = [g \in Grants |-> IF g \in aged THEN "gone" ELSE code[g]]
          /\ UNCHANGED <<callback, nonce>>
    BY <1>11 DEF CleanupExpired
  <2>2. ASSUME NEW x \in Exchanges
        PROVE  token'[x].code = token[x].code /\ (Bought(x)' => Bought(x))
    <3>1. token[x] \in [st : {"none", "live", "expired", "refused", "gone"}, code : Grants]
      BY <1>a
    <3>2. token'[x] = [token[x] EXCEPT !.st = IF @ = "expired" THEN "gone" ELSE @]
      BY <2>1
    <3> QED BY <3>1, <3>2 DEF Bought
  <2>3. \A g \in Grants : code'[g] = code[g] \/ (code[g] \in {"old", "used"} /\ code'[g] = "gone")
    BY <2>1
  <2> QED BY <1>a, <2>1, <2>2, <2>3 DEF CodesAreSpent
<1>12. CASE Restart
  <2>1. UNCHANGED <<code, token>> /\ \A n \in Consents : nonce'[n] # "gone" => nonce[n] = "none"
    BY <1>12 DEF Restart
  <2>2. ASSUME NEW c \in Callbacks, callback[c].pc = "done" PROVE callback'[c].pc = "done"
    <3>1. callback[c] \in [pc : CallbackStates, login : Logins]
      BY <1>a
    <3>2. callback'[c] = [callback[c] EXCEPT !.pc = IF @ \in {"idle", "done"} THEN @ ELSE "failed"]
      BY <1>12 DEF Restart
    <3> QED BY <2>2, <3>1, <3>2
  <2> QED BY <2>1, <2>2 DEF CodesAreSpent, Bought
<1>13. ASSUME NEW l \in Logins, BeginConnect(l) \/ LoginAges(l) \/ ProviderRevokes(l)
                                \/ \E kind \in Kinds : BeginLogin(l, kind)
       PROVE  CodesAreSpent'
  BY <1>13, <1>b DEF BeginLogin, BeginConnect, LoginAges, ProviderRevokes
<1>14. ASSUME NEW p \in Pages, AskProvider(p) \/ Serve(p) \/ \E s \in Callbacks : LookUpSession(p, s)
       PROVE  CodesAreSpent'
  BY <1>14, <1>b DEF AskProvider, Serve, LookUpSession
<1>15. ASSUME NEW s \in Callbacks, Logout(s) \/ SessionExpires(s) PROVE CodesAreSpent'
  BY <1>15, <1>b DEF Logout, SessionExpires
<1> QED
  BY <1>1, <1>2, <1>3, <1>4, <1>5, <1>6, <1>7, <1>8, <1>9, <1>10, <1>11, <1>12, <1>13, <1>14,
     <1>15 DEF Next, LoginStep

-----------------------------------------------------------------------------
(* The invariant is one of the specification. *)
LEMMA Invariance == Spec => []IInv
<1>1. IInv /\ [Next]_vars => IInv'
  BY TypeStep, LoginStepKept, CodeStep DEF IInv, LoginParts
<1> QED BY <1>1, InitInv, PTL DEF Spec

(* Logins, callbacks, sessions, codes and tokens stay in their states. *)
THEOREM TypeCorrect == Spec => []TypeOK
<1>1. IInv => TypeOK
  BY DEF IInv
<1> QED BY <1>1, Invariance, PTL

(* One login ends in one session, code or connection, and one code buys one *)
(* token, for any number of concurrent callbacks, exchanges and restarts.   *)
THEOREM LoginsGrantOnce == Spec => []OneGrantPerLogin
<1>1. IInv => OneGrantPerLogin
  BY DEF IInv, TakenOnce, CodesAreSpent, OneGrantPerLogin, Attached, Bought
<1> QED BY <1>1, Invariance, PTL

(* A login whose state was taken has a callback that is exchanging its code. *)
THEOREM LoginsAreCompleted == Spec => []NoLoginIsStuck
<1>1. IInv => NoLoginIsStuck
  BY DEF IInv
<1> QED BY <1>1, Invariance, PTL

(* No page is served for a session that has ended between the check of the  *)
(* provider and the answer.                                                 *)
THEOREM LogoutHolds == Spec => LogoutIsFinal
<1> DEFINE Final == \A p \in Pages : page'[p].pc = "served" /\ page[p].pc # "served"
                                       => session[page[p].session] \in {"live", "expired"}
<1>1. TypeOK /\ [Next]_vars => Final
  <2> SUFFICES ASSUME TypeOK, [Next]_vars, NEW p \in Pages, page'[p].pc = "served",
                      page[p].pc # "served"
               PROVE  session[page[p].session] \in {"live", "expired"}
    OBVIOUS
  <2>1. page \in [Pages -> [pc : PageStates, session : Callbacks]]
    BY DEF TypeOK, PageStates
  <2>2. ASSUME NEW q \in Pages, Serve(q) PROVE session[page[p].session] \in {"live", "expired"}
    <3>1. p = q
      BY <2>1, <2>2 DEF Serve
    <3> QED BY <2>1, <2>2, <3>1 DEF Serve
  <2>3. ASSUME NEW q \in Pages, NEW s \in Callbacks, LookUpSession(q, s) PROVE FALSE
    BY <2>1, <2>3 DEF LookUpSession
  <2>4. ASSUME NEW q \in Pages, AskProvider(q) PROVE FALSE
    BY <2>1, <2>4 DEF AskProvider, Refuse
  <2>5. ~Restart
    <3>1. page[p] \in [pc : PageStates, session : Callbacks]
      BY <2>1
    <3> QED BY <3>1 DEF Restart
  <2>6. page' # page
    OBVIOUS
  <2>7. \A c \in Callbacks : ~LoginStep(c)
    BY <2>6 DEF LoginStep, EndExchange, CheckUserinfo, GrantCode, CreateSession, AbandonPending,
                ConsumeCallback, EndConnect
  <2> QED
    BY <2>2, <2>3, <2>4, <2>5, <2>6, <2>7
    DEF Next, vars, BeginLogin, BeginConnect, LoginAges, ProviderRevokes, TakeState, PeekPending,
        Logout, SessionExpires, NewConsentNonce, NonceExpires, ConsumeConsentNonce, CodeAges,
        ExchangeCode, RevokeToken, TokenExpires, CleanupExpired
<1> QED BY <1>1, TypeCorrect, PTL DEF Spec, LogoutIsFinal

-----------------------------------------------------------------------------
(* Dashboard: the page that signs in here, its catalogue, its detail panel  *)
(* and its browser workspace, on the event socket, for any texts, servers   *)
(* and sessions and every number of changes, breaks and loads.              *)
(*                                                                          *)
(* That the catalogue settles needs, before it has settled, that everything *)
(* which makes it stale leaves something under way that leads to a load     *)
(* (LoadsAreCurrent).                                                       *)

(* The browser workspace. *)

(* What is polled, and loads are counted. *)
BrowserInv ==
    /\ lists \in Nat
    /\ PollFollowsSelection

(* Nothing is selected at the start. *)
LEMMA BrowserInitInv == BrowserInit => BrowserInv
BY DEF BrowserInit, BrowserInv, PollFollowsSelection

(* Every step of the workspace keeps it. *)
LEMMA BrowserStepInv == BrowserInv /\ BrowserStep => BrowserInv'
<1> SUFFICES ASSUME BrowserInv, BrowserStep PROVE BrowserInv'
  OBVIOUS
<1> USE DEF BrowserInv, PollFollowsSelection
<1>1. ASSUME NEW id \in pages, SelectBrowserSession(id) PROVE BrowserInv'
  BY <1>1 DEF SelectBrowserSession, Select
<1>2. CASE ShowBrowser
  <2>1. lists' \in Nat /\ lists' # 0 /\ UNCHANGED <<selected, poll>>
    BY <1>2 DEF ShowBrowser
  <2> QED
    BY <2>1
<1>10. CASE LeaveBrowser
  <2>1. ~inBrowser' /\ UNCHANGED <<selected, lists>> /\ (poll' = poll \/ poll' = FALSE)
    BY <1>10 DEF LeaveBrowser
  <2>2. poll' => selected' # Nobody
    BY <2>1, Zenon
  <2> QED
    BY <2>1, <2>2
<1>3. CASE ListServed
  BY <1>3 DEF ListServed
<1>4. ASSUME NEW list \in SUBSET Sessions, ListShown(list) PROVE BrowserInv'
  BY <1>4 DEF ListShown, Select
<1>5. ASSUME NEW does \in {"open", "close", "act"}, Request(does) PROVE BrowserInv'
  BY <1>5 DEF Request
<1>6. ASSUME NEW c \in calls, SessionClosed(c) PROVE BrowserInv'
  BY <1>6 DEF SessionClosed
<1>7. ASSUME NEW c \in calls, Answered(c) PROVE BrowserInv'
  <2>1. lists' = lists \/ lists' = lists + 1
    BY <1>7 DEF Answered
  <2> QED
    BY <2>1, <1>7 DEF Answered
<1>8. ASSUME NEW c \in calls, NEW id \in Sessions, SessionOpened(c, id) PROVE BrowserInv'
  BY <1>8, BrowserAssumption DEF SessionOpened
<1>9. CASE SessionEvent \/ ReloadSoon
  BY <1>9 DEF SessionEvent, ReloadSoon
<1> QED
  BY <1>1, <1>2, <1>3, <1>4, <1>5, <1>6, <1>7, <1>8, <1>9, <1>10 DEF BrowserStep

-----------------------------------------------------------------------------
(* The catalogue. *)

PageTypeOK ==
    /\ version \in Nat /\ typed \in Queries
    /\ load \in Loads \cup {None} /\ shown \in Loads \cup {None}
    /\ failed \in BOOLEAN /\ missed \in BOOLEAN /\ inCatalog \in BOOLEAN
    /\ debounce \in BOOLEAN /\ refresh \in BOOLEAN /\ news \in BOOLEAN
    /\ routes \in Nat /\ post \in {"none", "sent", "done"}

(* Nothing is under way that leads to a load, and nothing was lost. *)
NothingAhead ==
    /\ inCatalog /\ ~debounce /\ ~refresh /\ routes = 0 /\ post # "done" /\ ~news /\ ~missed

(* Then the newest load will bring what is typed and what the server has now, or has. *)
LoadsAreCurrent ==
    NothingAhead =>
        /\ load # None => load.query = typed /\ load.read \in {None, version}
        /\ load = None => failed \/ shown = [query |-> typed, read |-> version]

(* Answers come from the past, and the one to be rendered not from before the one shown. *)
ReadsGrow ==
    /\ shown # None => shown.read \in Nat /\ shown.read <= version
    /\ load # None /\ load.read # None => load.read <= version
    /\ shown # None /\ load # None /\ load.read # None => shown.read <= load.read

CatalogInv == PageTypeOK /\ LoadsAreCurrent /\ ReadsGrow


(* Nothing is loaded or shown at the start. *)
LEMMA CatalogInitInv == SocketInit /\ CatalogInit => CatalogInv
<1> SUFFICES ASSUME SocketInit, CatalogInit PROVE CatalogInv
  OBVIOUS
<1>1. PageTypeOK
  BY DEF SocketInit, CatalogInit, PageTypeOK
<1>2. LoadsAreCurrent
  BY DEF CatalogInit, LoadsAreCurrent
<1>3. ReadsGrow
  BY DEF CatalogInit, ReadsGrow
<1> QED
  BY <1>1, <1>2, <1>3 DEF CatalogInv

(* A new load asks for what is typed and has not been read yet. *)
LEMMA LoadStarts ==
  ASSUME CatalogInv, StartLoad, typed' = typed, version' = version,
         shown' = shown
  PROVE  /\ load' \in Loads /\ load' # None /\ load'.query = typed /\ load'.read = None
         /\ missed' = FALSE /\ ReadsGrow'
<1> DEFINE fresh == [query |-> typed, read |-> None]
<1>1. load' = fresh /\ missed' = FALSE
  BY DEF StartLoad
<1>2. fresh \in Loads /\ fresh.query = typed /\ fresh.read = None
  BY DEF Loads, CatalogInv, PageTypeOK
<1>3. fresh # None
  BY <1>2, PageAssumption
<1> HIDE DEF fresh
<1> QED
  BY <1>1, <1>2, <1>3 DEF CatalogInv, ReadsGrow

(* The server's state changes: the page is told, or it is remembered that it was not. *)
LEMMA SaveKeepsInv ==
  ASSUME CatalogInv, Save, news' \in BOOLEAN, missed' \in BOOLEAN, news' \/ missed',
         UNCHANGED <<inCatalog, typed, debounce, load, shown, failed, refresh, routes>>,
         post' \in {"none", "sent", "done"}
  PROVE  CatalogInv'
<1>1. version' = version + 1 /\ version \in Nat
  BY DEF Save, CatalogInv, PageTypeOK
<1>3. PageTypeOK'
  BY <1>1 DEF CatalogInv, PageTypeOK
<1>4. LoadsAreCurrent'
  BY DEF LoadsAreCurrent, NothingAhead
<1>5. ReadsGrow'
  <2>1. load # None => load.read \in Nat \cup {None}
    BY DEF CatalogInv, PageTypeOK, Loads
  <2>2. \A n \in Nat : n <= version => n <= version'
    BY <1>1
  <2> QED
    BY <2>1, <2>2 DEF CatalogInv, ReadsGrow
<1> QED
  BY <1>3, <1>4, <1>5 DEF CatalogInv

(* An announced change is such a one. *)
LEMMA PublishKeepsInv ==
  ASSUME CatalogInv, Publish, missed' = (missed \/ ~Connected),
         UNCHANGED <<inCatalog, typed, debounce, load, shown, failed, refresh, routes>>,
         post' \in {"none", "sent", "done"}
  PROVE  CatalogInv'
<1>1. Connected \in BOOLEAN
  BY DEF Connected
<1> QED
  BY <1>1, SaveKeepsInv DEF Publish, CatalogInv, PageTypeOK

(* A step of the socket alone, and what it loses is remembered. *)
LEMMA SocketKeepsInv == ASSUME CatalogInv, CatalogSocketStep PROVE CatalogInv'
<1>1. version' = version /\ news' \in BOOLEAN
  <2>1. CASE Open \/ CannotOpen \/ Superseded
    BY <2>1 DEF Open, CannotOpen, Superseded, CatalogInv, PageTypeOK
  <2>2. ASSUME NEW s \in Sockets,
               Opened(s) \/ Closed(s) PROVE version' = version /\ news' \in BOOLEAN
    BY <2>2 DEF Opened, Closed, CatalogInv, PageTypeOK
  <2>3. CASE Reconnect \/ Login
    BY <2>3 DEF Reconnect, Login, Connect, CatalogInv, PageTypeOK
  <2> QED
    BY <2>1, <2>2, <2>3 DEF CatalogSocketStep, SocketStep
<1>2. /\ missed' = (missed \/ (news /\ ~news'))
      /\ UNCHANGED <<inCatalog, typed, debounce, load, shown, failed, refresh, routes, post>>
  BY DEF CatalogSocketStep
<1>3. PageTypeOK'
  BY <1>1, <1>2 DEF CatalogInv, PageTypeOK
<1>4. LoadsAreCurrent'
  BY <1>1, <1>2 DEF CatalogInv, LoadsAreCurrent, NothingAhead
<1>5. ReadsGrow'
  BY <1>1, <1>2 DEF CatalogInv, ReadsGrow
<1> QED
  BY <1>3, <1>4, <1>5 DEF CatalogInv

(* An announcement is delivered. *)
LEMMA DeliverKeepsInv == ASSUME CatalogInv, Deliver PROVE CatalogInv'
<1>1. /\ news' = FALSE /\ refresh' = TRUE
      /\ UNCHANGED <<version, inCatalog, typed, debounce, load, shown, failed, missed, routes, post>>
  BY DEF Deliver
<1>2. PageTypeOK' /\ LoadsAreCurrent' /\ ReadsGrow'
  BY <1>1 DEF CatalogInv, PageTypeOK, LoadsAreCurrent, NothingAhead, ReadsGrow
<1> QED
  BY <1>2 DEF CatalogInv

(* What may begin a load: the end of a timer, a switch, an answer. *)
LEMMA LoadKeepsInv ==
  ASSUME CatalogInv, NEW wanted \in BOOLEAN, LoadIf(wanted),
         UNCHANGED <<version, news, typed, shown, failed>>,
         inCatalog' \in BOOLEAN, debounce' \in BOOLEAN, refresh' \in BOOLEAN,
         routes' \in Nat, post' \in {"none", "sent", "done"},
         ~wanted /\ NothingAhead' => NothingAhead
  PROVE  CatalogInv'
<1>1. CASE wanted
  <2>1. StartLoad
    BY <1>1 DEF LoadIf
  <2>2. /\ load' \in Loads /\ load' # None /\ load'.query = typed /\ load'.read = None
        /\ missed' = FALSE /\ ReadsGrow'
    BY <2>1, LoadStarts
  <2>3. PageTypeOK'
    BY <2>2 DEF CatalogInv, PageTypeOK
  <2>4. LoadsAreCurrent'
    BY <2>2 DEF LoadsAreCurrent
  <2> QED
    BY <2>2, <2>3, <2>4 DEF CatalogInv
<1>2. CASE ~wanted
  <2>1. UNCHANGED <<load, missed>>
    BY <1>2 DEF LoadIf, NoLoad
  <2>2. PageTypeOK' /\ ReadsGrow'
    BY <2>1 DEF CatalogInv, PageTypeOK, ReadsGrow
  <2>3. LoadsAreCurrent'
    BY <1>2, <2>1 DEF CatalogInv, LoadsAreCurrent
  <2> QED
    BY <2>2, <2>3 DEF CatalogInv
<1> QED
  BY <1>1, <1>2

(* A key: the load under way is no longer the newest. *)
LEMMA TypeKeepsInv == ASSUME CatalogInv, NEW q \in Queries, Type(q) PROVE CatalogInv'
<1>1. /\ typed' = q /\ debounce' = TRUE /\ load' = None
      /\ UNCHANGED <<version, news, inCatalog, shown, failed, missed, refresh, routes, post>>
  BY DEF Type, socket
<1>2. PageTypeOK' /\ LoadsAreCurrent' /\ ReadsGrow'
  BY <1>1 DEF CatalogInv, PageTypeOK, LoadsAreCurrent, NothingAhead, ReadsGrow
<1> QED
  BY <1>2 DEF CatalogInv

(* The server answers the newest load. *)
LEMMA ReadKeepsInv == ASSUME CatalogInv, ReadNewest PROVE CatalogInv'
<1>1. /\ load # None /\ load \in Loads /\ version \in Nat
      /\ UNCHANGED <<version, news, inCatalog, typed, debounce, shown, failed, missed, refresh, routes, post>>
      /\ load' = [load EXCEPT !.read = version]
  BY DEF ReadNewest, socket, CatalogInv, PageTypeOK
<1>2. load' \in Loads /\ load' # None /\ load'.query = load.query /\ load'.read = version
  BY <1>1, PageAssumption DEF Loads
<1>3. PageTypeOK'
  BY <1>1, <1>2 DEF CatalogInv, PageTypeOK
<1>4. LoadsAreCurrent'
  BY <1>1, <1>2 DEF CatalogInv, LoadsAreCurrent, NothingAhead
<1>5. ReadsGrow'
  BY <1>1, <1>2 DEF CatalogInv, ReadsGrow
<1> QED
  BY <1>3, <1>4, <1>5 DEF CatalogInv

(* The answer is rendered, or it was an error. *)
LEMMA RenderKeepsInv == ASSUME CatalogInv, Render PROVE CatalogInv'
<1>1. /\ load # None /\ load \in Loads /\ load' = None
      /\ UNCHANGED <<version, news, inCatalog, typed, debounce, missed, refresh, routes, post>>
      /\ \/ load.read # None /\ shown' = load /\ failed' = FALSE
         \/ shown' = shown /\ failed' = TRUE
  BY DEF Render, socket, CatalogInv, PageTypeOK
<1>2. PageTypeOK'
  BY <1>1 DEF CatalogInv, PageTypeOK
<1>3. LoadsAreCurrent'
  <2>1. NothingAhead' => NothingAhead
    BY <1>1 DEF NothingAhead
  <2>2. load = [query |-> load.query, read |-> load.read]
    BY <1>1 DEF Loads
  <2> QED
    BY <1>1, <2>1, <2>2 DEF CatalogInv, LoadsAreCurrent
<1>4. ReadsGrow'
  <2>1. load.read # None => load.read \in Nat
    BY <1>1 DEF Loads
  <2> QED
    BY <1>1, <2>1 DEF CatalogInv, ReadsGrow
<1> QED
  BY <1>2, <1>3, <1>4 DEF CatalogInv

(* A step that leaves what the invariant speaks of alone. *)
LEMMA OtherKeepsInv ==
  ASSUME CatalogInv,
         UNCHANGED <<version, news, inCatalog, typed, debounce, load, shown, failed, missed, refresh, routes, post>>
  PROVE  CatalogInv'
BY DEF CatalogInv, PageTypeOK, LoadsAreCurrent, NothingAhead, ReadsGrow

(* Every step of the catalogue keeps the invariant. *)
LEMMA CatalogStepInv == ASSUME CatalogInv, CatalogStep PROVE CatalogInv'
<1> USE DEF socket
<1>t. PageTypeOK
  BY DEF CatalogInv
<1>1. CASE Change
  BY <1>1, <1>t, PublishKeepsInv DEF Change, PageTypeOK
<1>13. CASE ChangeUnannounced
  BY <1>13, <1>t, SaveKeepsInv DEF ChangeUnannounced, PageTypeOK
<1>2. CASE CatalogSocketStep \/ Deliver
  BY <1>2, SocketKeepsInv, DeliverKeepsInv
<1>3. ASSUME NEW q \in Queries, Type(q) PROVE CatalogInv'
  BY <1>3, TypeKeepsInv
<1>4. CASE DebounceEnds
  BY <1>4, <1>t, LoadKeepsInv DEF DebounceEnds, PageTypeOK, NothingAhead
<1>5. ASSUME NEW catalogue \in BOOLEAN, SwitchView(catalogue) PROVE CatalogInv'
  BY <1>5, <1>t, LoadKeepsInv DEF SwitchView, PageTypeOK, NothingAhead
<1>6. CASE ReadNewest \/ Render
  BY <1>6, ReadKeepsInv, RenderKeepsInv
<1>7. CASE ReadStale \/ Ignore
  BY <1>7, OtherKeepsInv DEF ReadStale, Ignore
<1>8. CASE RefreshEnds
  <2>1. /\ refresh' = FALSE /\ routes' = routes + 1 /\ routes \in Nat
        /\ UNCHANGED <<version, news, inCatalog, typed, debounce, load, shown, failed, missed, post>>
    BY <1>8, <1>t DEF RefreshEnds, PageTypeOK
  <2>2. routes' \in Nat /\ routes' # 0
    BY <2>1
  <2>3. PageTypeOK' /\ LoadsAreCurrent' /\ ReadsGrow'
    BY <2>1, <2>2 DEF CatalogInv, PageTypeOK, LoadsAreCurrent, NothingAhead, ReadsGrow
  <2> QED
    BY <2>3 DEF CatalogInv
<1>9. CASE RoutesLoaded
  <2>1. /\ routes \in Nat /\ routes > 0 /\ routes' = routes - 1
        /\ UNCHANGED <<version, news, inCatalog, typed, debounce, shown, failed, refresh, post>>
        /\ LoadIf(inCatalog) \/ (UNCHANGED <<load, stale>> /\ missed' = TRUE)
    BY <1>9, <1>t DEF RoutesLoaded, PageTypeOK
  <2>2. routes' \in Nat
    BY <2>1
  <2>3. CASE LoadIf(inCatalog)
    BY <2>1, <2>2, <2>3, <1>t, LoadKeepsInv DEF PageTypeOK, NothingAhead
  <2>4. CASE UNCHANGED <<load, stale>> /\ missed' = TRUE
    <3>1. PageTypeOK' /\ LoadsAreCurrent' /\ ReadsGrow'
      BY <2>1, <2>2, <2>4 DEF CatalogInv, PageTypeOK, LoadsAreCurrent, NothingAhead, ReadsGrow
    <3> QED
      BY <3>1 DEF CatalogInv
  <2> QED
    BY <2>1, <2>3, <2>4
<1>10. CASE Toggle
  <2>1. /\ post = "none" /\ post' = "sent"
        /\ UNCHANGED <<version, news, inCatalog, typed, debounce, load, shown, failed, missed, refresh, routes>>
    BY <1>10 DEF Toggle
  <2>2. PageTypeOK' /\ LoadsAreCurrent' /\ ReadsGrow'
    BY <2>1 DEF CatalogInv, PageTypeOK, LoadsAreCurrent, NothingAhead, ReadsGrow
  <2> QED
    BY <2>2 DEF CatalogInv
<1>11. CASE ToggleServed
  BY <1>11, PublishKeepsInv DEF ToggleServed
<1>12. CASE Toggled
  <2>1. /\ post' = "none" /\ LoadIf(post = "done" /\ inCatalog)
        /\ UNCHANGED <<version, news, inCatalog, typed, debounce, shown, failed, refresh, routes>>
    BY <1>12 DEF Toggled
  <2>2. ~(post = "done" /\ inCatalog) /\ NothingAhead' => NothingAhead
    <3>1. CASE post = "done" /\ inCatalog
      BY <3>1
    <3>2. CASE ~(post = "done" /\ inCatalog)
      <4>1. missed' = missed
        BY <2>1, <3>2 DEF LoadIf, NoLoad
      <4> QED
        BY <2>1, <3>2, <4>1 DEF NothingAhead
    <3> QED
      BY <3>1, <3>2
  <2> QED
    BY <2>1, <2>2, <1>t, LoadKeepsInv DEF PageTypeOK
<1> QED
  BY <1>1, <1>2, <1>3, <1>4, <1>5, <1>6, <1>7, <1>8, <1>9, <1>10, <1>11, <1>12, <1>13 DEF CatalogStep

-----------------------------------------------------------------------------
(* The page. *)

DashboardInv == CatalogInv /\ BrowserInv

(* Every step keeps the invariants of the three workspaces. *)
LEMMA DashboardStepInv == DashboardInv /\ [DashboardNext]_dashboard => DashboardInv'
<1> SUFFICES ASSUME DashboardInv, [DashboardNext]_dashboard PROVE DashboardInv'
  OBVIOUS
<1> USE DEF DashboardInv
<1>1. ASSUME UNCHANGED browser PROVE BrowserInv'
  BY <1>1 DEF browser, BrowserInv, PollFollowsSelection
<1>2. ASSUME UNCHANGED <<socket, catalog>> PROVE CatalogInv'
  BY <1>2, OtherKeepsInv DEF socket, catalog
<1>3. CASE CatalogStep /\ UNCHANGED browser
  BY <1>1, <1>3, CatalogStepInv
<1>4. CASE (Change \/ CatalogSocketStep \/ Deliver) /\ UNCHANGED browser
  BY <1>1, <1>4, CatalogStepInv DEF CatalogStep
<1>5. CASE PanelStep /\ UNCHANGED browser
  <2>1. UNCHANGED <<socket, catalog>>
    BY <1>5 DEF PanelStep, AskDetail, AskRow, ClosePanel, DetailAnswered, DetailFailed
  <2> QED
    BY <1>1, <1>2, <1>5, <2>1
<1>6. CASE BrowserStep /\ UNCHANGED <<socket, catalog>>
  BY <1>2, <1>6, BrowserStepInv
<1>7. CASE UNCHANGED dashboard
  BY <1>1, <1>2, <1>7 DEF dashboard
<1> QED
  BY <1>3, <1>4, <1>5, <1>6, <1>7 DEF DashboardNext

(* So they hold in every state. *)
LEMMA DashboardInvariance == DashboardSpec => []DashboardInv
<1>1. DashboardInit => DashboardInv
  BY CatalogInitInv, BrowserInitInv DEF DashboardInit, DashboardInv
<1> QED
  BY <1>1, DashboardStepInv, PTL DEF DashboardSpec

(* Once nothing is under way the catalogue on the screen is for the typed text and the state of *)
(* the server, unless the last load failed or a change since was not announced to the page, or  *)
(* the announcement was lost (loadCatalogView, _ws_broadcast).                                   *)
THEOREM CatalogIsCurrent == DashboardSpec => []CatalogSettles
<1>1. CatalogInv => CatalogSettles
  BY DEF CatalogInv, CatalogSettles, AtRest, LoadsAreCurrent, NothingAhead
<1> QED
  BY <1>1, DashboardInvariance, PTL DEF DashboardInv

(* The picture is polled for a session and for nothing else (browserPollTimer). *)
THEOREM PicturesArePolled == DashboardSpec => []PollFollowsSelection
BY DashboardInvariance, PTL DEF DashboardInv, BrowserInv

(* An answer that comes late never takes the catalogue back, nor moves the panel. *)
THEOREM LateAnswersAreIdle == DashboardSpec => LateAnswersChangeNothing
<1> DEFINE Quiet == /\ shown # None /\ shown' # shown => shown'.read >= shown.read
                    /\ (\E d \in asked : d.kind = "refresh" /\ asked' = asked \ {d}) => panel' = panel
<1>1. CatalogInv /\ [DashboardNext]_dashboard => [Quiet]_<<socket, catalog, detail>>
  <2> SUFFICES ASSUME CatalogInv, DashboardNext, ~UNCHANGED <<socket, catalog, detail>> PROVE Quiet
    BY DEF dashboard
  <2>1. shown # None /\ shown' # shown => shown'.read >= shown.read
    <3>1. CASE Render
      BY <3>1 DEF Render, CatalogInv, ReadsGrow, PageTypeOK, Loads
    <3>2. CASE ~Render
      <4>1. UNCHANGED shown
        BY <3>2
           DEF DashboardNext, CatalogStep, PanelStep, BrowserStep, Change, ChangeUnannounced, CatalogSocketStep,
               Type, DebounceEnds,
               SwitchView, ReadNewest, ReadStale, Ignore, Deliver, RefreshEnds, RoutesLoaded, Toggle,
               ToggleServed, Toggled, AskDetail, AskRow, ClosePanel, DetailAnswered, DetailFailed, catalog
      <4> QED
        BY <4>1
    <3> QED
      BY <3>1, <3>2
  <2>2. ASSUME NEW d \in asked, d.kind = "refresh", asked' = asked \ {d} PROVE panel' = panel
    <3>1. ASSUME NEW d0 \in asked, DetailAnswered(d0) \/ DetailFailed(d0) PROVE panel' = panel
      <4>1. d0 = d
        BY <2>2, <3>1 DEF DetailAnswered, DetailFailed
      <4> QED
        BY <2>2, <3>1, <4>1 DEF DetailAnswered, DetailFailed
    <3>2. ~ClosePanel
      BY <2>2 DEF ClosePanel
    <3>3. CASE CatalogStep
      BY <3>3
         DEF CatalogStep, Change, ChangeUnannounced, CatalogSocketStep, Type, DebounceEnds, SwitchView,
             ReadNewest, ReadStale,
             Render, Ignore, Deliver, RefreshEnds, RoutesLoaded, Toggle, ToggleServed, Toggled, detail
    <3>4. ASSUME NEW s \in Servers, AskDetail(s) \/ AskRow(s) PROVE panel' = panel
      BY <3>4 DEF AskDetail, AskRow
    <3> QED
      BY <3>1, <3>2, <3>3, <3>4 DEF DashboardNext, PanelStep, CatalogStep, detail
  <2> QED
    BY <2>1, <2>2
<1> QED
  BY <1>1, DashboardInvariance, PTL DEF DashboardInv, DashboardSpec, LateAnswersChangeNothing
=============================================================================
