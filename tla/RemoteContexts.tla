--------------------------- MODULE RemoteContexts ---------------------------
(***************************************************************************)
(* Remote contexts and their signed tokens: the store of                   *)
(* control_plane/contexts.py, the tokens of control_plane/tokens.py, the   *)
(* identity authgate.py makes of a token, and the handlers of              *)
(* api/fabric_routes.py that create, revoke and mint with it.              *)
(***************************************************************************)
EXTENDS Naturals, Sequences, FiniteSets

CONSTANTS
    Principals,
    Scopes,
    Segments,      \* what capability names are made of,
    Dot,           \* and what separates it
    Grants,        \* the allowlists that are asked for: sets of entries, {} for none
    Lifetimes,     \* of contexts, in ticks
    Ttls,          \* the lifetimes asked for tokens
    Forever,       \* no expiry, later than every lifetime
    MaxContexts, MaxTokens

Root == 0      \* a caller without a context: an API key, or no authentication

(* Capability names and allowlist entries, without and with "*" at the end. *)
Paths == UNION {[1 .. n -> Segments \cup {Dot}] : n \in 1 .. 3}
Names == [path : {p \in Paths : p[1] # Dot /\ p[Len(p)] # Dot}, glob : {FALSE}]

Entries == [path : Paths, glob : BOOLEAN]

ASSUME ContextsAssumption ==
    /\ Grants \subseteq SUBSET Entries
    /\ Lifetimes \subseteq Nat /\ Ttls \subseteq Nat /\ Forever \in Nat

StartsWith(path, of) == Len(path) >= Len(of) /\ SubSeq(path, 1, Len(of)) = of

Below(path, of) == StartsWith(path, of) /\ Len(path) > Len(of) /\ path[Len(of) + 1] = Dot

Matches(name, entry) ==
    \/ name = entry
    \/ entry.glob /\ StartsWith(name.path, entry.path)
    \/ ~entry.glob /\ Below(name.path, entry.path)

(* capability_allowed; no entries at all is no restriction (identity_from_record). *)
Allows(allowed, name) == allowed = {} \/ \E entry \in allowed : Matches(name, entry)

VARIABLES
    contexts,   \* the rows, in the order of creation: [owner, scopes, allowed, left, revoked, gone, from, lapsed]
    tokens,     \* the tokens handed out: [ctx, left, from, lapsed]
    ownKey,     \* whether each process makes a signing key: neither a secret nor an API key is configured
    request     \* the request in a handler: [token, step, ctx]

access == <<contexts, tokens, ownKey, request>>

NoToken == [ctx |-> Root, left |-> 0, from |-> Root, lapsed |-> FALSE]
Idle == [token |-> NoToken, step |-> "none", ctx |-> Root]

ContextsInit ==
    /\ contexts = << >>
    /\ tokens = {}
    /\ ownKey \in BOOLEAN
    /\ request = Idle

(* is_active; a row that was purged is not found. *)
Active(id) == ~contexts[id].gone /\ ~contexts[id].revoked /\ contexts[id].left > 0

(* verify_token: the expiry and the live row; tokens of another key are not kept (Restart). *)
Verifies(t) == t.left > 0 /\ Active(t.ctx)

(* resolve_request_identity of a handler verifies the token again and drops the error: with one   *)
(* that has died since the request was admitted the caller is one without a context.              *)
Caller == IF request.token.ctx = Root THEN Root
          ELSE IF Verifies(request.token) THEN request.token.ctx ELSE Root

Owns(id) == IF Caller = Root THEN TRUE ELSE contexts[Caller].owner = contexts[id].owner

(* authenticate *)
Admit(t) ==
    /\ request = Idle
    /\ IF t = NoToken THEN TRUE ELSE Verifies(t)
    /\ request' = [token |-> t, step |-> "admitted", ctx |-> Root]
    /\ UNCHANGED <<contexts, tokens, ownKey>>

(* Where the authority of what the request makes comes from: what its token comes from, or, *)
(* without a token, the row itself;                                                          *)
Source(id) == IF request.token.ctx = Root THEN id ELSE request.token.from

(* and whether a token on the way was dead by the time its handler looked. *)
Lapsed == request.token.lapsed \/ (request.token.ctx # Root /\ Caller = Root)

Insert(owner, scopes, allowed, left) ==
    contexts' = Append(contexts,
        [owner |-> owner, scopes |-> scopes, allowed |-> allowed, left |-> left,
         revoked |-> FALSE, gone |-> FALSE, from |-> Source(Len(contexts) + 1), lapsed |-> Lapsed])

(* _attenuate_creation of what a caller with a context asks for. *)
Held(scopes, allowed) ==
    IF Caller = Root THEN TRUE
    ELSE /\ scopes \subseteq contexts[Caller].scopes
         /\ IF contexts[Caller].allowed = {} THEN TRUE
            ELSE \A name \in allowed : Allows(contexts[Caller].allowed, name)

CreateAsAsked(owner, scopes, allowed, left) ==
    /\ request.step = "admitted" /\ Len(contexts) < MaxContexts
    /\ IF Caller = Root THEN TRUE ELSE owner = contexts[Caller].owner
    /\ Held(scopes, allowed)
    /\ Insert(owner, scopes, allowed, left)
    /\ request' = Idle
    /\ UNCHANGED <<tokens, ownKey>>

(* _contexts_create: what is asked for must be held, what is omitted is inherited. *)
Create(owner, scopes, allowed, left) ==
    /\ request.step = "admitted" /\ Len(contexts) < MaxContexts
    /\ IF Caller = Root THEN Insert(owner, scopes, allowed, left)
       ELSE /\ owner = contexts[Caller].owner
            /\ Held(scopes, allowed)
            /\ Insert(owner, IF scopes = {} THEN contexts[Caller].scopes ELSE scopes,
                      IF allowed = {} THEN contexts[Caller].allowed ELSE allowed, left)
    /\ request' = Idle
    /\ UNCHANGED <<tokens, ownKey>>

(* _identity_can_delegate_record *)
CanDelegate(id) ==
    IF Caller = Root THEN TRUE
    ELSE /\ contexts[id].scopes \subseteq contexts[Caller].scopes
         /\ IF contexts[Caller].allowed = {} THEN TRUE
            ELSE /\ contexts[id].allowed # {}
                 /\ \A name \in contexts[id].allowed : Allows(contexts[Caller].allowed, name)

(* _contexts_issue_token up to the store. *)
AskToken(id) ==
    /\ request.step = "admitted" /\ Cardinality(tokens) < MaxTokens
    /\ ~contexts[id].gone /\ Owns(id) /\ CanDelegate(id)
    /\ request' = [token |-> [request.token EXCEPT !.from = Source(id), !.lapsed = Lapsed],
                   step |-> "minting", ctx |-> id]
    /\ UNCHANGED <<contexts, tokens, ownKey>>

Sooner(a, b) == IF a < b THEN a ELSE b

Issue(id, left) ==
    tokens' = tokens \cup {[ctx |-> id, left |-> left, from |-> request.token.from,
                         lapsed |-> request.token.lapsed]}

MintAsChecked(ttl) ==
    /\ request.step = "minting"
    /\ Issue(request.ctx, Sooner(ttl, contexts[request.ctx].left))
    /\ request' = Idle
    /\ UNCHANGED <<contexts, ownKey>>

(* mint_context_token reads the row again, and the token ends with it. *)
Mint(ttl) ==
    /\ request.step = "minting" /\ Active(request.ctx)
    /\ Issue(request.ctx, Sooner(ttl, contexts[request.ctx].left))
    /\ request' = Idle
    /\ UNCHANGED <<contexts, ownKey>>

(* A handler that refuses, or that only reads. *)
Refuse ==
    /\ request # Idle
    /\ request' = Idle
    /\ UNCHANGED <<contexts, tokens, ownKey>>

(* _contexts_revoke and _contexts_delete, of another client, next to the request. *)
Revoke(t, id) ==
    /\ IF t = NoToken THEN TRUE ELSE Verifies(t) /\ contexts[t.ctx].owner = contexts[id].owner
    /\ ~contexts[id].gone
    /\ contexts' = [contexts EXCEPT ![id].revoked = TRUE]
    /\ UNCHANGED <<tokens, ownKey, request>>

(* purge_expired *)
Purge ==
    /\ \E id \in DOMAIN contexts : contexts[id].left = 0 /\ ~contexts[id].gone
    /\ contexts' = [id \in DOMAIN contexts |->
                       [contexts[id] EXCEPT !.gone = @ \/ contexts[id].left = 0]]
    /\ UNCHANGED <<tokens, ownKey, request>>

Later(left) == IF left \in {0, Forever} THEN left ELSE left - 1

(* A tick passes; a token that has expired is not kept, nothing could accept it again. *)
Tick ==
    /\ contexts' = [id \in DOMAIN contexts |-> [contexts[id] EXCEPT !.left = Later(@)]]
    /\ tokens' = {[t EXCEPT !.left = @ - 1] : t \in {u \in tokens : u.left > 1}}
    /\ request' = [request EXCEPT !.token.left = Later(@)]
    /\ UNCHANGED ownKey

(* The process ends and starts again; with a key of its own it accepts no token from before. *)
Restart ==
    /\ tokens' = IF ownKey THEN {} ELSE tokens
    /\ request' = Idle
    /\ UNCHANGED <<contexts, ownKey>>

ContextsStep ==
    \/ \E t \in tokens \cup {NoToken} :
        \/ Admit(t)
        \/ \E id \in DOMAIN contexts : Revoke(t, id)
    \/ \E owner \in Principals, scopes \in SUBSET Scopes, allowed \in Grants, left \in Lifetimes \cup {Forever} :
        Create(owner, scopes, allowed, left)
    \/ \E id \in DOMAIN contexts : AskToken(id)
    \/ \E ttl \in Ttls : Mint(ttl)
    \/ Refuse \/ Purge \/ Tick \/ Restart
-----------------------------------------------------------------------------
Within(id, other) ==
    /\ contexts[id].scopes \subseteq contexts[other].scopes
    /\ \A name \in Names : Allows(contexts[id].allowed, name) => Allows(contexts[other].allowed, name)

Descends(id, it) == it.lapsed \/ Within(id, it.from)

(* Along any chain of contexts created and tokens minted with a token, authority never grows: no  *)
(* scope and no capability is reached that the context at its start did not have, as long as each *)
(* token on the way was alive when its handler looked; and no token outlives its context.         *)
AuthorityShrinks ==
    /\ \A id \in DOMAIN contexts : Descends(id, contexts[id])
    /\ \A t \in tokens : Descends(t.ctx, t) /\ t.left <= contexts[t.ctx].left

(* The same of every token that was accepted.  No run checks it: it fails, for one that dies       *)
(* between authenticate and its handler leaves a caller without bounds.                            *)
AuthorityShrinksThroughout ==
    /\ \A id \in DOMAIN contexts : Within(id, contexts[id].from)
    /\ \A t \in tokens : Within(t.ctx, t.from)

Dead(id) == contexts[id].gone \/ contexts[id].revoked

(* Once a context is revoked or purged, no request is admitted with a token of it and no token is *)
(* minted for it, whatever was under way then, also after a restart.                              *)
RevokedIsFinal ==
    [][\A id \in DOMAIN contexts : Dead(id) =>
        /\ contexts'[id].gone \/ contexts'[id].revoked
        /\ request'.token.ctx = id => request.token.ctx = id
        /\ Cardinality({t \in tokens' : t.ctx = id}) <= Cardinality({t \in tokens : t.ctx = id})]_access
=============================================================================
