------------------------ MODULE RemoteAccess_proofs ------------------------
(***************************************************************************)
(* Safety of RemoteAccess for any principals, scopes, allowlists, callers  *)
(* and bounds, and, in the second part, of SessionTransport.               *)
(*                                                                         *)
(* That authority never grows rests on allowlists being transitive         *)
(* (CoversAllows), and on a request carrying where its authority comes     *)
(* from (RequestSound); that a revoked capability stays quiet, on the row, *)
(* the entry and what a start has read of the row agreeing that it is      *)
(* (RevokedEverywhere).                                                    *)
(***************************************************************************)
EXTENDS RemoteAccess, SessionTransport, FiniteSetTheorems, SequenceTheorems, TLAPS

-----------------------------------------------------------------------------
(* The capability.                                                         *)

GateTypeOK ==
    /\ stored \in Lifecycles \cup {"absent"}
    /\ entry \in Lifecycles \cup {"absent"}
    /\ found \in Lifecycles \cup {"absent"}
    /\ wiring \in {"upsert", "read", "put", "ready"}
    /\ sends \in [Callers -> 0 .. 2]
    /\ revoked \in BOOLEAN

(* A call is under way under the gate alone; only a process that has started has registered. *)
CallsHoldTheGate ==
    /\ \A c \in Callers : sends[c] # 0 => gate = c
    /\ wiring # "ready" => entry = "absent"
    /\ gate = Revoker => stored # "absent"

(* What is revoked is so wherever the next start, or the one under way, takes it from. *)
RevokedEverywhere ==
    revoked => /\ stored \notin {"active", "absent"}
               /\ entry # "active"
               /\ wiring = "put" => found # "active"

GateInv == GateTypeOK /\ CallsHoldTheGate /\ RevokedEverywhere /\ RevokedIsQuiet

(* Nothing is stored and nothing called at the start. *)
LEMMA GateInitInv == GateInit => GateInv
<1> SUFFICES ASSUME GateInit PROVE GateInv
  OBVIOUS
<1>1. GateTypeOK
  <2>1. sends \in [Callers -> 0 .. 2]
    BY DEF GateInit
  <2> QED
    BY <2>1 DEF GateInit, GateTypeOK, Lifecycles
<1>2. CallsHoldTheGate
  BY GateAssumption DEF GateInit, CallsHoldTheGate
<1> QED
  BY <1>1, <1>2 DEF GateInit, GateInv, RevokedEverywhere, RevokedIsQuiet

(* Every step of the capability's lifecycle and calls keeps its invariant. *)
LEMMA GateStepInv == GateInv /\ GateStep => GateInv'
<1> SUFFICES ASSUME GateInv, GateStep PROVE GateInv'
  OBVIOUS
<1> USE GateAssumption
         DEF GateInv, GateTypeOK, CallsHoldTheGate, RevokedEverywhere, RevokedIsQuiet, Lifecycles
<1>1. CASE Upsert
  BY <1>1 DEF Upsert, Wired
<1>2. CASE ReadRow
  BY <1>2 DEF ReadRow, Wired
<1>3. CASE Register
  BY <1>3 DEF Register, Wired
<1>4. ASSUME NEW c \in Callers, Dispatch(c) PROVE GateInv'
  BY <1>4 DEF Dispatch
<1>5. ASSUME NEW c \in Callers, SendAgain(c) PROVE GateInv'
  BY <1>5 DEF SendAgain
<1>6. ASSUME NEW c \in Callers, Ended(c) PROVE GateInv'
  BY <1>6 DEF Ended
<1>7. CASE RevokeRow
  BY <1>7 DEF RevokeRow
<1>8. CASE RevokeEntry
  BY <1>8 DEF RevokeEntry
<1>9. ASSUME NEW s \in Lifecycles, SetLifecycle(s) PROVE GateInv'
  BY <1>9 DEF SetLifecycle
<1>10. CASE StartAgain
  BY <1>10 DEF StartAgain
<1> QED
  BY <1>1, <1>2, <1>3, <1>4, <1>5, <1>6, <1>7, <1>8, <1>9, <1>10 DEF GateStep

-----------------------------------------------------------------------------
(* Allowlists.                                                             *)

(* What starts with a text that starts with a third starts with the third; and if the third ends *)
(* before the second, with what follows it there.                                               *)
LEMMA StartsAreTransitive ==
    ASSUME NEW p \in Paths, NEW q \in Paths, NEW r \in Paths, StartsWith(p, q), StartsWith(q, r)
    PROVE  /\ StartsWith(p, r)
           /\ Len(q) > Len(r) => Len(p) > Len(r) /\ p[Len(r) + 1] = q[Len(r) + 1]
<1> DEFINE Pieces == Segments \cup {Dot}
<1>1. p \in Seq(Pieces) /\ q \in Seq(Pieces) /\ r \in Seq(Pieces)
  <2>1. ASSUME NEW s \in Paths PROVE s \in Seq(Pieces)
    <3>1. PICK n \in 1 .. 3 : s \in [1 .. n -> Pieces]
      BY DEF Paths
    <3> QED
      BY <3>1
  <2> QED
    BY <2>1
<1> HIDE DEF Pieces
<1>2. Len(p) >= Len(q) /\ Len(q) >= Len(r) /\ Len(r) \in Nat /\ Len(q) \in Nat /\ Len(p) \in Nat
  BY <1>1 DEF StartsWith
<1>3. \A i \in 1 .. Len(r) : SubSeq(q, 1, Len(r))[i] = q[i]
  BY <1>1, <1>2
<1>4. \A i \in 1 .. Len(q) : SubSeq(p, 1, Len(q))[i] = p[i]
  BY <1>1, <1>2
<1>5. \A i \in 1 .. Len(q) : p[i] = q[i]
  BY <1>4 DEF StartsWith
<1>6. \A i \in 1 .. Len(r) : p[i] = r[i]
  BY <1>2, <1>3, <1>5 DEF StartsWith
<1>7. SubSeq(p, 1, Len(r)) = [i \in 1 .. Len(r) |-> p[i]]
  BY <1>1, <1>2
<1>8. r = [i \in 1 .. Len(r) |-> r[i]]
  BY <1>1
<1> QED
  BY <1>2, <1>5, <1>6, <1>7, <1>8 DEF StartsWith

(* What matches an entry matches every entry that the first one matches. *)
LEMMA MatchesIsTransitive ==
    ASSUME NEW name \in Names, NEW e \in Entries, NEW f \in Entries,
           Matches(name, e), Matches(e, f)
    PROVE  Matches(name, f)
<1>1. name.path \in Paths /\ e.path \in Paths /\ f.path \in Paths
  BY DEF Names, Entries
<1>2. CASE name = e \/ e = f
  BY <1>2
<1>3. CASE name # e /\ e # f
  <2>1. StartsWith(name.path, e.path) /\ StartsWith(e.path, f.path)
    BY <1>3 DEF Matches, Below
  <2>2. /\ StartsWith(name.path, f.path)
        /\ Len(e.path) > Len(f.path) =>
             Len(name.path) > Len(f.path) /\ name.path[Len(f.path) + 1] = e.path[Len(f.path) + 1]
    BY <1>1, <2>1, StartsAreTransitive
  <2> QED
    BY <1>3, <2>2 DEF Matches, Below
<1> QED
  BY <1>2, <1>3

Covers(narrow, wide) ==
    \/ wide = {}
    \/ narrow # {} /\ \A e \in narrow : Allows(wide, e)

(* An allowlist whose every entry is allowed by another allows no more than the other. *)
LEMMA CoversAllows ==
    ASSUME NEW narrow \in SUBSET Entries, NEW wide \in SUBSET Entries, Covers(narrow, wide),
           NEW name \in Names, Allows(narrow, name)
    PROVE  Allows(wide, name)
<1>1. CASE wide = {}
  BY <1>1 DEF Allows
<1>2. CASE wide # {} /\ narrow # {} /\ \A e \in narrow : Allows(wide, e)
  <2>1. PICK e \in narrow : Matches(name, e)
    BY <1>2 DEF Allows
  <2>2. PICK f \in wide : Matches(e, f)
    BY <1>2 DEF Allows
  <2> QED
    BY <2>1, <2>2, MatchesIsTransitive DEF Allows
<1> QED
  BY <1>1, <1>2 DEF Covers

-----------------------------------------------------------------------------
(* Contexts and tokens.                                                    *)

ContextRows ==
    [owner : Principals, scopes : SUBSET Scopes, allowed : SUBSET Entries, left : Nat,
     revoked : BOOLEAN, gone : BOOLEAN, from : Nat, lapsed : BOOLEAN]

TokenRecords == [ctx : Nat, left : Nat, from : Nat, lapsed : BOOLEAN]

RequestTypeOK ==
    request \in [token : TokenRecords, step : {"none", "admitted", "minting"}, ctx : Nat]

ContextsTypeOK ==
    /\ contexts \in Seq(ContextRows)
    /\ tokens \subseteq TokenRecords /\ IsFiniteSet(tokens)
    /\ RequestTypeOK

(* A row is within the row it came from, unless a token had died on the way, *)
RowsSound ==
    \A id \in DOMAIN contexts :
        contexts[id].from \in DOMAIN contexts /\ Descends(id, contexts[id])

(* and a token too, which ends with its context. *)
TokensSound ==
    \A t \in tokens :
        /\ t.ctx \in DOMAIN contexts /\ t.from \in DOMAIN contexts
        /\ Descends(t.ctx, t)
        /\ t.left <= contexts[t.ctx].left

(* A request has the authority of its token, and a token to be minted that of the request. *)
RequestSound ==
    /\ request.step = "admitted" /\ request.token.ctx # Root =>
         /\ request.token.ctx \in DOMAIN contexts /\ request.token.from \in DOMAIN contexts
         /\ Descends(request.token.ctx, request.token)
    /\ request.step = "minting" =>
         /\ request.ctx \in DOMAIN contexts /\ request.token.from \in DOMAIN contexts
         /\ Descends(request.ctx, request.token)

AccessInv == ContextsTypeOK /\ RowsSound /\ TokensSound /\ RequestSound

(* There are no contexts at the start. *)
LEMMA ContextsInitInv == ContextsInit => AccessInv
<1> SUFFICES ASSUME ContextsInit PROVE AccessInv
  OBVIOUS
<1>1. DOMAIN contexts = {} /\ contexts \in Seq(ContextRows)
  BY DEF ContextsInit
<1>2. tokens = {} /\ IsFiniteSet(tokens)
  BY FS_EmptySet DEF ContextsInit
<1>3. request \in [token : TokenRecords, step : {"none", "admitted", "minting"}, ctx : Nat]
  BY DEF ContextsInit, Idle, NoToken, Root, TokenRecords
<1>4. ContextsTypeOK
  BY <1>1, <1>2, <1>3 DEF ContextsTypeOK, RequestTypeOK, ContextsInit
<1>5. RowsSound /\ TokensSound
  BY <1>1, <1>2 DEF RowsSound, TokensSound
<1>6. RequestSound
  BY DEF ContextsInit, Idle, RequestSound
<1> QED
  BY <1>4, <1>5, <1>6 DEF AccessInv

(* The rows as they were, up to their expiry and their end. *)
AuthorityKept ==
    /\ DOMAIN contexts \subseteq DOMAIN contexts'
    /\ \A id \in DOMAIN contexts :
         /\ contexts'[id].scopes = contexts[id].scopes
         /\ contexts'[id].allowed = contexts[id].allowed
         /\ contexts'[id].from = contexts[id].from
         /\ contexts'[id].lapsed = contexts[id].lapsed

(* The authority of one context over another depends on nothing else. *)
LEMMA WithinIsKept ==
    ASSUME AuthorityKept, NEW id \in DOMAIN contexts, NEW other \in DOMAIN contexts
    PROVE  Within(id, other) => Within(id, other)'
BY DEF AuthorityKept, Within, Allows

(* Hence a request keeps what it has, *)
LEMMA RequestSoundIsKept ==
    ASSUME AuthorityKept, RequestSound, request'.step = request.step,
           request'.ctx = request.ctx, request'.token.ctx = request.token.ctx,
           request'.token.from = request.token.from, request'.token.lapsed = request.token.lapsed
    PROVE  RequestSound'
<1>1. request.step = "admitted" /\ request.token.ctx # Root =>
         /\ request.token.ctx \in DOMAIN contexts' /\ request.token.from \in DOMAIN contexts'
         /\ request.token.lapsed \/ Within(request.token.ctx, request.token.from)'
  BY WithinIsKept DEF RequestSound, AuthorityKept, Descends
<1>2. request.step = "minting" =>
         /\ request.ctx \in DOMAIN contexts' /\ request.token.from \in DOMAIN contexts'
         /\ request.token.lapsed \/ Within(request.ctx, request.token.from)'
  BY WithinIsKept DEF RequestSound, AuthorityKept, Descends
<1> QED
  BY <1>1, <1>2 DEF RequestSound, Descends, Within, Allows

(* and one that has ended needs nothing. *)
LEMMA IdleIsSound == request' = Idle => RequestSound'
BY DEF Idle, RequestSound

(* A caller has a token of a context that is there, and within where it came from. *)
LEMMA CallerIsKnown ==
    ASSUME RequestSound, request.step = "admitted", Caller # Root
    PROVE  /\ Caller = request.token.ctx
           /\ Caller \in DOMAIN contexts /\ request.token.from \in DOMAIN contexts
           /\ Descends(Caller, request.token)
           /\ Lapsed <=> request.token.lapsed
BY DEF RequestSound, Caller, Lapsed

(* A step that adds no row leaves the rows within each other. *)
LEMMA RowsAreKept ==
    ASSUME AuthorityKept, RowsSound, DOMAIN contexts' = DOMAIN contexts
    PROVE  RowsSound'
<1>1. ASSUME NEW id \in DOMAIN contexts
      PROVE  \E o \in DOMAIN contexts' :
                o = contexts'[id].from /\ (contexts'[id].lapsed \/ Within(id, o)')
  <2>1. PICK o \in DOMAIN contexts :
          o = contexts[id].from /\ (contexts[id].lapsed \/ Within(id, o))
    BY DEF RowsSound, Descends
  <2>2. Within(id, o) => Within(id, o)'
    BY WithinIsKept
  <2>3. contexts'[id].from = o /\ contexts'[id].lapsed = contexts[id].lapsed
    BY <2>1 DEF AuthorityKept
  <2> QED
    BY <2>1, <2>2, <2>3
<1> QED
  BY <1>1 DEF RowsSound, Descends, Within

(* Tokens that were there, or made to end sooner, are still within the contexts they came from. *)
LEMMA TokensAreKept ==
    ASSUME AuthorityKept, TokensSound,
           \A t \in tokens' : /\ t.left <= contexts'[t.ctx].left
                              /\ \E u \in tokens : t.ctx = u.ctx /\ t.from = u.from /\ t.lapsed = u.lapsed
    PROVE  TokensSound'
<1>1. ASSUME NEW t \in tokens'
      PROVE  /\ t.ctx \in DOMAIN contexts' /\ t.from \in DOMAIN contexts'
             /\ t.lapsed \/ Within(t.ctx, t.from)'
             /\ t.left <= contexts'[t.ctx].left
  <2>1. PICK u \in tokens : t.ctx = u.ctx /\ t.from = u.from /\ t.lapsed = u.lapsed
    OBVIOUS
  <2>2. u.ctx \in DOMAIN contexts /\ u.from \in DOMAIN contexts
        /\ (u.lapsed \/ Within(u.ctx, u.from))
    BY DEF TokensSound, Descends
  <2>3. t.lapsed \/ Within(t.ctx, t.from)'
    BY <2>1, <2>2, WithinIsKept DEF Within
  <2> QED
    BY <2>1, <2>2, <2>3 DEF AuthorityKept
<1> QED
  BY <1>1 DEF TokensSound, Descends, Within

(* A step of requests alone. *)
LEMMA RequestStep ==
    ASSUME AccessInv, UNCHANGED <<contexts, tokens>>, RequestTypeOK', RequestSound'
    PROVE  AccessInv'
<1>1. AuthorityKept
  BY DEF AuthorityKept
<1>2. RowsSound'
  BY <1>1, RowsAreKept DEF AccessInv
<1>3. TokensSound'
  <2>1. \A t \in tokens' : /\ t.left <= contexts'[t.ctx].left
                           /\ \E u \in tokens : t.ctx = u.ctx /\ t.from = u.from /\ t.lapsed = u.lapsed
    BY DEF AccessInv, TokensSound
  <2> QED
    BY <1>1, <2>1, TokensAreKept DEF AccessInv
<1>4. ContextsTypeOK'
  BY DEF AccessInv, ContextsTypeOK, RequestTypeOK
<1> QED
  BY <1>2, <1>3, <1>4 DEF AccessInv

(* authenticate *)
LEMMA AdmitStep ==
    ASSUME AccessInv, NEW t \in tokens \cup {NoToken}, Admit(t) PROVE AccessInv'
<1>1. request' = [token |-> t, step |-> "admitted", ctx |-> Root]
  BY DEF Admit
<1>2. UNCHANGED <<contexts, tokens>>
  BY DEF Admit
<1>3. NoToken \in TokenRecords /\ NoToken.ctx = Root
  BY DEF NoToken, TokenRecords, Root
<1>4. RequestTypeOK'
  BY <1>1, <1>3 DEF RequestTypeOK, AccessInv, ContextsTypeOK, Root
<1>5. RequestSound'
  <2>1. t.ctx # Root => /\ t.ctx \in DOMAIN contexts /\ t.from \in DOMAIN contexts
                        /\ Descends(t.ctx, t)
    BY <1>3 DEF AccessInv, TokensSound
  <2> QED
    BY <1>1, <1>2, <2>1 DEF RequestSound, Descends, Within, Allows
<1> QED
  BY <1>2, <1>4, <1>5, RequestStep

(* A context whose scopes and entries the caller holds is within the caller. *)
LEMMA DelegatedIsWithin ==
    ASSUME AccessInv, NEW id \in DOMAIN contexts, NEW by \in DOMAIN contexts,
           contexts[id].scopes \subseteq contexts[by].scopes,
           Covers(contexts[id].allowed, contexts[by].allowed)
    PROVE  Within(id, by)
<1>1. contexts[id] \in ContextRows /\ contexts[by] \in ContextRows
  BY DEF AccessInv, ContextsTypeOK
<1>2. contexts[id].allowed \in SUBSET Entries /\ contexts[by].allowed \in SUBSET Entries
  BY <1>1 DEF ContextRows
<1> QED
  BY <1>2, CoversAllows DEF Within

(* _contexts_issue_token up to the store. *)
LEMMA AskTokenStep ==
    ASSUME AccessInv, NEW id \in DOMAIN contexts, AskToken(id) PROVE AccessInv'
<1>1. /\ request.step = "admitted" /\ CanDelegate(id)
      /\ request' = [token |-> [request.token EXCEPT !.from = Source(id), !.lapsed = Lapsed],
                     step |-> "minting", ctx |-> id]
      /\ UNCHANGED <<contexts, tokens>>
  BY DEF AskToken
<1>2. Source(id) \in DOMAIN contexts /\ (Lapsed \/ Within(id, Source(id)))
  <2>1. CASE request.token.ctx = Root
    BY <2>1 DEF Source, Within
  <2>2. CASE request.token.ctx # Root /\ Caller = Root
    BY <1>1, <2>2 DEF Source, Lapsed, AccessInv, RequestSound
  <2>3. CASE Caller # Root
    <3>1. /\ Caller \in DOMAIN contexts /\ request.token.from \in DOMAIN contexts
          /\ request.token.lapsed \/ Within(Caller, request.token.from)
          /\ Caller = request.token.ctx
      BY <1>1, <2>3, CallerIsKnown DEF AccessInv, Descends
    <3>2. Within(id, Caller)
      BY <1>1, <2>3, <3>1, DelegatedIsWithin DEF CanDelegate, Covers
    <3>3. request.token.lapsed \/ Within(id, request.token.from)
      BY <3>1, <3>2 DEF Within
    <3> QED
      BY <2>3, <3>1, <3>3 DEF Source, Lapsed
  <2> QED
    BY <2>1, <2>2, <2>3
<1>3. id \in Nat /\ Source(id) \in Nat
  BY <1>2 DEF AccessInv, ContextsTypeOK
<1>4. request'.token \in TokenRecords /\ request'.token.from = Source(id) /\ request'.token.lapsed = Lapsed
  <2>1. request.token \in TokenRecords
    BY DEF AccessInv, ContextsTypeOK, RequestTypeOK
  <2>2. Lapsed \in BOOLEAN
    BY <2>1 DEF Lapsed, TokenRecords
  <2> QED
    BY <1>1, <1>3, <2>1, <2>2 DEF TokenRecords
<1>5. RequestTypeOK'
  BY <1>1, <1>3, <1>4 DEF RequestTypeOK
<1>6. RequestSound'
  <2>1. PICK o, l : o = Source(id) /\ l = Lapsed
    OBVIOUS
  <2>2. o \in DOMAIN contexts' /\ (l \/ Within(id, o)')
    BY <1>1, <1>2, <2>1 DEF Within, Allows
  <2>3. request'.step = "minting" /\ request'.ctx = id /\ request'.token.from = o /\ request'.token.lapsed = l
    BY <1>1, <1>4, <2>1
  <2> QED
    BY <1>1, <2>2, <2>3 DEF RequestSound, Descends, Within
<1> QED
  BY <1>1, <1>5, <1>6, RequestStep

(* A refusal, and the end of the process. *)
LEMMA EndStep == AccessInv /\ (Refuse \/ Restart) => AccessInv'
<1> SUFFICES ASSUME AccessInv, Refuse \/ Restart PROVE AccessInv'
  OBVIOUS
<1>1. request' = Idle /\ UNCHANGED contexts /\ tokens' \subseteq tokens
  BY DEF Refuse, Restart
<1>2. RequestTypeOK'
  BY <1>1 DEF RequestTypeOK, Idle, NoToken, Root, TokenRecords
<1>3. RequestSound'
  BY <1>1, IdleIsSound
<1>4. AuthorityKept
  BY <1>1 DEF AuthorityKept
<1>5. RowsSound'
  BY <1>1, <1>4, RowsAreKept DEF AccessInv
<1>6. TokensSound'
  <2>1. \A t \in tokens' : /\ t.left <= contexts'[t.ctx].left
                           /\ \E u \in tokens : t.ctx = u.ctx /\ t.from = u.from /\ t.lapsed = u.lapsed
    BY <1>1 DEF AccessInv, TokensSound
  <2> QED
    BY <1>4, <2>1, TokensAreKept DEF AccessInv
<1>7. ContextsTypeOK'
  BY <1>1, <1>2, FS_Subset DEF AccessInv, ContextsTypeOK
<1> QED
  BY <1>3, <1>5, <1>6, <1>7 DEF AccessInv

(* A row added that is its own origin, or within the one it names, or made after a token had died. *)
LEMMA InsertStep ==
    ASSUME AccessInv, NEW row \in ContextRows, contexts' = Append(contexts, row),
           UNCHANGED tokens, request' = Idle,
           \/ row.from = Len(contexts) + 1
           \/ row.from \in DOMAIN contexts /\ row.lapsed
           \/ /\ row.from \in DOMAIN contexts
              /\ row.scopes \subseteq contexts[row.from].scopes
              /\ \A name \in Names :
                    Allows(row.allowed, name) => Allows(contexts[row.from].allowed, name)
    PROVE  AccessInv'
<1>0. PICK new \in Nat : new = Len(contexts) + 1
  BY DEF AccessInv, ContextsTypeOK
<1>1. /\ contexts \in Seq(ContextRows) /\ contexts' \in Seq(ContextRows)
      /\ DOMAIN contexts' = DOMAIN contexts \cup {new} /\ new \notin DOMAIN contexts
      /\ contexts'[new] = row
      /\ \A id \in DOMAIN contexts : contexts'[id] = contexts[id]
  BY <1>0 DEF AccessInv, ContextsTypeOK
<1>2. AuthorityKept
  BY <1>1 DEF AuthorityKept
<1>3. \E o \in DOMAIN contexts' : o = row.from /\ (row.lapsed \/ Within(new, o)')
  <2>1. CASE row.from = new
    BY <1>1, <2>1 DEF Within
  <2>2. CASE row.from \in DOMAIN contexts /\ row.lapsed
    BY <1>1, <2>2
  <2>3. CASE row.from # new /\ ~row.lapsed
    <3>1. PICK o \in DOMAIN contexts :
            /\ o = row.from /\ row.scopes \subseteq contexts[o].scopes
            /\ \A name \in Names : Allows(row.allowed, name) => Allows(contexts[o].allowed, name)
      BY <1>0, <2>3
    <3>2. contexts'[o] = contexts[o] /\ contexts'[new] = row
      BY <1>1, <3>1
    <3>3. Within(new, o)'
      BY <3>1, <3>2 DEF Within, Allows
    <3> QED
      BY <1>1, <3>1, <3>3
  <2> QED
    BY <1>0, <2>1, <2>2, <2>3
<1>4. RowsSound'
  <2>1. ASSUME NEW id \in DOMAIN contexts'
        PROVE  \E o \in DOMAIN contexts' :
                  o = contexts'[id].from /\ (contexts'[id].lapsed \/ Within(id, o)')
    <3>1. CASE id = new
      BY <1>1, <1>3, <3>1 DEF Within
    <3>2. CASE id \in DOMAIN contexts
      <4>1. PICK o \in DOMAIN contexts :
              o = contexts[id].from /\ (contexts[id].lapsed \/ Within(id, o))
        BY <3>2 DEF AccessInv, RowsSound, Descends
      <4>2. Within(id, o) => Within(id, o)'
        BY <1>2, <3>2, <4>1, WithinIsKept
      <4> QED
        BY <1>1, <3>2, <4>1, <4>2
    <3> QED
      BY <1>1, <3>1, <3>2
  <2> QED
    BY <2>1 DEF RowsSound, Descends, Within
<1>5. TokensSound'
  <2>1. \A t \in tokens' : /\ t.left <= contexts'[t.ctx].left
                           /\ \E u \in tokens : t.ctx = u.ctx /\ t.from = u.from /\ t.lapsed = u.lapsed
    BY <1>1 DEF AccessInv, TokensSound
  <2> QED
    BY <1>2, <2>1, TokensAreKept DEF AccessInv
<1>6. RequestTypeOK'
  BY DEF RequestTypeOK, Idle, NoToken, Root, TokenRecords
<1>7. ContextsTypeOK'
  BY <1>1, <1>6 DEF AccessInv, ContextsTypeOK
<1> QED
  BY <1>4, <1>5, <1>7, IdleIsSound DEF AccessInv

(* _contexts_create: without a context anything is a start; with one, what was asked for is held, *)
(* and what was not is inherited.                                                                 *)
LEMMA CreateStep ==
    ASSUME AccessInv, NEW owner \in Principals, NEW scopes \in SUBSET Scopes,
           NEW allowed \in Grants, NEW left \in Lifetimes \cup {Forever},
           Create(owner, scopes, allowed, left)
    PROVE  AccessInv'
<1>1. request.step = "admitted" /\ request' = Idle /\ UNCHANGED tokens
  BY DEF Create
<1>2. allowed \in SUBSET Entries /\ left \in Nat /\ Len(contexts) + 1 \in Nat
  BY ContextsAssumption DEF AccessInv, ContextsTypeOK
<1>3. CASE Caller = Root
  <2> DEFINE row == [owner |-> owner, scopes |-> scopes, allowed |-> allowed, left |-> left,
                     revoked |-> FALSE, gone |-> FALSE, from |-> Source(Len(contexts) + 1),
                     lapsed |-> Lapsed]
  <2>1. contexts' = Append(contexts, row)
    BY <1>3 DEF Create, Insert
  <2>2. \/ request.token.ctx = Root /\ Source(Len(contexts) + 1) = Len(contexts) + 1
        \/ Source(Len(contexts) + 1) \in DOMAIN contexts /\ Lapsed
    BY <1>1, <1>3 DEF Source, Lapsed, AccessInv, RequestSound
  <2>3. Source(Len(contexts) + 1) \in Nat
    BY <1>2, <2>2 DEF AccessInv, ContextsTypeOK
  <2>4. Lapsed \in BOOLEAN
    BY DEF Lapsed, AccessInv, ContextsTypeOK, RequestTypeOK, TokenRecords
  <2>5. row \in ContextRows
    BY <1>2, <2>3, <2>4 DEF ContextRows
  <2>6. row.from = Source(Len(contexts) + 1) /\ row.lapsed = Lapsed
    OBVIOUS
  <2> HIDE DEF row
  <2> QED
    BY <1>1, <2>1, <2>2, <2>5, <2>6, InsertStep
<1>4. CASE Caller # Root
  <2> DEFINE s == IF scopes = {} THEN contexts[Caller].scopes ELSE scopes
             a == IF allowed = {} THEN contexts[Caller].allowed ELSE allowed
             row == [owner |-> owner, scopes |-> s, allowed |-> a, left |-> left,
                     revoked |-> FALSE, gone |-> FALSE, from |-> request.token.from,
                     lapsed |-> request.token.lapsed]
  <2>2. /\ Caller \in DOMAIN contexts /\ request.token.from \in DOMAIN contexts
        /\ request.token.lapsed \/ Within(Caller, request.token.from)
        /\ Caller = request.token.ctx /\ (Lapsed <=> request.token.lapsed)
    BY <1>1, <1>4, CallerIsKnown DEF AccessInv, Descends
  <2>3. contexts[Caller] \in ContextRows /\ request.token.from \in Nat /\ request.token.lapsed \in BOOLEAN
    BY <2>2 DEF AccessInv, ContextsTypeOK, RequestTypeOK, TokenRecords
  <2>0. Lapsed = request.token.lapsed
    BY <2>2, <2>3 DEF Lapsed
  <2>1. contexts' = Append(contexts, row) /\ Held(scopes, allowed)
    BY <1>4, <2>0, <2>2 DEF Create, Insert, Source
  <2>4. contexts[Caller].scopes \in SUBSET Scopes /\ contexts[Caller].allowed \in SUBSET Entries
    BY <2>3 DEF ContextRows
  <2>5. s \in SUBSET Scopes /\ s \subseteq contexts[Caller].scopes
    BY <1>4, <2>1, <2>4 DEF Held
  <2>6. a \in SUBSET Entries
    BY <1>2, <2>4
  <2>7. ASSUME NEW name \in Names, Allows(a, name) PROVE Allows(contexts[Caller].allowed, name)
    <3>1. CASE allowed = {}
      BY <2>7, <3>1
    <3>2. CASE allowed # {}
      <4>1. a = allowed /\ Covers(a, contexts[Caller].allowed)
        BY <1>4, <2>1, <3>2 DEF Held, Covers
      <4> HIDE DEF a
      <4> QED
        BY <2>4, <2>6, <2>7, <4>1, CoversAllows
    <3> QED
      BY <3>1, <3>2
  <2> HIDE DEF s, a
  <2>8. row \in ContextRows
    BY <1>2, <2>3, <2>5, <2>6 DEF ContextRows
  <2>9. row.scopes = s /\ row.allowed = a /\ row.from = request.token.from
        /\ row.lapsed = request.token.lapsed
    OBVIOUS
  <2> HIDE DEF row
  <2>10. \/ row.lapsed
         \/ /\ row.scopes \subseteq contexts[row.from].scopes
            /\ \A name \in Names :
                  Allows(row.allowed, name) => Allows(contexts[row.from].allowed, name)
    BY <2>2, <2>5, <2>7, <2>9 DEF Within
  <2> QED
    BY <1>1, <2>1, <2>2, <2>8, <2>9, <2>10, InsertStep
<1> QED
  BY <1>3, <1>4

(* mint_context_token: the token is within where the request came from, and ends with its context. *)
LEMMA MintStep ==
    ASSUME AccessInv, NEW ttl \in Ttls, Mint(ttl) PROVE AccessInv'
<1> DEFINE t == [ctx |-> request.ctx, left |-> Sooner(ttl, contexts[request.ctx].left),
                 from |-> request.token.from, lapsed |-> request.token.lapsed]
<1>1. /\ request.step = "minting" /\ tokens' = tokens \cup {t} /\ request' = Idle
      /\ UNCHANGED contexts
  BY DEF Mint, Issue
<1>2. /\ request.ctx \in DOMAIN contexts /\ request.token.from \in DOMAIN contexts
      /\ Descends(request.ctx, request.token)
  BY <1>1 DEF AccessInv, RequestSound
<1>3. contexts[request.ctx] \in ContextRows
  BY <1>2 DEF AccessInv, ContextsTypeOK
<1>4. contexts[request.ctx].left \in Nat /\ ttl \in Nat
  BY <1>3, ContextsAssumption DEF ContextRows
<1>5. t.left \in Nat /\ t.left <= contexts[request.ctx].left
  BY <1>4 DEF Sooner
<1>6. t \in TokenRecords
  BY <1>2, <1>5 DEF TokenRecords, AccessInv, ContextsTypeOK, RequestTypeOK
<1>7. t.ctx = request.ctx /\ t.from = request.token.from /\ t.lapsed = request.token.lapsed
  OBVIOUS
<1> HIDE DEF t
<1>8. AuthorityKept
  BY <1>1 DEF AuthorityKept
<1>9. RowsSound'
  BY <1>1, <1>8, RowsAreKept DEF AccessInv
<1>10. \A u \in tokens \cup {t} :
         /\ u.ctx \in DOMAIN contexts /\ u.from \in DOMAIN contexts
         /\ Descends(u.ctx, u) /\ u.left <= contexts[u.ctx].left
  BY <1>2, <1>5, <1>7 DEF AccessInv, TokensSound, Descends
<1>11. TokensSound'
  BY <1>1, <1>10 DEF TokensSound, Descends, Within, Allows
<1>12. IsFiniteSet(tokens')
  BY <1>1, FS_AddElement DEF AccessInv, ContextsTypeOK
<1>13. RequestTypeOK'
  BY <1>1 DEF RequestTypeOK, Idle, NoToken, Root, TokenRecords
<1>14. ContextsTypeOK'
  BY <1>1, <1>6, <1>12, <1>13 DEF AccessInv, ContextsTypeOK
<1> QED
  BY <1>1, <1>9, <1>11, <1>14, IdleIsSound DEF AccessInv

(* A step that writes no more than the end of rows. *)
LEMMA RowsEndStep ==
    ASSUME AccessInv, AuthorityKept, contexts' \in Seq(ContextRows),
           DOMAIN contexts' = DOMAIN contexts,
           \A id \in DOMAIN contexts : contexts'[id].left = contexts[id].left,
           UNCHANGED <<tokens, request>>
    PROVE  AccessInv'
<1>1. RowsSound'
  BY RowsAreKept DEF AccessInv
<1>2. TokensSound'
  <2>1. \A t \in tokens' : /\ t.left <= contexts'[t.ctx].left
                           /\ \E u \in tokens : t.ctx = u.ctx /\ t.from = u.from /\ t.lapsed = u.lapsed
    BY DEF AccessInv, TokensSound
  <2> QED
    BY <2>1, TokensAreKept DEF AccessInv
<1>3. RequestSound'
  BY RequestSoundIsKept DEF AccessInv
<1>4. ContextsTypeOK'
  BY DEF AccessInv, ContextsTypeOK, RequestTypeOK
<1> QED
  BY <1>1, <1>2, <1>3, <1>4 DEF AccessInv

(* _contexts_revoke and _contexts_delete *)
LEMMA RevokeStep ==
    ASSUME AccessInv, NEW t \in tokens \cup {NoToken}, NEW id \in DOMAIN contexts, Revoke(t, id)
    PROVE  AccessInv'
<1>1. contexts' = [contexts EXCEPT ![id].revoked = TRUE] /\ UNCHANGED <<tokens, request>>
  BY DEF Revoke
<1>2. contexts \in Seq(ContextRows)
  BY DEF AccessInv, ContextsTypeOK
<1>3. /\ DOMAIN contexts' = DOMAIN contexts
      /\ \A i \in DOMAIN contexts : contexts'[i] = IF i = id THEN [contexts[id] EXCEPT !.revoked = TRUE]
                                                  ELSE contexts[i]
  BY <1>1, <1>2
<1>4. ASSUME NEW i \in DOMAIN contexts
      PROVE  /\ contexts'[i] \in ContextRows
             /\ contexts'[i].scopes = contexts[i].scopes
             /\ contexts'[i].allowed = contexts[i].allowed
             /\ contexts'[i].from = contexts[i].from
             /\ contexts'[i].lapsed = contexts[i].lapsed
             /\ contexts'[i].left = contexts[i].left
  <2>1. contexts[i] \in ContextRows
    BY <1>2
  <2>2. CASE i = id
    <3>1. contexts'[i] = [contexts[i] EXCEPT !.revoked = TRUE]
      BY <1>3, <2>2
    <3> QED
      BY <2>1, <3>1 DEF ContextRows
  <2>3. CASE i # id
    BY <1>3, <2>1, <2>3
  <2> QED
    BY <2>2, <2>3
<1>5. contexts' \in Seq(ContextRows)
  <2>1. DOMAIN contexts = 1 .. Len(contexts) /\ Len(contexts) \in Nat
    BY <1>2
  <2>2. contexts' \in [1 .. Len(contexts) -> ContextRows]
    BY <1>1, <1>4, <2>1
  <2> QED
    BY <2>1, <2>2
<1>6. AuthorityKept
  BY <1>3, <1>4 DEF AuthorityKept
<1> QED
  BY <1>1, <1>3, <1>4, <1>5, <1>6, RowsEndStep

(* purge_expired *)
LEMMA PurgeStep == AccessInv /\ Purge => AccessInv'
<1> SUFFICES ASSUME AccessInv, Purge PROVE AccessInv'
  OBVIOUS
<1>1. /\ contexts' = [i \in DOMAIN contexts |->
                         [contexts[i] EXCEPT !.gone = @ \/ contexts[i].left = 0]]
      /\ UNCHANGED <<tokens, request>>
  BY DEF Purge
<1>2. contexts \in Seq(ContextRows)
  BY DEF AccessInv, ContextsTypeOK
<1>3. ASSUME NEW i \in DOMAIN contexts
      PROVE  /\ contexts'[i] \in ContextRows
             /\ contexts'[i].scopes = contexts[i].scopes
             /\ contexts'[i].allowed = contexts[i].allowed
             /\ contexts'[i].from = contexts[i].from
             /\ contexts'[i].lapsed = contexts[i].lapsed
             /\ contexts'[i].left = contexts[i].left
  <2>1. contexts[i] \in ContextRows
    BY <1>2
  <2>2. (contexts[i].gone \/ contexts[i].left = 0) \in BOOLEAN
    OBVIOUS
  <2>3. contexts'[i] = [contexts[i] EXCEPT !.gone = @ \/ contexts[i].left = 0]
    BY <1>1
  <2> QED
    BY <2>1, <2>2, <2>3 DEF ContextRows
<1>4. DOMAIN contexts' = DOMAIN contexts
  BY <1>1
<1>5. contexts' \in Seq(ContextRows)
  <2>1. DOMAIN contexts = 1 .. Len(contexts) /\ Len(contexts) \in Nat
    BY <1>2
  <2>2. contexts' \in [1 .. Len(contexts) -> ContextRows]
    BY <1>1, <1>3, <2>1
  <2> QED
    BY <2>1, <2>2
<1>6. AuthorityKept
  BY <1>3, <1>4 DEF AuthorityKept
<1> QED
  BY <1>1, <1>3, <1>4, <1>5, <1>6, RowsEndStep

(* What is left of a time is less, and never more than one less. *)
LEMMA LaterBounds ==
    ASSUME NEW n \in Nat
    PROVE  Later(n) \in Nat /\ \A m \in Nat : m > 1 /\ m <= n => m - 1 <= Later(n)
BY ContextsAssumption DEF Later

Aged(S) == {[t EXCEPT !.left = @ - 1] : t \in {u \in S : u.left > 1}}

(* The tokens a tick leaves are no more than there were. *)
LEMMA AgedIsSmaller ==
    ASSUME NEW S \in SUBSET TokenRecords, IsFiniteSet(S)
    PROVE  IsFiniteSet(Aged(S)) /\ Cardinality(Aged(S)) <= Cardinality(S)
<1> DEFINE R == {u \in S : u.left > 1}
           f == [u \in R |-> [u EXCEPT !.left = @ - 1]]
<1>1. IsFiniteSet(R) /\ Cardinality(R) <= Cardinality(S)
  <2>1. R \in SUBSET S
    OBVIOUS
  <2> QED
    BY <2>1, FS_Subset
<1>2. f \in Surjection(R, Aged(S))
  <2>1. f \in [R -> Aged(S)]
    BY DEF Aged
  <2>2. \A t \in Aged(S) : \E u \in R : f[u] = t
    BY DEF Aged
  <2> QED
    BY <2>1, <2>2 DEF Surjection
<1>3. IsFiniteSet(Aged(S)) /\ Cardinality(Aged(S)) <= Cardinality(R)
  BY <1>1, <1>2, FS_Surjection
<1>4. Cardinality(Aged(S)) \in Nat /\ Cardinality(R) \in Nat /\ Cardinality(S) \in Nat
  BY <1>1, <1>3, FS_CardinalityType
<1> QED
  BY <1>1, <1>3, <1>4

(* A tick ends no token later than its context. *)
LEMMA TickStep == AccessInv /\ Tick => AccessInv'
<1> SUFFICES ASSUME AccessInv, Tick PROVE AccessInv'
  OBVIOUS
<1>1. /\ contexts' = [i \in DOMAIN contexts |-> [contexts[i] EXCEPT !.left = Later(@)]]
      /\ tokens' = Aged(tokens)
      /\ request' = [request EXCEPT !.token.left = Later(@)]
  BY DEF Tick, Aged
<1>2. contexts \in Seq(ContextRows)
  BY DEF AccessInv, ContextsTypeOK
<1>3. ASSUME NEW i \in DOMAIN contexts
      PROVE  /\ contexts[i].left \in Nat
             /\ contexts'[i] \in ContextRows
             /\ contexts'[i].scopes = contexts[i].scopes
             /\ contexts'[i].allowed = contexts[i].allowed
             /\ contexts'[i].from = contexts[i].from
             /\ contexts'[i].lapsed = contexts[i].lapsed
             /\ contexts'[i].left = Later(contexts[i].left)
  <2>1. contexts[i] \in ContextRows
    BY <1>2
  <2>2. contexts[i].left \in Nat
    BY <2>1 DEF ContextRows
  <2>3. Later(contexts[i].left) \in Nat
    BY <2>2, LaterBounds
  <2>4. contexts'[i] = [contexts[i] EXCEPT !.left = Later(contexts[i].left)]
    BY <1>1
  <2> QED
    BY <2>1, <2>2, <2>3, <2>4 DEF ContextRows
<1>4. DOMAIN contexts' = DOMAIN contexts
  BY <1>1
<1>5. contexts' \in Seq(ContextRows)
  <2>1. DOMAIN contexts = 1 .. Len(contexts) /\ Len(contexts) \in Nat
    BY <1>2
  <2>2. contexts' \in [1 .. Len(contexts) -> ContextRows]
    BY <1>1, <1>3, <2>1
  <2> QED
    BY <2>1, <2>2
<1>6. AuthorityKept
  BY <1>3, <1>4 DEF AuthorityKept
<1>7. ASSUME NEW t \in tokens'
      PROVE  /\ t \in TokenRecords /\ t.left <= contexts'[t.ctx].left
             /\ \E u \in tokens : t.ctx = u.ctx /\ t.from = u.from /\ t.lapsed = u.lapsed
  <2>1. PICK u \in tokens : u.left > 1 /\ t = [u EXCEPT !.left = @ - 1]
    BY <1>1 DEF Aged
  <2>2. u \in TokenRecords /\ u.ctx \in DOMAIN contexts /\ u.left <= contexts[u.ctx].left
    BY DEF AccessInv, ContextsTypeOK, TokensSound
  <2>3. u.left \in Nat /\ u.left - 1 \in Nat
    BY <2>1, <2>2 DEF TokenRecords
  <2>4. u.left - 1 <= contexts'[u.ctx].left
    BY <1>3, <2>1, <2>2, <2>3, LaterBounds
  <2>5. t \in TokenRecords /\ t.ctx = u.ctx /\ t.from = u.from /\ t.lapsed = u.lapsed /\ t.left = u.left - 1
    BY <2>1, <2>2, <2>3 DEF TokenRecords
  <2> QED
    BY <2>4, <2>5
<1>8. IsFiniteSet(tokens')
  BY <1>1, AgedIsSmaller DEF AccessInv, ContextsTypeOK
<1>9. RequestTypeOK' /\ request'.step = request.step /\ request'.ctx = request.ctx
      /\ request'.token.ctx = request.token.ctx /\ request'.token.from = request.token.from
      /\ request'.token.lapsed = request.token.lapsed
  <2>1. RequestTypeOK /\ request.token \in TokenRecords
    BY DEF AccessInv, ContextsTypeOK, RequestTypeOK
  <2>2. request.token.left \in Nat
    BY <2>1 DEF TokenRecords
  <2>3. Later(request.token.left) \in Nat
    BY <2>2, LaterBounds
  <2>4. PICK n \in Nat : n = Later(request.token.left)
    BY <2>3
  <2>5. [request.token EXCEPT !.left = n] \in TokenRecords
        /\ [request.token EXCEPT !.left = n].ctx = request.token.ctx
        /\ [request.token EXCEPT !.left = n].from = request.token.from
        /\ [request.token EXCEPT !.left = n].lapsed = request.token.lapsed
    BY <2>1 DEF TokenRecords
  <2>6. request' = [request EXCEPT !.token = [request.token EXCEPT !.left = n]]
    BY <1>1, <2>1, <2>4 DEF RequestTypeOK
  <2> QED
    BY <2>1, <2>5, <2>6 DEF RequestTypeOK
<1>10. RowsSound'
  BY <1>4, <1>6, RowsAreKept DEF AccessInv
<1>11. TokensSound'
  BY <1>6, <1>7, TokensAreKept DEF AccessInv
<1>12. RequestSound'
  BY <1>6, <1>9, RequestSoundIsKept DEF AccessInv
<1>13. ContextsTypeOK'
  BY <1>1, <1>5, <1>7, <1>8, <1>9 DEF AccessInv, ContextsTypeOK
<1> QED
  BY <1>10, <1>11, <1>12, <1>13 DEF AccessInv

(* Every step of contexts, tokens and requests keeps their invariant. *)
LEMMA ContextsStepInv == AccessInv /\ ContextsStep => AccessInv'
BY AdmitStep, RevokeStep, CreateStep, AskTokenStep, MintStep, EndStep, PurgeStep, TickStep
   DEF ContextsStep

-----------------------------------------------------------------------------
(* What has ended stays so.                                                *)

Of(id) == {t \in tokens : t.ctx = id}

StaysDead(id) ==
    /\ contexts'[id].gone \/ contexts'[id].revoked
    /\ request'.token.ctx = id => request.token.ctx = id
    /\ Cardinality(Of(id)') <= Cardinality(Of(id))

(* The tokens of a context are finitely many. *)
LEMMA FewTokens ==
    ASSUME AccessInv, NEW id
    PROVE  IsFiniteSet(Of(id)) /\ Cardinality(Of(id)) \in Nat
<1>1. Of(id) \in SUBSET tokens
  BY DEF Of
<1> QED
  BY <1>1, FS_Subset, FS_CardinalityType DEF AccessInv, ContextsTypeOK

(* No step revives a context, admits a token of it or mints one for it. *)
LEMMA DeadStaysDead ==
    ASSUME AccessInv, ContextsStep, NEW id \in DOMAIN contexts, Dead(id)
    PROVE  StaysDead(id)
<1>1. id # Root /\ id \in Nat /\ contexts[id] \in ContextRows /\ ~Active(id)
  BY DEF AccessInv, ContextsTypeOK, Root, Dead, Active
<1>2. Cardinality(Of(id)) \in Nat /\ IsFiniteSet(Of(id))
  BY FewTokens
<1>3. ASSUME contexts' = contexts, Of(id)' = Of(id),
             request'.token.ctx \in {request.token.ctx, Root}
      PROVE  StaysDead(id)
  BY <1>1, <1>2, <1>3 DEF StaysDead, Dead
<1>4. ASSUME NEW t \in tokens \cup {NoToken}, Admit(t) PROVE StaysDead(id)
  <2>1. t.ctx # id
    BY <1>1, <1>4 DEF Admit, Verifies, NoToken
  <2> QED
    BY <1>1, <1>2, <1>4, <2>1 DEF Admit, StaysDead, Of, Dead
<1>5. ASSUME NEW t \in tokens \cup {NoToken}, NEW i \in DOMAIN contexts, Revoke(t, i)
      PROVE  StaysDead(id)
  <2>1. contexts' = [contexts EXCEPT ![i].revoked = TRUE] /\ UNCHANGED <<tokens, request>>
    BY <1>5 DEF Revoke
  <2>2. contexts'[id].gone \/ contexts'[id].revoked
    <3>1. CASE i = id
      BY <1>1, <2>1, <3>1 DEF ContextRows
    <3>2. CASE i # id
      BY <2>1, <3>2 DEF Dead
    <3> QED
      BY <3>1, <3>2
  <2> QED
    BY <1>2, <2>1, <2>2 DEF StaysDead, Of
<1>6. ASSUME NEW owner \in Principals, NEW scopes \in SUBSET Scopes, NEW allowed \in Grants,
             NEW left \in Lifetimes \cup {Forever}, Create(owner, scopes, allowed, left)
      PROVE  StaysDead(id)
  <2>1. PICK row : contexts' = Append(contexts, row)
    BY <1>6 DEF Create, Insert
  <2>2. contexts'[id] = contexts[id]
    BY <2>1 DEF AccessInv, ContextsTypeOK
  <2>3. request'.token.ctx = Root /\ tokens' = tokens
    BY <1>6 DEF Create, Idle, NoToken
  <2> QED
    BY <1>1, <1>2, <2>2, <2>3 DEF StaysDead, Dead, Of
<1>7. ASSUME NEW i \in DOMAIN contexts, AskToken(i) PROVE StaysDead(id)
  <2>1. request'.token.ctx = request.token.ctx
    <3>1. request.token \in TokenRecords
      BY DEF AccessInv, ContextsTypeOK, RequestTypeOK
    <3> QED
      BY <1>7, <3>1 DEF AskToken, TokenRecords
  <2>2. contexts' = contexts /\ Of(id)' = Of(id)
    BY <1>7 DEF AskToken, Of
  <2> QED
    BY <1>3, <2>1, <2>2
<1>8. ASSUME NEW ttl \in Ttls, Mint(ttl) PROVE StaysDead(id)
  <2>1. request.ctx # id
    BY <1>1, <1>8 DEF Mint
  <2>2. Of(id)' = Of(id)
    BY <1>8, <2>1 DEF Mint, Issue, Of
  <2> QED
    BY <1>3, <1>8, <2>2 DEF Mint, Idle, NoToken
<1>9. CASE Refuse \/ Restart
  <2>1. contexts' = contexts /\ Of(id)' \subseteq Of(id) /\ request'.token.ctx = Root
    BY <1>9 DEF Refuse, Restart, Of, Idle, NoToken
  <2>2. Cardinality(Of(id)') <= Cardinality(Of(id))
    BY <1>2, <2>1, FS_Subset
  <2> QED
    BY <1>1, <2>1, <2>2 DEF StaysDead, Dead
<1>10. CASE Purge
  <2>1. /\ contexts'[id] = [contexts[id] EXCEPT !.gone = @ \/ contexts[id].left = 0]
        /\ UNCHANGED <<tokens, request>>
    BY <1>10 DEF Purge
  <2>2. contexts'[id].gone \/ contexts'[id].revoked
    BY <1>1, <2>1 DEF ContextRows, Dead
  <2> QED
    BY <1>2, <2>1, <2>2 DEF StaysDead, Of
<1>11. CASE Tick
  <2>1. contexts'[id] = [contexts[id] EXCEPT !.left = Later(@)]
    BY <1>11 DEF Tick
  <2>2. contexts'[id].gone \/ contexts'[id].revoked
    BY <1>1, <2>1 DEF ContextRows, Dead
  <2>3. request'.token.ctx = request.token.ctx
    <3>1. RequestTypeOK /\ request.token \in TokenRecords
      BY DEF AccessInv, ContextsTypeOK, RequestTypeOK
    <3> QED
      BY <1>11, <3>1 DEF Tick, RequestTypeOK, TokenRecords
  <2>4. Of(id)' = Aged(Of(id))
    <3>1. tokens \subseteq TokenRecords
      BY DEF AccessInv, ContextsTypeOK
    <3>2. \A u \in tokens : [u EXCEPT !.left = @ - 1].ctx = u.ctx
      BY <3>1 DEF TokenRecords
    <3>3. tokens' = Aged(tokens)
      BY <1>11 DEF Tick, Aged
    <3> QED
      BY <3>2, <3>3 DEF Of, Aged
  <2>5. Of(id) \in SUBSET TokenRecords
    BY DEF Of, AccessInv, ContextsTypeOK
  <2>6. Cardinality(Of(id)') <= Cardinality(Of(id))
    BY <1>2, <2>4, <2>5, AgedIsSmaller
  <2> QED
    BY <2>2, <2>3, <2>6 DEF StaysDead
<1> QED
  BY <1>4, <1>5, <1>6, <1>7, <1>8, <1>9, <1>10, <1>11 DEF ContextsStep

-----------------------------------------------------------------------------
(* The invariants of the two halves hold together: a step of one leaves the other alone. *)
LEMMA BothInv == Spec => [](AccessInv /\ GateInv)
<1>1. Init => AccessInv /\ GateInv
  BY ContextsInitInv, GateInitInv DEF Init
<1>2. (AccessInv /\ GateInv) /\ [Next]_vars => (AccessInv /\ GateInv)'
  <2> SUFFICES ASSUME AccessInv, GateInv, [Next]_vars PROVE AccessInv' /\ GateInv'
    OBVIOUS
  <2>1. ASSUME UNCHANGED capability PROVE GateInv'
    BY <2>1 DEF capability, GateInv, GateTypeOK, CallsHoldTheGate, RevokedEverywhere,
              RevokedIsQuiet
  <2>2. ASSUME UNCHANGED access PROVE AccessInv'
    BY <2>2 DEF access, AccessInv, ContextsTypeOK, RequestTypeOK, RowsSound, TokensSound,
              RequestSound, Descends, Within, Allows
  <2> QED
    BY <2>1, <2>2, ContextsStepInv, GateStepInv DEF Next, vars
<1> QED
  BY <1>1, <1>2, PTL DEF Spec

(* Rows, tokens and requests have their types (contexts.py, tokens.py). *)
THEOREM TypeCorrect == Spec => [](ContextsTypeOK /\ GateTypeOK)
<1>1. AccessInv /\ GateInv => ContextsTypeOK /\ GateTypeOK
  BY DEF AccessInv, GateInv
<1> QED
  BY <1>1, BothInv, PTL

(* A chain of contexts and tokens made with tokens never gains a scope or a capability, unless one *)
(* of them dies between the two times it is verified, and no token outlives its context           *)
(* (_attenuate_creation, _identity_can_delegate_record, mint_context_token).                      *)
THEOREM AuthorityNeverGrows == Spec => []AuthorityShrinks
<1>1. AccessInv /\ GateInv => AuthorityShrinks
  BY DEF AccessInv, RowsSound, TokensSound, AuthorityShrinks
<1> QED
  BY <1>1, BothInv, PTL

(* What is revoked or purged is not used again (is_active, verify_token, mint_context_token). *)
THEOREM RevocationIsFinal == Spec => RevokedIsFinal
<1>1. AccessInv /\ [Next]_vars =>
        [\A id \in DOMAIN contexts : Dead(id) =>
            /\ contexts'[id].gone \/ contexts'[id].revoked
            /\ request'.token.ctx = id => request.token.ctx = id
            /\ Cardinality({t \in tokens' : t.ctx = id})
                 <= Cardinality({t \in tokens : t.ctx = id})]_access
  BY DeadStaysDead DEF Next, vars, StaysDead, Of
<1> QED
  BY <1>1, BothInv, PTL DEF Spec, RevokedIsFinal

(* A capability whose revocation has returned is not called (call and                              *)
(* revoke_computer_capability of capabilities/computer.py, upsert_capability).                     *)
THEOREM RevokedMeansQuiet == Spec => []RevokedIsQuiet
<1>1. AccessInv /\ GateInv => RevokedIsQuiet
  BY DEF GateInv
<1> QED
  BY <1>1, BothInv, PTL

-----------------------------------------------------------------------------
(* SessionTransport: the work and the events of an agent session, whose     *)
(* context is one of the rows above.  For any requests, clients and works,  *)
(* every page size and every length of the log.                             *)
(*                                                                          *)
(* That the work follows the log needs the draft of an open transaction at  *)
(* every statement of its script (DraftSound), and that two submissions     *)
(* under way never have the same new id (SessionRequestSound); that what a  *)
(* client has read is the beginning of the log, the rows being numbered as  *)
(* they are ordered (Numbered).                                             *)

(* The row of an event, and a work moved. *)
Row(o, n, to) == [seq |-> n, work |-> o.work, to |-> to]

Moved(o, to) == [work EXCEPT ![o.work] = to]

Announced(o, to) == Append(log, Row(o, Len(log) + 1, to))

Numbered(events) == \A i \in 1 .. Len(events) : events[i].seq = i

Is(c, rest, events, works) == todo[c] = rest /\ draft[c] = [log |-> events, work |-> works]

SubmitDraft(c, o) ==
  \/ Is(c, Script(o), log, work)
  \/ Is(c, <<Emit(None), Update("waiting"), Emit("waiting")>>, log, Moved(o, "idle"))
  \/ Is(c, <<Update("waiting"), Emit("waiting")>>, Announced(o, None), Moved(o, "idle"))
  \/ Is(c, <<Emit("waiting")>>, Announced(o, None), Moved(o, "waiting"))
  \/ Is(c, <<>>, Append(Announced(o, None), Row(o, Len(log) + 2, "waiting")), Moved(o, "waiting"))

MoveDraft(c, o) ==
  \/ Is(c, Script(o), log, work)
  \/ /\ work[o.work] # None /\ o.to \in Moves[work[o.work]] \cup {work[o.work]}
     /\ \/ Is(c, <<Emit(o.to)>>, log, Moved(o, o.to))
        \/ Is(c, <<>>, Announced(o, o.to), Moved(o, o.to))

NoteDraft(c, o) ==
  \/ Is(c, Script(o), log, work)
  \/ Is(c, <<>>, Announced(o, None), work)

DraftOf(c) ==
  pc[c] = "open" =>
     /\ lock = c
     /\ Len(log) + Events(op[c]) <= MaxEvents
     /\ op[c].kind = "submit" => SubmitDraft(c, op[c])
     /\ op[c].kind = "move" => MoveDraft(c, op[c])
     /\ op[c].kind = "note" => NoteDraft(c, op[c])

DraftSound == \A c \in Writers : DraftOf(c)

RequestOf(c) ==
  /\ pc[c] = "idle" <=> op[c].kind = "none"
  /\ op[c].kind = "submit" => op[c].work \in Works /\ work[op[c].work] = None
  /\ op[c].kind = "move" => op[c].work \in Works /\ op[c].to \in AgentState
  /\ \A d \in Writers \ {c} : op[c].kind = "submit" /\ op[d].kind = "submit" => op[c].work # op[d].work

SessionRequestSound == \A c \in Writers : RequestOf(c)

FollowerOf(r) == cursor[r] <= Len(log) /\ seen[r] = SubSeq(log, 1, cursor[r])

FollowersSound == \A r \in Readers : FollowerOf(r)

SessionTypeInv == SessionTypeOK /\ Numbered(log)
SessionInv == SessionTypeInv /\ WorkFollowsLog /\ SessionRequestSound /\ DraftSound /\ FollowersSound

-----------------------------------------------------------------------------
(* The log with one more event: numbered on, and what was read of it unchanged. *)
LEMMA EventIsAppended ==
  ASSUME NEW s \in Seq(Event), Numbered(s), Len(s) < MaxEvents,
         NEW o \in Op, NEW to \in AgentState \cup {None}
  PROVE  LET t == Append(s, Row(o, Len(s) + 1, to))
         IN  /\ t \in Seq(Event) /\ Len(t) = Len(s) + 1 /\ Numbered(t)
             /\ t[Len(s) + 1] = Row(o, Len(s) + 1, to)
             /\ \A i \in 1 .. Len(s) : t[i] = s[i]
             /\ \A n \in 0 .. Len(s) : SubSeq(t, 1, n) = SubSeq(s, 1, n)
<1> DEFINE e == Row(o, Len(s) + 1, to)
           t == Append(s, e)
<1>1. Len(s) \in Nat /\ MaxEvents \in Nat
  BY LenProperties, TransportAssumption
<1>2. e \in Event
  BY <1>1 DEF Event, Op, Row
<1>3. /\ t \in Seq(Event) /\ Len(t) = Len(s) + 1
      /\ t[Len(s) + 1] = e
      /\ \A i \in 1 .. Len(s) : t[i] = s[i]
  BY <1>1, <1>2, AppendProperties
<1>4. Numbered(t)
  <2> SUFFICES ASSUME NEW i \in 1 .. Len(s) + 1 PROVE t[i].seq = i
    BY <1>3 DEF Numbered
  <2>1. CASE i \in 1 .. Len(s)
    BY <1>3, <2>1 DEF Numbered
  <2>2. CASE i = Len(s) + 1
    BY <1>3, <2>2 DEF Row
  <2> QED
    BY <2>1, <2>2, <1>1
<1>5. ASSUME NEW n \in 0 .. Len(s) PROVE SubSeq(t, 1, n) = SubSeq(s, 1, n)
  <2>1. SubSeq(t, 1, n) \in Seq(Event) /\ SubSeq(s, 1, n) \in Seq(Event)
    BY <1>1, <1>3, SubSeqProperties
  <2>2. Len(SubSeq(t, 1, n)) = n /\ Len(SubSeq(s, 1, n)) = n
    BY <1>1, <1>3, SubSeqProperties
  <2>3. \A i \in 1 .. n : SubSeq(t, 1, n)[i] = SubSeq(s, 1, n)[i]
    BY <1>1, <1>3, SubSeqProperties
  <2> QED
    BY <2>1, <2>2, <2>3, SeqEqual
<1> QED
  BY <1>3, <1>4, <1>5

(* The next number, the greatest one in the table plus one, is the length plus one. *)
LEMMA NextSeqIsNext ==
  ASSUME NEW s \in Seq(Event), Numbered(s) PROVE NextSeq(s) = Len(s) + 1
<1> DEFINE taken == {s[i].seq : i \in 1 .. Len(s)}
           top   == CHOOSE m \in taken : \A n \in taken : n <= m
<1>1. Len(s) \in Nat
  BY LenProperties
<1>2. taken = 1 .. Len(s)
  BY <1>1 DEF Numbered
<1>3. NextSeq(s) = IF taken = {} THEN 1 ELSE 1 + top
  BY DEF NextSeq
<1> HIDE DEF taken
<1>4. CASE Len(s) = 0
  <2> HIDE DEF top
  <2> QED
    BY <1>2, <1>3, <1>4
<1>5. CASE Len(s) # 0
  <2>1. Len(s) \in taken /\ \A n \in taken : n <= Len(s)
    BY <1>1, <1>2, <1>5
  <2>2. top \in taken /\ \A n \in taken : n <= top
    BY <2>1
  <2> HIDE DEF top
  <2> QED
    BY <2>1, <2>2, <1>1, <1>2, <1>3
<1> QED
  BY <1>4, <1>5

(* What a row adds to the states of a work. *)
LEMMA StatesOfAppended ==
  ASSUME NEW s \in Seq(Event), NEW e \in Event, NEW w \in Works
  PROVE  StatesOf(w, Append(s, e)) =
           StatesOf(w, s) \cup (IF e.work = w /\ e.to # None THEN {Len(s) + 1} ELSE {})
<1>1. Len(s) \in Nat
  BY LenProperties
<1>2. /\ Len(Append(s, e)) = Len(s) + 1
      /\ Append(s, e)[Len(s) + 1] = e
      /\ \A i \in 1 .. Len(s) : Append(s, e)[i] = s[i]
  BY AppendProperties
<1>3. 1 .. Len(s) + 1 = 1 .. Len(s) \cup {Len(s) + 1}
  BY <1>1
<1> QED
  BY <1>1, <1>2, <1>3 DEF StatesOf

(* A row without a state leaves every path as it is, *)
LEMMA PathStays ==
  ASSUME NEW s \in Seq(Event), NEW e \in Event, NEW w \in Works, NEW state,
         e.work # w \/ e.to = None, IsPathTo(state, w, s)
  PROVE  IsPathTo(state, w, Append(s, e))
<1>1. StatesOf(w, Append(s, e)) = StatesOf(w, s)
  <2>1. StatesOf(w, Append(s, e)) = StatesOf(w, s) \cup {}
    BY StatesOfAppended
  <2> QED
    BY <2>1
<1>2. \A i \in StatesOf(w, s) : Append(s, e)[i] = s[i]
  BY AppendProperties DEF StatesOf
<1> QED
  BY <1>1, <1>2 DEF IsPathTo

(* and one with a state makes the path of its work longer by a legal move. *)
LEMMA PathGoesOn ==
  ASSUME NEW s \in Seq(Event), NEW e \in Event, NEW w \in Works, NEW state,
         e.work = w, e.to # None, state # None => e.to \in Moves[state] \cup {state},
         IsPathTo(state, w, s)
  PROVE  IsPathTo(e.to, w, Append(s, e))
<1> DEFINE t == Append(s, e)
           n == Len(s) + 1
<1>1. Len(s) \in Nat
  BY LenProperties
<1>2. StatesOf(w, t) = StatesOf(w, s) \cup {n}
  BY StatesOfAppended
<1>3. StatesOf(w, s) \subseteq 1 .. Len(s)
  BY DEF StatesOf
<1>4. t[n] = e /\ \A i \in StatesOf(w, s) : t[i] = s[i]
  BY <1>3, AppendProperties
<1>5. ASSUME NEW i \in StatesOf(w, t), \A j \in StatesOf(w, t) : j <= i
      PROVE  e.to = t[i].to
  <2>1. i = n
    <3>1. n <= i
      BY <1>2, <1>5
    <3>2. i \in 1 .. n
      BY <1>1, <1>2, <1>3
    <3> QED
      BY <3>1, <3>2, <1>1
  <2> QED
    BY <2>1, <1>4
<1>6. ASSUME NEW i \in StatesOf(w, t), NEW j \in StatesOf(w, t), i < j,
             \A k \in StatesOf(w, t) : k <= i \/ j <= k
      PROVE  t[j].to \in Moves[t[i].to] \cup {t[i].to}
  <2>1. i \in StatesOf(w, s)
    BY <1>1, <1>2, <1>3, <1>6
  <2>2. CASE j \in StatesOf(w, s)
    <3>1. \A k \in StatesOf(w, s) : k <= i \/ j <= k
      BY <1>2, <1>6
    <3>2. s[j].to \in Moves[s[i].to] \cup {s[i].to}
      BY <2>1, <2>2, <3>1, <1>6 DEF IsPathTo
    <3> QED
      BY <3>2, <2>1, <2>2, <1>4
  <2>3. CASE j = n
    <3>1. \A k \in StatesOf(w, s) : k <= i
      BY <1>1, <1>2, <1>3, <1>6, <2>3
    <3>2. state = s[i].to /\ state # None
      BY <3>1, <2>1 DEF IsPathTo
    <3> QED
      BY <3>2, <2>1, <2>3, <1>4
  <2> QED
    BY <2>2, <2>3, <1>2
<1>7. StatesOf(w, t) # {}
  BY <1>2
<1> QED
  BY <1>5, <1>6, <1>7 DEF IsPathTo

-----------------------------------------------------------------------------
(* Types of what a request writes. *)

(* None is neither a work nor a request. *)
LEMMA NoneIsElsewhere == None \notin Works /\ None \notin Writers
BY TransportAssumption

(* Nothing is written and nothing read at the start. *)
LEMMA SessionInitInv == SessionInit => SessionInv
<1> SUFFICES ASSUME SessionInit PROVE SessionInv
  OBVIOUS
<1> USE DEF SessionInit
<1>1. <<>> \in Seq(Event) /\ Len(<<>>) = 0 /\ <<>> \in Seq(Statement)
  BY EmptySeq
<1>2. SessionTypeOK
  <2>1. IsEventSeq(<<>>)
    BY <1>1, TransportAssumption DEF IsEventSeq
  <2>2. NoOp \in Op /\ NoWork \in Table
    BY DEF NoOp, Op, NoWork, Table
  <2>3. draft \in [Writers -> [log : Seq(Event), work : Table]]
    BY <1>1, <2>2 DEF NoDraft
  <2>4. \A c \in Writers : IsEventSeq(draft[c].log)
    BY <2>1 DEF NoDraft
  <2>5. 0 \in 0 .. MaxEvents
    BY TransportAssumption
  <2> QED
    BY <1>1, <2>1, <2>2, <2>3, <2>4, <2>5 DEF SessionTypeOK
<1>3. Numbered(log)
  BY <1>1 DEF Numbered
<1>4. WorkFollowsLog
  <2>1. \A w \in Works : StatesOf(w, log) = {}
    BY <1>1 DEF StatesOf
  <2> QED
    BY <2>1 DEF WorkFollowsLog, IsPathTo, NoWork
<1>5. SessionRequestSound
  BY DEF SessionRequestSound, RequestOf, NoOp
<1>6. DraftSound
  BY DEF DraftSound, DraftOf
<1>7. FollowersSound
  BY <1>1, SubSeqEmpty DEF FollowersSound, FollowerOf
<1> QED
  BY <1>2, <1>3, <1>4, <1>5, <1>6, <1>7 DEF SessionInv, SessionTypeInv

-----------------------------------------------------------------------------
(* A statement takes the draft from one stage of its script to the next.    *)

(* The statements of the scripts, *)
LEMMA StatementsAreTyped ==
  /\ InsertWork \in Statement
  /\ \A s \in AgentState \cup {None} : Update(s) \in Statement /\ Emit(s) \in Statement
  /\ {"waiting", "idle"} \subseteq AgentState
BY DEF InsertWork, Update, Emit, Statement, AgentState

(* and what is left of a script after its first one. *)
LEMMA ScriptsRun ==
  ASSUME NEW a \in Statement, NEW b \in Statement, NEW d \in Statement,
         NEW e \in Statement
  PROVE  /\ <<a>> \in Seq(Statement) /\ <<a, b>> \in Seq(Statement)
         /\ <<a, b, d>> \in Seq(Statement) /\ <<a, b, d, e>> \in Seq(Statement)
         /\ Head(<<a>>) = a /\ Tail(<<a>>) = <<>>
         /\ Head(<<a, b>>) = a /\ Tail(<<a, b>>) = <<b>>
         /\ Head(<<a, b, d>>) = a /\ Tail(<<a, b, d>>) = <<b, d>>
         /\ Head(<<a, b, d, e>>) = a /\ Tail(<<a, b, d, e>>) = <<b, d, e>>
  OBVIOUS

(* What a statement makes of tables that are in order. *)
LEMMA EventIsWritten ==
  ASSUME NEW s \in Seq(Event), Numbered(s), Len(s) < MaxEvents, NEW works,
         NEW o \in Op, NEW to \in AgentState \cup {None}
  PROVE  After([log |-> s, work |-> works], o, Emit(to))
           = [log |-> Append(s, Row(o, Len(s) + 1, to)), work |-> works]
BY NextSeqIsNext DEF After, Emit, Row

(* The insert of a work, *)
LEMMA WorkIsInserted ==
  ASSUME NEW events, NEW works, NEW o \in Op
  PROVE  After([log |-> events, work |-> works], o, InsertWork)
           = [log |-> events, work |-> [works EXCEPT ![o.work] = "idle"]]
BY DEF After, InsertWork

(* and the update of its state. *)
LEMMA WorkIsUpdated ==
  ASSUME NEW events, NEW works, NEW o \in Op, NEW to \in AgentState
  PROVE  After([log |-> events, work |-> works], o, Update(to))
           = [log |-> events, work |-> [works EXCEPT ![o.work] = to]]
BY DEF After, Update

Typed(c) == /\ IsEventSeq(draft[c].log) /\ draft[c] \in [log : Seq(Event), work : Table]
            /\ todo[c] \in Seq(Statement)

(* A submission goes from each stage to the next, *)
LEMMA SubmitExecutes ==
  ASSUME SessionTypeInv, NEW c \in Writers, DraftOf(c), RequestOf(c),
         Execute(c), op[c].kind = "submit"
  PROVE  DraftOf(c)' /\ Typed(c)'
<1> DEFINE o  == op[c]
           n  == Len(log)
           l1 == Announced(o, None)
           l2 == Append(l1, Row(o, n + 2, "waiting"))
<1>1. /\ o \in Op /\ o.work \in Works /\ lock = c /\ n + 2 <= MaxEvents
      /\ log \in Seq(Event) /\ Numbered(log) /\ n \in Nat /\ MaxEvents \in Nat /\ work \in Table
      /\ pc[c] = "open"
  BY LenProperties, TransportAssumption
     DEF SessionTypeInv, SessionTypeOK, IsEventSeq, DraftOf, RequestOf, Execute, Events
<1>2. /\ l1 \in Seq(Event) /\ Len(l1) = n + 1 /\ Numbered(l1)
  <2>1. l1 = Append(log, Row(o, n + 1, None))
    BY DEF Announced
  <2>2. Len(log) < MaxEvents /\ Len(log) + 1 = n + 1
    BY <1>1
  <2> HIDE DEF l1
  <2> QED
    BY <1>1, <2>1, <2>2, EventIsAppended
<1>3. /\ l2 \in Seq(Event) /\ Len(l2) = n + 2
  BY <1>1, <1>2, EventIsAppended, StatementsAreTyped
<1>4. Moved(o, "idle") \in Table /\ Moved(o, "waiting") \in Table
      /\ [Moved(o, "idle") EXCEPT ![o.work] = "waiting"] = Moved(o, "waiting")
  BY <1>1, StatementsAreTyped DEF Moved, Table
<1>5. /\ todo[c] # <<>> /\ todo' = [todo EXCEPT ![c] = Tail(@)]
      /\ draft' = [draft EXCEPT ![c] = After(@, o, Head(todo[c]))]
      /\ UNCHANGED <<log, work, lock, pc, op>>
  BY DEF Execute, tables
<1>6. todo'[c] = Tail(todo[c]) /\ draft'[c] = After(draft[c], o, Head(todo[c]))
  BY <1>5 DEF SessionTypeInv, SessionTypeOK
<1>7. Script(o) = <<InsertWork, Emit(None), Update("waiting"), Emit("waiting")>>
  BY DEF Script
<1>8. SubmitDraft(c, o)
  BY <1>1 DEF DraftOf
<1> DEFINE After1 == todo'[c] = <<Emit(None), Update("waiting"), Emit("waiting")>>
                     /\ draft'[c] = [log |-> log, work |-> Moved(o, "idle")]
           After2 == todo'[c] = <<Update("waiting"), Emit("waiting")>>
                     /\ draft'[c] = [log |-> l1, work |-> Moved(o, "idle")]
           After3 == todo'[c] = <<Emit("waiting")>>
                     /\ draft'[c] = [log |-> l1, work |-> Moved(o, "waiting")]
           After4 == todo'[c] = <<>>
                     /\ draft'[c] = [log |-> l2, work |-> Moved(o, "waiting")]
<1>9. After1 \/ After2 \/ After3 \/ After4
  <2> HIDE DEF o, l1, l2, n
  <2>1. CASE Is(c, Script(o), log, work)
    <3>1. todo[c] = <<InsertWork, Emit(None), Update("waiting"), Emit("waiting")>>
          /\ draft[c] = [log |-> log, work |-> work]
      BY <2>1, <1>7 DEF Is
    <3>2. After(draft[c], o, InsertWork) = [log |-> log, work |-> Moved(o, "idle")]
      BY <3>1, <1>1, WorkIsInserted DEF Moved
    <3> QED
      BY <3>1, <3>2, <1>6, ScriptsRun, StatementsAreTyped
  <2>2. CASE Is(c, <<Emit(None), Update("waiting"), Emit("waiting")>>, log, Moved(o, "idle"))
    <3>1. todo[c] = <<Emit(None), Update("waiting"), Emit("waiting")>>
          /\ draft[c] = [log |-> log, work |-> Moved(o, "idle")]
      BY <2>2 DEF Is
    <3>2. After(draft[c], o, Emit(None)) = [log |-> l1, work |-> Moved(o, "idle")]
      <4>1. After([log |-> log, work |-> Moved(o, "idle")], o, Emit(None))
              = [log |-> Append(log, Row(o, Len(log) + 1, None)), work |-> Moved(o, "idle")]
        BY <1>1, EventIsWritten DEF n
      <4> QED
        BY <3>1, <4>1 DEF Announced, l1, n
    <3> QED
      BY <3>1, <3>2, <1>6, ScriptsRun, StatementsAreTyped
  <2>3. CASE Is(c, <<Update("waiting"), Emit("waiting")>>, Announced(o, None), Moved(o, "idle"))
    <3>1. todo[c] = <<Update("waiting"), Emit("waiting")>>
          /\ draft[c] = [log |-> l1, work |-> Moved(o, "idle")]
      BY <2>3 DEF Is, l1
    <3>2. After(draft[c], o, Update("waiting")) = [log |-> l1, work |-> Moved(o, "waiting")]
      <4>1. After(draft[c], o, Update("waiting"))
              = [log |-> l1, work |-> [Moved(o, "idle") EXCEPT ![o.work] = "waiting"]]
        BY <3>1, <1>1, WorkIsUpdated, StatementsAreTyped
      <4> QED
        BY <4>1, <1>4
    <3> QED
      BY <3>1, <3>2, <1>6, ScriptsRun, StatementsAreTyped
  <2>4. CASE Is(c, <<Emit("waiting")>>, Announced(o, None), Moved(o, "waiting"))
    <3>1. todo[c] = <<Emit("waiting")>>
          /\ draft[c] = [log |-> l1, work |-> Moved(o, "waiting")]
      BY <2>4 DEF Is, l1
    <3>2. After(draft[c], o, Emit("waiting")) = [log |-> l2, work |-> Moved(o, "waiting")]
      BY <3>1, <1>1, <1>2, EventIsWritten, StatementsAreTyped DEF l2, n
    <3> QED
      BY <3>1, <3>2, <1>6, ScriptsRun, StatementsAreTyped
  <2>5. CASE todo[c] = <<>>
    BY <2>5, <1>5
  <2> QED
    BY <2>1, <2>2, <2>3, <2>4, <2>5, <1>8 DEF SubmitDraft, Is
<1>10. Typed(c)'
  <2>1. IsEventSeq(log) /\ IsEventSeq(l1) /\ IsEventSeq(l2)
    BY <1>1, <1>2, <1>3 DEF IsEventSeq
  <2>2. todo'[c] \in Seq(Statement)
    <3>1. todo'[c] \in {<<>>, <<Emit("waiting")>>, <<Update("waiting"), Emit("waiting")>>,
                        <<Emit(None), Update("waiting"), Emit("waiting")>>}
      BY <1>9
    <3>2. Emit(None) \in Statement /\ Update("waiting") \in Statement /\ Emit("waiting") \in Statement
      BY StatementsAreTyped
    <3>3. <<>> \in Seq(Statement)
      BY EmptySeq
    <3>4. <<Emit(None), Update("waiting"), Emit("waiting")>> \in Seq(Statement)
      BY <3>2
    <3>5. <<Update("waiting"), Emit("waiting")>> \in Seq(Statement)
      BY <3>2
    <3>6. <<Emit("waiting")>> \in Seq(Statement)
      BY <3>2
    <3> QED
      BY <3>1, <3>3, <3>4, <3>5, <3>6
  <2>3. draft'[c].log \in {log, l1, l2} /\ draft'[c] \in [log : Seq(Event), work : Table]
    <3> HIDE DEF l1, l2, n, o
    <3> QED
      BY <1>9, <1>1, <1>2, <1>3, <1>4
  <2> QED
    BY <2>1, <2>2, <2>3 DEF Typed, IsEventSeq
<1>11. DraftOf(c)'
  <2>1. SubmitDraft(c, op[c])'
    BY <1>5, <1>9 DEF SubmitDraft, Is, Announced, Moved
  <2>2. (lock = c /\ Len(log) + Events(op[c]) <= MaxEvents)' /\ op'[c].kind = "submit"
    BY <1>5, <1>1 DEF Events
  <2> QED
    BY <2>1, <2>2 DEF DraftOf
<1> QED
  BY <1>10, <1>11

(* so does a move, *)
LEMMA MoveExecutes ==
  ASSUME SessionTypeInv, NEW c \in Writers, DraftOf(c), RequestOf(c),
         Execute(c), op[c].kind = "move"
  PROVE  DraftOf(c)' /\ Typed(c)'
<1> DEFINE o  == op[c]
           n  == Len(log)
           l1 == Announced(o, o.to)
<1>1. /\ o \in Op /\ o.work \in Works /\ o.to \in AgentState /\ lock = c /\ n + 1 <= MaxEvents
      /\ log \in Seq(Event) /\ Numbered(log) /\ n \in Nat /\ MaxEvents \in Nat /\ work \in Table
      /\ pc[c] = "open"
  BY LenProperties, TransportAssumption
     DEF SessionTypeInv, SessionTypeOK, IsEventSeq, DraftOf, RequestOf, Execute, Events
<1>2. l1 \in Seq(Event) /\ Len(l1) = n + 1
  <2>1. l1 = Append(log, Row(o, n + 1, o.to))
    BY DEF Announced
  <2>2. Len(log) < MaxEvents /\ Len(log) + 1 = n + 1
    BY <1>1
  <2> HIDE DEF l1
  <2> QED
    BY <1>1, <2>1, <2>2, EventIsAppended
<1>3. Moved(o, o.to) \in Table
  BY <1>1 DEF Moved, Table
<1>4. /\ todo[c] # <<>> /\ todo' = [todo EXCEPT ![c] = Tail(@)]
      /\ draft' = [draft EXCEPT ![c] = After(@, o, Head(todo[c]))]
      /\ Possible(draft[c], o, Head(todo[c]))
      /\ UNCHANGED <<log, work, lock, pc, op>>
  BY DEF Execute, tables
<1>5. todo'[c] = Tail(todo[c]) /\ draft'[c] = After(draft[c], o, Head(todo[c]))
  BY <1>4 DEF SessionTypeInv, SessionTypeOK
<1>6. Script(o) = <<Update(o.to), Emit(o.to)>>
  BY DEF Script
<1>7. MoveDraft(c, o)
  BY <1>1 DEF DraftOf
<1> DEFINE May    == work[o.work] # None /\ o.to \in Moves[work[o.work]] \cup {work[o.work]}
           After1 == todo'[c] = <<Emit(o.to)>> /\ draft'[c] = [log |-> log, work |-> Moved(o, o.to)]
           After2 == todo'[c] = <<>> /\ draft'[c] = [log |-> l1, work |-> Moved(o, o.to)]
<1>8. May /\ (After1 \/ After2)
  <2> HIDE DEF o, l1, n
  <2>1. CASE Is(c, Script(o), log, work)
    <3>1. todo[c] = <<Update(o.to), Emit(o.to)>> /\ draft[c] = [log |-> log, work |-> work]
      BY <2>1, <1>6 DEF Is
    <3>2. After(draft[c], o, Update(o.to)) = [log |-> log, work |-> Moved(o, o.to)]
      BY <3>1, <1>1, WorkIsUpdated DEF Moved
    <3>3. Head(todo[c]) = Update(o.to) /\ Tail(todo[c]) = <<Emit(o.to)>>
      BY <3>1, <1>1, ScriptsRun, StatementsAreTyped
    <3>4. May
      <4>1. Possible([log |-> log, work |-> work], o, Update(o.to))
        BY <3>1, <3>3, <1>4
      <4> QED
        BY <4>1 DEF Possible, Update
    <3> QED
      BY <3>2, <3>3, <3>4, <1>5
  <2>2. CASE May /\ Is(c, <<Emit(o.to)>>, log, Moved(o, o.to))
    <3>1. todo[c] = <<Emit(o.to)>> /\ draft[c] = [log |-> log, work |-> Moved(o, o.to)]
      BY <2>2 DEF Is
    <3>2. After(draft[c], o, Emit(o.to)) = [log |-> l1, work |-> Moved(o, o.to)]
      BY <3>1, <1>1, EventIsWritten DEF Announced, l1, n
    <3> QED
      BY <3>1, <3>2, <2>2, <1>1, <1>5, ScriptsRun, StatementsAreTyped
  <2>3. CASE todo[c] = <<>>
    BY <2>3, <1>4
  <2> QED
    BY <2>1, <2>2, <2>3, <1>7 DEF MoveDraft, Is
<1>9. Typed(c)'
  <2>1. IsEventSeq(log) /\ IsEventSeq(l1)
    BY <1>1, <1>2 DEF IsEventSeq
  <2>2. todo'[c] \in Seq(Statement)
    <3>1. Emit(o.to) \in Statement
      BY <1>1, StatementsAreTyped
    <3>2. <<>> \in Seq(Statement) /\ <<Emit(o.to)>> \in Seq(Statement)
      BY <3>1, EmptySeq
    <3> QED
      BY <1>8, <3>2
  <2>3. draft'[c].log \in {log, l1} /\ draft'[c] \in [log : Seq(Event), work : Table]
    <3> HIDE DEF l1, n, o
    <3> QED
      BY <1>8, <1>1, <1>2, <1>3
  <2> QED
    BY <2>1, <2>2, <2>3 DEF Typed, IsEventSeq
<1>10. DraftOf(c)'
  <2>1. MoveDraft(c, op[c])'
    BY <1>4, <1>8 DEF MoveDraft, Is, Announced, Moved
  <2>2. (lock = c /\ Len(log) + Events(op[c]) <= MaxEvents)' /\ op'[c].kind = "move"
    BY <1>4, <1>1 DEF Events
  <2> QED
    BY <2>1, <2>2 DEF DraftOf
<1> QED
  BY <1>9, <1>10

(* and an event that a client appends. *)
LEMMA NoteExecutes ==
  ASSUME SessionTypeInv, NEW c \in Writers, DraftOf(c), RequestOf(c),
         Execute(c), op[c].kind = "note"
  PROVE  DraftOf(c)' /\ Typed(c)'
<1> DEFINE o  == op[c]
           n  == Len(log)
           l1 == Announced(o, None)
<1>1. /\ o \in Op /\ lock = c /\ n + 1 <= MaxEvents
      /\ log \in Seq(Event) /\ Numbered(log) /\ n \in Nat /\ MaxEvents \in Nat /\ work \in Table
      /\ pc[c] = "open"
  BY LenProperties, TransportAssumption
     DEF SessionTypeInv, SessionTypeOK, IsEventSeq, DraftOf, RequestOf, Execute, Events
<1>2. l1 \in Seq(Event) /\ Len(l1) = n + 1
  <2>1. l1 = Append(log, Row(o, n + 1, None))
    BY DEF Announced
  <2>2. Len(log) < MaxEvents /\ Len(log) + 1 = n + 1
    BY <1>1
  <2> HIDE DEF l1
  <2> QED
    BY <1>1, <2>1, <2>2, EventIsAppended
<1>3. /\ todo[c] # <<>> /\ todo' = [todo EXCEPT ![c] = Tail(@)]
      /\ draft' = [draft EXCEPT ![c] = After(@, o, Head(todo[c]))]
      /\ UNCHANGED <<log, work, lock, pc, op>>
  BY DEF Execute, tables
<1>4. todo'[c] = Tail(todo[c]) /\ draft'[c] = After(draft[c], o, Head(todo[c]))
  BY <1>3 DEF SessionTypeInv, SessionTypeOK
<1>5. Is(c, Script(o), log, work)
  BY <1>1, <1>3 DEF DraftOf, NoteDraft, Is
<1>6. todo'[c] = <<>> /\ draft'[c] = [log |-> l1, work |-> work]
  <2> HIDE DEF o, l1, n
  <2>1. todo[c] = <<Emit(None)>> /\ draft[c] = [log |-> log, work |-> work]
    BY <1>5 DEF Is, Script, o
  <2>2. After(draft[c], o, Emit(None)) = [log |-> l1, work |-> work]
    BY <2>1, <1>1, EventIsWritten DEF Announced, l1, n
  <2> QED
    BY <2>1, <2>2, <1>4, ScriptsRun, StatementsAreTyped
<1>7. Typed(c)'
  <2>1. IsEventSeq(l1)
    BY <1>1, <1>2 DEF IsEventSeq
  <2> HIDE DEF l1
  <2> QED
    BY <2>1, <1>1, <1>2, <1>6, EmptySeq DEF Typed, IsEventSeq
<1>8. DraftOf(c)'
  <2>1. NoteDraft(c, op[c])'
    BY <1>3, <1>6 DEF NoteDraft, Is, Announced
  <2>2. (lock = c /\ Len(log) + Events(op[c]) <= MaxEvents)' /\ op'[c].kind = "note"
    BY <1>3, <1>1 DEF Events
  <2> QED
    BY <2>1, <2>2 DEF DraftOf
<1> QED
  BY <1>7, <1>8

-----------------------------------------------------------------------------
(* A commit adds to the log what its script says.                           *)

Grown == /\ log' \in Seq(Event) /\ Len(log') <= MaxEvents /\ Len(log') > Len(log) /\ Numbered(log')
         /\ \A n \in 0 .. Len(log) : SubSeq(log', 1, n) = SubSeq(log, 1, n)

(* The commit of a submission starts the path of its work, *)
LEMMA SubmitCommits ==
  ASSUME SessionTypeInv, WorkFollowsLog, NEW c \in Writers, DraftOf(c),
         RequestOf(c), Commit(c),
         op[c].kind = "submit"
  PROVE  /\ Grown /\ WorkFollowsLog' /\ work' = Moved(op[c], "waiting") /\ work' \in Table
<1> DEFINE o  == op[c]
           n  == Len(log)
           l1 == Announced(o, None)
           l2 == Append(l1, Row(o, n + 2, "waiting"))
<1>1. /\ o \in Op /\ o.work \in Works /\ work[o.work] = None /\ n + 2 <= MaxEvents
      /\ log \in Seq(Event) /\ Numbered(log) /\ n \in Nat /\ MaxEvents \in Nat /\ work \in Table
  BY LenProperties, TransportAssumption
     DEF SessionTypeInv, SessionTypeOK, IsEventSeq, DraftOf, RequestOf, Commit, Events
<1>2. l1 = Append(log, Row(o, n + 1, None)) /\ Row(o, n + 1, None) \in Event
      /\ Row(o, n + 2, "waiting") \in Event
  BY <1>1, StatementsAreTyped DEF Announced, Row, Event, Op
<1>3. Len(log) < MaxEvents /\ Len(log) + 1 = n + 1
  BY <1>1
<1>4. /\ l1 \in Seq(Event) /\ Len(l1) = n + 1 /\ Numbered(l1)
      /\ \A i \in 0 .. n : SubSeq(l1, 1, i) = SubSeq(log, 1, i)
  <2> HIDE DEF l1
  <2> QED
    BY <1>1, <1>2, <1>3, EventIsAppended
<1>5. /\ l2 \in Seq(Event) /\ Len(l2) = n + 2 /\ Numbered(l2)
      /\ \A i \in 0 .. n + 1 : SubSeq(l2, 1, i) = SubSeq(l1, 1, i)
  <2>1. l2 = Append(l1, Row(o, Len(l1) + 1, "waiting")) /\ Len(l1) < MaxEvents
    BY <1>1, <1>4
  <2> HIDE DEF l1, l2
  <2> QED
    BY <1>1, <1>4, <2>1, EventIsAppended, StatementsAreTyped
<1>6. log' = l2 /\ work' = Moved(o, "waiting")
  <2>1. SubmitDraft(c, o) /\ todo[c] = <<>> /\ log' = draft[c].log /\ work' = draft[c].work
    BY DEF DraftOf, Commit
  <2> QED
    BY <2>1 DEF SubmitDraft, Is, Script
<1>7. Moved(o, "waiting") \in Table
  BY <1>1, StatementsAreTyped DEF Moved, Table
<1>8. Grown
  <2> HIDE DEF l1, l2
  <2> QED
    BY <1>1, <1>4, <1>5, <1>6 DEF Grown
<1>9. ASSUME NEW w \in Works PROVE IsPathTo(work'[w], w, l2)
  <2>1. IsPathTo(work[w], w, log)
    BY DEF WorkFollowsLog
  <2>2. IsPathTo(work[w], w, l1)
    BY <2>1, <1>1, <1>2, PathStays DEF Row
  <2>3. CASE w = o.work
    <3>1. work'[w] = "waiting"
      BY <2>3, <1>1, <1>6 DEF Moved, Table
    <3> DEFINE e == Row(o, n + 2, "waiting")
    <3>2. e.work = w /\ e.to = "waiting" /\ e.to # None
      BY <2>3, <1>1, StatementsAreTyped, TransportAssumption DEF Row
    <3>3. e \in Event /\ l2 = Append(l1, e) /\ work[w] = None
      BY <1>1, <1>2, <2>3
    <3> HIDE DEF e, l1, l2
    <3> QED
      BY <3>1, <3>2, <3>3, <2>2, <1>4, PathGoesOn
  <2>4. CASE w # o.work
    <3>1. work'[w] = work[w]
      BY <2>4, <1>1, <1>6 DEF Moved, Table
    <3>2. Row(o, n + 2, "waiting").work # w
      BY <2>4 DEF Row
    <3> HIDE DEF l1
    <3> QED
      BY <3>1, <3>2, <2>2, <1>2, <1>4, PathStays
  <2> QED
    BY <2>3, <2>4
<1> QED
  BY <1>6, <1>7, <1>8, <1>9 DEF WorkFollowsLog

(* that of a move makes it longer, *)
LEMMA MoveCommits ==
  ASSUME SessionTypeInv, WorkFollowsLog, NEW c \in Writers, DraftOf(c),
         RequestOf(c), Commit(c),
         op[c].kind = "move"
  PROVE  /\ Grown /\ WorkFollowsLog' /\ work' = Moved(op[c], op[c].to) /\ work' \in Table
         /\ work[op[c].work] # None
<1> DEFINE o  == op[c]
           n  == Len(log)
           e  == Row(o, n + 1, o.to)
<1>1. /\ o \in Op /\ o.work \in Works /\ o.to \in AgentState /\ n + 1 <= MaxEvents
      /\ log \in Seq(Event) /\ Numbered(log) /\ n \in Nat /\ MaxEvents \in Nat /\ work \in Table
  BY LenProperties, TransportAssumption
     DEF SessionTypeInv, SessionTypeOK, IsEventSeq, DraftOf, RequestOf, Commit, Events
<1>2. /\ log' = Append(log, e) /\ work' = Moved(o, o.to)
      /\ work[o.work] # None /\ o.to \in Moves[work[o.work]] \cup {work[o.work]}
  <2>1. MoveDraft(c, o) /\ todo[c] = <<>> /\ log' = draft[c].log /\ work' = draft[c].work
    BY DEF DraftOf, Commit
  <2> QED
    BY <2>1 DEF MoveDraft, Is, Script, Announced
<1>3. e \in Event /\ e.work = o.work /\ e.to = o.to /\ o.to # None
  BY <1>1, TransportAssumption DEF Row, Event, Op
<1>4. Grown
  <2>1. Len(log) < MaxEvents /\ e = Row(o, Len(log) + 1, o.to)
    BY <1>1
  <2> HIDE DEF e
  <2> QED
    BY <1>1, <1>2, <2>1, EventIsAppended DEF Grown
<1>5. Moved(o, o.to) \in Table
  BY <1>1 DEF Moved, Table
<1>6. ASSUME NEW w \in Works PROVE IsPathTo(work'[w], w, log')
  <2> HIDE DEF e, n
  <2>1. IsPathTo(work[w], w, log)
    BY DEF WorkFollowsLog
  <2>2. CASE w = o.work
    <3>1. work'[w] = o.to
      BY <2>2, <1>1, <1>2 DEF Moved, Table
    <3>2. e.work = w /\ e.to # None /\ e.to \in Moves[work[w]] \cup {work[w]}
      BY <2>2, <1>2, <1>3
    <3>3. IsPathTo(e.to, w, Append(log, e))
      BY <3>2, <2>1, <1>1, <1>3, PathGoesOn
    <3> QED
      BY <3>1, <3>3, <1>2, <1>3
  <2>3. CASE w # o.work
    <3>1. work'[w] = work[w]
      BY <2>3, <1>1, <1>2 DEF Moved, Table
    <3> QED
      BY <3>1, <2>1, <2>3, <1>1, <1>2, <1>3, PathStays
  <2> QED
    BY <2>2, <2>3
<1> QED
  BY <1>2, <1>4, <1>5, <1>6 DEF WorkFollowsLog

(* and that of an event leaves every path alone. *)
LEMMA NoteCommits ==
  ASSUME SessionTypeInv, WorkFollowsLog, NEW c \in Writers, DraftOf(c),
         RequestOf(c), Commit(c),
         op[c].kind = "note"
  PROVE  Grown /\ WorkFollowsLog' /\ work' = work
<1> DEFINE o  == op[c]
           n  == Len(log)
           e  == Row(o, n + 1, None)
<1>1. /\ o \in Op /\ n + 1 <= MaxEvents
      /\ log \in Seq(Event) /\ Numbered(log) /\ n \in Nat /\ MaxEvents \in Nat /\ work \in Table
  BY LenProperties, TransportAssumption
     DEF SessionTypeInv, SessionTypeOK, IsEventSeq, DraftOf, RequestOf, Commit, Events
<1>2. log' = Append(log, e) /\ work' = work
  <2>1. NoteDraft(c, o) /\ todo[c] = <<>> /\ log' = draft[c].log /\ work' = draft[c].work
    BY DEF DraftOf, Commit
  <2> QED
    BY <2>1 DEF NoteDraft, Is, Script, Announced
<1>3. e \in Event /\ e.to = None
  BY <1>1 DEF Row, Event, Op
<1>4. Grown
  <2>1. Len(log) < MaxEvents /\ e = Row(o, Len(log) + 1, None)
    BY <1>1
  <2>2. None \in AgentState \cup {None}
    OBVIOUS
  <2> HIDE DEF e, o, n
  <2>3. /\ log' \in Seq(Event) /\ Len(log') = Len(log) + 1 /\ Numbered(log')
        /\ \A i \in 0 .. Len(log) : SubSeq(log', 1, i) = SubSeq(log, 1, i)
    BY <1>1, <1>2, <2>1, <2>2, EventIsAppended
  <2> QED
    BY <1>1, <2>1, <2>3, LenProperties DEF Grown
<1>5. ASSUME NEW w \in Works PROVE IsPathTo(work'[w], w, log')
  <2> HIDE DEF e, n
  <2>1. IsPathTo(work[w], w, log)
    BY DEF WorkFollowsLog
  <2> QED
    BY <2>1, <1>1, <1>2, <1>3, PathStays
<1> QED
  BY <1>2, <1>4, <1>5 DEF WorkFollowsLog

-----------------------------------------------------------------------------
(* Every step keeps the invariant.                                          *)

(* A request whose part of the state a step leaves alone. *)
LEMMA OthersStay ==
  ASSUME NEW d \in Writers, DraftOf(d), log' = log, work' = work,
         pc[d] = "open" => lock' = lock,
         draft'[d] = draft[d], pc'[d] = pc[d], op'[d] = op[d], todo'[d] = todo[d]
  PROVE  DraftOf(d)'
BY DEF DraftOf, SubmitDraft, MoveDraft, NoteDraft, Is, Announced, Moved

(* The end of a transaction: its request is idle and no draft is open. *)
LEMMA Closes ==
  ASSUME SessionTypeInv, SessionRequestSound, DraftSound,
         NEW c \in Writers, pc[c] = "open", Close(c)
  PROVE  /\ lock' = None /\ draft' \in [Writers -> [log : Seq(Event), work : Table]]
         /\ \A d \in Writers : IsEventSeq(draft'[d].log)
         /\ todo' \in [Writers -> Seq(Statement)] /\ op' \in [Writers -> Op]
         /\ pc' \in [Writers -> {"idle", "gated", "open"}]
         /\ \A d \in Writers : pc'[d] # "open" /\ (d # c => pc'[d] = pc[d] /\ op'[d] = op[d])
         /\ pc'[c] = "idle" /\ op'[c] = NoOp /\ NoOp.kind = "none"
<1>1. NoDraft \in [log : Seq(Event), work : Table] /\ IsEventSeq(NoDraft.log)
  BY EmptySeq, TransportAssumption DEF NoDraft, NoWork, Table, IsEventSeq
<1>2. NoOp \in Op /\ <<>> \in Seq(Statement)
  BY EmptySeq DEF NoOp, Op
<1>3. \A d \in Writers : pc[d] = "open" => d = c
  BY DEF DraftSound, DraftOf
<1> QED
  BY <1>1, <1>2, <1>3 DEF Close, SessionTypeInv, SessionTypeOK, NoOp

(* A commit keeps the invariant, and only adds to the log. *)
LEMMA CommitKeepsInv ==
  ASSUME SessionInv, NEW c \in Writers, Commit(c)
  PROVE  SessionInv' /\ Grown
<1> USE DEF SessionInv
<1>1. DraftOf(c) /\ RequestOf(c) /\ pc[c] = "open" /\ Close(c)
  BY DEF DraftSound, SessionRequestSound, Commit
<1>2. op[c].kind \in {"submit", "move", "note"}
  BY <1>1 DEF RequestOf, SessionTypeInv, SessionTypeOK, Op
<1>3. /\ Grown /\ WorkFollowsLog' /\ work' \in Table
      /\ \/ work' = work
         \/ work' = Moved(op[c], op[c].to) /\ work[op[c].work] # None
         \/ work' = Moved(op[c], "waiting") /\ op[c].kind = "submit"
  BY <1>1, <1>2, SubmitCommits, MoveCommits, NoteCommits DEF SessionTypeInv, SessionTypeOK
<1>4. /\ lock' = None /\ draft' \in [Writers -> [log : Seq(Event), work : Table]]
      /\ \A d \in Writers : IsEventSeq(draft'[d].log)
      /\ todo' \in [Writers -> Seq(Statement)] /\ op' \in [Writers -> Op]
      /\ pc' \in [Writers -> {"idle", "gated", "open"}]
      /\ \A d \in Writers : pc'[d] # "open" /\ (d # c => pc'[d] = pc[d] /\ op'[d] = op[d])
      /\ pc'[c] = "idle" /\ op'[c] = NoOp /\ NoOp.kind = "none"
  BY <1>1, Closes
<1>5. UNCHANGED <<ctx, clients>>
  BY <1>1 DEF Close
<1>6. SessionTypeInv'
  BY <1>3, <1>4, <1>5 DEF SessionTypeInv, SessionTypeOK, Grown, IsEventSeq, clients
<1>7. SessionRequestSound'
  <2> SUFFICES ASSUME NEW d \in Writers PROVE RequestOf(d)'
    BY DEF SessionRequestSound
  <2>1. RequestOf(d)
    BY DEF SessionRequestSound
  <2>2. CASE d = c
    BY <2>2, <1>4 DEF RequestOf
  <2>3. ASSUME d # c, op[d].kind = "submit" PROVE work'[op[d].work] = None
    <3>1. op[d].work \in Works /\ work[op[d].work] = None /\ work \in Table
      BY <2>1, <2>3 DEF RequestOf, SessionTypeInv, SessionTypeOK
    <3>2. op[c].kind = "submit" => op[c].work # op[d].work
      BY <1>1, <2>3 DEF RequestOf
    <3> QED
      BY <3>1, <3>2, <1>3 DEF Moved, Table
  <2> QED
    BY <2>1, <2>2, <2>3, <1>4 DEF RequestOf
<1>8. DraftSound'
  BY <1>4 DEF DraftSound, DraftOf
<1>9. FollowersSound'
  <2> SUFFICES ASSUME NEW r \in Readers PROVE FollowerOf(r)'
    BY DEF FollowersSound
  <2>1. FollowerOf(r) /\ cursor[r] \in Nat /\ Len(log) \in Nat /\ Len(log') \in Nat
    BY <1>3, LenProperties, TransportAssumption
       DEF FollowersSound, SessionTypeInv, SessionTypeOK, Grown, IsEventSeq
  <2> QED
    BY <2>1, <1>3, <1>5 DEF FollowerOf, Grown, clients
<1> QED
  BY <1>3, <1>6, <1>7, <1>8, <1>9

(* A client is given the rows from the one after its cursor.                *)
LEMMA PollFollows ==
  ASSUME SessionInv, NEW r \in Readers, Poll(r)
  PROVE  \E n \in cursor[r] + 1 .. Len(log) :
            /\ cursor' = [cursor EXCEPT ![r] = n]
            /\ seen' = [seen EXCEPT ![r] = SubSeq(log, 1, n)]
<1> DEFINE newer == {i \in 1 .. Len(log) : log[i].seq > cursor[r]}
           first == CHOOSE i \in newer : \A j \in newer : i <= j
<1>1. PICK a \in Nat : a = cursor[r]
  BY TransportAssumption DEF SessionInv, SessionTypeInv, SessionTypeOK
<1>2. PICK z \in Nat : z = Len(log)
  BY LenProperties DEF SessionInv, SessionTypeInv, SessionTypeOK, IsEventSeq
<1>3. log \in Seq(Event) /\ a <= z /\ seen[r] = SubSeq(log, 1, a) /\ Limit \in Nat \ {0}
      /\ \A i \in 1 .. z : log[i].seq = i
  BY <1>1, <1>2, TransportAssumption
     DEF SessionInv, SessionTypeInv, SessionTypeOK, IsEventSeq, Numbered, FollowersSound,
         FollowerOf
<1>4. Page(a) = IF newer = {} THEN <<>> ELSE FirstPage(SubSeq(log, first, Len(log)))
  BY <1>1 DEF Page
<1>5. newer = a + 1 .. z
  BY <1>1, <1>2, <1>3
<1>6. Page(a) # <<>>
  BY <1>1 DEF Poll
<1> HIDE DEF newer
<1>7. newer # {} /\ first = a + 1
  <2>1. newer # {}
    BY <1>4, <1>6
  <2>2. a + 1 \in newer /\ \A j \in newer : a + 1 <= j
    BY <1>5, <2>1
  <2>3. first \in newer /\ \A j \in newer : first <= j
    BY <2>2
  <2> HIDE DEF first
  <2> QED
    BY <2>1, <2>2, <2>3, <1>5
<1> DEFINE rest == SubSeq(log, a + 1, z)
<1>8. rest \in Seq(Event) /\ Len(rest) = z - a /\ a + 1 \in 1 .. z
  <2>1. a + 1 \in 1 .. z
    BY <1>5, <1>7
  <2>2. \A i \in a + 1 .. z : log[i] \in Event
    BY <1>2, <1>3, ElementOfSeq
  <2> QED
    BY <2>1, <2>2, SubSeqProperties
<1>9. PICK k \in Nat : k = IF Len(rest) < Limit THEN Len(rest) ELSE Limit
  <2>1. Len(rest) \in Nat
    BY <1>8, LenProperties
  <2> HIDE DEF rest
  <2> QED
    BY <2>1, <1>3
<1>10. k \in 1 .. z - a /\ a + k \in a + 1 .. z
  <2> HIDE DEF rest
  <2>1. z - a >= 1 /\ Len(rest) = z - a
    BY <1>8
  <2> QED
    BY <2>1, <1>3, <1>9
<1>11. Page(a) = SubSeq(log, a + 1, a + k)
  <2> HIDE DEF first
  <2>1. Page(a) = FirstPage(rest)
    BY <1>2, <1>4, <1>7
  <2>2. FirstPage(rest) = SubSeq(rest, 1, k)
    BY <1>9 DEF FirstPage
  <2>3. SubSeq(rest, 1, k) = SubSeq(log, a + 1 + 1 - 1, a + 1 + k - 1)
    <3>1. a + 1 \in 1 .. Len(log) /\ z \in 1 .. Len(log)
          /\ 1 \in 1 .. z - (a + 1) + 1 /\ k \in 1 .. z - (a + 1) + 1
      BY <1>2, <1>8, <1>10
    <3> QED
      BY <3>1, <1>3, <1>2, SubSeqOfSubSeq
  <2>4. a + 1 + 1 - 1 = a + 1 /\ a + 1 + k - 1 = a + k
    BY <1>10
  <2> HIDE DEF rest
  <2> QED
    BY <2>1, <2>2, <2>3, <2>4
<1>12. Len(Page(a)) = k /\ Page(a)[k] = log[a + k]
  <2>1. \A i \in a + 1 .. a + k : log[i] \in Event
    BY <1>2, <1>3, <1>10, ElementOfSeq
  <2>2. /\ Len(SubSeq(log, a + 1, a + k)) = IF a + 1 <= a + k THEN a + k - (a + 1) + 1 ELSE 0
        /\ \A i \in 1 .. a + k - (a + 1) + 1 : SubSeq(log, a + 1, a + k)[i] = log[a + 1 + i - 1]
    BY <2>1, <1>10, SubSeqProperties
  <2> QED
    BY <2>2, <1>10, <1>11
<1>13. Page(a)[Len(Page(a))].seq = a + k
  BY <1>3, <1>10, <1>12
<1>14. seen[r] \o Page(a) = SubSeq(log, 1, a + k)
  <2>1. 1 \in 1 .. Len(log) + 1 /\ a \in 1 - 1 .. Len(log) /\ a + k \in a .. Len(log)
    BY <1>2, <1>3, <1>10
  <2>2. SubSeq(log, 1, a) \o SubSeq(log, a + 1, a + k) = SubSeq(log, 1, a + k)
    BY <2>1, <1>3, ConcatAdjacentSubSeq
  <2> QED
    BY <2>2, <1>3, <1>11
<1>15. /\ cursor' = [cursor EXCEPT ![r] = a + k]
       /\ seen' = [seen EXCEPT ![r] = SubSeq(log, 1, a + k)]
  BY <1>1, <1>13, <1>14 DEF Poll
<1>16. a + k \in cursor[r] + 1 .. Len(log)
  BY <1>1, <1>2, <1>10
<1> QED
  BY <1>15, <1>16

(* The check of the context, before the transaction. *)
LEMMA GateKeepsInv == ASSUME SessionInv, NEW c \in Writers, Gate(c) PROVE SessionInv'
<1> USE DEF SessionInv
<1>1. PICK o \in Requests : op' = [op EXCEPT ![c] = o]
  BY DEF Gate
<1>2. /\ o \in Op /\ o.kind \in {"submit", "move", "note"}
      /\ o.kind = "submit" => o.work \in Works /\ Fresh(o.work)
      /\ o.kind = "move" => o.work \in Works /\ o.to \in AgentState
  BY DEF Requests, Op
<1>3. pc' = [pc EXCEPT ![c] = "gated"] /\ UNCHANGED <<ctx, log, work, lock, draft, todo, seen, cursor>>
  BY DEF Gate, tables, clients
<1>4. SessionTypeInv'
  <2>1. op' \in [Writers -> Op] /\ pc' \in [Writers -> {"idle", "gated", "open"}]
    BY <1>1, <1>2, <1>3 DEF SessionTypeInv, SessionTypeOK
  <2> QED
    BY <2>1, <1>3 DEF SessionTypeInv, SessionTypeOK
<1>5. SessionRequestSound'
  <2>1. /\ \A d \in Writers : op'[d] = IF d = c THEN o ELSE op[d]
        /\ \A d \in Writers : pc'[d] = IF d = c THEN "gated" ELSE pc[d]
    BY <1>1, <1>3 DEF SessionTypeInv, SessionTypeOK
  <2> SUFFICES ASSUME NEW d \in Writers PROVE RequestOf(d)'
    BY DEF SessionRequestSound
  <2>2. RequestOf(d)
    BY DEF SessionRequestSound
  <2>3. CASE d = c
    BY <2>1, <2>3, <1>2, <1>3 DEF RequestOf, Fresh
  <2>4. CASE d # c
    BY <2>1, <2>2, <2>4, <1>2, <1>3 DEF RequestOf, Fresh
  <2> QED
    BY <2>3, <2>4
<1>6. DraftSound'
  <2> SUFFICES ASSUME NEW d \in Writers PROVE DraftOf(d)'
    BY DEF DraftSound
  <2>1. CASE d = c
    BY <2>1, <1>3 DEF DraftOf, SessionTypeInv, SessionTypeOK
  <2>2. CASE d # c
    BY <2>2, <1>1, <1>3, OthersStay DEF DraftSound, SessionTypeInv, SessionTypeOK
  <2> QED
    BY <2>1, <2>2
<1> QED
  BY <1>3, <1>4, <1>5, <1>6 DEF WorkFollowsLog, FollowersSound, FollowerOf

(* The request that is refused for its context or its work. *)
LEMMA GiveUpKeepsInv == ASSUME SessionInv, NEW c \in Writers, GiveUp(c) PROVE SessionInv'
<1> USE DEF SessionInv
<1>1. /\ op' = [op EXCEPT ![c] = NoOp] /\ pc' = [pc EXCEPT ![c] = "idle"]
      /\ UNCHANGED <<ctx, log, work, lock, draft, todo, seen, cursor>>
  BY DEF GiveUp, tables, clients
<1>2. NoOp \in Op /\ NoOp.kind = "none"
  BY DEF NoOp, Op
<1>3. SessionTypeInv'
  <2>1. op' \in [Writers -> Op] /\ pc' \in [Writers -> {"idle", "gated", "open"}]
    BY <1>1, <1>2 DEF SessionTypeInv, SessionTypeOK
  <2> QED
    BY <2>1, <1>1 DEF SessionTypeInv, SessionTypeOK
<1>4. SessionRequestSound'
  <2>1. /\ \A d \in Writers : op'[d] = IF d = c THEN NoOp ELSE op[d]
        /\ \A d \in Writers : pc'[d] = IF d = c THEN "idle" ELSE pc[d]
    BY <1>1 DEF SessionTypeInv, SessionTypeOK
  <2> QED
    BY <2>1, <1>1, <1>2 DEF SessionRequestSound, RequestOf
<1>5. DraftSound'
  <2> SUFFICES ASSUME NEW d \in Writers PROVE DraftOf(d)'
    BY DEF DraftSound
  <2>1. CASE d = c
    BY <2>1, <1>1 DEF DraftOf, SessionTypeInv, SessionTypeOK
  <2>2. CASE d # c
    BY <2>2, <1>1, OthersStay DEF DraftSound, SessionTypeInv, SessionTypeOK
  <2> QED
    BY <2>1, <2>2
<1> QED
  BY <1>1, <1>3, <1>4, <1>5 DEF WorkFollowsLog, FollowersSound, FollowerOf

(* The write lock is taken and the draft is the committed tables. *)
LEMMA BeginKeepsInv ==
  ASSUME SessionInv, NEW c \in Writers, Begin(c)
  PROVE  SessionInv'
<1> USE DEF SessionInv
<1>1. /\ pc[c] = "gated" /\ lock = None /\ Len(log) + Events(op[c]) <= MaxEvents
      /\ lock' = c /\ draft' = [draft EXCEPT ![c] = [log |-> log, work |-> work]]
      /\ todo' = [todo EXCEPT ![c] = Script(op[c])] /\ pc' = [pc EXCEPT ![c] = "open"]
      /\ UNCHANGED <<ctx, log, work, op, seen, cursor>>
  BY DEF Begin, tables, clients
<1>2. RequestOf(c) /\ op[c] \in Op
  BY DEF SessionRequestSound, SessionTypeInv, SessionTypeOK
<1>3. Script(op[c]) \in Seq(Statement)
  <2>1. CASE op[c].kind = "submit"
    BY <2>1, ScriptsRun, StatementsAreTyped DEF Script
  <2>2. CASE op[c].kind = "move"
    BY <2>2, <1>2, ScriptsRun, StatementsAreTyped DEF Script, RequestOf
  <2>3. CASE op[c].kind \notin {"submit", "move"}
    BY <2>3, ScriptsRun, StatementsAreTyped DEF Script
  <2> QED
    BY <2>1, <2>2, <2>3
<1>4. SessionTypeInv'
  <2>1. todo' \in [Writers -> Seq(Statement)] /\ pc' \in [Writers -> {"idle", "gated", "open"}]
    BY <1>1, <1>3 DEF SessionTypeInv, SessionTypeOK
  <2>2. draft' \in [Writers -> [log : Seq(Event), work : Table]]
        /\ \A d \in Writers : IsEventSeq(draft'[d].log)
    BY <1>1 DEF SessionTypeInv, SessionTypeOK, IsEventSeq
  <2> QED
    BY <2>1, <2>2, <1>1 DEF SessionTypeInv, SessionTypeOK
<1>5. SessionRequestSound'
  BY <1>1 DEF SessionRequestSound, RequestOf, SessionTypeInv, SessionTypeOK
<1>6. DraftSound'
  <2> SUFFICES ASSUME NEW d \in Writers PROVE DraftOf(d)'
    BY DEF DraftSound
  <2>1. CASE d = c
    <3>1. Is(c, Script(op[c]), log, work)'
      BY <1>1 DEF Is, SessionTypeInv, SessionTypeOK
    <3>2. op' = op /\ log' = log /\ lock' = c /\ Len(log) + Events(op[c]) <= MaxEvents
      BY <1>1
    <3> QED
      BY <2>1, <3>1, <3>2 DEF DraftOf, SubmitDraft, MoveDraft, NoteDraft
  <2>2. CASE d # c
    <3>1. pc[d] # "open"
      BY <1>1, TransportAssumption DEF DraftSound, DraftOf
    <3> QED
      BY <2>2, <3>1, <1>1 DEF DraftOf, SessionTypeInv, SessionTypeOK
  <2> QED
    BY <2>1, <2>2
<1> QED
  BY <1>1, <1>4, <1>5, <1>6 DEF WorkFollowsLog, FollowersSound, FollowerOf

(* The next statement of the script. *)
LEMMA ExecuteKeepsInv ==
  ASSUME SessionInv, NEW c \in Writers, Execute(c)
  PROVE  SessionInv'
<1> USE DEF SessionInv
<1>1. /\ pc[c] = "open" /\ UNCHANGED <<ctx, log, work, lock, pc, op, seen, cursor>>
      /\ \A d \in Writers : d # c => draft'[d] = draft[d] /\ todo'[d] = todo[d]
  BY DEF Execute, tables, clients, SessionTypeInv, SessionTypeOK
<1>2. DraftOf(c) /\ RequestOf(c) /\ op[c].kind \in {"submit", "move", "note"}
  BY <1>1 DEF DraftSound, SessionRequestSound, RequestOf, SessionTypeInv, SessionTypeOK, Op
<1>3. DraftOf(c)' /\ Typed(c)'
  BY <1>2, SubmitExecutes, MoveExecutes, NoteExecutes
<1>4. SessionTypeInv'
  <2>1. draft' \in [Writers -> [log : Seq(Event), work : Table]] /\ todo' \in [Writers -> Seq(Statement)]
    <3>1. /\ draft' = [draft EXCEPT ![c] = draft'[c]] /\ todo' = [todo EXCEPT ![c] = todo'[c]]
      BY DEF Execute, SessionTypeInv, SessionTypeOK
    <3> QED
      BY <3>1, <1>3 DEF Typed, SessionTypeInv, SessionTypeOK
  <2>2. \A d \in Writers : IsEventSeq(draft'[d].log)
    BY <1>1, <1>3 DEF Typed, SessionTypeInv, SessionTypeOK
  <2> QED
    BY <2>1, <2>2, <1>1 DEF SessionTypeInv, SessionTypeOK
<1>5. DraftSound'
  <2> SUFFICES ASSUME NEW d \in Writers, d # c PROVE DraftOf(d)'
    BY <1>3 DEF DraftSound
  <2> QED
    BY <1>1, OthersStay DEF DraftSound
<1> QED
  BY <1>1, <1>4, <1>5
     DEF SessionRequestSound, RequestOf, WorkFollowsLog, FollowersSound, FollowerOf

(* The draft is dropped. *)
LEMMA RollbackKeepsInv ==
  ASSUME SessionInv, NEW c \in Writers, Rollback(c)
  PROVE  SessionInv'
<1> USE DEF SessionInv
<1>1. pc[c] = "open" /\ Close(c) /\ UNCHANGED <<ctx, log, work, seen, cursor>>
  BY DEF Rollback, Close, tables, clients
<1>2. /\ lock' = None /\ draft' \in [Writers -> [log : Seq(Event), work : Table]]
      /\ \A d \in Writers : IsEventSeq(draft'[d].log)
      /\ todo' \in [Writers -> Seq(Statement)] /\ op' \in [Writers -> Op]
      /\ pc' \in [Writers -> {"idle", "gated", "open"}]
      /\ \A d \in Writers : pc'[d] # "open" /\ (d # c => pc'[d] = pc[d] /\ op'[d] = op[d])
      /\ pc'[c] = "idle" /\ op'[c] = NoOp /\ NoOp.kind = "none"
  BY <1>1, Closes
<1>3. SessionTypeInv'
  BY <1>1, <1>2 DEF SessionTypeInv, SessionTypeOK
<1>4. SessionRequestSound'
  <2> SUFFICES ASSUME NEW d \in Writers PROVE RequestOf(d)'
    BY DEF SessionRequestSound
  <2>1. RequestOf(d)
    BY DEF SessionRequestSound
  <2>2. CASE d = c
    BY <2>2, <1>2 DEF RequestOf
  <2>3. CASE d # c
    BY <2>1, <2>3, <1>1, <1>2 DEF RequestOf
  <2> QED
    BY <2>2, <2>3
<1>5. DraftSound'
  BY <1>2 DEF DraftSound, DraftOf
<1> QED
  BY <1>1, <1>3, <1>4, <1>5 DEF WorkFollowsLog, FollowersSound, FollowerOf

(* A page for a client. *)
LEMMA PollKeepsInv ==
  ASSUME SessionInv, NEW r \in Readers, Poll(r)
  PROVE  SessionInv'
<1> USE DEF SessionInv
<1>1. UNCHANGED <<ctx, log, work, lock, draft, pc, op, todo>>
  BY DEF Poll, tables
<1>2. PICK n \in cursor[r] + 1 .. Len(log) :
         cursor' = [cursor EXCEPT ![r] = n] /\ seen' = [seen EXCEPT ![r] = SubSeq(log, 1, n)]
  BY PollFollows
<1>3. /\ n \in 0 .. MaxEvents /\ n <= Len(log) /\ n \in 1 .. Len(log)
      /\ cursor \in [Readers -> 0 .. MaxEvents] /\ seen \in [Readers -> Seq(Event)]
      /\ log \in Seq(Event) /\ Len(log) \in Nat /\ MaxEvents \in Nat
  BY LenProperties, TransportAssumption DEF SessionTypeInv, SessionTypeOK, IsEventSeq
<1>4. SubSeq(log, 1, n) \in Seq(Event) /\ Len(SubSeq(log, 1, n)) = n
  <2>1. \A i \in 1 .. n : log[i] \in Event
    BY <1>3, ElementOfSeq
  <2> QED
    BY <2>1, <1>3, SubSeqProperties
<1>5. SessionTypeInv'
  <2>1. cursor' \in [Readers -> 0 .. MaxEvents] /\ seen' \in [Readers -> Seq(Event)]
    BY <1>2, <1>3, <1>4
  <2>2. \A q \in Readers : IsEventSeq(seen'[q])
    <3>1. IsEventSeq(SubSeq(log, 1, n))
      BY <1>3, <1>4 DEF IsEventSeq
    <3> QED
      BY <1>2, <1>3, <3>1 DEF SessionTypeInv, SessionTypeOK
  <2> QED
    BY <2>1, <2>2, <1>1 DEF SessionTypeInv, SessionTypeOK
<1>6. FollowersSound'
  <2> SUFFICES ASSUME NEW q \in Readers PROVE FollowerOf(q)'
    BY DEF FollowersSound
  <2> QED
    BY <1>1, <1>2, <1>3 DEF FollowersSound, FollowerOf
<1>7. SessionRequestSound'
  BY <1>1 DEF SessionRequestSound, RequestOf
<1>8. DraftSound'
  BY <1>1, OthersStay DEF DraftSound
<1> QED
  BY <1>1, <1>5, <1>6, <1>7, <1>8 DEF WorkFollowsLog

(* A step that leaves the tables, the requests and the clients alone. *)
LEMMA ContextKeepsInv ==
  ASSUME SessionInv, ctx' \in {"active", "ended", "purged"},
         UNCHANGED <<log, work, lock, draft, pc, op, todo, seen, cursor>>
  PROVE  SessionInv'
<1> USE DEF SessionInv
<1>1. SessionTypeInv'
  BY DEF SessionTypeInv, SessionTypeOK
<1>2. DraftSound'
  BY OthersStay DEF DraftSound
<1>3. SessionRequestSound' /\ FollowersSound' /\ WorkFollowsLog'
  BY DEF SessionRequestSound, RequestOf, FollowersSound, FollowerOf, WorkFollowsLog
<1> QED
  BY <1>1, <1>2, <1>3

(* Every step of SessionTransport keeps the invariant. *)
LEMMA SessionStepInv == SessionInv /\ [SessionNext]_session => SessionInv'
<1> SUFFICES ASSUME SessionInv, [SessionNext]_session PROVE SessionInv'
  OBVIOUS
<1>1. ASSUME NEW c \in Writers, Gate(c) \/ GiveUp(c) \/ Begin(c) PROVE SessionInv'
  BY <1>1, GateKeepsInv, GiveUpKeepsInv, BeginKeepsInv
<1>2. ASSUME NEW c \in Writers, Execute(c) \/ Commit(c) \/ Rollback(c) PROVE SessionInv'
  BY <1>2, ExecuteKeepsInv, CommitKeepsInv, RollbackKeepsInv
<1>3. ASSUME NEW r \in Readers, Poll(r) PROVE SessionInv'
  BY <1>3, PollKeepsInv
<1>4. CASE End \/ PurgeContext
  BY <1>4, ContextKeepsInv DEF End, PurgeContext, tables, clients
<1>5. CASE UNCHANGED session
  BY <1>5, ContextKeepsInv DEF session, SessionInv, SessionTypeInv, SessionTypeOK
<1> QED
  BY <1>1, <1>2, <1>3, <1>4, <1>5 DEF SessionNext

(* So it holds in every state. *)
LEMMA SessionInvariance == SessionSpec => []SessionInv
BY SessionInitInv, SessionStepInv, PTL DEF SessionSpec

(* SessionTransport's variables keep their types, drafts and scripts of open transactions included. *)
THEOREM SessionTypeCorrect == SessionSpec => []SessionTypeOK
BY SessionInvariance, PTL DEF SessionInv, SessionTypeInv

(* The states _apply_state recorded for each work are a path of its state machine, and the *)
(* work's row is where the path ends. *)
THEOREM WorkAlwaysFollows == SessionSpec => []WorkFollowsLog
BY SessionInvariance, PTL DEF SessionInv

(* The tables, their transactions and their readers implement SessionLog: a transaction is one *)
(* addition to the log, and a client is given every event once and in order. *)
THEOREM SessionRefinement == SessionSpec => RefinesSessionLog
<1>1. SessionInit => Follower!Init
  BY DEF SessionInit, Follower!Init
<1>2. SessionInv /\ [SessionNext]_session => [Follower!Next]_<<log, seen>>
  <2> SUFFICES ASSUME SessionInv, [SessionNext]_session PROVE [Follower!Next]_<<log, seen>>
    OBVIOUS
  <2>1. ASSUME NEW c \in Writers, Commit(c) PROVE Follower!Next
    <3>1. Grown /\ UNCHANGED seen
      BY <2>1, CommitKeepsInv DEF Commit, Close, clients
    <3>2. SubSeq(log', 1, Len(log)) = log
      BY <3>1, LenProperties, SubSeqFull
         DEF Grown, SessionInv, SessionTypeInv, SessionTypeOK, IsEventSeq
    <3> QED
      BY <3>1, <3>2 DEF Grown, Follower!Next, Follower!Grow, Follower!FirstOf
  <2>2. ASSUME NEW r \in Readers, Poll(r) PROVE Follower!Next
    <3>1. PICK n \in cursor[r] + 1 .. Len(log) : seen' = [seen EXCEPT ![r] = SubSeq(log, 1, n)]
      BY <2>2, PollFollows
    <3>2. Len(seen[r]) = cursor[r]
      <4>1. cursor[r] \in 0 .. Len(log) /\ log \in Seq(Event) /\ Len(log) \in Nat
        BY LenProperties, TransportAssumption
           DEF SessionInv, SessionTypeInv, SessionTypeOK, IsEventSeq, FollowersSound, FollowerOf
      <4>2. \A i \in 1 .. cursor[r] : log[i] \in Event
        BY <4>1, ElementOfSeq
      <4> QED
        BY <4>1, <4>2, SubSeqProperties DEF SessionInv, FollowersSound, FollowerOf
    <3>3. log' = log
      BY <2>2 DEF Poll, tables
    <3> QED
      BY <3>1, <3>2, <3>3 DEF Follower!Next, Follower!Follow, Follower!FirstOf
  <2>3. ASSUME NEW c \in Writers,
               Gate(c) \/ GiveUp(c) \/ Begin(c) \/ Execute(c) \/ Rollback(c)
        PROVE  UNCHANGED <<log, seen>>
    BY <2>3 DEF Gate, GiveUp, Begin, Execute, Rollback, Close, tables, clients
  <2>4. CASE End \/ PurgeContext \/ UNCHANGED session
    BY <2>4 DEF End, PurgeContext, session, tables, clients
  <2> QED
    BY <2>1, <2>2, <2>3, <2>4 DEF SessionNext
<1> QED
  BY <1>1, <1>2, SessionInvariance, PTL DEF SessionSpec, RefinesSessionLog, Follower!Spec
=============================================================================
