# Kater: verification project

TLA+ models of the parts of kater (`src/kater`) that keep state which several
threads, processes or requests change at once, the TLC configurations that check
them on small instances, and TLAPS proofs of the same safety properties and
refinements for every size.
`PROJECT.json` maps every definition to the lines it models, and lists the
components, the hazards, the runs and the theorems.

Paths below are relative to `src/kater` unless they name another directory.

Contents: 1 the system, 2 what is hard, 3 the modules, 4 the runs, 5 fairness,
6 proofs, 7 where the code and its own words disagree, 8 what is not modelled,
9 the plan.

## 1. The system

Kater is an execution and integration gateway for agents.  One server process
serves HTTP, WebSocket and MCP from a pool of threads, with one maintenance
thread; command-line processes work on the same `.kater` directory (SQLite and
JSON files) beside it.

| component | files | state it keeps | operations | correct when |
|---|---|---|---|---|
| proxy manager | `proxy/manager.py`, `proxy/base.py` | backend and breaker of each name, `_started`, locks | start, stop, register, drop, sync, call, heal, statuses | maps agree, no process is forgotten, one probe per half-open period, the breaker closes after an outage |
| circuit breaker | `proxy/manager.py` 58-131 | state, failure count, opening time, probe flag | can_call, record_success, record_failure, reset | state and count agree |
| logical routing | `proxy/manager.py` 600-820, `control_plane/routing.py`, `control_plane/store.py` | candidates, quota windows, affinity (SQLite); `_route_in_flight` (memory) | logical call, operator edits, restart | slots accounted, limits kept, no unsafe repetition, serves again |
| action execution | `execution.py`, `executor.py` | one row per principal and idempotency key; worker threads | reserve, attempt, retry, time out, store, release | one holder, final answer, faithful replay, bounded effects |
| browser sessions | `browser/session.py`, `browser/store.py` | sessions and page handles (memory), rows (SQLite), open pages | create, act, close, close_all, reap_expired | each page one owner, one actor, limit kept, rows true |
| browser call runner | `browser/runner.py`, `browser/providers.py` | worker thread, queue, generation | submit, replace, stop | a job runs for the caller that waits for it |
| automations | `automations/*` | rows, run history; `_in_flight`, `_skip_recorded` of each process | tick, run_now, upsert, set_enabled, delete | one run at a time, on schedule, nothing starves |
| session transport | `control_plane/session_transport.py` | work rows and numbered events of a context | submit, append, transition, cancel, list, wait | an append-only log, states that follow it |
| contexts and tokens | `control_plane/contexts.py`, `tokens.py`, `authgate.py`, `api/fabric_routes.py` | contexts (SQLite), signed tokens | create, delegate, mint, revoke, expire, purge, restart | authority shrinks along a chain, an ended context stays ended |
| capabilities | `capabilities/*` | rows (SQLite), registry of the process | register, call, revoke, set-lifecycle, restart | a revoked one is not called |
| OAuth, sign-in | `oauth.py`, `oidc.py`, `browser_auth.py`, `mcp_oauth.py` | pending logins, sessions, nonces (memory); codes, tokens, connections (JSON) | begin, call back, exchange, check, log out, revoke, clean up | one grant per login, no login left behind, logout is final |
| settings | `settings.py`, `connect.py` | `settings.json` and its cached object | load, change, save, invalidate | a refused change is not saved |
| backup and restore | `backup.py` | archives, the state directory | stage, migrate, back up, swap, roll back, clean | the old or the new state, never neither |
| migrations | `migrations.py` | schema version | read versions, apply | each applied once, in order |
| process lifecycle | `runtime.py` | servers, threads, shutdown event | start, loop, stop | what was started is stopped |
| connectors | `connectors/*` | catalogue rows, the pool of warm backends | seed, register, enable, disable, validate, invoke | an operator's decision holds, leases come back |
| pull request control | `pr_control.py`, `github_transport.py` | audit rows (the rest is GitHub's) | read, decide, merge, reconcile | what is merged was approved and green, the audit says what happened |
| branch lifecycle | `branch_lifecycle.py` | none of its own | scan, delete | no branch with work of its own is deleted |
| WebSocket hub | `websocket.py` | tickets, subscribers | issue, redeem, broadcast | an event reaches the sockets that are open |
| dashboard | `web/dashboard.py` | view, catalogue, panel, browser workspace, socket, timers (in the page) | load, answer, event, click, reconnect | late answers do no harm, the page settles, the socket comes back |
| usage, telemetry | `control_plane/usage.py`, `telemetry.py` | counters, event rows | record, trim | approximate by design |
| HTTP API, MCP servers, command line | `api/*`, `mcp*`, `cli.py` | none beyond the above | call the components | - |

How they interact: request threads call the proxy manager and the executor
directly; the executor's connectors call back into the proxy manager.  The
maintenance thread (`runtime.py` 230-298) reaps browser sessions, ticks the
automations and prunes tables; a built-in automation heals the proxy.  API
handlers edit automations, routes, settings, connectors and contexts while those
run, and the dashboard calls them and listens to the WebSocket hub.  Processes meet
only in SQLite (WAL, busy timeout) and in JSON files replaced as a whole.

## 2. What is hard

The code is careful inside one lock and exposed between two: a check under a
lock and the act after it, a record read, worked on and written back, a write
after the lock is released, a lock of one process where another process has its
own.  Then there are threads that outlive the call that started them (Python
cannot stop a thread, so every deadline leaves one behind), rows that outlive the
process that wrote them, and SQLite transactions that can fail at each statement.
`hazards` in `PROJECT.json` lists them at their lines, with the property
that watches each or the reason none does.

## 3. The modules

A step is what one lock hold, one SQL transaction or one call of an outside party
makes indivisible; everything else interleaves.  Clocks are modelled by what is
left of each deadline, counted down by one action.  Each history variable (marked
`history` where it is declared) is read by properties only.

**CircuitBreaker** - the breaker as operators on a record: `MaybeHalfOpen`,
`Admits`/`AfterAdmission` (`can_call`), `RecordSuccess`, `RecordFailure`,
`ResetBreaker`.  `wait` stands for `recovery_timeout - (monotonic() -
opened_at)`, and `failures` saturates at the threshold, which is the only
thing the code compares it with.  Used by the next two modules.

**BackendCalls** - direct calls to one backend name.  Callers read `_backends`
and `_breakers` without a lock and keep the objects they read, so backends and
breakers are numbered objects and `curBackend`, `curBreaker` what the maps hold.
`Admit`, `GiveUp`, `Dispatch`, `Answered`, `Broken` are `_call_backend`; `Start`,
`Stop`, `Drop`, `SyncCheck`, `Register` and their `...Done` halves are the locked
sections of `start`, `stop`, `drop_backends_for`, `sync_source`,
`register_backend`; `Heal` and `Statuses` what the automations and the status
page do to a breaker.

**LogicalRouting** - one capability over several accounts.  `List` reads the
candidates in one transaction, `Rank` orders the eligible ones (any order: the
score's latency and load terms make each possible), `Reserve` is the atomic
check of `max_concurrent`, `Dispatch` the admission by the backend, `Send` the
moment the request leaves; then one of the outcomes, `Release`, and each
bookkeeping transaction of its own: `Charge`, `Activate`, `Pin` after success,
`Unpin`, `Cool` after a failure that may be repeated.  `Upsert`, `Remove` are the
operator's edits (`kater-routes`), `Restart` a stop and start of the manager.
**RoutedCall** is the promise to the client: a call goes to another upstream only
while its request has reached none, and success is answered exactly when an
upstream succeeded.

**IdempotentExecution** - calls with one principal and key, each in a process of
its own, because `_lock` orders only one process.  `Look`, `Insert`, `LookAgain`
are `reserve_idempotency`; `Attempt`, `Effect`, `Return`, `Join`, `Expire` are
`run_with_timeout` inside `_run_attempts`; `OrphanEffect`, `OrphanEnd` what a
thread does after its deadline; `Store`, `Release`, `Raise`, `Crash`, `Exit` the
ways a call ends.  **IdempotencyKey** is what a key promises: a lock with a
memory.

**BrowserSessions** - the session table, page handles, open pages and database
rows.  `Create`, `NewPage`, `NewPageFails`, `Opened`, `Broken` are `create`; `Act`,
`Acted`, `Finish` are `act`; `Close`, `ClosePage`, `Closed` are `close`, which
`CloseAll` and `ReapExpired` call once for each session of a list; `Save` is the
row, written after the lock, and `SaveFails` its error, which nobody catches;
`CloseElsewhere` is `kater browser close` of another process, which has the row only.
`NewPage`, `Acted`, `ClosePage` and the end of `close_all` may fail, quietly where
the code is quiet, and a deadline that passes gives the whole browser up
(`AbandonBrowser`); `Restart` loses memory and pages and keeps the rows.
History variables: `raced` holds the sessions two calls have worked on at once,
`stranded` the pages that a failing close or opening left behind, `astray` the
sessions whose last write failed or was another process's.

**AutomationEngine** - `Tick` claims under the lock, `RecordSkip`, `TickNext`,
`KindEnds`, `RecordRun`, `Release` follow outside it, `TickAborted` is the
`finally`; `RunNow` is an API thread's or, for `Shells`, a command-line
process's, which has an engine of its own; `PatchRead`, `PatchReread`,
`PatchWrite` are a PATCH and its `upsert`; `SetEnabled`, `Insert`, `Delete` the
other edits.  Of `last_run_at` what is left until the automation is due is kept.

**SessionTransport** - a request is `Gate` (context checked, audit written),
`Begin` (BEGIN IMMEDIATE), one `Execute` per statement on a draft, `Commit` or
`Rollback`; `GiveUp` is a busy timeout.  Clients `Poll` a page after their cursor;
the long poll is a poll that happens when there is something to return.  `End`
and `PurgeContext` are the context's.  **SessionLog** is what clients are promised: a
log that only grows at its end, read from its beginning without gap or
repetition.

**PullRequestControl** - one pull request, its branch, reviews, checks and the audit
table.  A call of `merge_pr` is `Begin`, the reads (`ReadPull`, `ReadReviews`,
`ReadThreads`, `LookUp`, any of which may fail: `ReadFails`), `Decide`, `SendMerge`,
and one of `MergeApplied`, `MergeRefused`, `WriteUnknown`; after a lost answer
`Reconcile` reads the pull again.  `Hub` is GitHub: pushes, reviews, check runs,
merges by hand, and the moment a write lands (`AnswerMerge`) or its answer is lost
(`LoseRequest`).  `gh pr merge --delete-branch` is two requests: after the merge the
branch is removed by its name (`DeleteBranch`), or that fails (`KeepBranch`) and `gh`
fails with it.  `ScanPulls`, `ScanRefs`, `DeleteRef` are the branch scan.
**MergeGate** is the decision as functions of what was read: the latest review of
each login, which of them count, the state of a check over its attempts, and the
reasons `Verdict` turns into an answer.

**StateDirectory** - `.kater` as a record of its members.  `BeginRestore`,
`ExtractVerified`, `MigrateStaged`, `SafetyBackup`, `Retire`, `MakeDirectory`,
`MoveStaged`, `KeepSafety`, `CleanUp` are `restore_backup` in order, each able to
fail (`RollbackRestore`, `Abandon`) or to be the last (`KillRestore`).  The rollback
is best effort: `ClearPartial` may leave `Remnants` of the partial directory, `PutBack`
may fail or find `.kater` made again by another process, and what the `finally` then
removes is the old state (`LoseRetired`).
`AppliedVersions`, `Apply` are the migrations, one transaction per version, by
several processes and by the restore itself.  It extends **SettingsFile**, where
requests load the shared cached object (`LoadCached`, `LoadFile`, `StoreCache`),
change it in place or on a copy, and `Save` it whole with the temporary file, the
rename and `InvalidateCache` as steps of their own.

**SignIn** - a login from `BeginLogin` or `BeginConnect` over `TakeState`,
`EndExchange`, `CheckUserinfo` to `GrantCode` or `CreateSession`; a page request
`LookUpSession`, `AskProvider`, `Serve`; consent nonces; codes and tokens
(`ExchangeCode`, `RevokeToken`, `CleanupExpired`); `Logout`, and the provider that
may stop vouching for a login at any moment.

**ConnectorCatalog** - one connector row, `Seed` what `seed_record` makes of a row it
has read, `ReadRow` and `WriteRow` the two halves of every change.
**ConnectorCalls** adds the calls: `Authorize` and `AdmitCall` read the row, `Lease` takes
the connector's lock and a warm or a new backend, `Release` gives it back also
when the caller gave up long ago; `InvokeStateless` is the call without a pool.
A native action is authorized and then runs without the second look (`InvokeNative`,
`EndNative`).  `BackendDies` and `BackendHangs` are the server's: one that is silent
keeps an exchange open, because nothing but a line of its output ends it.

**LiveSocket**, **CatalogPage**, **BrowserPage** - the dashboard page, function by
function up to its next `await`; answers are sets from which any is delivered next.
`Open`, `Opened`, `Closed`, `Reconnect` are the socket with its ticket generation;
`StartLoad`, `Render`, `Ignore` the catalogue with its sequence number, `Deliver`
and `RefreshEnds` an announcement and the timer it sets, `Change` a change of the
catalogue that the server announces and `ChangeUnannounced` one that it does not (a
connection made or removed, `api/routes.py` 1786, 1848), `AskDetail`, `AskRow`,
`DetailAnswered` the panel; `Select`, `ListShown`, `SessionOpened`, `SessionClosed`,
`Answered` the browser workspace with its poll.  **Dashboard** composes them.

**RemoteContexts** - `Create` attenuates what is asked for to what the caller holds,
`AskToken` and `Mint` are the two moments of a token, `Verifies` what is asked of a
presented one.  A token is verified when a request is admitted and again in the handler
(`Caller`), which takes one that died in between for no token at all; `from` is where
the authority of a row or a token comes from and `lapsed` whether such a death is on the
way.  A capability name is a string of segments and dots; an allowlist entry allows
itself and, ending in `*`, every name that begins like it, or else every name below it
at a dot.  `Restart` invalidates the tokens when the process makes a signing key of its
own.  **CapabilityGate** - the row, the registry's entry
and the gate of the computer connector: `Dispatch`, `SendAgain`, `Ended` a call,
`RevokeRow`, `RevokeEntry` a revocation, `ReadRow`, `Upsert`, `Register` the wiring at
a start.  **RemoteAccess** composes the two.

Where one run has to show several questions that would multiply each other's states
(two accounts and restarts; a second process and an edit; the catalogue and the
browser workspace), the environment is chosen in `Init`: `plan` of LogicalRouting and
AutomationEngine (a record of what may happen, from the constant `Plans`),
`workspace` of Dashboard, `part` of RemoteAccess.  The chosen parts share no state in
the code either, except where `Plans` bounds faults; a property is checked in all of
them.

The `..._proofs` modules hold the theorems of section 6.  The `MC...` modules add the
symmetry sets, the plans and the bounds; the other runs check their module directly.
In each component's module the operators named `...Keeping...`, `...Unchecked`,
`...AsUnsent` and the like, which nothing refers to, are mutated forms of the
definition that follows them: they are substituted for it to see that a property
notices.

## 4. The runs

Deadlock is checked in the backend, routing, automation and connector runs.  The
others stop where the system does: every call has ended, a budget of faults or
changes is used, a purged context serves nobody.

| run | instance | shows |
|---|---|---|
| `backend_calls` | 2 callers, 2 admins, at work at once two admins, or an admin and two calls, 2 backend objects, threshold 2; fair | `ClosedBelowThreshold`, `ProbeHasOneOwner`, `MapsAgree`, `ClosesAfterOutage` |
| `routing_calls` | 2 calls, 1 slot per account; 2 accounts and a fault, 1 account and 2 faults, or 1 metered account, a fault, an edit and a restart; fair | `SlotsAccounted`, `OvershootBounded`, `RefinesRoutedCall`, `ServesAgain` |
| `idempotency_calls` | 3 calls, 2 inputs, 1 retry, a crash, an SQLite error; fair | `AnswersMatchEffects`, `RefinesIdempotencyKey`, `CallsEnd` |
| `browser_pages` | 2 sessions, limit 1, 3 threads, a batch, and one of: a failing provider call or write, a close by another process, a restart | `PageHasOneOwner`, `LimitUnlessRaced`, `RowsAgreeAtRest` |
| `automation_runs` | janitor, 1 API thread, period 2, a fault; 2 automations and an edit, or 1 automation, a shell and a PATCH; fair | `ClaimsHaveOneOwner`, `ScheduleKept`, `DueIsRun` |
| `session_events` | 2 requests, 1 work, 1 client, 4 events, pages of 2; fair | `WorkFollowsLog`, `RefinesSessionLog`, `EventsArrive` |
| `pull_merge` | 1 merge call, 3 commits, 2 reviewers, 2 reviews of one of them, 1 required check that succeeds and may be run again, the default policy, the scan; fair | `MergeIsJustified`, `OnlyMergedBranchesGo`, `SentIsAudited` |
| `state_restore` | 1 restore, 2 migrating processes, 2 versions, 2 requests on the settings, 2 faults | `RestoreIsAllOrNothing`, `SchemaIsWhole`, `RefusedIsNotSaved` |
| `sign_in` | 2 logins, 2 callbacks, 1 consent, 1 page, 2 exchanges, every limit 1, a restart | `OneGrantPerLogin`, `NoLoginIsStuck`, `LogoutIsFinal` |
| `connector_calls` | 2 tasks on one connector, pooled or not, seeded or dynamic, native or not, a server that dies or falls silent; fair | `IntentSurvivesSeeding`, `DisabledIsOff`, `CallsEnd` |
| `dashboard` | 1 change, announced or not, 1 break, 1 login; 2 texts, 2 servers, or 2 browser sessions; fair | `CatalogSettles`, `PollFollowsSelection`, `LateAnswersChangeNothing`, `LiveAgain` |
| `remote_access` | 2 contexts, 2 principals, 2 tokens, 3 allowlists, restarts; or 2 callers of a capability, 3 starts | `AuthorityShrinks`, `RevokedIsQuiet`, `RevokedIsFinal` |

**Bounds.**  Each bound is commented where it is declared and is the only thing that
keeps a model finite.  They are chosen by what it takes to break the property: a lost
probe needs a prober and a straggler that was admitted before the breaker opened, with
a threshold of 2 so that one failure is not yet an opening; a lost update needs two
writers and one thread that saw the older value; a slot given back twice needs a
second holder of it; an abandoned attempt needs one retry and one competitor; a
delegation that grows needs a parent and a child, whose grants differ in a family, a
name, or both; a login used twice needs two callbacks, and a table with room for one
shows an entry left behind; a migration applied twice needs two processes and a gap
needs two versions; a rollback that fails needs a second fault, or a process that makes
`.kater` again; two syncs at once need two admins; a merge at the wrong commit needs a second head, pushed between a
read and the write.  Two objects per backend name are enough for a straggler to
hold the old one while the maps hold the new; pages shorter than the log make a client
page, poll again and meet the end of a page.  The mutants in `PROJECT.json` are found
within these bounds, so none of them is too small for its property to fail.

Some of what a bound rules out is worth knowing.  `pull_merge` bounds the interleaving
as MCPullRequestControl says: an approval may be withdrawn and a required check run
again and fail between the reads and the write, but a check that fails in its first
attempt, and a pull closed before it is read, are not in it; the theorem is about every
kind and number of attempts.  `backend_calls` lets an admin overlap an admin, or one of
them two calls, not both (MCBackendCalls). `browser_pages` runs three threads, but two
once there were both a fault and a batch; `state_restore` has as its second fault a step
of the rollback only, and two of the requests and migrations under way at one time,
beside the restore.

**Type invariants.**  The modules of the server state one each (those of the dashboard's and
the remote contexts' records stand in their proof modules).  No run repeats them: each is
a theorem.

**What the properties leave out.**  Some properties do not survive an action of the
model, and say in their formula or their instance where they hold; section 7 says
what happens beyond.

- `SlotsAccounted` is an equality until a restart and a bound after it.
- `PageHasOneOwner` leaves out the pages that a failing close or opening left behind
  (`stranded`); `LimitUnlessRaced` and `RowsAgreeAtRest` the sessions two calls have
  raced on, the second also those whose last write failed or was another process's
  (`astray`).
- `ScheduleKept` counts from the claim that led to the last recorded run, as
  `last_run_at` does, and speaks of plans without a shell and a PATCH.
- `OnlyMergedBranchesGo` allows the removal, by its name, of a branch somebody pushed to
  after its merge.
- `RestoreIsAllOrNothing` excepts the outcome `unrolled`, a step of the rollback having
  failed.
- `IntentSurvivesSeeding` speaks of a decision that no other task overlapped (`sole`,
  `settled`), `DisabledIsOff` of authorization and of the admission to a backend, which
  a native action does not have; `CallsEnd` of ConnectorCalls of servers that do not
  keep falling silent.
- `CatalogSettles` speaks of pages that missed no change: none was unannounced, and no
  announcement was lost while the socket was down (`missed`).
- `AuthorityShrinks` speaks of chains on which every token was alive both times it was
  verified (`lapsed`).

## 5. Fairness

Safety runs assume none.  Liveness runs assume only what the code's scheduling gives:

- `BackendCalls`, `LogicalRouting`: time passes; a call that was admitted goes on;
  clients keep calling (a breaker only closes on a call, the code has no timer of its
  own).  That a call goes on is the code's doing for the HTTP transports, which have
  timeouts; for stdio it assumes a server that answers or ends, because
  `proxy/stdio_backend.py` looks at its deadline between lines only (136).
- `IdempotentExecution`: a call's own steps and its deadline; never the action,
  which may hang for good.
- `AutomationEngine`: the maintenance thread wakes and goes on, time passes, kinds
  return.  The last is an assumption about the kinds, not a fact of the engine: a
  kind that hangs stops the thread (`automations/engine.py` 247).
- `SessionTransport`: clients keep polling.  Requests may stop anywhere.
- `PullRequestControl`: a merge call takes its next step; every request has a timeout
  and then counts as failed or unknown.  GitHub promises nothing.
- `ConnectorCalls`: tasks go on; an exchange ends while its server is not silent, by an
  answer or by its death; a waiting task gets the lock if it is free again and again
  (strong).  Nothing ends the exchange with a silent server (`proxy/stdio_backend.py` 134
  looks at the deadline between lines), so `CallsEnd` has it as its condition that the
  server is, from some time on, not silent.
- `Dashboard`: timers fire, the browser reports the end of a connection attempt, and a
  server that is asked again and again lets the page in at last (strong, because a
  ticket may come too late any number of times).  Breaks are bounded.

## 6. Proofs

Every safety property that a run checks, every action property but one half of
`SentIsAudited`, and the three refinements are also theorems of the specification,
checked by TLAPS for every value of the constants: any number of threads, accounts,
sessions, contexts, reviews and so on, any limits and any budget of faults.  Each
component has one proof module; four of them hold a second component, whose
theorems stand in the second part of the module: ConnectorCalls in
`BackendCalls_proofs`, SessionTransport in `RemoteAccess_proofs`, Dashboard in
`SignIn_proofs` and IdempotentExecution in `StateDirectory_proofs`.  The two parts
share no lemma; that is why these components name their specification
`ConnectorSpec`, `SessionSpec`, `DashboardSpec` and `ExecutionSpec`.

The shape is the same throughout: typing and an inductive invariant, a lemma for each
action (for each conjunct that it can disturb), `Init => Inv`, `Inv /\ [Next]_vars
=> Inv'`, and the theorems from these with PTL.  The fair specifications of section 5
imply these specifications, so the theorems hold of them as well.

| module | theorem | property | inductive invariant |
|---|---|---|---|
| BackendCalls | `TypeCorrect` | `TypeOK` | `TypeInv`: the type and `BreakersSound` |
| | `BreakerCountsAgree` | `ClosedBelowThreshold` | the same |
| | `ProbesHaveOneOwner` | `ProbeHasOneOwner` | `TypeInv /\ ProbeInv` |
| | `MapsAlwaysAgree` | `MapsAgree` | `TypeInv /\ LockInv /\ DropInv /\ MapsAgree` |
| ConnectorCalls | `ConnectorTypeCorrect` | (types) | `ConnectorInv` |
| | `DecisionsStay` | `IntentSurvivesSeeding` | `ConnectorInv`: `StepsTaken`, `SoleIsUndisturbed`, `SettledStays` |
| | `DisabledAdmitsNoCall` | `DisabledIsOff` | the same |
| LogicalRouting | `TypeCorrect` | (types) | `IInv`: `Sound`, `SlotsSound`, `ViewsBounded` |
| | `SlotsAreAccounted` | `SlotsAccounted` | the same |
| | `OvershootIsBounded` | `OvershootBounded` | the same |
| | `Refinement` | `RefinesRoutedCall` | the same |
| IdempotentExecution | `ExecutionTypeCorrect` | (types) | `ExecutionInv`: `RowInv`, `ThreadInv` |
| | `AnswersAreSound` | `AnswersMatchEffects` | the same |
| | `ExecutionRefinement` | `RefinesIdempotencyKey` | the same |
| BrowserSessions | `TypeCorrect` | (types) | `OwnInv` |
| | `PagesHaveOneOwner` | `PageHasOneOwner` | `OwnInv` |
| | `LimitHoldsUnlessRaced` | `LimitUnlessRaced` | `IInv`: `OwnInv`, `RestInv` |
| | `RowsAgree` | `RowsAgreeAtRest` | the same |
| AutomationEngine | `TypeCorrect` | (types) | `OwnInv` |
| | `ClaimsAreOwned` | `ClaimsHaveOneOwner` | `OwnInv`: `JanitorSound`, `EditsSound`, `OwnersSound` |
| | `TicksKeepSchedule` | `ScheduleKept` | `IInv`: `OwnInv`, `ScheduleSound` |
| SessionTransport | `SessionTypeCorrect` | (types) | `SessionTypeInv` |
| | `WorkAlwaysFollows` | `WorkFollowsLog` | `SessionInv`: `SessionRequestSound`, `DraftSound`, `FollowersSound` |
| | `SessionRefinement` | `RefinesSessionLog` | the same |
| RemoteContexts | `TypeCorrect` | (types) | `AccessInv`, `GateInv` |
| | `AuthorityNeverGrows` | `AuthorityShrinks` | `AccessInv`: `RowsSound`, `TokensSound`, `RequestSound` |
| | `RevocationIsFinal` | `RevokedIsFinal` | the same |
| CapabilityGate | `RevokedMeansQuiet` | `RevokedIsQuiet` | `GateInv`: `CallsHoldTheGate`, `RevokedEverywhere` |
| StateDirectory | `TypeCorrect` | (types) | `IInv` |
| | `RestoreInstallsAllOrNothing` | `RestoreIsAllOrNothing` | `IInv`: `RestoreSound` |
| | `SchemasAreWhole` | `SchemaIsWhole` | `IInv`: `RestoreSound`, `SchemaSound` |
| SettingsFile | `RefusalsAreNotSaved` | `RefusedIsNotSaved` | `IInv`: `SettingsSound` |
| SignIn | `TypeCorrect` | (types) | `IInv` |
| | `LoginsGrantOnce` | `OneGrantPerLogin` | `IInv`: `LoginsSound`, `TakenOnce`, `CodesAreSpent` |
| | `LoginsAreCompleted` | `NoLoginIsStuck` | the same |
| | `LogoutHolds` | `LogoutIsFinal` | the same |
| CatalogPage | `CatalogIsCurrent` | `CatalogSettles` | `CatalogInv`: `LoadsAreCurrent`, `ReadsGrow` |
| | `LateAnswersAreIdle` | `LateAnswersChangeNothing` | the same |
| BrowserPage | `PicturesArePolled` | `PollFollowsSelection` | `BrowserInv` |
| PullRequestControl | `TypeCorrect` | (types) | `PullInv` |
| | `AuditTellsTheTruth` | `AuditIsTrue`, the safety of `SentIsAudited` | `PullInv`: `PullSound`, `RequestsSound`, `AuditIsTrue` |
| | `MergesAreJustified` | `MergeIsJustified` | `PullInv`, `GateSound` |
| | `BranchesAreKept` | `OnlyMergedBranchesGo` | `PullInv` |

Why the properties are not inductive as they stand, and what they need:

- *Breaker.*  Every operator keeps `BreakerSound`: it is closed exactly below the
  threshold, and its probe flag is up only while it is half open.  The second half
  is what `ProbeHasOneOwner` is missing: `record_failure` on an *open* breaker below the
  threshold leaves the flag alone, and without knowing that an open breaker has no flag a
  straggler could leave one behind.  `MapsAgree` speaks of moments when the lock is
  free; `LockInv` says who may hold it at which place, `DropInv` what the maps look like
  between the halves of a drop or a registration.
- *Routing.*  A slot's count is the number of its holders, which `Release` gives back
  once each.  The overshoot is bounded because the row counts what it granted up to
  the limit (`QuotaSound`), and because the calls which may still charge an account only
  become fewer once it is used up (`ViewsBounded`): a call that lists the
  candidates afterwards sees it exhausted.
- *Execution.*  A completed row was written by a call that is over and took effect; that
  holds because a call that still works owns the pending row (`PendingIsHeld`,
  `WorkersOwnTheRow`), and effects are bounded because each live thread, the abandoned
  one included, has an attempt of its own (`EffectsHaveAttempts`).
- *Browser sessions.*  A session has one creator, and nobody acts on it meanwhile
  (`OneCreator`), and one that is acted on is not ready for another (`ActsAreMarked`).
  The limit and the rows rest on `AloneKnowsState`: what a call knows of its session as
  long as no other has overlapped it.  That a call owns its page survives a failing close
  because the handle is dropped in any case: what is then open belongs to nobody, and
  `stranded` says so.
- *Automations.*  Claims follow from what the janitor holds at which place.  The schedule,
  counted from claims,
  needs that a server by itself never writes an earlier `last_run_at` over a later
  one, and is behind the last run only while that run is about to be recorded.
- *Session transport.*  The tables an open transaction sees are the committed ones with a
  prefix of that request's statements applied (`DraftSound`); a commit is then one step
  of SessionLog and everything else a stutter.
- *Remote access.*  Allowlists are transitive (`CoversAllows`: what is covered by an entry
  that is covered is covered itself, because to begin with a text is transitive,
  `StartsAreTransitive`), and a request that waits for its second transaction
  still carries where its authority came from and whether a token on the way had died
  (`RequestSound`).
- *State directory.*  `RestoreSound` says where the files are at each step of a restore and
  of its rollback;
  `SchemaSound` that the recorded versions are an initial segment even while two processes
  hold an old reading; `SettingsSound` that a refused change is in no object another
  thread can hold.
- *Sign-in.*  Whoever exchanges a code has taken the state out, and no two have
  (`TakenOnce`); codes are made once and never fresh again (`CodesAreSpent`).
- *Dashboard.*  Everything that makes the catalogue stale leaves something under way that
  leads to a load, or marks the page as having missed it (`LoadsAreCurrent`); a newer answer was read no earlier (`ReadsGrow`).
- *Connectors.*  What is proved of a decision is only what `IntentSurvivesSeeding` says:
  of one that no other task overlapped, after which every seeding under way has read it.
  `DisabledIsOff` follows because each look at the row sees that decision; a native
  action has one look.
- *Pull requests.*  A request that landed merged the commit it was pinned to.  What
  justified it holds of that pin ever after, because no review is unsubmitted and no
  attempt of a check undone (`GateSound`), however far the pull has moved on.  A request
  that may remove the branch has landed, so the pull is merged.

**Assumptions.**  The theorems use only the named assumptions of the modules, which TLC
evaluates in the runs: markers such as `None`, `Nobody` or `Gone` are not values they
mark the absence of; limits, timeouts and budgets are natural numbers, positive where the
code rejects or never uses zero (the failure threshold, `max_concurrent`, the window, the
period, the page size); `MaxRetries` is at most 5, as `execution.py` bounds it; threads
and accounts are finite sets; roles that are different parties are disjoint.
`MergesAreJustified` alone has a hypothesis of its own, `StrictPolicy`: the policy asks
for an approval, rejects those of the author, of bots and of fixers, and requires
checks that have not failed.  These are the defaults of `GatePolicy` (`pr_control.py`
110-141) and what the `pull_merge` run uses; with a policy that asks for nothing, a
merge is justified by nothing.

**Only model-checked.**  The liveness properties `ClosesAfterOutage`, `ServesAgain`,
`CallsEnd` (of IdempotentExecution and of ConnectorCalls), `DueIsRun`, `EventsArrive`,
`LiveAgain`, and the half of
`SentIsAudited` that says a row is written in the end: they rest on fairness and on
ENABLED, which are out of the proof system's reach.

## 7. Where the code and its own words disagree

No run checks the following, because the model, like the code, does not keep it.
Each is stated in its module with a comment; adding it to the configuration shows
the behaviour.

| property, module | instance that shows it | what happens |
|---|---|---|
| `NoForgottenBackend`, BackendCalls | `BackendCalls.cfg` | two syncs of one server at once: `sync_source` drops and registers in separate sections of the lock, and the backend that was registered first keeps running without a name (`proxy/manager.py` 302) |
| `DisabledIsIneligible`, LogicalRouting | 1 call, 1 account, 1 edit | a call in progress writes `ACTIVE` or `COOLDOWN` over the operator's `disabled` (723, 746); `docs/architecture/kater-control-plane-wave.md` 142 says "Disabled, active-cooldown and non-reset exhausted candidates are ineligible" |
| `SessionLimit`, BrowserSessions | `BrowserPages.cfg` | a session closed while it is created or acts comes back as ready, beside the one that took its place (`browser/session.py` 126), of a manager that "enforces the policy limits" (3) |
| `NothingAfterEnd`, SessionTransport | `SessionEvents.cfg` | a request that passed the gate before the transaction writes after the context was revoked (`control_plane/session_transport.py` 283); `tests/test_session_transport.py` 321 expects a submit after a revoke to be refused |
| `UpdatesAreKept`, SettingsFile | `StateRestore.cfg` | `save_settings` locks the write alone, so of two requests that loaded the same file one loses its change (`settings.py` 314); the comment at 307 says "a single lock serialises read-modify-write sequences so concurrent API requests cannot overwrite each other's changes" |
| `AttemptIsAudited`, PullRequestControl | `PullRequestMerge.cfg` | a read of GitHub that fails before the decision leaves no audit row; the call "Records the attempt in the audit trail regardless of outcome" (`pr_control.py`, `merge_pr`) |
| `NothingUniqueLost`, PullRequestControl | `PullRequestMerge.cfg` | a commit pushed after the merge and before `--delete-branch` removes the branch by its name is in no branch (`pr_control.py` 1616) |
| `RolledBackAsReported`, StateDirectory | `StateRestore.cfg` | a rollback that fails, or that finds `.kater` made again by another process, is logged; the retired state and the safety bundle go with the work directory, and the error still says "failed and was rolled back" (`backup.py` 494, 576, 594) |
| `DisabledStopsNative`, ConnectorCalls | `ConnectorCalls.cfg` | a native action (`github.pr.merge` and others) authorized before the connector is disabled runs after it, retries included (`executor.py` 334, 588): only `registry.invoke` looks again (`connectors/registry.py` 165) |
| `AuthorityShrinksThroughout`, RemoteContexts | `RemoteAccess.cfg` | a token that dies between `authenticate` and its handler makes its caller one without a context, that creates and mints without bounds (`authgate.py` 175); the docstring at `api/fabric_routes.py` 327 says a scoped caller creates "never with scopes or capabilities it does not itself hold" |

The models contain more behaviour that surprises, and that the checked properties
are worded around:

- `stop` forgets the slots of running calls, and calls after a restart run beside
  them (`proxy/manager.py` 175);
- a deadline gives the key back while the action still runs (`execution.py` 219),
  and a process that dies in a call leaves its key in progress for good (363);
- a page whose close fails is dropped from the handles all the same and stays open until
  the browser is stopped, and one whose browser missed a deadline until the process ends
  (`browser/session.py` 153, 268; `browser/providers.py` 166, 226);
- a write of a session's row that fails ends the call and leaves the session pending or
  busy for good (`browser/session.py` 109, 126, 225); a close from the command line
  writes `closed` on the row of a session that lives on in the server (`cli.py` 1835);
- a close that overlaps a create leaves the late page open (`browser/session.py`
  160), and rows may be written out of the order of the changes (161);
- `last_run_at` is the start of the tick, so an automation that ran late in a long tick
  may run again before its schedule has passed since (`automations/engine.py` 248);
- a PATCH that overlaps a run puts its old `last_run_at` back, and the flag it read
  (`automations/engine.py` 182, `api/routes.py` 2260); the command line's engine
  does not see the server's claims (`cli.py` 1902);
- a load of the settings that began before a save may fill the cache after its
  invalidation (`settings.py` 207); after the move of the safety bundle fails, the
  restored state stays and the old one is gone with the work directory;
- an authorization code is marked used before the token is made, so at the limit on
  tokens the code is spent without one (`oauth.py`);
- every request that touches the catalogue seeds it in a read and a write, so a
  seeding that read before a disable writes the enabled row back after it, and the
  mark that an operator decided is lost with it (`connectors/seed.py` 210);
- a stdio server that falls silent keeps its connector's lock, and every later call of the
  connector, for as long as it is silent (`proxy/stdio_backend.py` 134);
- `gh` fails when it merged and could not remove the branch, and the row then says that the
  merge failed (`pr_control.py` 1611);
- an open page does not hear of a connection made or removed, and shows the catalogue as
  it was until it is loaded for another reason (`api/routes.py` 1786, 1848);
- the detail panel's row click and toggle do not carry the generation of a request,
  so their late answers open or move the panel; nothing is loaded again after a
  reconnect; the browser workspace shows the result of a navigation under whatever
  session is selected by then (`web/dashboard.py` 2340, 2639, 4144);
- a child context is not revoked with its parent and may outlive it; a lifecycle
  set from the command line reaches a running server at its next start only
  (`capabilities/cli.py` 240).

## 8. What is not modelled

Outside the components of section 3: pure decisions (network policy, schema
validation, catalogues), input and output (transports, command line, the dashboard's
remaining views, which show what they load), and counters that may lose an entry
without consequence.  Inside them: payloads, wording, audit rows that no property
reads, and metrics; the ranking score; the order of equal schedules; single
settings; the archive format; SQLite itself, whose transactions are taken as atomic
and durable and as serialised where the code says BEGIN IMMEDIATE.  The entries of
`components` say it one by one.

Parts with state of their own that no module has yet, and what is hard in them:

- pull requests: a process that dies in a merge call, and an INSERT of an audit row that
  fails (`storage.py` 397), after which a request sent has no row;
- the stdio transport: request ids are counted outside the lock that serialises the
  pipe (`proxy/stdio_backend.py` 127), and a silent server keeps the pipe's lock;
- the browser call runner: a job queued behind a wedged call is reported as timed out
  and still runs when the abandoned worker comes back (`browser/runner.py` 63); a
  late start binds the browser to a thread that has been replaced
  (`browser/providers.py` 166);
- the process lifecycle: `SystemExit` from a kind ends the maintenance thread
  (`runtime.py` 247);
- the one SQLite connection of `execution.py`: a commit that fails leaves the
  transaction open for the next caller (345).

About a fifth of the implementation's lines are mapped.  Most of the rest is the
command line, HTML, constant tables and the translation of requests into calls,
which keep no state between two steps.

## 9. The plan

Done: the modules of section 3, in order of what most of the system stands on
(proxy, routing, execution, sessions, automations, transport; then pull requests, the
state directory, sign-in, connectors, the dashboard, remote access), and the
theorems of section 6, which leave no safety property of a run without one.

Next proofs: what the models allow beyond the properties of the runs.  In the
session transport, that no request begun after the end of the context writes; in the
routing, that a candidate disabled while no call is in flight is used by none.

Next modules, where time allows, each inside a run there is: **StdioBackend**, composed
with LogicalRouting's `Send`; **BrowserRunner**, composed with BrowserSessions through the
outcome of a provider call; **ProcessLifecycle**.
