# Verification of vespersai

TLA+ modules that model the parts of vespersai whose correctness depends on the
order of events, the TLC configurations that check them on small instances, and
theorems about them checked by TLAPS for every value of the constants. Paths are
relative to the repository (`src/` in `PROJECT.json`); 0002, 0003 and 0004 are the
revisions under `migrations/versions/`.

## 1. The system

A FastAPI service authenticates WorkOS subjects, binds each to one local account in
PostgreSQL and shows it the tenants it belongs to. Isolation between tenants is
row-level security over a transaction-local setting. A Next.js dashboard signs people
in and calls the API. A DBOS worker runs durable workflows, at present only probes.

| Component | State | Operations | Interacts through | What makes it correct |
|---|---|---|---|---|
| Identity provisioning (0004, `app.provision_personal_identity`) | users, tenants, memberships, allowlist; row locks, unique keys | one call = a transaction of up to nine statements; the owner's scripts (`infra/*.sql`) and status changes | committed rows, locks | one row per address and subject; a subject keeps its account; all or nothing; success is true when reported; retries converge |
| Identity service (`backend/identity/`) | none | translates SQLSTATEs, lookups | calls the functions above | distinct outcomes stay distinct |
| Account API (`backend/api/account.py`) | locals of a request between round trips | GET `/account`, POST `/account/provision` | WorkOS profile, several transactions | revocation is effective on the next request; no escalation; always an answer |
| Tenant context (`backend/storage/tenant_context.py`) | mark in `session.info`, setting of the connection, pool | scopes entered, re-entered, left; transactions; savepoints | connection pool, PostgreSQL | a statement sees the tenant of its scope and nothing else |
| Tenant repository and row policies (`repository.py`, 0002) | tenants, memberships, users | two reads, one rename | setting, row locks | as above; a disabled tenant is not written |
| Rate limiter (`backend/auth/ratelimit.py`) | a deque of times per subject | `check` | event loop | at most the limit per window; bounded memory; refusals deserved |
| Token validation, WorkOS directory (`backend/auth/`) | PyJWT's cached key set | `verify`, `fetch_profile` | WorkOS | a profile that cannot be had is neither a denial nor a success |
| Durable worker (`backend/workflows/`) | DBOS system database, stop flag, readiness server | steps, recovery, launch, shutdown | crashes, signals, the queue | a recorded step does not run again; work and stops end; readiness is true |
| Migrations and owner transition (0001-0004, `infra/`) | installed functions, grants, default privileges, owners of database and tables, role memberships | upgrade, downgrade, transition | Alembic; calls in flight | a revision leaves the same whatever way led to it; the runtime stays narrow and owns nothing |
| Dashboard (`apps/dashboard/`) | session cookie, pages | sign-in and callback, page, retry, sign-out | Account API | a failed set-up can be finished; the page tells what is so |
| Live provider spike (`backend/agent/`) | counters, report | bounded requests, resume | providers, report file | caps hold over failures and resumes; an exit code of 0 is true |
| Configuration, API wiring, logging | none that changes | validation at start | environment | stateless |

Hard to test, and so what the properties aim at: statements of concurrent
transactions under READ COMMITTED (each has its own snapshot); values read in one
round trip and used in a later one; the tenant being known twice, to Python and to
PostgreSQL, with different undo mechanisms; retries of provisioning; clearing of
the limiter at its capacity; crashes between a step's effect and its record; calls in
flight across a migration; counters that must survive failed and resumed runs; answers
lost while the backend goes on. The list with lines is under "hazards" in
`PROJECT.json`.

## 2. Modules

| Module | What it is |
|---|---|
| `IdentitySpec` | Abstract: what sign-in promises, as atomic steps on subject -> account |
| `Provisioning` | The SQL function, one action per statement, concurrent calls, locks, the owner; implements `IdentitySpec` |
| `AccountApi` | Both routes as round trips over an `IdentitySpec` (`Id == INSTANCE IdentitySpec`) |
| `TenantContext` | Units of work, pool, scopes, savepoints, policies, repository |
| `RateLimiter` | The limiter with its clock, and the history of admissions it is judged by |
| `Dashboard` | The browser in front of `AccountApi`: session, tabs, callback, page, retry |
| `Migrations` | Revisions, what each installs and grants, and provisioning calls beside them |
| `WorkflowSpec` | Abstract: what is promised of submitted workflows, without processes, queues or failures |
| `DurableWorker` | Worker processes, DBOS queue and recovery, the probe workflows, readiness; implements `WorkflowSpec` |
| `SpikeRunner` | The bounded live checks and the chain of resumed reports |
| `MC*` | Symmetry sets for TLC |
| `*_proofs` | Theorems about the module of that name and the refinements it takes part in |

Composition: `Provisioning` instantiates `IdentitySpec` by a refinement mapping, and
`AccountApi` uses `IdentitySpec`'s steps in place of the SQL function. That replacement is
what the refinement justifies: a committed call is one atomic sign-in. It loses nothing but
refusals, which change no state, so `AccountApi` adds 0004's refusals, also those of a call
that meets its own account (`conflict_is_foreign`), and the database failure. The lookup and
the re-read are steps of their own there, because what they find decides which refusal a
call ends with. `Dashboard` extends `AccountApi` and drives its requests, action by action,
in place of arbitrary clients. `Migrations` takes a provisioning call as one step, because
what it asks of calls is which version of the function they run; its statements are
`Provisioning`'s. `DurableWorker` instantiates `WorkflowSpec`: what is done is what is
recorded, an enqueued or pending workflow is open, and processes, owners and attempts have
no counterpart. `AccountApi` and `Dashboard` share the variables of `IdentitySpec` and
change them by its steps alone.

### Correspondence with the code

**Provisioning.** `users`, `tenants`, `members` and `allowlist` are the tables of 0002,
keyed by the user; `txn[c]` is what call `c` has locked and written but not committed;
`pc[c]` is its next statement. `SelectBySubject`, `EmailFree`, `MoveEmail`,
`SelectByEmail`, `LockByEmail`, `InsertUser`, `Reread`, `LockReread`, `UpsertTenant`,
`UpsertMembership` and `Commit` are the statements in 0004 in their order, each with
its early `RAISE`. `FOR UPDATE` and unique indexes are waits (`RowFree`, `EmailBusy`,
`SubjectBusy`): a select finds a row in its snapshot, then waits and re-evaluates its
WHERE clause, hence two actions for each. `OwnerNext` is `bind-subject.sql`,
`allowlist-add.sql` and manual status changes. Each owner operation is one short
transaction and taken atomically, but waits for the same locks. `approved` is a history
variable. The tenant name, the locale of addresses and trimming are abstracted: an
address is its normalized value, and `Begin` refuses missing ones. `Init` has the rows
that are older than 0004 and have no subject: bare ones, as the owner inserted them, and
those that the function of 0002 (262-322) or 0003, called without a subject, made with
tenant and membership for an address on the allowlist. `BindSubject` writes only the
subject, so a bound row keeps whatever tenant and membership it has, and `Bind` of
`IdentitySpec` does the same. The owner may disable a row, its tenant or its membership
before or after binding it.

**AccountApi.** `req[r]` holds the locals of a request, `pc` its next round trip:
`FetchProfile` (WorkOS), `Lookup`, `Decide` and `Reread` (the provisioning call: allowlist
and lookup by subject, then its atomic decision, unless the insert was skipped and the row
in the way is read again), `FindUser`, `CheckAllowlist`, `ListMemberships`
(`authorize_local_access`), `ReadTenant` (GET's second transaction under `tenant_scope`).
READ COMMITTED gives every statement a snapshot of its own, so each is an action although
they share a transaction. `DatabaseFails` may end any round trip that touches the database.
A token that is invalid or over the rate limit ends in `Start` before any state is read.
`invalid-identity-input` has no counterpart: the subject is verified and a blank address is
refused before the call (`workos.py:86`), so this route never answers it. `met[r]` and
`quiet[r]` are history: what has held while the request reads (a GET from its start, a POST
from its commit), and whether nothing has changed since a POST began or, once it has
provisioned, since then. What a handler has read is cleared once it no longer uses it.

**TenantContext.** `txn`, `conn` and `setting` are SQLAlchemy's and PostgreSQL's state,
`bound` is `session.info["vespers_tenant_scope"]`, `blocks` the stack of Python blocks
that are open. `tenant_scope` is `EnterScope`/`ExitScope`, or `EnterAgain`/`ExitAgain` when
the session is already marked (the early `yield`/`return`). A savepoint remembers setting
and writes. `ExitScope` clears the setting only while statements are accepted, which
is the `try/except` of its `finally`. Policies are sets of rows (`TenantsSelect`,
`TenantsUpdate`, `MembershipsSelect`, `UsersSelect`). `RenameTenant` keeps the row locked
until the transaction ends; the owner's `SetTenantStatus` waits. The rename's wait for
another unit's lock is a guard: it then sees the new version of the row, as READ
COMMITTED re-evaluates the policy. `Savepoint` stands for `session.begin_nested()`,
which no code uses yet, and `CloseEarly` for a lost connection or an explicit rollback
inside a scope; both are what `in_transaction()` and the `except` are there for.

**RateLimiter.** `hits` is `_hits`, a function whose domain is the dictionary's keys.
`Kept` is the clean-up at `max_keys`, `Remaining` the loop that pops expired times,
`Admit`/`Refuse` the two results. `check` is called only from coroutines and contains no
await, so it is one step; the lock in the class is never contended. Time is integral;
only differences are compared. `Restart` is a new process, which begins a new history.

**Dashboard.** `session` is the sealed cookie, shared by the tabs; `tab[t]` is where a tab
is (`callback`, `load`, `retry` while the server works for it), the request it waits for and
the view it shows. `SignIn` is the sign-in route, the exchange at WorkOS and the start of
`onSuccess`; `Posted` the end of the callback or of `provisionAccount`, which only log;
`Load` and `Render` are `AccountPage`, `View` its chain of conditions on status and detail;
`Retry` is the form. Without a session `provisionAccount` returns before
`revalidatePath`, so that case leaves everything as it is and is no step. A call may not
reach the backend (`Call`), or its answer is lost and the request goes on (`Lose`). `Drop`
frees a request nobody waits for. The configuration is taken to pass
`authConfigProblem`.

**Migrations.** Each command is a transaction and an action. A revision owns what it creates
through the role it runs as, and a role has every privilege on what it owns, so `owner`,
`tables` and `member` belong to what the runtime role may do beside `grants` and
`defaults`. `Init` has the layouts `init-db.sql` made at various times, a database of
another owner, the legacy volume whose database `vespers_app` owns
(local-verification.md:33-43) and one whose roles were set up by hand. `CanMigrate`:
`compose.yaml:49` migrates as `vespers_owner`, which does not exist on a legacy volume or may
create nothing there, so the upgrade fails until the transition has run. That is an
assumption about the environment: with the runtime role's URL instead, 0002 would leave the
tables in its hands (the mutant `CanMigrate_AsRuntime`), and `Transition` would refuse from
then on. `Transition` is `transition-dev-owner.sql` with its refusals (lines 6, 9, 18, 27) and
its transfer of ownership (22-23); `ReviewRoles` is what it asks a person to do.
`Downgrade3` grants default privileges even where none were there before (0003:244).
`provision` is the version installed, `Provision2/3/4` what each makes of its arguments;
a call keeps the version it began with.

**DurableWorker.** `phase` and `stopped` are the main thread of `worker.py` and its event; `at`
and `stage` the step a process executes, from its start over its effect to its record;
`status`, `owner`, `recorded` DBOS's tables. `Effect` is the transaction of a step, `Poll` and
`OnDeadline` the loop of a boundary; a step interrupted between `Effect` and `Record` runs
again after recovery. `Recover` and `Dequeue` model what DBOS does at launch and for a queue
of concurrency 1. `Probe`, `ReadFlag`, `CheckDatabase` are a readiness request. The smoke
workflow's steps return constants, so the smoke process's `Serve` stands for it. DBOS is
external and modelled from how the code and its harness use it.

**SpikeRunner.** `report` is the dictionary of the run, `file` the last one printed.
`Send`/`SendCapped` are `BoundedTransport` up to its first await, `Passed`, `AnotherTurn`
and `Failed` the answers, `Timeout` the 90 seconds of a provider, `Kill` the end of the
process, which loses the report. `AnotherTurn` lets the agent framework ask again whenever
its limits allow it. The list of usages, versions and failure texts are left out.

## 3. Runs

| Run | Question | Bounds |
|---|---|---|
| `provisioning_races` | can concurrent calls make two rows for one identity, or hand out a foreign row | 3 calls, 2 subjects, 3 addresses, every interleaving of statements |
| `provisioning_owner` | every operation of the owner besides: what a success or failure leaves, serializability, and can calls wait forever | 2 calls, 2 subjects, 2 addresses, one possible legacy row, with or without a tenant, at most 1 thing disabled at a time |
| `api_races` | what may two interleaved requests rely on, beside every operation of the owner | 2 requests of one subject, 2 addresses, 1 team, at most 1 thing disabled at a time |
| `dashboard` | is the page true, is every request answered, can a failed set-up be finished | 2 tabs, 2 requests, 1 subject, 1 address, 1 failure, an account of the owner's that may be disabled |
| `tenant_context` | does a connection carry a tenant on; does the setting follow the blocks; renames against disabling | 2 units sharing 2 connections, 2 tenants, the nesting of `MCTenantContext!Depths` |
| `rate_limiter` | who is admitted and refused | 4 keys, remembering 2, limit 2, window 3 |
| `migrations` | what is installed, owned and granted, and what calls in flight do | 11 initial layouts of roles and owners, 3 rows, 3 addresses, 2 subjects, 2 calls, any sequence of commands |
| `durable_worker` | do the workflows stay what `WorkflowSpec` promises; what crashes, stops and outages leave of steps, work and readiness | both workflows, resident and smoke run, 1 poll, 1 end, 1 outage |
| `spike_runner` | do the caps, verdicts and exit codes hold over resumed runs | the real caps (6, 2, 1), 1 killed run, any number of others |

Why the bounds are enough: the races need a winner, a loser and, where a row moves
away again, a third call; two subjects and one contested address besides each one's own;
nested blocks cover scope, re-entry and savepoints in and around each other with a failure
inside any. Two tabs are what it takes for one to act on a session or an account the other
changed, and one failure leaves a call under way with nobody waiting. Two calls and three
rows cover a mover, a claimer and the row between them. A second crash of the worker meets
a state like the first, since an attempt takes nothing over but what is recorded. The
theorems remove the bounds for every safety property of the passing runs.

Named bounds: `MaxBlocks` (nesting), `MaxTime`, `MaxAdmitted` (limiter), `MaxFaults`
(dashboard), `MaxPolls` (at least one, as the loop of recovery_probe.py:40 polls before its 90
seconds can have passed), `MaxEnds`, `MaxOutages` (worker), `MaxKills` (spike), `MaxDisabled`
(what the owner keeps disabled at a time, in `Provisioning` and `AccountApi`); in
`AccountApi` and `Provisioning` a call is made once, so the number of `Calls` and `Requests`
bounds retries, while `Dashboard` uses its requests again; `OwnerOps` selects the owner
operations of a run. `CHECK_DEADLOCK FALSE` is used where a run ends when all calls have
been made or a user may stop. Symmetry is used only in runs without liveness properties,
for sets whose members are interchangeable.

Every property of a passing run has a mutant, a plausible slip in the code under which
TLC finds it violated ("mutants" in `PROJECT.json`; the operators with a suffix, such as
`RowFree_NoRowLock`, next to what they mutate).

### Disagreements found

Runs expected to be violated; each finding is quoted in `PROJECT.json`.

| Run | What the code does |
|---|---|
| `conflict_is_foreign` | Two overlapping first sign-ins of one subject: the second finds no row by subject, then the row of the first by address, and 0004 raises VS001 without comparing subjects. The docstrings and an integration test promise convergence. |
| `removal_bites` | A POST never checks the stored address: when the owner has removed it from the allowlist and WorkOS has another approved one, the next POST moves the account there and access is back. `docs/authentication.md:231-233` and `account.py:26-28` say that removing the stored address bites on the next request, whatever WorkOS believes. |
| `denied_is_told` | A user who was never allowlisted is shown "Setup incomplete" and a button that can only be refused, where README.md's checklist expects "Access denied (not-allowlisted)". |

Others were seen while modelling and have no run of their own:

- Provisioning consults the allowlist before the user's status (0004:86, 0004:153), the
  documents list the reverse order; access is denied either way.
- A database failure in POST's re-read (`account.py:273`, outside the `try`) is a 500, not
  the documented 503, after the account was committed.
- VS003 is also raised when the row that stopped the insert has moved away before the
  re-read (0004:137-142), though no account without a subject exists.
- An address taken between the check and the update (0004:101, 0004:106) is a raw unique
  violation: 503 instead of the documented 409.
- A slow POST that fetched the old profile (`account.py:238`) moves the account back to the
  old address.
- 0002 says it stays portable without the runtime role (0002:15-16,
  `docs/tenant-foundations.md:200-201`), but its policies name that role (0002:330-366), so the
  upgrade is rolled back. `Migrations` always has the role.
- Past `max_keys` live keys the limiter drops all deques, not only expired ones.
- The page offers its retry only where no account exists. An account the owner has just
  bound, or whose stored address left the allowlist while the upstream one is approved, is
  shown as denied until a new sign-in provisions it (hence `Welcome` in `SetupEnds`). Its
  branch for 409 (page.tsx:160) is never taken, as GET answers none.
- "Finish setup" in a tab whose session has ended elsewhere does nothing at all.
- A smoke run in an environment that enables the probe queue registers it too
  (`worker.py:20`), may take work from it and ends with it: that work is stranded, and
  with a concurrency of 1 so is what waits behind it (hence `Taken` in `WorkEnds`).
- A resumed spike report keeps the versions and failure fields of the run before it, and a
  chain whose six generations are spent by late failures cannot pass any more.

### Fairness

`Provisioning!FairSpec`: weak fairness of each call's next statement. PostgreSQL runs an
enabled statement of an open transaction and a waiter gets the lock once it stays free;
no call depends on the owner acting or on new calls coming.

`Dashboard!DashFairness`: weak fairness of each accepted request's next round trip (the
event loop runs ready tasks; WorkOS and database calls return or fail) and of the arrival of
answers. It does not say that any call succeeds; only `MaxFaults` makes failures end. The
user comes back to `/account` and presses its button, which `SetupEnds` is about. `Load`
and `Retry` are strongly fair because the two requests of the model are shared: a tab that
finds one free again and again gets it, which real connections need no fairness for.

`DurableWorker!FairSpec`: ready threads run; a lost database comes back; whoever operates
the worker keeps it up: `compose.yaml:29` (`restart: unless-stopped`, merged into the worker
at 74) starts it again after a crash, and a person after a stop. Crashes and stops
are not fair and bounded by `MaxEnds`.

`SpikeRunner!FairSpec`: the runner's own steps and the 90 second timeout. A provider's answer
is not fair: it may never come.

`TenantContext`, `RateLimiter` and `Migrations` claim no liveness.

## 4. Proofs

| Theorem | Statement | Argument |
|---|---|---|
| `Provisioning_proofs!Invariance` | `Spec => []Inv` | one lemma per statement |
| `TypeCorrect`, `IdentityKeys`, `Isolation`, `Creation` | type, `OneRowPerIdentity`, `RowsFollowSubjects`, `CreatedOnce` | from `Inv` |
| `Currency`, `Disablement`, `Stability` | `SuccessIsCurrent`, `NeverReenabled`, `IdentityIsStable` | `Inv` and one step |
| `WholeAccounts` | `AccountsOK`: what the function of 0004 makes is complete and has a subject, no tenant stands without its membership, addresses were approved | a conjunct of `Inv` |
| `Refinement` | `Spec => Identity!Spec` | `Commit` maps to `SignIn`, every other statement to a stutter, owner operations to their own |
| `AccountApi_proofs!Invariance`, `Revocation`, `NoEscalation` | `Inv`, `RevocationIsEffective`, `PostImpliesGet` | below |
| `AddressesAreExclusive` | `OneAccountPerAddress` of `IdentitySpec` | inductive with the type |
| `ApiNeverMerges` | `OneAccountPerAddress` of the routes | by construction every step is a step of `IdentitySpec` or a stutter (the lemma `ApiImplementsIdentity`), and `AddressesAreExclusive` |
| `Dashboard_proofs!DashInvariance`, `TruePage` | `DashInv`, `PageIsTrue` | below |
| `DashNeverMerges` | the same of the browser and the API together | the lemma on steps of `AccountApi`, once more |
| `DurableWorker_proofs!Invariance`, `EffectsOnce`, `EarnedSuccess`, `DeservedTimeout`, `HonestProbe` | `WorkerInv`, `EffectsExplained`, `SuccessIsEarned`, `TimeoutIsDeserved`, `ProbeIsHonest` | below |
| `Implementation` | `Spec => Promise!Spec` (`ImplementsPromise`) | `Enqueue` maps to `Submit`, `Record` of a result to `Do`, `Finish` to `End`, everything else to a stutter |
| `TenantContext_proofs!Invariance`, `CleanPool`, `IsolationHolds`, `ScopesInForce`, `DisabledKeeps` | `Inv` and what its blocks promise: a clean pool, isolation, scopes in force, a disabled tenant that stays so | below |
| `RateLimiter_proofs!Invariance`, `RateBound`, `DeservedRefusals`, `MemoryBound` | `Inv`, the rate admitted, that refusals are deserved, the keys remembered | below |
| `Migrations_proofs!Invariance`, `NarrowForever`, `PathIndependence`, `WrittenOnce`, `OwnAccount`, `Closed` | `Inv`, that the runtime role's grants are narrow and it owns nothing, that the surface follows the revision alone, that a subject is written once, that callers get their own row, that 0004 closes the path without a subject | below |
| `SpikeRunner_proofs!Invariance`, `CapsForever`, `HonestExit`, `PassesStay`, `OneRun` | `Inv`, the caps, the exit code, that a pass is kept, that a verdict is of one run | below |

*Provisioning.* The properties are not inductive: they speak of committed rows while the
danger is in what a call has read. `Inv` adds that locks are exclusive, and that while a
call holds its row everything it has read of it is still so (`CallOK`): status, absent
tenant, absent membership. No tenant stands without its membership, which the legacy rows
have from `Init`, a bound row from what it was, and a new one from its commit. `KeysOK`
extends the unique keys to rows in flight. For the refinement, `AccountOf` picks the row of
a subject; uniqueness from `KeysOK` makes the choice determined.

*AccountApi.* A request holds no lock, so `RequestOK` cannot say that what it has read
still holds. It says that each condition read has held at some time since it began
to read (`met`) and, while nothing has changed (`quiet`), that it holds now.

*Dashboard.* The page's claim is about the moment it was asked for, and several round trips
lie between that and its answer, in which other tabs act. `asked[t]` keeps what was true
then and whether anything has changed since (`calm`). `Informed` carries it through the round
trips: an account that was there is still there, so a late "not-provisioned" is
impossible, and while `calm` each condition read leads to the view that is true. `Sound` is
what every request has established, also those nobody waits for. `AccountApi!Inv` is not used:
it speaks of that module's histories, which the browser does not keep. It is the accounts' part
of the type that both share, and the lemmas that no step unmakes an account.

*DurableWorker.* None of the properties is inductive, for they count effects while a crash
undoes what a process was doing. The invariant says that the records determine everything
else: what a process executes is where `Resume` would put it (`ExecutionOK`), only for a
pending workflow that is its own, and at most one workflow is pending (`OnePending`), so there
is one execution in all (`OneAtATime`). `EffectOK` then balances a step's effects against its
record, its execution and the error that ended it, and each end of a process against what it
cuts off. `RecordOK` (records are in order, and a boundary's comes after its release) is what makes
the recorded step the first one left, as the refinement needs, and a raised workflow one with
steps left. `early` implies polls left until the release is seen, hence `DeservedTimeout`.

*TenantContext.* `BlocksOK` says that mark and setting are the tenant of the innermost
block. Leaving a block needs the tenant that was in force before it, so `NestedOK`
describes the whole stack: each block was entered under the tenant of the block around
it, and a tenant is in force only inside a scope of it. `PushNested` and `PopNested` are
the two lemmas on sequences; every action on blocks is an instance of `PushInv` or
`PopInv`. `UndoOK` relates the savepoints to the writes they restore, and with the row
locks gives `DisabledKeepsName`.

*RateLimiter.* The deque forgets, so the invariant relates it to the history of
admissions: it is the end of that history, and what it no longer holds has expired
(`HistoryOK`). `RateBound` follows because an admission finds fewer than `Limit` live
hits, so the one `Limit` places earlier is among the expired.

*Migrations.* Two invariants that do not meet. `CatalogInv` says what is installed and
granted as a function of the revision and the roles, which makes the sequence of commands
irrelevant; its `RolesOK` that whoever can migrate is not the runtime role, and that what
there is of tables belongs to the owner of the database. `RowsInv` says that the rows keep
one address and one subject each across the versions. A call's version says what it may do
to them, so the action properties need one lemma on what each version resolves to.

*SpikeRunner.* The caps are not inductive on their own: what matters is that a request is in
the report before it is awaited. `Accounted` relates what left the machine to the report of the
run, or the printed one between runs, and what killed runs lost; `IInv` adds that the
counts of both reports stay under the caps and that a report is never behind the
one it resumed.

Assumptions: the named `ASSUME`s only (constants of the right kind, `None` distinct from
values, `Limit` and `Window` positive; `NoneIsNew` is the same for `IdentitySpec`, stated in
its theorem). `Invariance` and the theorems from it hold for any
number of calls, requests, units, connections, rows and tenants, and for any bounds. A
few theorems state properties that no run lists (`IdentityIsStable`, `DashInv`,
`OneAccountPerAddress`, `PoolIsClean`,
`MemoryIsBounded`, `SubjectIsWrittenOnce`, `SuccessIsEarned`, `VerdictOfOneRun`): they are
consequences of what the runs check.

Only model-checked: all liveness (`CallsReturn`, `RequestsAreAnswered`, `SetupEnds`,
`WorkEnds`, `StopEnds`, `RunsEnd`), which is out of the prover's reach, and the
disagreements, which are counterexamples.

## 5. Not modelled

- Configuration, API wiring, logging and the `SELECT 1` of the API's readiness: no state that
  changes. `authConfigProblem`, `safeReturnPath` and the origin check are pure functions of
  strings, tested value by value.
- Token validation is a pure check but for PyJWT's cached key set, whose behaviour is the
  library's; a refused token is an outcome of `Start`. The operator's `access_check` runs the
  lookups of `authorize_local_access` once more and writes nothing.
- The proxy route `/api/account` of the dashboard, which no page calls; its POST is
  `Retry` without the page.
- The integration harness: read as a reference, not part of the program. How it drives the
  worker (`SIGKILL`, releases, enqueueing) is the environment of `DurableWorker`.
- Several API processes: the limiter's state is then independent copies, and all other
  state is in PostgreSQL, where `Provisioning` and `AccountApi` make no difference
  between processes.
- What the steps of the probe workflows compute, and what the model is asked and answers:
  the model counts the effects of a step and keeps no content.
