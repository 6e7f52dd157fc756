# ARGUS services: TLA+ specifications

ARGUS receives frame sequences from edge devices, has a vision model judge them,
aggregates the resulting evidence into *decisions* and lets watchers resolve
them. This directory models the parts where several processes share state: the
ingest pipeline, the aggregation workers and the triage API on the same
decisions, the notification worker, the mode scheduler, the WebSocket gateway, and
the sessions of all of them on one database with row-level security. TLC checks
small instances; TLAPS proves the safety properties for all of them.

Paths below are relative to `runtime/src/argus/`.

## The system

All roles run one code base, selected by `SERVICE_ROLE`, against PostgreSQL,
Redis (keys, streams, pub/sub, Celery broker) and an S3 store.

| Component | Keeps | Operations | Talks to |
|---|---|---|---|
| Ingest API (`services/ingestion.py`) | idempotency key per ingestion | accept a sequence: claim the key, check the active mode, upload, append | Redis stream |
| VLM worker (`workers/vlm_analyzer.py`) | consumer group, retries per task, `evidences` | poll the stream, queue a task per entry, analyse, insert evidence, acknowledge, hand on, dead-letter | stream, PostgreSQL, aggregator queue |
| Aggregator (`services/aggregation.py`) | `decisions`, `decision_evidences`, `audit_records`, open key per camera and region | merge evidence into a decision or open one, compute the state, announce it | Redis pub/sub, notifier queue |
| Triage API (`api/triage/decisions.py`) | the same tables and `feedback` | list, fetch, resolve with an optimistic check on `updated_at` | pub/sub |
| Notifier (`workers/notifier.py`) | `notification_deliveries` | send one message per configuration, commit the rows | Twilio |
| WebSocket gateway (`ws/`) | rooms per tenant, connection count per subject | connect, disconnect, broadcast | pub/sub, browsers |
| Scheduler (`workers/scheduler.py`) | active mode of each camera, in Redis | set the mode of every matching schedule, each minute | ingest API |
| Severity and prompt (`services/lens_builder.py`) | nothing | score a model answer by rules, build the prompt | VLM worker |
| Tenancy (`core/auth.py`, `api/deps.py`, `services/database.py`, migration 007) | connections and their session settings | authenticate, admit to a tenant, begin, commit, roll back under row policies | every session |
| Admin API (`api/admin/`) | configuration rows | inserts and lists | PostgreSQL |
| Seed (`scripts/seed.py`, relative to `runtime/`) | the demo tenant | add each row it does not find, activate its mode | PostgreSQL, Redis |

What is hard here:

* Celery acknowledges a message before the task runs (no `acks_late`), so a
  killed worker loses its task. The aggregator has no retry at all.
* Sessions run in READ COMMITTED without `FOR UPDATE`: rows are read, changed in
  memory and written later; only the UPDATE takes the row's lock.
* Redis is changed, and events and notifications leave, in the middle of
  database transactions that may still roll back.
* A Redis or broker call that raises may have been executed.
* The gateway's coroutines interleave at every await, and broadcasts work on a
  snapshot of a room.
* The policies read settings that belong to a transaction, on connections that a
  pool hands from one session to the next; foreign keys and unique constraints do
  not know tenants.
* A listing reads related tables in separate statements while others commit.

`PROJECT.json` lists these hazards one by one, at the line where they bite, with
the properties that cover them.

What makes each component correct: an acknowledged entry is never lost and an
ingestion never aggregated twice; a decision's count, state, audit trail,
feedback and announcements agree with one another whoever races; at most one
resolution stands; nobody waits for ever on a row lock; delivery rows agree with
the provider and resends are bounded; connection counts never lock a subject
out, rooms hold the open sockets; a session sees and writes only what its caller
may, rows refer to rows of their own tenant but for the references the code takes
unchecked, and sessions that wait for each other
all end.

## Modules

    DecisionStore          tables, row locks, open keys, events, queue
     |-- Aggregation       the aggregator's transactions
     |-- Triage            the watchers' requests
     '-- DecisionLifecycle both together: Spec, fairness, properties
          |-- DecisionLedger          (abstract) what readers of the tables see
          |-- WeighedDecisions        their evidence scored by Severity
          |   '-- MCDecisionLifecycle   instances for TLC
          '-- DecisionLifecycleProofs type correctness
              '-- DecisionSafetyProofs     counts, audit trail, resolutions
                  '-- DecisionLedgerProofs links, announcements, totals, the ledger
                                           (and WeighedDecisions: the scores)

    IngestStore            idempotency keys, stream, dead letters, evidence
     |-- Ingestion         accept_sequence
     |-- VlmAnalyzer       polls and tasks
     '-- IngestPipeline    both together;  MCIngestPipeline, IngestProofs

    Schema                 tables, constraints, row policies
     '-- Auth              tokens, claims, roles
          '-- Endpoints    what each route and job does with the database
               '-- Tenancy sessions that run them;  MCTenancy, TenancyProofs

    Notifier, MCNotifier, NotifierProofs
    Scheduler, MCScheduler, SchedulerProofs
    WsGateway, MCWsGateway, WsGatewayProofs

Definitions whose comment begins with "Mutant" are deliberate errors in the place
of the definition that follows them. The specifications do not use them;
`PROJECT.json` pairs each with the property that must catch it.

### Decisions

`DecisionStore` holds what is *committed*. A task (`agg[t]`) and a request
(`req[q]`) carry their own transaction: `loaded` is the row as the session read
it, `current` as the session holds it. The actions of a task are the stretches of
`aggregate` between two awaits that others can notice:

| Action | Code |
|---|---|
| `Begin` (in `DecisionLifecycle`) | task taken by one of `AggregatorConcurrency` processes, `tenant_session` |
| `ReadOpenKey` | `get_key` |
| `GetDecision` | `session.get(Decision)`, window test |
| `DropOpenKey`, `CreateDecision` | `delete_key`; INSERT, flush, `set_key` |
| `LinkEvidence` | `_link_evidence` and `_compute_state` on the session's copy |
| `FlushStateChange` | `write_audit_record`: flush, row lock |
| `PublishStateChange`, `NotifyWarning` | `_emit_state_change` |
| `Commit`, `RollBack` | `session.commit()`, any exception or kill |
| `RejectDuplicateLink` | primary key of `decision_evidences` |

and of a request `FetchDecision`, `Begin`, `LoadForResolve` (the checks and assignments of
`resolve_decision`, in its order), `FlushResolve` or `RejectSecondFeedback` (the
unique `feedback.decision_id`), `PublishResolved`, `CommitResolve` (the teardown
of `get_db`), and `FailResolve`.

Four points of the translation deserve attention.

* `Updated` writes a column only if the session changed it, because that is what
  SQLAlchemy's unit of work does. A stale task therefore overwrites the state but
  not `resolved_by`.
* `updated_at` is represented by the transaction that wrote it. `func.now()` is
  the start of the transaction, so this identifies the two timestamps of two
  transactions that begin in the same microsecond as different.
* `audit_records` has no order but `created_at`, which is `now()` and so the beginning
  of a transaction too (`domain/base.py:30`), and random ids. `audit` keeps the order
  of the commits, which no query returns, and `began` remembers for each
  transaction whose records were committed before it began: those are certain to sort
  before its own, others may sort either way. A task that begins before a resolve
  and commits after it leaves a trail that ends in "resolved", by its timestamps,
  beside a row that is weird or warning. `AuditMatchesState` does not exclude that;
  it says that the record committed last explains the state and that no record is
  certain to sort behind that one.
* Time is data: `captured_at` and windows are integers, the TTL of the open key
  is the action `ExpireOpenKey`, which may happen at any moment.

`Dispositions` gives each watcher the verdicts they may send. COMMIT is atomic and
its outcome known. The release of a failed request's lock is
one step with its answer; in the code the nested generators of `get_tenant_db`
release it shortly after.

`DecisionLedger` is the abstract specification: a ledger whose entries are opened,
absorb evidence, are restated and resolved, each in one atomic step, with every
change of state announced before and recorded in the trail. The instance
`Ledger` in `DecisionLifecycle` maps the committed tables onto it; everything in
flight is invisible. Announcing again what is known is no step of the ledger.

### Severity

`Severity` is `compute_severity_score` as an operator: numbers are counted in tenths
and remember whether they are floats, because `int(hint * 3)` is taken of a float
and `int(hint)` of an integer. The code's rules are a list with one weight each; a
set of rules stands for it. A field is a number or missing; an explicit `null`
confidence, of which `int()` raises, is the failing task of the ingest pipeline.

`WeighedDecisions` assumes of the constant `Severity` of the decisions that it is the
score of an answer (`Result`) under the rules the worker had loaded for that evidence
(`Rules`), so `SuspicionWeighs` follows an answer from the scoring through the
aggregation into a committed decision. The instance for TLC has four answers: a low
confidence, an integer hint, a matching rule, no confidence at all. The property
needs two conditions, which the schemas do not enforce: `NoNegativeWeight`, because
rules that cancel each other or outweigh others leave 0 or less, and `HintsWeigh`,
because an integer 0 for a confidence (not a float 0.0, which `max(1, ...)` lifts)
scores a suspicious scene 0. TLC evaluates both for its instance.

### Ingest pipeline

A stream entry is named by the call that appended it. `Faults` says what may go
wrong in an instance: `analysis` (no lens, or the model fails), `redis` (a Redis or
broker call raises, executed or not), `crash`, `expiry` (the key's 24 hours). An
active-mode mismatch and a failing upload may always happen. A poll's batch and
the task of each entry are separate: what is read and not queued is in the pending
list, which the code never reads again.

### Notifier

A notice carries its attempt: configurations loaded, those still to do, rows in the
session. `Raise` is the rollback with Celery's retry. `sent` is what the provider
has accepted, which no rollback takes back; a failing send may have been accepted.

### Gateway

`conn` follows each socket and its handler (`gone`: closed, handler not finished).
`connect` and `disconnect` hold the manager's lock and are one action each.
That `Send` is fair assumes that a send ends: the gateway sets no timeout, but
uvicorn closes a connection whose peer no longer answers its pings.
`listening` is the listener task: `get_message` (`ws/pubsub.py:22`) stands outside the
try block, so a Redis error between two broadcasts ends it (`ListenerEnds`) and
nothing starts it again. A broadcast takes its snapshot (`pending`), sends to one
socket at a time (`Send` is the completion of a send) and then drops the `dead` ones
one by one.

### Scheduler

The clock counts UTC ticks of a week; a schedule is read in the time zone of its
market (`Offset`, without daylight saving). `IsOpen` is the code's test, in terms of
weekdays and times of day; `Window`, in the properties, is what a schedule means, an
interval of the week. A run loads the schedules, then reads the clock for each and
sets one key at a time; it may take time (`RunBound`) and fail anywhere. Because the
assignment of a camera is unique (`domain/models/__init__.py:205`), a key can only
hold the camera's own mode, so `active` is the lifetime it has left. Assignments and
cameras are constants: no route changes an assignment. The key has a second writer:
the seed sets that of its camera for a day without asking for a schedule
(`scripts/seed.py:232`, `SeedActivates`, at any moment). `seeded`, a history, is the
lifetime the last such key would have left, so that `ActiveWasScheduled` can say that
a mode without a schedule is the seed's, no longer than a day after it was run.

### Tenancy

A session (`sess[s]`) runs one call: a request, a job of a worker, or the seed.

| Action | Code |
|---|---|
| `Arrive` | the token's claims, `AuthContext`, `get_tenant_db` and `get_root_admin_db` up to their session |
| `OpenSession`, `PoolTimeout` | a connection of the process's pool, `set_session_context` |
| `Begin` | `require_role`, then `session.get` of each id with "not found" and the comparison of its tenant |
| `Read` | the next SELECT |
| `Insert` | the INSERTs and their flush |
| `SeedStep`, `SetActiveMode` | one "find or add" of the seed; the Redis key after its commit |
| `Commit`, `Fail`, `CloseSession` | COMMIT; an exception; ROLLBACK and return of the connection |

`Endpoints` says what differs from route to route, one record for each: where the
session comes from, the roles, the tables of the ids it gets and which of them it
compares with the path, its SELECTs in order, the table it inserts into. The same
actions run them all. The two sessions of an analysis are two jobs, `AnalyzeMessage`
and `StoreEvidence`, and `AggregateEvidence` reads the evidence, its decision and the
links and adds what is missing; `HandedOn` lets them begin only when the one before
has ended well, with the same message. `Schema` has the foreign keys and unique constraints of the
migrations and the policies of `007_rls.py`; `Auth` the claims of both identity
providers, and the statuses a bad one ends in.

What the translation decides:

* The gets of a handler are one step, its INSERTs another. No code deletes a row or
  moves it to another tenant, so what several gets find is what they would find at
  the moment of the last, or of the first that finds nothing. For the same reason
  ON DELETE never fires and is left out. SELECTs of several rows are separate steps.
* READ COMMITTED: a statement sees what is committed when it runs and what its own
  session inserted. An INSERT waits for a transaction that has inserted the same
  unique value and fails if that one commits.
* An answer may leave before the COMMIT and the COMMIT then fail, so a reply of 201
  does not imply the row; `WritesAuthorised` states the converse, which holds.
* An exception rolls back when it reaches `get_db`, or later when the generator is
  closed; until then the session keeps its connection (`failed`).
* Settings are `set_config(..., true)`: they end with the transaction. The seed and
  the notifier commit themselves and keep the connection after that, without
  settings; no statement of theirs follows. The seed has an engine of its own and
  connects as the owner, but sets `root_admin`, so it sees the same rows.
* References that nothing compares with the tenant are listed in `Unchecked`: the
  market of a schedule (`api/admin/context_modes.py:77`), and the camera and region of
  an ingest body, which `_validate_claims` compares with the claims of the token at
  most (`services/ingestion.py:70-85`) and which reach `evidences` and, from there,
  `decisions`. Foreign keys accept them, since their checks bypass the policies. In
  the model these rows may refer to any tenant, in the database found at the
  beginning as well as in what is added. The mode of an evidence comes from
  the same body, but an analysis without a lens of its tenant for it fails.
* `by` is not a column; it remembers who inserted a row, for the properties.
* `resolve_decision`, with its row of `feedback`, and the UPDATEs and audit records of
  the aggregation are in `Triage` and `Aggregation`, not here. Health and
  development routes have no session. Presigned URLs change no state.
* An error of the key client, or a claim of another JSON type than expected, ends in a
  500 in the code and with the status of an invalid token here; either way the call
  gets no session.

## Runs

States are distinct states found.

| Run | Instance | Shows | States |
|---|---|---|---|
| `lifecycle_race` | 3 tasks, 2 processes, 2 watchers who disagree | type correctness, the safety properties of decisions, `ResolutionKept` and the refinement `ImplementsLedger` | 1.67 M |
| `lifecycle_late` | 4 tasks: one evidence twice, one late, one of another region; 1 watcher, fairness | `LinksInWindow`, `ExactUnlessOverlapped`, `SuspicionWeighs`, `EveryTransactionEnds` | 0.85 M |
| `lifecycle_loser`, `lifecycle_reopened` | as above | two disagreements, below | |
| `ingest_faults` | 2 calls, 1 ingestion, 2 polls, all faults, 3 retries | `AckedIsAccounted`, `AggregatedAtMostOnce`, `AggregatedIsStored` | 58 k |
| `ingest_sound` | 3 calls, 2 ingestions, analyses fail, fairness | `KeyMeansAccepted`, `EnqueuedOnce`, `EventuallyAccounted` | 6 k |
| `notifier_retries` | 2 notices, 2 configurations, 3 retries, fairness | rows against provider, resends, `NoticesEnd` | 115 k |
| `notifier_failed` | 1 notice | a disagreement, below | |
| `gateway_rooms` | 5 sockets, limit 2, 3 subjects, 2 tenants, fairness | `NoLockout`, `NoGhosts`, `OpenIsReachable`, `BroadcastEnds` | 106 k |
| `schedule_week` | 2 cameras, 3 time zones, 2 of all schedules of Sunday and Monday, days of 3 ticks, a seed at any time | `ActiveWasScheduled`, `RunActivates` | 2.07 M |
| `gateway_limit` | 4 sockets of one subject | a disagreement, below | |
| `tenancy_isolation` | 3 sessions on 2 connections, 2 furnished tenants, one of 85 groups of calls each | `ContextIsOwn`, `ReadsConfined`, `WritesAuthorised`, `RefsWithinTenant`, `RulesListedWhole`, `LookupsResolve`, `SeedIsWhole`, `NobodyStuck` | 0.52 M |

Why the bounds are enough. Two tasks are needed for a lost update or a stolen key,
a third to act on the outcome; a worker runs two processes
(`workers/runtime.py:27-28`), so at most two transactions of tasks are open while the third
follows. Thresholds are chosen so that one evidence is plain, two are weird and one
of them makes a warning, so every transition occurs. Two watchers suffice for a
conflict, and because tasks can re-open a decision, for a second resolution.
Window 2 separates captures 0 and 1 from 3. Polls deliver at most two entries
(`count=10` in the code), so that a batch can be lost half way. The connection
limit is 2 instead of 5: what matters is that a subject can reach it with other
sockets being dropped. Retries are the code's 3.
`ingest_faults` uses the symmetry of its calls and polls; it checks safety only.
Schedules are taken on Sunday and Monday only, because the week looks the same from
every other day; a day has 3 ticks, enough for a morning, an evening and windows of
every kind over midnight. One run at a time is enough, as runs that overlap only set
keys anew. In `tenancy_isolation` two connections for three sessions are more
contention than a pool ever has; three sessions are a writer, one that collides with
it or reads, and a job, a seed or a listing. `MCScenarios` holds every route and job
at least once, refused callers of each kind (expired token, wrong tenant, wrong
role, a user's token at the edge), rows of the wrong tenant in a body, analyses and aggregations
after one another and beside each other, and the seed against itself and against
the routes that make its rows.

Deadlock is checked everywhere but in `tenancy_isolation`, where all sessions end;
there `NobodyStuck` says that as long as some have not, one can go on without
anything failing. The other specifications with a finite workload have a `Quiescent`
step for their end.

Fairness is weak and only on what the code's own scheduling continues: a worker
process goes on with the task it took and takes the next (one fairness condition over
`Begin` and the steps of the task), the server goes on with a request that resolves, the event loop runs ready coroutines, beat keeps polling.
Nothing that fails, expires, arrives, connects or leaves is fair. `FetchDecision`
is not fair: nobody has to look at a decision. `EveryTransactionEnds` says that again and
again all work that has begun is over. `TenancySpec` has no fairness:
each session has finitely many steps, so `NobodyStuck` is all that its end needs.

### Where the code and its own words disagree

* `lifecycle_loser`: the 409 "Decision was updated by another watcher"
  (`api/triage/decisions.py:122-125`) is not what the loser of a race gets. Both
  resolves pass the check, and the unique feedback turns the second into a 500.
* `lifecycle_reopened`: "Decision already resolved" (line 134) does not hold off a
  second resolve once late evidence has reset the state
  (`services/aggregation.py:147-152`). `OneResolution` holds all the same: the
  unique feedback stops the second one, again with a 500.
* `gateway_limit`: the "per-sub connection limits" of `ws/gateway.py:1` can be
  exceeded, because a socket that closes during a broadcast is counted down twice.
  The other side of the same count is safe: `NoLockout` is proved.
* `notifier_failed`: the FAILED status of `workers/notifier.py:73` never reaches
  the "delivery status routes" of `api/admin/notifications.py:1`.

### What holds only in part

`ExactUnlessOverlapped` is exact about the lost update: totals are right for every
decision that no two tasks had loaded at the same time, and may be wrong for the
others. `CountWithinLinks` bounds the error for all: a count can fall behind, never
run ahead. `KeyMeansAccepted` and `EnqueuedOnce` need Redis and the processes to
stay up, and keys not to expire within a call; `EventuallyAccounted` too. With
faults, an accepted sequence can stay in the pending list, or be dead-lettered
although its evidence is stored; what remains true then is in `ingest_faults`.

## Proofs

Every invariant and action property of the runs that expect no violation is a
theorem; so is the refinement of the ledger.

| Theorem | Says |
|---|---|
| in `DecisionLifecycleProofs` | |
| `TypeCorrect` | `Spec => []TypeOK` |
| in `DecisionSafetyProofs` | |
| `CountIsBounded` | `Spec => []CountWithinLinks` |
| `AuditExplainsState` | `Spec => []AuditMatchesState` |
| `ResolvedOnce` | `Spec => []OneResolution` |
| `RefusalIsClean` | `Spec => []RefusedLeavesNothing` |
| `ResolutionLasts` | `Spec => ResolutionKept` |
| in `DecisionLedgerProofs` | |
| `EvidenceFitsItsDecision` | `Spec => []LinksInWindow` |
| `NothingMovesInSecret` | `Spec => []TransitionsAnnounced` |
| `LedgerImplemented` | `Spec => ImplementsLedger` |
| `TotalsAreExact` | `Spec => []ExactUnlessOverlapped` |
| `ScoreWeighs` | a score is at least 0, of a suspicious scene at least 1, if `NoNegativeWeight` and `HintsWeigh` |
| `AlarmsKeepTheirWeight` | `Spec => []SuspicionWeighs`, if `NoNegativeWeight` and `HintsWeigh` |
| in `IngestProofs` | |
| `IngestTyped` | `Spec => []TypeOK` |
| `NoSilentLoss` | `Spec => []AckedIsAccounted` |
| `NeverAggregatedTwice` | `Spec => []AggregatedAtMostOnce` |
| `AggregatesWhatIsStored` | `Spec => []AggregatedIsStored` |
| `RefusedCanRetry` | `Spec => []KeyMeansAccepted`, if `Undisturbed` |
| `AppendedOnce` | `Spec => []EnqueuedOnce`, if `Undisturbed` |
| in `NotifierProofs` | |
| `NotifierTyped` | `Spec => []NotifierTypeOK` |
| `DeliveriesAreTrue` | `Spec => []RowsMatchProvider` |
| `ResendsAreBounded` | `Spec => []ResendsBounded` |
| in `WsGatewayProofs` | |
| `GatewayTyped` | `Spec => []GatewayTypeOK` |
| `RoomsForgetTheFinished` | `Spec => []NoGhosts` |
| `RoomsHoldTheOpen` | `Spec => []OpenIsReachable` |
| `NeverLockedOut` | `Spec => []NoLockout` |
| in `SchedulerProofs` | |
| `SchedulerTyped` | `Spec => []SchedulerTypeOK` |
| `ActiveOnSchedule` | `Spec => []ActiveWasScheduled` |
| `RunsMissNothing` | `Spec => RunActivates`, if `RunsAreShort` |
| in `TenancyProofs` | |
| `TenancyTyped` | `TenancySpec => []TenancyTypeOK` |
| `OwnContext` | `TenancySpec => []ContextIsOwn` |
| `ReadsStayInTenant` | `TenancySpec => []ReadsConfined` |
| `WritesAreAuthorised` | `TenancySpec => []WritesAuthorised` |
| `ReferencesStayInside` | `TenancySpec => []RefsWithinTenant` |
| `LookupsSucceed` | `TenancySpec => []LookupsResolve` |
| `ListingsAreWhole` | `TenancySpec => []RulesListedWhole` |
| `SeedAllOrNothing` | `TenancySpec => []SeedIsWhole` |
| `SomebodyGoesOn` | `TenancySpec => []NobodyStuck` |

### What they assume

They hold for any number of tasks, watchers, pieces of evidence, regions, calls,
polls, retries, notices, configurations, sockets, cameras, schedules, sessions and
connections. The list of endpoints is no constant: the theorems about sessions are
about the routes the code has. The named assumptions on the constants, which TLC
evaluates in every run, are

* the types of the constants: `StoreAssumption`, `ConcurrencyAssumption`,
  `IngestAssumption`, `AnalyzerAssumption`, `NotifierAssumption`,
  `SchedulerAssumption`, `GatewayAssumption`, `TenancyAssumption`, with finitely
  many pieces of evidence (`FiniteEvidence`) and sockets, and at least one worker
  process. `TenancyAssumption` also says that the tenant's name in the seed is not
  the name of one of the seed's users;
* that what stands for nothing is something else than a row, a feedback or a ledger
  entry (`NoneIsNoRow`, `NoneIsNoFeedback`, `NoneIsNoEntry`);
* `CallAssumption`: what a request names in its path and body are the parents of the
  row it adds, of the right tables, because each field of a body is used as the key
  of one table;
* `InitialRowsAssumption`: the database that the sessions find satisfies the schema,
  its references stay within tenants but for those in `Unchecked`, and rows with
  the seed's names are in the tenant with the seed's slug. These are what
  `RefsWithinTenant` and `SeedIsWhole` say of the rows written later.

* `WeighedAssumption`: the severity of evidence is the score of its answer under
  finitely many rules with integer weights. Only the two theorems about scores use it.

Some hypotheses appear in the theorems they belong to and are not assumed elsewhere.
`NoNegativeWeight` and `HintsWeigh`: see Severity above.
`Undisturbed`: Redis answers, no process is killed and no key expires; analyses,
uploads and mode checks may fail. `RunsAreShort`: a run of the scheduler takes less
time than a key lives, which is a day (`ACTIVE_MODE_TTL_SECS`).

### How they go

*Types* are inductive as they stand, action by action; the update of a record in a
function is isolated in one lemma per kind of update.

*Counts.* `CountWithinLinks` is not inductive: a transaction may commit a count that
it computed long before. The invariant adds that the row a task has loaded does not
count more than what is linked, that its copy is at most one ahead and then exactly
because of a link it is about to insert, and that a request's copy carries the count
it loaded. Links only grow, so what was bounded stays bounded, and a commit adds the
link its count is for.

*Audit.* `StateFollowsCommits` needs that a transaction that is past its flush and
changes the state holds the row's lock, that lock holders are unique, and that a
copy differs from the loaded row in its state exactly when an audit record goes with
it. `NothingSortsAfter` needs `OrderInv`: whoever has written a record has ended, and
`began` names only such transactions, so what was committed before one began is never
the last of a trail that it has written to.

*Resolutions.* `ResolveInv`: a request past its flush holds the row's lock and no
feedback of the decision is committed, so two that have passed the check of
`updated_at` cannot both commit; what a request has committed it has committed whole;
`resolved_by` belongs to whoever gave the feedback. A task's copy carries
`resolved_by` as loaded, and `Updated` does not write a column that has not changed,
which is what `ResolutionKept` rests on.

*Links and announcements.* `WindowInv`: region and window of a decision are those of
the evidence that opened it and never change, and the key of a region only names
decisions of that region; so the window test of `GetDecision` still holds when the
link is committed, whatever was overwritten in between. `AnnounceInv`: a transaction
about to commit a new state has announced it, its state has not changed since, and
what is published stays.

*The ledger.* With these invariants every action is mapped on its own: a commit is
one step of the ledger (opened, absorbed, restated or resolved, by what it carries),
`PublishStateChange` and `PublishResolved` announce what the ledger did not know or
stutter, and everything else is invisible.

*Totals.* `ExactInv`: a task whose decision has not been overlapped is alone with it,
and what it has loaded is what the row still holds, but for a resolution. The sum
over the links is a fold; that it grows by the severity of the link added is shown
by a minimal counterexample over finite sets, without induction.

*Weights.* `SumUnfolds`, `SumOfOneMore` and `SumAtLeast` are about the sum of any
integer function over any finite set, so they serve twice: for the weights of the
rules that match an answer (`WeightIsSum`) and for the severities of the links.
`ScoreWeighs` then bounds each score from below, and `SumAtLeast` with `ExactInv` the
total: no summand is negative, and each suspicious link brings at least 1.

*Ingest.* `FaultInv`: only the attempt that inserts the evidence row comes to own the
ingestion, and the row stays, so there is one owner at most and nothing was handed on
before it. That gives the first three theorems whatever fails. `SoundInv`, with
`Undisturbed`: a call that is served, or has appended an entry, holds the key of its
ingestion, because nobody but the holder gives a key back.

*Notices.* The rows of an attempt that does not commit are gone with its session, and
each was added after the provider accepted its message. Until an attempt comes to a
configuration, that has been sent at most once in each attempt before
(`TaskResends`).

*Gateway.* The count never exceeds the live handlers although it may be counted down
twice, because each handler is counted up once and its own clean-up removes at
least as much from the live handlers as from the count. This needs finitely many
sockets, for cardinalities to behave. Rooms: a broadcast knows only sockets that
have been in a room, and calls dead only what is gone.

*Schedules.* `IsOpen` computes with weekdays and times of day, `Window` with the
remainder of a difference in the week. `OpenInWindow` proves that they agree at
every tick, for every length of the day, offset and schedule, from a few lemmas about
remainders. `KeysInv`: a run holds the keys of schedules that it has found open since
it began, and a key that is set goes back to such a run or is the seed's (`Explained`). `ServedInv`: a run is to set,
or has set since it began, the key of every camera it is done with whose schedule has
been open all along; by `RunsAreShort` such a key has not expired at its end.

*Context.* `ContextInv` adds to `ContextIsOwn` that a session has a connection
exactly from its first statement until it gives it back, and that no two have the
same; then the settings a session has set cannot change under it, and every way to
give a connection back ends a transaction before.

*Reads.* `ReadInv`: whoever is past admission to a tenant path may go to that
tenant, and what was given so far is of it. With `ContextInv` the policies show a
session only rows of its context's tenant, and for root `get_tenant_db` has made
that the tenant of the path. This is where `ContextOfRootKept`, the mutant, fails.

*Writes.* `WriteInv` follows each row from its INSERT: signed by its session, of the
tenant in the path, written by a caller whom the route's roles admit, and committed
only on the way to a reply of 201. It needs a lemma over the endpoints (those that
insert under a tenant path ask for an administrator) and one over the seed's plan.

*References.* `UniqueInv`: committed rows, and those of a session beside them, are
distinct in each of their unique values. `HandlerInv`: what the gets of a handler
have found, and compared with the path, is still there when it inserts. `RefInv`:
each row that a row refers to is committed or its session's own, and in the
tenant of the row, but for those in `Unchecked`; rows of the seed's names are in the
tenant of its slug. `AnalysisInv`: while an evidence is being stored, a lens for its
mode is there, committed and of its tenant, which is how the mode comes to be inside although
nothing compares it (`ModeIsOwn`); `MergedFit` does the same for the rows of an aggregation,
whose links join a decision and an evidence of one tenant.

*Lookups and listings.* References exist and nothing is deleted, so each SELECT of the
scheduler finds what the rows read before refer to (`JobInv`). `RuleInv`: a rule is
committed with the mappings of all its regions and nobody adds to them, so whatever
is committed between the two SELECTs of a listing (`ListInv`), the second finds
the mappings of what the first has found.

*Seeds.* `ProgressInv`: the items of the plan up to a seed's step are there, committed or
its own, in the tenant of the slug. Since a seed commits only after the last, either
nothing of it is committed or all.

*Waiting.* `QueueInv`: an unfinished seed has inserted only items it has passed. No two
items of the plan share a unique value, so a seed waits only for one that has the item
it is about to add, which is further in the plan. If all were stuck, the seed
furthest in the plan would wait for one further still; a handler that has inserted
has nothing left to do but commit or roll back, so nobody waits for it for ever.

### Left to TLC

* Liveness: `EveryTransactionEnds`, `EventuallyAccounted`, `NoticesEnd` and
  `BroadcastEnds` rest on fairness, and so on ENABLED, which the provers do not
  handle. `NobodyStuck` is an invariant because it says who can go on with the guards
  of the actions themselves.
* The disagreements, which are counterexamples.

## Not modelled

* Signatures and key sets of tokens: a token's verdict is an input. Field validation
  of request bodies (422), which happens before any state is touched, and soft
  deletion, which no route performs.
* The wording of prompts, embeddings and the choice of feedback for them; presigned
  URLs; the content of images. Model answers are inputs of `Severity` and otherwise
  "succeeds" or "raises".
* That each Celery task runs in an event loop of its own (`workers/utils.py:14`) while
  the clients of Redis and of the database belong to the process: what goes wrong
  with them is one of the failures of the calls that use them.
* The event sink (`integrations/events.py`), storage and the model: calls that may
  raise in the components that make them.
* What a browser does with the events it gets. It may fetch a decision before the
  transaction that announced it commits.
* HTTP shells, configuration and logging; which role consumes which queue in a
  deployment; running the migrations.
* Components are composed where they share state that a property is about. The
  scheduler's keys next to `CheckActiveMode` (which takes any answer) and the
  notifier on top of the decisions (which takes any notice) are not.

## Plan

Done: DecisionStore, Aggregation, Triage, DecisionLifecycle, DecisionLedger, the
ingest pipeline, Notifier, Scheduler, WsGateway, Severity, Schema, Auth, Endpoints,
Tenancy, and the 37 theorems above.

1. `Scheduler` with daylight saving, and its keys next to `CheckActiveMode`.
2. `WarningFlow`: Notifier on top of DecisionLifecycle, so that a notice is about
   the transition that queued it.
3. `LiveFeed`: events published before the commit, and a client that fetches on an
   event.
4. Disjoint windows: under which conditions two open decisions of one camera and
   region cannot overlap.
5. A theorem for each module above.
