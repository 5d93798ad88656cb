# TaskQ API: specifications, model checking and proofs

TLA+ modules for the service in `src/03-development/src/taskq_api/`, the TLC
configurations that check them on small instances, and proofs checked by TLAPS.
Paths below are relative to that directory unless they start with `src/`.

## 1. The system

TaskQ is an asynchronous FastAPI service. A client creates tasks (a shell-less
command each), posts runs of them, and reads the outcome. A run answers 202 at
once and executes in a background coroutine that spawns the command, bounds it
with a watchdog and writes a status and a history row.

| Component | Source | State | Operations | Interacts with | Hard because | Correct when |
|---|---|---|---|---|---|---|
| Task runner | `service/runner.py` | the coroutine of each run, the child process, its group and pipes | `run_task`, `_reap_after_kill`, `_drain_pipes`, best-effort writes | task store (calls), operating system, asyncio's transport and child watcher | exits, forks, timers, cancellations and pipe flow control in any order; a store that refuses a write | killed groups stay dead, children are collected before the verdict, the history says what happened, each run settles |
| Task endpoints | `api/tasks.py` | none | create, read, list, delete, run, list runs | runner (background task), task store | sync handlers run in threads beside the event loop | a run leaves one row unless its task is deleted |
| Task store | `repository/task_repo.py` | task rows, result rows (dictionaries) | create, get, list, delete, update_status, write_result, list_runs | endpoints, runner | no locks: every compound operation can interleave, and a loop over a dictionary fails if it changes | names differ, pages are complete, rows of deleted tasks are gone, unless a race the code allows came in between |
| Background scheduler | `service/runner_scheduler.py` | tracked tasks, semaphore | submit, drain; module-level schedule, drain | jobs (coroutines), asyncio's semaphore, TaskGroup, wait_for | cancellation meets failure, budget and slot hand-over | slots conserved, drain ends, leaves nothing, reports the truth |
| Request gate and rate limit | `api/deps.py`, `service/auth.py`, `service/ratelimit.py`, `repository/rate_repo.py` | one bucket row for each key | require_api_key, require_scope, check_rate_limit (get_or_create, consume) | key repository, database | read-modify-write by many workers; engines with and without row locks | no over-admission, honest Retry-After, revoked keys refused |
| Key repository | `repository/key_repo.py`, `__main__.py` | key rows | create, find_by_hash, revoke | gate, CLI | the CLI writes in another process | a revoked key is refused |
| Migrations | `src/03-development/src/migrations/` | schema, version stamp | upgrade, downgrade of v1, v2, v3 | database | a crash between statements of a revision | a revision is applied whole or can be retried |
| Database sessions | `repository/session.py` | a connection pool for each process, the rows of three tables | `session_scope` around `seed_tasks`, `list_tasks_with_relationships` | the database; no handler uses it yet | exceptions, interrupts, time-outs and kills in the block, in commit and in rollback | a unit is applied whole or not at all; connections and locks are given back |
| HTTP pipeline, errors | `app.py`, `errors.py`, `models/schemas.py` | none between requests | middleware, exception handlers, problem documents | all endpoints | bodies are checked before router, key and bucket; several renderers of errors | the documented status, a problem document, no token for what is refused |
| Health, metrics | `api/health.py`, `api/metrics.py`, `service/metrics.py` | constants | payloads of the probes and of `/v1/metrics` | pipeline | readiness fails closed | 503 unless both checks hold |
| ORM | `repository/orm.py` | declarations | | sessions | | |

The hazards this code is exposed to are listed in `PROJECT.json`, each at its
line and with the properties that would show it going wrong.

## 2. Modules and plan

Each component has a module of its own, an MC module that gives its constants
values, and a proof module where its theorems are.

| Module | Models | Proofs |
|---|---|---|
| `RunLedger` | abstract: what a client that posts runs is promised (a run opens once, settles or is lost, adds at most one row, in the very step in which it settles; rows go one at a time, of deleted tasks only, for which no run opens any more) | |
| `TaskRunner` | endpoints, runner, processes and tables; implements `RunLedger` (`LedgerSpec`: `phase` is mapped from the program counter, `ledger` is the result table, `gone` the tasks whose row was deleted) | `TaskRunnerProofs` |
| `TaskStore` | the two dictionaries under the threads of the pool: creation, deletion, pages, runs | `TaskStoreProofs` |
| `Scheduler` | submit, semaphore, drain with its task group | `SchedulerProofs` |
| `RateLimit` | the gate and the token bucket, several workers, two engines | `RateLimitProofs` |
| `UnitOfWork` | abstract: what `session_scope` promises of the block it surrounds | |
| `Sessions` | `session_scope`, the pools and the write lock; implements `UnitOfWork` (`UnitsAreAtomic`) | `SessionsProofs` |
| `Migration` | the revisions as sequences of statements, with a kill between any two | `MigrationProofs` |
| `Pipeline` | one request from the middleware to its answer | `PipelineProofs` |

How they compose: `TaskRunner` has the status column and the result rows as a
run sees them, `TaskStore` the same rows as concurrent requests see them;
`Pipeline` takes the verdicts of `RateLimit` and the endings of the handlers of
`TaskStore` as choices of its environment. They are checked apart because they
share no further state, and one product would only multiply their states.

The order was the runner first, as the heart of the service, then scheduler,
gate, migrations, store, sessions and pipeline. Open: the handlers on the database
once the application uses `session_scope`.

## 3. How state and actions correspond to the code

### TaskRunner

`row` is the status column, `results` the result table keyed by `run_id`;
`sweep[d]` is the DELETE in thread d of the pool: its task, and the keys its
sweep has yet to look at. `pc[r]` is the await at which `run_task` of run r stands. `child`, `code`, `kin`,
`clogged` describe the process: a zombie is *collected* by the watcher thread's
`waitpid`, and *known* when the loop has been told; `os.getpgid` works up to
the former, `returncode` is set with the latter. A descendant is a sort: in the
child's group or not, holding the pipes or not.

An action is a stretch between two awaits, cut once more between the status
and the result write because a DELETE runs in a thread. While a run is inside
such a stretch (`HoldsLoop`) no other coroutine and no loop callback moves.

| Action | Code |
|---|---|
| CreateTask, PostRun | `api/tasks.py` |
| DeleteRow, SnapshotKeys, Sweep | `delete_with_results` (`task_repo.py:74-84`): the row, the copy of the keys, one key of it, or the KeyError of a key that another DELETE removed |
| MarkRunning, TokeniseFails, Spawn, SpawnFails, SpawnRaises, ConnectPipes | `run_task` up to the pipes being connected |
| CommunicateReturns, TimeoutFires | the two outcomes of `wait_for` |
| ReapAfterKill, WaitReturns | `_reap_after_kill` before and after its await |
| DrainPipes, RecordResult | `_drain_pipes`, `_safe_persist_terminal` |
| Cancel | CancelledError at any await |
| ChildExits, Fork, KinExits, Collect, Notify, Clog | operating system and asyncio 3.11 (external) |

Output, redaction, durations and timestamps are abstracted. Exit codes of a
child that ends by itself are 0 and 1. A process that floods its pipes is a
run in `Noisy`. PIDs are not reused.

### TaskStore

`rows` and `results` are the dictionaries, `pc` the place of each request.
POST, GET and DELETE are plain functions that FastAPI runs in threads of a
pool, so a thread can be interrupted between any two operations of a handler;
`sorted(d.keys())`, `list(d.keys())` and a single look-up or insertion are
atomic in CPython 3.11, a loop in Python is not. Such a loop raises
RuntimeError at its next step if the dictionary has another size than when it
began, may raise it ("keys changed during iteration") if the size is the same
again after changes, and may miss entries then. `size` is the
remembered size, `todo` the keys a sweep has yet to look at, `walk` the client
that follows `next_cursor`.

| Action | Code |
|---|---|
| ScanBegins, ScanEnds, Insert | `create`: the comparison of names, then the insertion (`task_repo.py:42`) |
| RemoveRow, SnapshotKeys, Sweep, SweepEnds | `delete_with_results` (`task_repo.py:74-84`) |
| AskPage, LookUp, AnswerPage | `list`: the sorted keys are cut, then rows are looked up (`task_repo.py:60-72`) |
| PostRun, WriteResult, ReadBegins, ReadEnds | `get` before a run, `write_result`, the loop of `list_runs` |

An identifier is a random UUID: creation c inserts row c and creations arrive
in any order. `upset`, `between`, `after` and `tour` are history: they record
which races happened, so that the properties can say that nothing goes wrong
without one.

### Scheduler

`job[j]` is the asyncio task of a submitted coroutine, `asked` the requested
and undelivered cancellations, `slots`, `queue`, `granted` the semaphore (a
granted waiter owns its slot before it resumes), `batch` the snapshot a drain
works on, `wrapper`, `group`, `errors` the TaskGroup of `_drain_all`. `drain`
is where its caller stands. One caller drains at a time. A budget of zero is a
case of its own: `wait_for` cancels `_drain_all` before its first line. Apart
from that a group is aborted with all its wrappers begun: the loop runs what is
ready in the order it became ready, the first step of `_drain_all` is queued by
`wait_for` and those of the wrappers by `_drain_all`, and a cancelled caller, the
timer or a failed wrapper reaches the group through an entry queued later. So an
aborted wrapper awaits its job and passes the cancellation on to it (Abort).

### RateLimit

One key and its bucket row. Levels are in fractions of a token (`Cost` of them
to a token) and time in fractions of a second (`Second` ticks), so that
roundings show; the arithmetic is exact where the code's is floating point. All
workers read one machine's monotonic clock. `engine` is "rowlock" (PostgreSQL:
SELECT ... FOR UPDATE holds the row to the commit) or "sqlite" (FOR UPDATE is
ignored, the SELECT precedes the write transaction); both are engines of the
service according to `src/SPEC.md:65`. The unit of work updates only columns whose value
changed, and the model does the same. The capacity and rate in the row are
those of its creation and stay constant. A `consume` that finds no row cannot
be reached through `check_rate_limit`, which creates it first, and is left out.
The model is of `_SQLiteRateRepo` opened on one database by all workers, as its
`db_url` parameter allows; see section 7 for the default.

### Migration

`disk` is the database as committed, `view` as the migrating connection sees it,
`opened` whether that connection has a SQLite transaction, `todo` the statements
its command has left. A database is its set of artefacts (tables, the column
`tasks.result_json`, the unique index), the stamp in `alembic_version`, and the
tasks whose result is in the column or in `task_results`. The payload of a
result is identified with its task; both moves copy it unchanged.

| Action | Code |
|---|---|
| RunCommand | `env.py`: `_reset_head_token_if_present`, then the script of the command |
| Execute | one statement of a revision, or Alembic's update of the stamp |
| CommitRevision | Alembic's commit after a revision, which it leaves to `env.py` if the connection it got was in a transaction |
| CloseConnection | `_stamp_head_token_at_chain_head`, then the end of the `with` block |
| Fail, Kill | a statement SQLite refuses; the process ends |
| WriteResult | a result stored between commands (external) |

Three facts about the libraries carry the model (Python 3.11, SQLAlchemy 2.0,
Alembic 1.13): `sqlite3` opens a transaction before INSERT, UPDATE and DELETE
only, so DDL before the first of these is durable at once; SQLAlchemy begins its
own transaction with the first statement, a SELECT included; Alembic does not
commit for a connection that is in one. Since `env.py` reads the stamp first
and commits only when it rewrote it, a command that starts elsewhere than at
"head" has no commit until `_stamp_head_token_at_chain_head`. The table
`alembic_version` is always there. Left out: offline rendering, other engines,
rows that would violate the unique index of v2.

### Sessions

`db` holds the committed rows of the three tables, `draft` a transaction's view,
`writer` who holds SQLite's write lock, `conn` who holds a connection. A session
takes a connection for its first statement; `sqlite3` opens the transaction at
the first DELETE, and a SELECT needs none. Two processes have a pool each.

| Action | Code |
|---|---|
| Checkout, PoolTimeout | the first statement, or the pool's QueuePool time-out |
| ClearTags, ClearResults, ClearTasks, InsertTask, Flushed | `seed_tasks` (`session.py:158` on) |
| ReadAll | the three SELECTs of `list_tasks_with_relationships` |
| Commit, Rollback, RollbackFails, Close, Return | `session_scope` |
| InterruptClose, Finalize | an interrupt inside `close()` (`session.py:137`): the session, left with its connection, gives it back when it is freed |
| BlockRaises, LockTimeout, Interrupt, InterruptLate | an exception, SQLite's busy time-out, KeyboardInterrupt, which `except Exception` does not see |
| Crash | the process ends |

`Unit` maps `db` to the content of `UnitOfWork` and `pc` to the phase of a
scope; the content changes in Commit only.

### Pipeline

One request: `req` is what arrived, `at` the stage it has reached, `answer` the
response. The stages follow one another as in the code: PreValidate
(`app.py`'s middleware), Route (FastAPI's router), Authenticate, Authorise and
Meter (`api/deps.py`), Validate (FastAPI), Handle (the endpoint). `Document`,
`Default`, `NotReady` are the renderings. A body is one of five
classes (none, not JSON, against the schema, good, and good but sent under
another content type than JSON's, which the middleware does not look at and
FastAPI refuses), a parameter one of three; titles, details and log lines are left out.

## 4. Runs

| Run | Shows |
|---|---|
| `runner_safety` | Two runs of one task, all faults, two sorts of descendants, a flooding child, two threads whose DELETEs sweep row by row, overlap and end in a KeyError at any point. KilledGroupStaysDead, ReturnAfterCollection, HistoryTellsVerdict, TerminalStatusIsEarned, ResultUnderOwnStatus, and the refinement of RunLedger. |
| `runner_settles` | One run for each of two tasks, all faults but a store that refuses writes, a DELETE, under fairness: NoLostResult, RunSettles, StatusSettles (with three named exceptions, section 7). Descendants here let go of the pipes and no child floods them; see `runner_flood` for why. |
| `runner_orphan` | Violation: the child is collected as the timer fires, `os.getpgid` fails, the group survives. |
| `runner_flood` | Violation, under fairness: `proc.wait()` after the kill never returns when the pipe transport is paused. |
| `store_races` | Creations of equal names, DELETEs, runs, readers and a client that reads all pages: SharedNameNeedsRace, FailureHasRace, SweptClean, SlipsNeedChanges, PageWalkEnds. Each says what a race may cost, and that nothing is lost without one. |
| `scheduler_drain` | Three jobs, one slot, one job that may catch its cancellation, repeated drains, cancelled callers: SlotsConserved, NoLostWakeup, DrainLeavesNothing, OutcomeIsTold, InterruptedHasCause, LaterJobsSpared, CancellationLostOnlyLate, DrainEnds. |
| `rate_gate` | Three requests, both engines, revocation, database failures: LockedBucketKeepsPolicy, RetryAfterSuffices, RevokedKeyIsRefused, RequestAnswered. |
| `rate_sqlite` | Violation: overlapping requests spend one token twice on SQLite. |
| `session_units` | Two seeds and a list over two processes with one connection each and every mishap: NothingHeldAfterwards, ScopeEnds, and the refinement of UnitOfWork. |
| `migration_chain` | Every sequence of `upgrade head`, `downgrade -1` and `downgrade base`, killed at any point, with results stored in between: PayloadKeptOnce; an upgrade that ends lands at head from whatever intact revision it began, a downgrade from base or head on its target (LandsOnTarget). |
| `migration_residue` | Violation: `downgrade base` from v2_tags leaves the tables of v1 and the stamp v2_tags. |
| `pipeline_answers` | Every request of the classes above: StatusAsDocumented (with four named exceptions), ErrorsAreProblems, NothingBeforeTheGate. |

The violations are findings in `PROJECT.json`, each with the line it contradicts.

**Bounds.** Two runs of one task give every interleaving of two writers of one
status column; a third adds no new pair. Their two rows and two DELETEs are what
a sweep needs to lose a key to another and leave a row behind; where there is
one thread, it repeats its DELETE. A descendant of each kind is enough
because the code addresses the group as a whole. One slot and three jobs give a
running job, a waiter that was handed the slot and one behind it, which is what
the semaphore's hand-over needs. In `rate_gate` a token costs 3
and the bucket holds 3, refilled by 1 a tick with 2 ticks to the second, so that
a race, a refusal and a refill all happen with three requests and roundings
matter; `rate_sqlite` starts with two tokens. `MaxClock` is 4 ticks, the longest
Retry-After. `Workloads` (the second named bound) says which requests of
`TaskStore` are made together: three creations, two of one name, and a DELETE
beside the client that reads pages of one or two rows (three rows are a page, a
page behind it and one that moves between them); or two creations, two DELETEs,
two runs and a reader, which is what a sweep needs to lose a key to another.
`Sessions` has a pool of one connection for two scopes of one process, so that
one has to wait, a writer in another process for the write lock, and tables that
hold three tasks and their rows, or nothing (`Contents`). `Pipeline` has no bound
beyond its classes (`Methods` adds PUT and PATCH to the methods the routes have, `Signals`
are all answers of the two checks). `Migration` needs no bound: its
commands may be repeated without end and two results give one in each place.
TLC's deadlock check is off for `RateLimit`, `TaskStore`, `Sessions` and
`Pipeline`: when all requests are answered, the instance is finished.

**Fairness.** TaskRunner: the event loop runs ready coroutines and due timers
(WF of RunStep), the watcher thread is blocked in `waitpid` and reports (WF of
Collect, Notify), a handler thread that has started goes on (WF of
DeleteStep). Nothing forces a child to exit or a client to call. TaskStore:
the pages are served and their client asks for the next one (WF of WalkStep);
nothing else has to go on. Scheduler:
the loop runs what is ready, the timer of `wait_for` goes off, a job that was
asked to stop stops, a job that catches its cancellation ends in time; no other
job ever has to end. RateLimit: threads run and the database answers; nothing
forces arrivals, ticks, or failures. Sessions: threads run and statements are
answered, and CPython frees a session with the frame its exception has left (WF
of ScopeStep); time-outs, failures and crashes are never relied on.

## 5. Proofs

Each theorem holds for every value of the constants that satisfies the named
assumption of its module. Most state the property that a run checks on a small
instance; three state more than the runs check.

| Module | Theorem | Property |
|---|---|---|
| `TaskRunnerProofs` (`RunnerAssumption`) | RunnerTypeCorrect | TypeOK |
| | KilledGroups | KilledGroupStaysDead |
| | ChildrenCollected | ReturnAfterCollection |
| | HistoryIsTruthful | HistoryTellsVerdict |
| | StatusIsEarned | TerminalStatusIsEarned |
| | ResultsFollowStatus | ResultUnderOwnStatus |
| | ResultsAreKept | NoLostResult |
| | RunnerKeepsLedger | LedgerSpec (the refinement) |
| `TaskStoreProofs` (`StoreAssumption`) | StoreTypeCorrect | TypeOK |
| | SharedNamesRaced | SharedNameNeedsRace |
| | FailuresRaced | FailureHasRace |
| | DeletesSweepClean | SweptClean |
| | PagesSlipByChanges | SlipsNeedChanges |
| | CursorMovesOn | (the safety part of PageWalkEnds) |
| `SchedulerProofs` (`SchedulerAssumption`) | SchedulerTypeCorrect | TypeOK |
| | SlotsAreConserved | SlotsConserved |
| | WaitersAreWoken | NoLostWakeup |
| | DrainsLeaveNothing | DrainLeavesNothing |
| | OutcomesAreTold | OutcomeIsTold |
| | InterruptsForACause | InterruptedHasCause |
| | LaterJobsAreSpared | LaterJobsSpared |
| | CancelledEarlyReportsNothing | CancellationLostOnlyLate |
| `RateLimitProofs` (`RateAssumption`) | GateTypeCorrect | TypeOK |
| | RevokedRefused | RevokedKeyIsRefused |
| | RetryAfterIsEnough | RetryAfterSuffices |
| | LoneConsumersKeepPolicy | WithinPolicy, while requests do not overlap in consume |
| | LockIsGivenBack | (the safety part of RequestAnswered) |
| | RowLockKeepsPolicy | LockedBucketKeepsPolicy |
| `SessionsProofs` (`SessionAssumption`) | SessionsTypeCorrect | TypeOK |
| | ScopesReturnWhatTheyTook | NothingHeldAfterwards |
| | SessionsKeepUnits | UnitsAreAtomic (the refinement) |
| `MigrationProofs` (`MigrationAssumption`) | MigrationTypeCorrect | TypeOK |
| | NoResultIsLost | PayloadKeptOnce |
| | CommandsLand | LandsOnTarget |
| `PipelineProofs` (no assumption is used) | AnswersAsDocumented | StatusAsDocumented |
| | FailuresAreProblems | ErrorsAreProblems |
| | GateComesFirst | NothingBeforeTheGate |

**TaskRunner.** The argument goes through four inductive invariants. *Processes* ties the
program counter to the process: a run that has not spawned has no child and no
descendants, one that drains has a known child, and in a killed group neither
the child nor a grouped descendant lives; forks keep that because a grouped
process has a grouped parent. *History* says that the results are rows of ended
runs, unique, with an exit code that agrees with the verdict; it needs
*Processes* for the exit code to be final when it is read. *Loop* says that at
most one run holds the loop, that a run about to record has the verdict of the
status it wrote or its task is deleted, and that terminal statuses have a run
that concluded them: this is where the absence of an await between the two
writes matters. *Lasting* says that a missing row implies a DELETE and that a DELETE under way
has removed the row of its task, which is what allows its sweep to take result
rows. The refinement maps every action to a step of RunLedger or a stutter, a
step of a sweep to the removal of one row or to a stutter, and uses *Lasting* and
the uniqueness and freshness of rows from *History*.

**TaskStore.** The properties speak of histories, so the invariants say what a
request under way knows. *Creations*: while no row was deleted, the rows have
only become more, so a loop of `create` that saw an insertion will find another
size and fail; a check that has passed has compared every live row of its name
but those that "between" pairs it with. *Sweeps*: unless another DELETE removed
one of them, the keys a sweep has left are stored, and every row of its task is
among them or was written since; the loop of `list_runs` finds the size it began
with unless somebody changed the results. *Tour* is about the client that reads
all pages, whose cursor is a number of rows. Call a row's place the number of
rows up to it. A row that was there before the walk and is there still cannot be
overtaken by the cursor unless its place fell, which takes the deletion of a row
with a smaller identifier; a row that was delivered stays behind the cursor
unless its place rose, which takes the insertion of a smaller one (PlaceAfterRemove,
PlaceAfterInsert). A page holds the rows whose places lie between its cursor
and the next. *Typed* adds to the type invariant
that a run under way has a task. The sizes are cardinalities, so that finiteness
of the creations and runs is assumed.

**Scheduler.** *Semaphore* says that the waiters are the queued jobs, each once,
that only waiters are handed slots, and with that `SlotsConserved` and
`NoLostWakeup` are inductive: a wake-up over any line of waiters keeps them
(SemaphoreWoken), and beginning, acquiring, quitting and finishing are such
wake-ups. That the value of the semaphore stays below the cap follows from the
count and is not inductive by itself. *Drained* says that the wrappers of a
closed group have seen their jobs to the end and that errors are of failed jobs;
as finished jobs never change again, what drain concluded remains true.

**RateLimit.** *Balanced* is kept on either engine by every step in a state where
no two requests are in `consume` (*Alone*): a request there has seen the row as
it is (*Seeing*), what it is about to write is the refilled level less what it grants
(*Computing*), and *Account* balances the books: for every time a, the level plus
what was admitted since a is at most a full bucket plus the refill from a to the
last write. The policy over a stretch that is over is carried along, because
later refills pay for later requests only. `AccountCommitted` is the step that
matters: it needs that the clock of the one who commits is not older than the
row. A row lock makes its holder alone (*Locking*), which gives RowLockKeepsPolicy;
without one, LoneConsumersKeepPolicy assumes it, so that what `rate_sqlite` shows
comes from overlap and from nothing else. *Sighted*, for both engines, says
that a request nobody overtook left its own reading of level and clock, from
which the arithmetic of the rounded header follows (RoundedUp, WaitRefills).

**Sessions.** *Held* says for each place of a scope what it holds (*Holds*: a
connection in all of its block, the write lock from the first DELETE) and what
its transaction has made of the tables (*Drafted*). The refinement maps Commit
to Apply, for which the draft of a seed must be exactly the seeded tables, and
the end of a process to the loss of all its open scopes.

**Migration.** What keeps the results is the order of the statements, so the
invariant speaks of those left to execute (*Agenda*): the column is dropped
right after its rows were copied and the table right after they were restored,
nothing that leaves v3 comes after a copy, and where a script leaves v3 the
table is empty or has been dropped before. Each script is made of blocks for
which this can be seen statement by statement (OneRevision), and joining blocks
keeps it (JoinedBlocks, Scripts). *OnDisk* and *InView* say what this means for
the file and for the connection: both hold all results, once, except that the
connection holds them twice between a copy and the drop that follows, and then
a transaction is open, so that a kill undoes both.

Where commands lead does not depend on the rows: what a statement does to the
schema and the stamp is a function of those two (ShapeOfEffect), so a script is
a path through databases without rows (*Leads*). The paths of the six revisions
are computed statement by statement, and joined into those of an upgrade from
any revision and of the downgrades from head (JoinedRoutes, UpgradeRoutes,
DowngradeRoutes). *Course* says of a run that is to land that the statements
left lead from what its connection sees to its target, and who commits that:
after each revision Alembic itself, or, if it found the connection inside a
transaction, `env.py` when it rewrites the stamp of v3 at the end. Only
`upgrade head` needs the latter, and each of its paths ends at v3; a downgrade
from head found the connection outside of a transaction, because the stamp head
had been rewritten and committed first. A downgrade from another revision does
not land, which `migration_residue` shows. A run that is killed or fails has not
come to its end.

**Pipeline.** *Passed* says what a request at a stage has behind it, *Progress*
what it has caused; each stage then gives the answer of its own case of
`Documented`. The constants leave the set of methods open.

Only model-checked: the liveness properties RunSettles, StatusSettles, DrainEnds,
RequestAnswered, PageWalkEnds and ScopeEnds, since the prover has no rules for
ENABLED and fairness. CursorMovesOn and LockIsGivenBack prove the part of two of them
that needs no fairness: a walk over the pages never goes round in circles, and no way
out of `consume` keeps the row lock. Every other property of a passing run is stated by a theorem.

## 6. Not modelled

The components and their status are in `PROJECT.json`. Left out, and why:

- The values `list_tasks_with_relationships` returns, and reads torn between its
  three SELECTs, which run outside a transaction on SQLite: the function is a
  probe for counting statements and nothing consumes its rows.
- `pool_pre_ping`, and `create_all` at the import of `session.py`: what they do is
  the library's (section 7 has an observation about the latter).
- Key identifiers, prefixes and the command line: they share nothing with the
  server but the table of keys. One key is enough for the gate.
- The payload of `/v1/metrics`: constants at this commit.
- `update_status` of the store: an assignment to one column, in `TaskRunner`; the
  order and the cut of `list_runs`; response schemas, which copy fields; the
  single rules of `TaskCreate`, which together make one class of bodies.
- ORM declarations, which have no behaviour.
- Output capture, redaction, durations, wording, logs.
- Reuse of PIDs and group ids, several callers draining at once, jobs submitted
  through the module-level `schedule` (the same drain, no semaphore), clocks of
  several hosts, offline rendering of migrations.

## 7. Observations made while reading

These concern code the runs do not cover, or cover only in passing, and what the
properties name as exceptions.

Runner and scheduler:

- `create_subprocess_exec` raises ValueError for a NUL byte and TypeError for no
  argument at all, which is what a command of blanks becomes. `TaskCreate` accepts
  both (`models/schemas.py:34-46`), `runner.py:511` catches neither, and
  `_execute_and_record` swallows them with the comment that failures surface "via
  the persisted result row" (`api/tasks.py:180-182`), but no row is written and the
  task stays "running" (action SpawnRaises). `StatusSettles` excepts such a run.
- `run_task` writes "running" unconditionally (`runner.py:476`), so a second
  run takes a task from a terminal status back to running, a transition
  `state_machine` does not have.
- A cancelled run raises out of `run_task` and leaves its child alive
  (`runner.py:530`), where `src/SPEC.md:435` wants no orphan. Nothing but the
  shutdown of the server cancels a run; the model has the action Cancel. Its task
  stays "running", which `StatusSettles` excepts.
- A run that ends after its task was deleted still appends a result row
  (`api/tasks.py:143` removes the rows that are there), and a sweep that ends in a
  KeyError leaves rows, neither of which AC-1.6 expects; RunLedger therefore does
  not promise which rows of a deleted task go.
- A row of `task_results` whose payload is NULL does not come back after
  `downgrade -1` and `upgrade head`, although the comment at
  `src/03-development/src/migrations/versions/v3_split_results.py:136-139` says
  nulls round-trip: the forward copy skips them.
- A kill after a CREATE that was durable at once leaves a database on which the
  same revision fails at that CREATE for ever (Fail in `Migration`); by the same
  missing commit a second `downgrade -1` leaves the stamp v2_tags over the
  tables of v1.
- An exit code of -1 in the history stands for a timeout and for a command that
  could not be tokenised, and a child ended by SIGHUP has the same code.
- `check_rate_limit` reads the bare global `rate_repo`, which the module's
  `__getattr__` does not serve: unless something bound it, the first request
  raises NameError (tests bind it).
- The default database of the rate repository is `sqlite:///:memory:`, which
  has a connection, and so a database, for each thread.
- The comment at `rate_repo.py:162-165` says `get_or_create` refreshes the
  policy of an existing row; it does not.
- `Scheduler`, `schedule` and `drain` are not called by the application, and a
  drain marks no task row "interrupted".
- A command that `shlex` refuses ends in an early return after the task was
  marked running (`runner.py:479`): its history has a row, its status stays
  "running". `StatusSettles` excepts it; `src/SPEC.md:97` knows no such end.
- A job that fails cancels its siblings at once, since the drain uses one
  TaskGroup (`runner_scheduler.py:119`), and drain raises instead of reporting
  (`runner_scheduler.py:145`); `src/01-requirements/SRS.md:339-341` lets the drain wait for its
  budget. `InterruptedHasCause` has it as one of its causes.
- A cancellation of the caller that arrives while drain awaits the jobs it has
  cancelled is caught by `except BaseException` (`runner_scheduler.py:161`) and
  drain returns; `CancellationLostOnlyLate` says that this is the only place,
  along with a group that has closed already.

Store:

- The cursor of `list` is an offset into the sorted identifiers
  (`task_repo.py:71`). Identifiers are random, so a task created or deleted
  between two pages shifts what follows: a task is delivered twice or skipped.
  `SlipsNeedChanges` says that this is all that can happen.
- Two DELETEs that overlap can end in a KeyError with rows left behind
  (`task_repo.py:82`), a 500; repeating the DELETE clears them (`SweptClean`).

Requests (`StatusAsDocumented` and `ErrorsAreProblems` name the exceptions):

- A duplicate name answers 422 (`api/tasks.py`), where `src/SPEC.md:418` has 409.
- A cursor that is no number (`task_repo.py:68`) and a body that is not UTF-8
  (UnicodeDecodeError is no JSONDecodeError) answer 500.
- The middleware reads a body whatever its content type (`app.py:151-165`): JSON sent
  under another one passes there, and FastAPI refuses it with 422 after the key and
  at the price of a token, where other invalid bodies cost none.
- The middleware validates the bodies of all of POST, PUT and PATCH on
  `/v1/tasks`: PUT or PATCH with an invalid body answers 422, not 405.
- What the router refuses is raised as Starlette's HTTPException, which the
  handler registered for FastAPI's does not see: 404 and 405 are not problem
  documents (`src/SPEC.md:164` wants them for all). The 503 of `readyz` has no
  `instance` and no correlation identifier.
- `_forbidden` passes a dictionary as its detail, which the handler turns into a
  string: it echoes the required scope, which the comment at `api/deps.py:257`
  says it does not.
- The status filter of the list is accepted and not used.
- Both checks of `readyz` are stand-ins that always hold.

Sessions:

- `list_tasks_with_relationships` returns rows of a closed session.
- `session.py` creates the whole schema when it is imported; on a database that
  Alembic has not seen, `upgrade head` then fails at its first CREATE.
