# Formal models of agentic-assistant

TLA+ specifications of the parts of `src/src/assistant` that are hard to test:
state shared by asyncio tasks, by threads or by several processes of one
persona, operations that can be cancelled at any `await`, and calls whose
failures are retried, counted or ignored. Each specification is translated from
the code (PROJECT.json, `map`, names the lines each definition stands for),
model-checked with TLC on a small instance, and the safety properties it checks are
proved with TLAPS for all values of the constants.

| module | models | run(s) | proofs |
|---|---|---|---|
| `CircuitBreaker` | `core/resilience.py`: one breaker, the guarded calls that share it, the retry loop; the hand-driven POST of `core/graph_client.py` | `breaker`, `breaker_held` | `HttpProofs` |
| `Approvals` | `core/capabilities/approvals.py` and `PostgresApprovalStore` of `core/durable.py`: interrupt/resume approval across processes | `approvals`, `approval_twice` | `ApprovalsProofs` |
| `Spawner` | `delegation/spawner.py`: delegations in flight, batches, cancellation, monitoring records | `spawner` | `SpawnerProofs` |
| `Sessions` | `harnesses/sessions.py`, `PostgresSessionStore`, and the requests of the A2A and MCP servers | `sessions` | `SessionsProofs` |
| `TurnStream`, `StreamProtocol` | one streamed turn: `astream_invoke` of both SDK harnesses, the tracing wrapper, both protocol mappers, the A2A handler and the `/chat` route; `StreamProtocol` is what the stream promises its reader | `stream` | `TurnStreamProofs` |
| `ModelCalls` | `core/capabilities/guardrails.py` and `model_bindings.py`: first-match policies, the three spend ledgers, the fallback walk of both harnesses, the router and reflection | `model_calls` | `ModelCallsProofs` |
| `Daemon` | `core/scheduler.py`, the daemon command of `cli.py`, and the extension lifecycle of `core/persona.py`: jobs, calendar events, start-up and shutdown | `daemon` | `DaemonProofs` |
| `Reflection` | `run_reflection` of `core/learning.py` over `core/memory.py`: consolidating interactions, overlapping and interrupted | `reflection` | `DaemonProofs` |
| `CleanRoom` | `core/cleanroom.py`: knowledge handed between personas, revoked and purged | `cleanroom` | `CleanRoomProofs` |
| `GraphClient` | `core/graph_client.py`: one call with its retries, token refresh, redirect, pages and files | `graph` | `HttpProofs` |

`MC<Module>.tla` only declares the model values of an instance; the `.cfg` files
give every constant its value and replace no definition. Two proof modules are about
two components each: `HttpProofs` about the breaker and the Graph calls behind it,
`DaemonProofs` about the daemon and the reflection it runs as a job.

## 1. The system

A persona (a configured assistant identity) is served by long-running processes
(`assistant serve` with A2A, MCP and AG-UI surfaces, `assistant daemon`) and by
short ones (the interactive CLI, `assistant approvals ...`). They share a
persona database and a few files. Within a process everything runs on one
asyncio loop: a task is interrupted only at an `await` that suspends.

| component | state it keeps | operations | interacts with | what is hard | what makes it correct |
|---|---|---|---|---|---|
| circuit breaker, `resilient_http` (`core/resilience.py`) | per key: state, consecutive failures, `next_probe_at`, probe flag | admission, record success / failure, retry loop | every HTTP client | stragglers of an earlier epoch, a probe that ends without a verdict, cancellation | opens only on the threshold; one probe per cooldown; is never held |
| approvals (`core/capabilities/approvals.py`, `core/durable.py`) | one row per request: action, status, expiry | find, consume, create, decide, expire | guardrails, tools, delegation, learning; operators' commands | read in one transaction, act in another; several processes | an approval lets the approved action proceed, once; a decision is final and is used |
| delegation spawner (`delegation/spawner.py`) | counter of active delegations, records, task map | delegate, delegate_parallel, cancel, list | harness factory, guardrails, memory | cancellation at each await; test before and increment after an await; semaphore beside a ceiling | no unit leaks; cancel is precise; records tell the truth; no batch is stranded |
| sessions (`harnesses/sessions.py`) | Session objects by thread, rows in the database | create, resolve, expire, idle sweep | A2A and MCP requests, harness factory | factory awaited between test and registration; idle sweep of a running turn; restart; store failures | threads apart; role respected; turns serialized; what is gone stays gone |
| turn streaming (`harnesses/sdk/*`, `transports/*/mapper.py`, `a2a/task_handler.py`, `web/routes.py`) | the events of one turn, the open message, the task snapshot | stream, map, synthesize a terminal | sessions, telemetry | the two-phase error contract (terminal event, then the exception); client disconnects | one terminal, last; brackets balanced; no invented success |
| guardrails and budgets (`core/capabilities/guardrails.py`) | spend ledger (memory, JSON file, table) | check_action, check_delegation, record | approvals, model binding, spawner | check-then-record of several processes; a file rewritten whole | spend stays under the ceiling; a denial has no effect |
| model resolution (`core/capabilities/models.py`, `model_bindings.py`, `health.py`) | health verdicts with a TTL | resolve, prune, bind with fallback | guardrails (charged per reference tried) | partial failure of the walk | a denied reference is not skipped past; a dead endpoint is not bound |
| scheduler daemon (`core/scheduler.py`, `cli.py`) | fired-event set, loop tasks, the main task | start, stop, timer loop, calendar loop, run job | extensions, harness, web server | polling against a window, clock read once per poll, stop during a job, a server that exits or raises | each event is run once, none is missed that polling can catch; stop ends all loops |
| extension lifecycle (`core/persona.py`) | list of active extensions | load, initialize, shutdown, atexit | scheduler, server start-up | failure or cancellation in the middle of the list | what was initialized is shut down, once, in reverse order, after the jobs that use it |
| continual learning (`core/learning.py`) | the reflection marker; proposals, their status | reflect, propose, apply, auto-apply | approvals, memory, files | two transactions a pass, overlapping passes, a marker read among the newest facts; gates in a row, one of which consumes an approval | no interaction is passed over or told twice; nothing is applied without its gates |
| clean room (`core/cleanroom.py`) | bundles in a shared directory, revocations, imported items | export, import, revoke, purge | memory of every persona | revocation during an import that awaits per item; imported facts exported again | knowledge goes only where rules lead; what was purged stays purged |
| Graph client (`core/graph_client.py`, `cloud_client.py`) | token, page links | request with refresh, paginate, download | circuit breaker, MSAL | nested bounded retries; lost answers; server-supplied links and redirects; temporary files | nothing is sent twice that may not be; pages in order and none lost; the token stays with Graph |
| MSAL auth, OpenBao (`core/msal_auth.py`, `capabilities/openbao.py`) | cached tokens, cache file | acquire, persist, read secret | Graph client, extensions | two writers of one file; clock read before a slow login | no stale token handed out |
| memory, Graphiti, DB (`core/memory.py`, ...) | rows, episodes | upserts, queries, export | everything | failures are logged and swallowed | single statements |
| HTTP tools, Microsoft extensions | - | request building | circuit breaker, Graph client | data conversion | - |
| capability resolver, roles, tool specs, sandbox, router, harness routing | - | pure assembly of configuration | - | - | - |
| telemetry, simulation server, CLI, migrations, Omnigent export | - | tracing, stubs, printing, schema, conversion | - | - | - |

PROJECT.json, `components`, lists these with their files, and `hazards` lists
what can go wrong at which line.

## 2. The plan

The components were taken in the order of what a mistake costs: first an unapproved
or doubly performed action, a crossed conversation, a service locked out, a
delegation that leaks, a client that is told a false ending or none, money spent
past its ceiling (`Approvals`, `Sessions`, `CircuitBreaker`, `Spawner`,
`TurnStream`, `ModelCalls`); then a missed or repeated reminder, knowledge lost or
leaked, a mail sent twice (`Daemon`, `Reflection`, `CleanRoom`, `GraphClient`).
Every component whose steps interleave, fail half-way or are retried now has its
module. What could follow, in order:

1. proposals of `core/learning.py` composed with the interface of `Approvals`: the
   gate chain, the approval it spends before the later gates, the crash between
   stamp and save;
2. the token caches of `core/msal_auth.py` and `core/capabilities/openbao.py` with
   two processes.

Runs stay below a few minutes: two or three actors, two of every shared name,
counters capped by named bounds.

## 3. The modules

### CircuitBreaker

State: `state`, `consecutive_failures`, `next_probe_at`, `in_flight_probe` are
`_BreakerState`'s fields (`opened_at` is always a cooldown earlier than
`next_probe_at`); `now` is the UTC clock; `call[c]` says where task `c` is in its
guarded call (attempt or backoff, which attempt, admitted as a probe or not, by
`resilient_http` or by `_post_no_retry`); `probed_at` is history. The breaker's
lock is never contended (no critical section awaits), so an admission, and a
recorded outcome with the admission's `finally`, are one step each.

| action | code |
|---|---|
| `AdmitClosed`, `AdmitProbe`, `Reject` | `acquire_admission` up to its `yield` |
| `AttemptSucceeds` | the attempt returns, `record_success` |
| `AttemptRetried`, `BackoffEnds` | retryable error with attempts left; the sleep |
| `RetriesExhausted` | the last retryable error, `record_failure` |
| `AttemptHitsOpenBreaker` | a nested `CircuitBreakerOpenError`: recorded, not retried (not recorded by the POST) |
| `AttemptFatal` | a non-availability error: raised, not recorded |
| `Cancelled` | `CancelledError` at either await |
| `Tick` | the clock |

Run `breaker` (3 callers, both kinds of call, threshold 2, cooldown 2, 2
attempts, clock 0..5, at most 4 counted failures; 35,743 states): three callers
are a probe, a straggler and a newcomer; five time units hold two full
cooldowns; four failures reopen after the threshold. Checked:
`OpensOnlyOnThreshold`, `ProbeFlagHasOwner`, `ProbesSpaced`. Run `breaker_held` checks `HalfOpenReleased` under
fairness and finds it violated (section 5).

Proved, from `ConstantsAssumption` alone: `TypeOK`, these three, and two that need
no run beside their proof: `RetryBudget` and `ReopenPostponesProbe`. `IInv` adds to
`TypeOK` and `RetryBudget`: `ProbeInv` (the flag implies half-open and a probe in
flight; not closed implies threshold failures - the link between the counter and
the state that no single step shows; half-open implies that `next_probe_at` has
come), and `SpacingInv` (no probe was admitted in
the future, and while the breaker is open `next_probe_at` is at least a cooldown
after the last probe), from which the action properties follow step by step. Two more
theorems say exactly what `breaker_held` finds. `AbandonedBySilentProbes`: a half-open
breaker is left without a probe only by a probe that ends unrecorded (a fatal error, a
cancellation, an open breaker met by the POST), never by a straggler or a verdict.
`HeldForGood`: once it is half-open with no call in flight, it stays so.

### Approvals

State: `key`, `status`, `lapsed` are the rows (`lapsed` abstracts `expires_at`);
`caller[c]` is the process' place in `consume_or_suspend` with the record it
found and the status it saw; `operator[o]` is the request an operator command
has read as pending; `approvals`, `denials`, `grants` are history. One store
method is one READ COMMITTED transaction, so one step; `decide` is two, because
its UPDATE names the row by id only. `_expire_lapsed`, which each read runs, is
`AfterExpiry`.

| action | code |
|---|---|
| `FindResolved`, `FindNoResolved` | `find_resolved` with the expiry it runs |
| `Consume` | `consume` (its result ignored), then proceed or raise |
| `FindPending`, `Create` | the pending branch of `consume_or_suspend` |
| `Crash` | the process dies, or the store raises |
| `DecideRead`, `DecideWrite` | the two statements of `decide` |
| `Lapse` | `expires_at` passes |

Run `approvals` (2 processes, 1 operator, 2 actions, 2 requests, expiry on;
42,817 states). Checked: `ProceedsPerApproval`, `ProceedsOnlyAsApproved` and,
under fairness, `DecisionConsumed`. Two processes give every race for a row, a
second action gives the mix-up of keys, and a second request is filed after the
first was consumed. A second operator multiplies the states and puts the liveness check
out of reach: two decisions that race are left to the theorems, which are for any
operators. `approval_twice` shows a disagreement of section 5. Proved: `TypeOK`, `ProceedsPerApproval`,
`ProceedsOnlyAsApproved`. `IInv` needs `CreditInv` (a caller that is about to
proceed on record *i* has one approval of *i* it has not used: grants plus the
pending one are within the approvals) and `RecordInv` (the record a caller holds
is of its own key and was filed). How far the second decision of section 5 can go is
`DecisionsBounded`: a request is decided at most once per operator at work, because
(`DecisionInv`) decisions and the operators who have read it as pending are together
that many at most, and nobody reads it once it is decided. So one operator at a time has
first-decision-wins, and no caller then proceeds on what was denied (`DenialsCount`).

### Spawner

State: `active`, `records`, `tasks` are `_active`, `_records` (statuses),
`_tasks`; `since` is the order of `started_at`; `pc` is the await a delegation is
suspended at; `cancelling` holds the tasks with a cancellation not delivered
yet.

| action | code |
|---|---|
| `CallDirect`, `SubmitBatch`, `AcquireSemaphore` | `delegate` and `delegate_parallel` up to the first await (`Refuse`, `Trip`, `Pass`) |
| `ContextBuilt` | record and task filed, counter up |
| `SpawnReturns`, `SpawnFails`, `SummaryRecorded` | the sub-agent's end, the summary, the `finally` with `_trim_records` (`Leave`, `Trim`) |
| `Cancel`, `CancelCaller`, `CancelDelivered` | `cancel()`, a cancellation from outside, and its arrival at the await |

Run `spawner` (a direct call and a batch of three, one refused; ceiling 2,
batch limit 2, retention 1; 20,174 states). Checked: `InFlightBooked` (the
counter and the task map are those in flight, `ActiveCounts` and
`CancelReachesInFlight`), `RecordTellsOutcome`,
`BatchTripsOnlyBesideDirect` and, under fairness, `BatchAnswered`. Three batch
jobs over a limit of two make one wait; a retention cap of one makes every
finish evict, and never a running record. Proved for any finite set of calls:
all but `BatchAnswered`. `RecordInv` ties what a record may say to where its delegation
is; `BatchTripsOnlyBesideDirect` needs a counting lemma, that the counted batch
jobs are a proper subset of the semaphore's holders when a job acquires it.

Proved beside the run: `RegistryBounded` (the registry lists at most `MaxFinished`
records and those of delegations in flight: no two that a trim keeps have the same
number of older ones, and these numbers are `MaxFinished` many), `OverrunIsDirect` (what
passes the ceiling together, section 5, are direct calls: the batch stays within its
semaphore), and `DelegationsAdvance`: each delegation passes at most five places and
never goes back, and a job waits at the semaphore only for jobs that are past it. That
is the ranking under `BatchAnswered`, which TLC checks with its fairness.

### Sessions

State: `row`, `rowRole`, `lapsed` are the `sessions` table; `live[r][t]` is the
`_sessions` dictionary of registry `r` (a Session object is a number, reused
once nothing refers to it); `idle` are the objects past `idle_ttl_seconds`;
`req[q]` is a request: suspended in a factory, at `session.lock`, or in its turn;
`durable` says whether the persona has the durable tier; `origin` is history. Store calls are synchronous,
so part of the step around them, and may fail (logged and ignored).

| action | code |
|---|---|
| `BeginCreate`, `EndCreate` | `create` before and after the factory; `record` |
| `ResolveLive`, `ResolveRebind`, `ResolveUnknown`, `EndRebind` | `resolve`: hit, re-bind before and after its factory, miss; `touch` |
| `Expire` | `expire` |
| `AcquireLock`, `TurnEnds`, `Abandon` | `async with session.lock`, its end, a disconnect, cancellation or factory error |
| `IdleTtlPasses`, `SessionTtlPasses`, `Restart` | time, and the process |

Run `sessions` (an A2A registry and a registry of another role over one table,
two threads, two requests, up to four objects, a store that may fail; 286,290
states, 2 to 3 minutes). Two requests are enough for every race on a thread
(hit, sweep, re-bind); two threads for a mix-up; the second role for the shared
table; more objects than requests and threads need so that `Fresh` never blocks. Checked: `ConversationsKept`
(`SessionsApart` and `RoleTrue`), `SerializedInMemory`, `GoneForGood` and, under fairness, `RequestsEnd`. Proved:
all but `RequestsEnd`. `IInv` adds that two entries never share an object, that a
lock has one holder, that an active row carries its thread's role, and
`OneObject`: without the durable tier a thread has one object from its creation
on, which is what makes a per-object lock serialize a thread. `OverlapsAreDropped`
says where turns of one thread do overlap: with the durable tier only, and within one
registry only if one of the turns is on a session the registry has dropped.

### TurnStream

State: `run` is where the harness generator is suspended; `calls`, `orphans` and
`minted` are the agent's tool calls, `pending_orphan_call_ids` and the ids the
harness made up; `said` is history, the chunks of each message so far; `mapper` holds the mapper's
locals (`_open_message_id`, `seen_artifacts`, `terminal_emitted`); `pending` are
the protocol events of the current harness event, `sent` what the client has
read, `task` the stored A2A task; `outcome` is history, `trace` the one
`trace_llm_call`. The pipeline is a stack of generators, so it only moves when
the client asks for the next event: `Read` hands over a pending one, and with
none pending the harness is resumed. Texts, arguments and results are left out;
the memory capture is only its await.

| action | code |
|---|---|
| `YieldRunStarted`, `YieldText`, `YieldToolStart`, `YieldToolEnd` | the event loop of `astream_invoke`, through `MapRunStarted`, `MapTextDelta`, `MapToolEvents` |
| `YieldError`, `Reraise` | the two phases of the error contract: a terminal event, then the exception again |
| `Drain`, `YieldFinished`, `Return` | the end of the SDK's stream, the capture, the terminal event, the wrapper's success trace |
| `CloseFails` | closing the MSAF stream raises, outside the contract; the handler makes the terminal event (`Raise`) |
| `Read` | the client reads an event, which `_apply_event` folded into the task |
| `Disconnect` | `GeneratorExit` at a yield, `CancelledError` at an await |

Run `stream` (both protocols, both harnesses, two messages, three tool calls of
which two have no id, four SDK events; 61,508 states): two messages interleave and
return to the first, two calls without ids are open together and end in either
order, and every error class, failing close and disconnect meets every place.
Checked: `StreamWellFormed` (`MessagesBracketed`, `CallsPaired` and
`ArtifactsComplete`), `TraceTellsStream`, and `KeepsProtocol`: the pipeline implements
`StreamProtocol` (events, then at most one verdict, which is true and last) with
its liveness (a client that stays is told). The refinement maps the events the
client read to a count, and the terminal it read to a verdict.

Proved: `TypeOK`, `TraceTellsStream`, `StreamWellFormed`, and that `Spec`
implements `Protocol!Spec`. `VerdictInv` ties the terminal events sent and pending to where
the harness is and to `outcome` (none before the terminal was made; after it
none but that one, and it is true), and `PlaceInv` ties the trace and `outcome` to
where the generators are; a step then maps to `Settle`, `Emit`, `Tell`, `Leave` or
a stutter by what it takes off `pending`. For `StreamWellFormed` the stream is
`sent \o pending`, whose prefix the client has: `FormInv` says that the one open
message in it is the mapper's, and that every open call without an id has its
orphan, counted (`UnnamedOpen`), so an end never lacks a start; `StoreInv` says
that the task holds all that was said but the chunk still pending.

### ModelCalls

State: `walk[w]` is a task that needs a model: where it is between the check and
the use of a reference, the rest of its chain, the day of its check, and (history)
what it was refused. `spent[l]` is what `spent_since` of ledger `l` answers for
each day, `file` the same of the JSON file, `persist` the configured kind of
ledger. `dispatched` is history. From a check to the end of its binding the code
does not await, so one walk of a process at a time is in such a section
(`LoopFree`); other processes interleave at each query of the ledger. Policies,
chains and costs are constants; a policy matches by sets, as its globs do.

| action | code |
|---|---|
| `Begin` | the chain is resolved, the walk starts |
| `Check` | `check_model_call`: the first matching policy denies, asks for confirmation (`Confirm`), or lets `_check_budget` decide |
| `ReadDaily`, `ReadMonthly`, `Record` | `_check_budget`: a query for each ceiling, then `record` |
| `LedgerFails` | the database does not answer: to every walker a failing binding |
| `Bind`, `BindFails` | the reference is bound, or the next one is tried |
| `Answer`, `InvocationFails` | router and reflection invoke at once and fall back again |
| `NewDay`, `Restart` | the windows; a process restarts with the ledger it can load |

Run `model_calls` (a harness, the router and reflection in two processes, three
references priced 0, 1 and 2, four policies, ceilings of 2 a day and 3 a month, two
days of one month; 701,181 states). Two walks of one process and one of another
are every pairing there is; a chain of three meets a refusal, a failure and a
dispatch; a free reference passes a spent budget; on the second day
the monthly ceiling binds before the daily one. Checked: `CeilingKept`, `DispatchesCharged`,
`DispatchesPermitted`.

Proved: `TypeOK`, `CeilingKept`, `DispatchesPermitted`, `DispatchesCharged`, for any number of
processes, walks and references, any policies and any calendar. `WindowInv` adds
what is owed to what is spent: a walk between its test and its record owes the
window its cost. In the ledger of one process the two together are within the
ceiling, because a process has one such walk; in the shared one they are below the
ceiling plus one `MaxCost` for each process, because each owing walk is the only
one of its process (`OnePerProcess`, an injection into the processes). It needs
`SectionInv` (one section a process), that the test of a walk was about the windows
it still owes to, and `UnusedInv` (a kind of ledger not configured stays empty). `ChargedInv` keeps
`DispatchesCharged`: it takes each sum of costs as the size of a set of coins, one for
every unit of a dispatch's cost, so that sums are compared by counting.

### Daemon

State: `main` is where the daemon's main task is and the extension it has at hand;
`ext` and `closings` are what the hooks made of each extension; `active` is
`_active_extensions`, `held` the local list of a load or a shutdown; `server` is the
web server's task; `loop[j]` is a job's task (where it is, since when, when its sleep
ends, and the events of its last answer still to be run); `fired` is
`_fired_events`; `cancelling` the tasks with a cancellation not delivered yet; `now`
the clock, `booked` since when an event is in the calendar; `runs` and `up` are
history. One asyncio loop: a step lasts from one suspending await to the next.

| action | code |
|---|---|
| `Initialized`, `InitializeFails`, `Discarded` | `load_extensions_async`, one extension at a time; the last one starts the scheduler and the server, or fails to make the server's app (`Loaded`) |
| `PollAnswers`, `PollFails`, `Wakes`, `RunEnds` | `_calendar_loop`, `_timer_loop`, `run_job_once` (whether the job failed makes no difference) |
| `StopSignal`, `ServerReturns`, `ServerRaises`, `ServerExits` | the signal handler; the end of the server's task: by itself, by an exception that waits in the task, by `SystemExit`, which leaves the loop at once |
| `StopScheduler`, `StopEnds`, `CancelDelivered` | `stop`: cancel, gather; a cancellation arrives |
| `StopSkipped` | `await server_task` raises what the task raised, past `scheduler.stop()` |
| `Interrupted` | Ctrl-C before the signal handlers are installed |
| `CloseNext`, `Ends` | `shutdown_extensions`, the end of the process |
| `Tick` | the clock, when nobody is due |

Run `daemon` (a cron job, an interval job and a calendar job on the second of two
extensions, two events a minute apart, entered at the start or later, lead 6, poll
1, answers and jobs of up to 1, clock 0..8; 517,080 states). The lead is longer than
a cycle, so that events are owed; two events overlap in one answer, the second waits
for the job of the first; an event entered late, a poll that fails and a daemon
that starts late excuse a miss; either extension may fail and take its job with it;
the server ends in each of its ways before or after the signal.
Checked: `EventsServed`, `ExtensionsReleased` and, under fairness, `DaemonEnds`.
`EventsServed` says how long a lead must be for no event to be missed: one cycle
(answer, a run for every other event, sleep) and one more answer. What uvicorn and
`asyncio.run` do with `SystemExit` is external, and so is the calendar.

Proved: `DaemonTypeOK`, `EventsServed` and `ExtensionsReleased`, for any jobs, periods,
leads, calendars, answer and run times and any number of extensions.
`ExtensionsReleased` follows from `LifeInv`, which says at each place of the main task
who owns which extension (the load's list below `main.ext`, then the registry, then the
list being closed from its end; or nobody, after an interrupted load), and `TaskInv`, by
which no loop is up before the load is over, and none but a cancelled one while
extensions go, unless the server's task raised (section 5). `EventsServed` is a budget:
`ServedInv` bounds for each loop and event when the next answer that can list the event is asked for, by what is left of the cycle
at the place the loop is at (`Left` counts the runs of other events, of which none
comes twice); an owed event still open would have to begin before that.

Two theorems are about the way down, and make up what of `DaemonEnds` can be proved.
`ShutdownAdvances`: after the signal no step adds to what is left to do (`ToDo` counts
the waits ahead of the main task, the server, the tasks, the extensions), each return,
cancellation and hook takes from it, and `scheduler.stop` waits for no task it has not
cancelled (`ToldInv`). `NothingStartsAfterStop`: once `stop`, or
the server's `SystemExit`, has cancelled the loops (`Stopped`), none asks, runs or marks
anything; where the stop was skipped they do go on.

### Reflection

State: `until` is the marker fact and `age` how many facts were written since it;
`committed` are the interactions in the table, numbered by `created_at` (the start
of their transaction) and visible in any order; `refl[r]` is a pass: the marker it
found, what it consolidates, and what up to the newest of it its summary leaves
out; `consolidated`, `repeated`, `missed` and `disturbed` are history, of which
`repeated` and `disturbed` start over when the marker has caught up (`CaughtUp`: no pass
is under way and nothing consolidated lies above it). A memory operation is one
transaction.

| action | code |
|---|---|
| `Begin`, `List` | the marker among the newest facts; the newest interactions after it |
| `StoreSummary` | the summarizer or the digest, `store_fact`, the episode |
| `StoreMarker` | `store_fact` of the marker |
| `Fails` | an error, a cancellation or the end of the process at any of these |
| `Commit`, `OtherFact`, `FactsDeleted` | `store_interaction`, `store_fact`, `delete_facts_by_prefix` of anybody else |

Run `reflection` (two reflectors, four interactions, two read at a time, the marker
searched among three facts, a digest of one line; 1,443,656 states). With two
reflectors a pass overlaps another; three facts push the marker out of sight and a
purge brings it back; more than two interactions exceed a read. Checked:
`NothingLost`, `ConsolidatedOnce`: a crash between the stores, an overlap or a hidden
marker costs repetitions, but none once a pass has ended alone with the marker where it
belongs; the damage heals and does not recur.

Proved: `TypeOK` and both, for any reflectors and limits. The invariant says of each
pass that the interactions between its base and the newest of its new ones are new or
left out, that what lies below its base is accounted for, and, as long as nothing was
disturbed since the marker last caught up, that a pass under way is the only one and
nothing consolidated lies above the marker but what a pass about to move it has just stored.

### CleanRoom

State: `memory[p]` are the facts persona `p` imported, by bundle; `file[b]` the
bundle in the shared directory; `revoked` the revocation records; `cmd[c]` a command
under way and what is left of it; `purged` and `late` are history: the syncs that
purged a bundle, and what imports of it then under way had still to store. Share
and accept rules are constants, as the relations they come to: which item, its own or imported, a persona
lets go to whom, and which item it takes from whom.

| action | code |
|---|---|
| `Collect`, `WriteBundle` | `export_shared` up to and after its read of the memory |
| `BeginImport`, `StoreItem` | `import_shared`: the tests, then one `store_fact` per item |
| `Revoke` | `revoke` |
| `BeginPurge`, `PurgeBundle` | `purge_revoked`: the records are listed, then one delete per bundle |
| `Done`, `Dies` | a command ends, or is cut short |

Run `cleanroom` (three personas, two items, two bundles, two commands at a time;
788,371 states): one bundle hands an item on that the other brought, an import and a
sync of the same bundle overlap, and a rule in each direction admits what the other
side would not take. Checked: `SharedAlongRules`, `PurgedForGood`.

Proved: `TypeOK` and both, for any personas, rules and numbers of bundles and
commands. `SharedAlongRules` is stated without paths (no set of personas that is
closed under the rules for an item loses it), which makes it provable by one
invariant: what a command carries and what a file holds lies along the rules,
too. `PurgedForGood` says what a sync leaves: of a bundle it purged, the
persona holds at most what imports under way at that moment had still to store, and
nothing once a sync found none. `PurgeInv` adds that what such imports have left to
store is within `late`, and that no import of a purged bundle begins.
An export reads the 200 newest facts only; the model has fewer.

### GraphClient

State: `at` is where the call is in its attempt, `attempt` and `page` which one;
`host` and `bearer` where the request goes and whether with the token; `files` the
temporary files on disk; `performed` (how often the service did it), `delivered` and
`mistaken` are history. The service may do what was asked although its answer is
lost or an error. The breaker is `CircuitBreaker`; to a call it is one more way to
be `Refused`.

| action | code |
|---|---|
| `Send`, `Refused` | admission, token, temporary file; breaker open or no token |
| `Success`, `Downloaded`, `TooLarge` | the answer: a body, a page (`Deliver`: `paginate`), a stream into the file |
| `Unauthorized`, `Refreshed` | `_send_with_auth_retry` and its twin in `_get_bytes_inner` |
| `ErrorAnswer`, `MistakenAnswer`, `Lost` | an error status, one that answers the replay, a transport error; `EndAttempt` retries or raises, and removes the file |
| `Redirected` | the one redirect of a download, without the token |
| `Cancel` | `CancelledError` at any await, or a listing given up |

Run `graph` (each kind of call, three attempts, up to three pages under a ceiling of
two; 897 states): a listing is complete below the ceiling, at it, and cut by it, and
every answer meets each of first request, replay and redirect in each attempt.
Checked: `DoneOnce`, `PagesInOrder`, `NothingAstray`.

Proved: `GraphTypeOK` and these three, for any policy, ceiling and length of a listing.
`GraphInv` adds `PageInv` (a listing under way has delivered exactly the pages before
the one at hand, and a mistaken answer ends the call), `AttemptInv` (each attempt but
the one under way was performed at most once, and what must not be repeated has one
attempt) and `PlaceInv` (away from Graph there is no token, and the file is that of the
attempt). Also `CallsLeadOn`: each step leads to a later page, attempt or place, so no
mixture of refreshes, redirects, retries and links makes a call go round.

## 4. Fairness, and what stays with TLC

Liveness is only model-checked. What is assumed of the code's scheduling:

- breaker: attempts and backoffs end (HTTP timeouts, bounded sleeps), the clock
  runs, every caller keeps calling. Even so `HalfOpenReleased` fails.
- approvals: callers retry their suspended operations (the documented resume
  protocol), strongly, because expiry and other callers disable the finding in
  between; nobody is obliged to decide.
- spawner: the loop resumes a task whose await is over.
- stream: the SDK's stream produces its next event or ends, and a connected
  client reads on (`WF` of `HarnessStep` and `Read`); a client may also leave.
- sessions: factories and turns end; the lock is strongly fair because
  `asyncio.Lock` wakes waiters in order.

- daemon: hooks return, calendars answer, jobs end or take their cancellation, and a
  server that was told to exit does, unless it has raised (`WF` of the main task, of each
  loop, and of `ServerReturns` while the main task waits for it). Nobody is obliged to ask it to
  stop, and no server to give up.

Model-checked only are therefore `DecisionConsumed`, `BatchAnswered`, `RequestsEnd`,
`DaemonEnds` and the liveness half of `KeepsProtocol` (its safety half is the theorem
`ProtocolKept`): they need fairness, hence ENABLED, which TLAPS cannot handle. Rankings
are proved for the batch, the daemon and the Graph call. The properties of the
violation runs, `HalfOpenReleased` and `ApprovalUsedOnce`, are false of the code.

Every bound is a named constant (`MaxTime`, `MaxFailures`, `MaxRecords`,
`MaxSession`, `MaxSteps`, `MaxDay`, `NumRows`, `MaxPages`, `MaxPoll`, `MaxRun`) or
the size of a set. The proofs keep the guards these bounds add
but hold for every value of them. Only `graph` disables
the deadlock check, because its one call ends; any other component that has nothing
left to do either has a stuttering action of its own (`Spawner!AllDone`,
`TurnStream!Over`, `Daemon!Over`, `CircuitBreaker!Reject`) or can still be called.

## 5. Where the code and its documents disagree

Checked by a run each (PROJECT.json, `findings`, quotes the lines):

- `breaker_held`: a probe that is cancelled, or ends in an error that is no
  availability failure, leaves the breaker half-open for the life of the process.
- `approval_twice`: `consume_or_suspend` ignores whether `consume` won the row;
  two processes proceed on one approval.

Met while modelling, without a run of their own:

- a second operator's decision overwrites the first: `decide` reads the status in
  one statement and updates by id in another, although durable.py:390 has
  "first-decision-wins decide" (`DecisionsBounded`);
- delegations that build their context at the same time pass the ceiling together
  (test at spawner.py:410, increment at 437; `OverrunIsDirect`);
- an idle sweep drops a session whose turn is running, and the thread is re-bound
  beside it: with the durable tier two turns run on one thread, although turns
  "on one session MUST be serialized" (a2a-server/spec.md:226; `OverlapsAreDropped`);
- two processes are let through against the same balance of the shared ledger and
  together pass the ceiling (`CeilingKept` bounds by how much);
- reflections do re-consolidate, although the marker is there "so repeated
  reflections never re-consolidate" (learning.py:655): after a crash between the two
  stores, when two passes overlap, or once 200 newer facts hide the marker;
- and they pass interactions over: those that commit after a pass has read with an
  earlier `created_at`, the oldest of more than 50 new ones, and what the
  2000-character digest has no room for (`missed`);
- `assistant cleanroom revoke` promises that consumers "drop already-imported items
  on their next" sync (cli.py:1430); an import under way stores the rest after it,
  and it takes one more sync;
- what a persona imported it exports again (`include` defaults to `*`) under its own
  name and a new bundle id, where the revocation of the original does not reach it;
- a Graph request repeated after a 401 is a success whatever it is answered but 401:
  a 429 or 5xx page is yielded as the last one, although "silent truncation" is
  forbidden (graph-client/spec.md:529), and its Retry-After is not honoured; a page
  that is not JSON ends a listing likewise;
- a cancelled download leaves its temporary file, since only `Exception`s remove it;
- an exception of the web server's task that is no `SystemExit` (`--port` 70000: the
  option has no range, cli.py:520, and `bind` raises `OverflowError`) is seen by nobody
  until the stop signal; then `await server_task` (cli.py:772) raises it, past
  `scheduler.stop()`, and the extensions are shut down under running jobs, although the
  stop leaves "no running tasks behind" (scheduler/spec.md:156) and the daemon is to
  "stop gracefully" (cli-interface/spec.md:571; `StopSkipped`);
- an interrupted load leaves the extensions it had initialized without a shutdown;
- an event whose job fails is not run again, while a daemon restarted within the
  lead runs it a second time (`_fired_events` is the process's); with the default
  poll of 5 minutes a lead below two polls or so may miss events;
- a straggler's success closes an open breaker without a probe, and a straggler's
  failure re-opens a half-open one while its probe is still in flight, after
  which a second probe may run beside the first;
- a delegation cancelled while its summary is written stays `succeeded` in the
  records although `cancel()` returned true and the caller got `CancelledError`;
- jobs of `delegate_parallel` do trip the ceiling beside a direct delegation
  (`BatchTripsOnlyBesideDirect` says exactly when), and with `max_concurrent` 0
  every job does, the semaphore's floor being one;
- a delegation a guardrail denies ends the interactive CLI: `/delegate`
  (`cli.py`) does not catch the `PermissionError` of `delegate`;
- tool events are not always paired, although the ag-ui-emitter spec has one
  `TOOL_CALL_END` per start: a turn that fails with a tool open, or a tool that
  errors (deep_agents ignores `on_tool_error`), never ends the call; LangChain
  events without a run id get a fresh id each; parallel MSAF calls without ids
  that end out of order get each other's ids;
- a message may be closed more than once: interleaved messages reopen a closed
  id; and a raw exception (`CloseFails`) leaves one open;
- the "terminal guarantee" of the task handler ends with the client: after a
  disconnect the stored task stays `working`, and `_tasks` is never emptied;
- a client that closes right after it read the terminal event leaves a trace that
  says `cancelled`;
- requests of `/chat` share one harness and thread and take no lock;
- processes with `persist: file` rewrite the file each from its own entries, so what
  one recorded is lost to the next restart, although guardrail-provider/spec.md has
  it that previously recorded spend must still count;
- a call a human confirmed is never charged, since `check_action` returns before the
  budget, although "policies are per-action rules; budgets are ceilings"
  (guardrails.py:32);
- a policy with `min_chain_depth` never matches a model call: no caller hands
  `check_model_call` an identity, and the one it makes up has no hops;
- the walk charges each reference it tries, also those that then fail to bind (the
  MSAF binding looks at the dialect only after the check), and a harness is charged
  when its agent is built, not for its turns;
- to the delegation router a denial is a failure like another: it tries the next
  reference, where the harnesses and reflection stop.

## 6. Not modelled

Pure assembly, conversion, printing, tracing and schema (section 1's last rows),
where no state is shared between steps, and `.agents/skills`, the scripts coding
agents use while developing the repository, which no module of the assistant
imports. Besides:

- proposals of `core/learning.py`: an approval is consumed before the eval gate, the
  risk tier and the kind are tested, so a refusal there spends it; approvals are
  keyed by kind and target, so one proposal may use another's; `propose` derives the
  same feedback again; a crash between apply and save applies twice. Each is one
  command's straight line, whose only shared state, the approval, is `Approvals`;
- how a consumer's binding resolves to a chain, and the health verdicts that thin it:
  a filter over configuration; they are probed once, before the daemon starts;
- MSAL's and OpenBao's caches: synchronous calls and a file replaced whole;
- exceptions a protocol mapper itself raises: to `TurnStream` a mapper is a conversion that
  succeeds;
- Memory but for the operations `Reflection` and `CleanRoom` use, and Graphiti: seen
  through their callers as single-statement writes whose failures are swallowed.

Contents of prompts, messages, contexts and spans are abstracted everywhere.
