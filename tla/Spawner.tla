------------------------------ MODULE Spawner ------------------------------
(***************************************************************************)
(* DelegationSpawner (src/assistant/delegation/spawner.py): the delegations *)
(* in flight under one spawner, made by direct delegate() calls and by one  *)
(* delegate_parallel() batch, the monitoring registry, and cancellation.    *)
(*                                                                          *)
(* Every delegation runs in an asyncio task of its own, and a task runs     *)
(* without interruption between two awaits.  delegate() awaits three times: *)
(* _build_context (the memory snippets), _call_spawn (the sub-agent) and,   *)
(* after a success, _record_outcome_summary; a batch job waits for the      *)
(* batch's semaphore before that.                                           *)
(***************************************************************************)
EXTENDS Naturals, FiniteSets

CONSTANTS
    Direct,         \* delegate() calls made on their own
    Parallel,       \* the jobs of the delegate_parallel() call
    Refused,        \* the calls refused before the ceiling: role not allowed or not
                    \* available, cycle, depth over max_chain_depth, guardrail denial
    MaxConcurrent,  \* the parent role's delegation.max_concurrent
    BatchMax,       \* the max_concurrent argument of delegate_parallel
    MaxFinished     \* _MAX_FINISHED_RECORDS

Jobs == Direct \cup Parallel

ASSUME ConstantsAssumption ==
    /\ IsFiniteSet(Jobs)
    /\ Direct \cap Parallel = {}
    /\ Refused \subseteq Jobs
    /\ MaxConcurrent \in Nat /\ BatchMax \in Nat /\ MaxFinished \in Nat

VARIABLES
    pc,          \* where each delegation is
    outcome,     \* how it ended, for its caller
    active,      \* self._active
    records,     \* self._records: the status of each record, "none" if there is none
    since,       \* the order of started_at, 0 for a job never recorded
    tasks,       \* self._tasks: the jobs cancel() reaches
    cancelling   \* task.cancel() was called, CancelledError not delivered yet

registry == <<active, records, since, tasks>>
vars == <<pc, outcome, registry, cancelling>>

Waiting == {"queued", "context", "spawn", "summary"}  \* suspended at an await
Counted == {"spawn", "summary"}                       \* between `_active += 1' and the finally

Init ==
    /\ pc = [j \in Jobs |-> "new"]
    /\ outcome = [j \in Jobs |-> "none"]
    /\ active = 0
    /\ records = [j \in Jobs |-> "none"]
    /\ since = [j \in Jobs |-> 0]
    /\ tasks = {}
    /\ cancelling = {}

\* A task with a cancellation pending resumes with CancelledError, whatever the
\* awaited operation returned.
Runs(j, at) == pc[j] = at /\ j \notin cancelling

End(j, result) ==
    /\ pc' = [pc EXCEPT ![j] = "done"]
    /\ outcome' = [outcome EXCEPT ![j] = result]

-----------------------------------------------------------------------------
(* delegate, up to its first await                                         *)

Refuse(j) ==
    /\ j \in Refused
    /\ End(j, "refused")
    /\ UNCHANGED <<registry, cancelling>>

\* RuntimeError: the ceiling is reached.
Trip(j) ==
    /\ j \notin Refused /\ active >= MaxConcurrent
    /\ End(j, "ceiling")
    /\ UNCHANGED <<registry, cancelling>>

\* The ceiling is passed.  The counter goes up only after the context is built.
Pass(j) ==
    /\ j \notin Refused /\ active < MaxConcurrent
    /\ pc' = [pc EXCEPT ![j] = "context"]
    /\ UNCHANGED <<outcome, registry, cancelling>>

Delegate(j) == Refuse(j) \/ Trip(j) \/ Pass(j)

CallDirect(j) == j \in Direct /\ Runs(j, "new") /\ Delegate(j)

\* delegate_parallel starts a task per job, and each waits for the semaphore.
SubmitBatch ==
    /\ Parallel # {}
    /\ \A j \in Parallel : pc[j] = "new"
    /\ pc' = [j \in Jobs |-> IF j \in Parallel THEN "queued" ELSE pc[j]]
    /\ UNCHANGED <<outcome, registry, cancelling>>

\* max(min(max_concurrent, BatchMax), 1)
Limit ==
    LET narrowed == IF BatchMax < MaxConcurrent THEN BatchMax ELSE MaxConcurrent
    IN  IF narrowed < 1 THEN 1 ELSE narrowed

\* Mutant of Holders: a job that is cancelled or fails keeps the semaphore.
HoldersKept ==
    {j \in Parallel : pc[j] \in {"context"} \cup Counted \/ outcome[j] \in {"error", "cancelled"}}

Holders == {j \in Parallel : pc[j] \in {"context"} \cup Counted}

AcquireSemaphore(j) ==
    /\ j \in Parallel /\ Runs(j, "queued")
    /\ Cardinality(Holders) < Limit
    /\ Delegate(j)

-----------------------------------------------------------------------------
(* delegate, from its first await                                          *)

ContextBuilt(j) ==
    /\ Runs(j, "context")
    /\ pc' = [pc EXCEPT ![j] = "spawn"]
    /\ records' = [records EXCEPT ![j] = "running"]
    /\ since' = [since EXCEPT ![j] = 1 + Cardinality({i \in Jobs : since[i] > 0})]
    /\ tasks' = tasks \cup {j}
    /\ active' = active + 1
    /\ UNCHANGED <<outcome, cancelling>>

\* _trim_records, on the statuses recs: the oldest finished records beyond the
\* retention cap go.
Finished(recs) == {j \in Jobs : recs[j] \notin {"none", "running"}}
Evicted(recs) ==
    {j \in Finished(recs) :
        MaxFinished + Cardinality({i \in Finished(recs) : since[i] < since[j]})
            < Cardinality(Finished(recs))}
Trim(recs) == [j \in Jobs |-> IF j \in Evicted(recs) THEN "none" ELSE recs[j]]

\* Mutant of Leave: the task is not popped.
LeaveKeepsTask(j, status) ==
    /\ records' = Trim(IF records[j] = "none" THEN records ELSE [records EXCEPT ![j] = status])
    /\ active' = active - 1
    /\ UNCHANGED <<since, tasks>>

\* The `finally' of delegate, with the status its except clauses gave the record.
\* A record that was evicted already is set, but no longer found.
Leave(j, status) ==
    /\ records' = Trim(IF records[j] = "none" THEN records ELSE [records EXCEPT ![j] = status])
    /\ tasks' = tasks \ {j}
    /\ active' = active - 1
    /\ UNCHANGED since

\* The sub-agent answers; the record says so before the summary is written.
SpawnReturns(j) ==
    /\ Runs(j, "spawn")
    /\ pc' = [pc EXCEPT ![j] = "summary"]
    /\ records' = [records EXCEPT ![j] = "succeeded"]
    /\ UNCHANGED <<outcome, active, since, tasks, cancelling>>

\* Mutant of SpawnFails: the counter goes down on success only.
SpawnFailsCounted(j) ==
    /\ Runs(j, "spawn")
    /\ End(j, "error")
    /\ records' = Trim([records EXCEPT ![j] = "failed"])
    /\ tasks' = tasks \ {j}
    /\ UNCHANGED <<active, since, cancelling>>

\* The sub-agent raises, or deadline_seconds pass (TimeoutError).
SpawnFails(j) ==
    /\ Runs(j, "spawn")
    /\ End(j, "error")
    /\ Leave(j, "failed")
    /\ UNCHANGED cancelling

SummaryRecorded(j) ==
    /\ Runs(j, "summary")
    /\ End(j, "success")
    /\ Leave(j, "succeeded")
    /\ UNCHANGED cancelling

\* Mutants of CancelDelivered: the `finally' covers the awaits before the counter
\* goes up; the except clauses cover the summary.
CancelDeliveredAnywhere(j) ==
    /\ j \in cancelling /\ pc[j] \in Waiting
    /\ End(j, "cancelled")
    /\ Leave(j, "cancelled")
    /\ cancelling' = cancelling \ {j}

CancelDeliveredInSummary(j) ==
    /\ j \in cancelling /\ pc[j] \in Waiting
    /\ End(j, "cancelled")
    /\ CASE pc[j] = "spawn"   -> Leave(j, "cancelled")
         [] pc[j] = "summary" -> Leave(j, "failed")
         [] OTHER             -> UNCHANGED registry
    /\ cancelling' = cancelling \ {j}

\* CancelledError at the await the task is suspended in.  Only the one of the
\* sub-agent is under the except clause that marks the record cancelled.
CancelDelivered(j) ==
    /\ j \in cancelling /\ pc[j] \in Waiting
    /\ End(j, "cancelled")
    /\ CASE pc[j] = "spawn"   -> Leave(j, "cancelled")
         [] pc[j] = "summary" -> Leave(j, "succeeded")
         [] OTHER             -> UNCHANGED registry
    /\ cancelling' = cancelling \ {j}

\* cancel(delegation_id)
Cancel(j) ==
    /\ j \in tasks
    /\ cancelling' = cancelling \cup {j}
    /\ UNCHANGED <<pc, outcome, registry>>

\* The task of a direct call, or the batch with all its tasks, is cancelled by
\* whoever awaits it.
CancelCaller(js) ==
    /\ \E j \in js : pc[j] \in Waiting
    /\ cancelling' = cancelling \cup {j \in js : pc[j] \in Waiting}
    /\ UNCHANGED <<pc, outcome, registry>>

Step(j) ==
    \/ AcquireSemaphore(j)
    \/ ContextBuilt(j)
    \/ SpawnReturns(j)
    \/ SpawnFails(j)
    \/ SummaryRecorded(j)
    \/ CancelDelivered(j)

\* Every call has ended.
AllDone == (\A j \in Jobs : pc[j] = "done") /\ UNCHANGED vars

Next ==
    \/ SubmitBatch
    \/ \E j \in Jobs : CallDirect(j)
    \/ \E j \in Jobs : Step(j)
    \/ \E j \in Jobs : Cancel(j)
    \/ \E js \in {{j} : j \in Direct} \cup {Parallel} : CancelCaller(js)
    \/ AllDone

Spec == Init /\ [][Next]_vars

\* The loop resumes every task whose await is over, and a sub-agent, a memory
\* query and a summary end (their clients have timeouts).
Fairness == \A j \in Jobs : WF_vars(Step(j))

FairSpec == Spec /\ Fairness

-----------------------------------------------------------------------------
(* Properties                                                              *)

Statuses == {"none", "running", "succeeded", "failed", "cancelled"}
Results == {"none", "success", "error", "refused", "ceiling", "cancelled"}

\* Type invariant.
TypeOK ==
    /\ pc \in [Jobs -> {"new", "done"} \cup Waiting]
    /\ outcome \in [Jobs -> Results]
    /\ active \in Nat
    /\ records \in [Jobs -> Statuses]
    /\ since \in [Jobs -> Nat]
    /\ tasks \subseteq Jobs
    /\ cancelling \subseteq Jobs

\* The counter behind the ceiling counts the delegations between the spawn and
\* their `finally', whatever mixture of errors, deadlines and cancellations ended
\* the others: a leaked unit would refuse delegations for the spawner's lifetime.
ActiveCounts == active = Cardinality({j \in Jobs : pc[j] \in Counted})

\* cancel() reaches exactly the delegations in flight, and a cancelled task is
\* one still suspended in delegate: no request outlives the delegation to hit
\* whatever the caller's task does next.
CancelReachesInFlight ==
    /\ tasks = {j \in Jobs : pc[j] \in Counted}
    /\ \A j \in cancelling : pc[j] \in Waiting

\* The counter and the index of _tasks agree with what is in flight.
InFlightBooked == ActiveCounts /\ CancelReachesInFlight

\* A delegation is listed as running exactly while it awaits its sub-agent (such a
\* record is never the one evicted); a record that says failed or cancelled says what
\* the caller saw, and a caller that got a result is not recorded as either.
RecordTellsOutcome ==
    \A j \in Jobs :
        /\ records[j] = "running" <=> pc[j] = "spawn"
        /\ records[j] = "failed" => outcome[j] = "error"
        /\ records[j] = "cancelled" => outcome[j] = "cancelled"
        /\ outcome[j] = "success" => records[j] \in {"none", "succeeded"}

\* The semaphore keeps the jobs of a batch below the ceiling among themselves: a
\* job that trips it does so only beside a direct delegation in flight.
BatchTripsOnlyBesideDirect ==
    [][\A j \in Parallel :
         MaxConcurrent > 0 /\ outcome'[j] = "ceiling" /\ outcome[j] # "ceiling" =>
            \E d \in Direct : pc[d] \in Counted]_vars

\* Every job of a submitted batch gets its outcome marker: no way for a sibling
\* to end leaves the semaphore held.
BatchAnswered ==
    \A j \in Parallel : (pc[j] = "queued") ~> (pc[j] = "done")

=============================================================================
