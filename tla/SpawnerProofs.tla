--------------------------- MODULE SpawnerProofs ---------------------------
(***************************************************************************)
(* Safety of Spawner for any finite set of calls, any ceiling, any batch   *)
(* limit and any retention cap.                                            *)
(***************************************************************************)
EXTENDS Spawner, FiniteSetTheorems, TLAPS

\* What a record may say, by where its delegation is.
RecordInv ==
    \A j \in Jobs :
        /\ pc[j] \in {"new", "queued", "context"} => records[j] = "none"
        /\ pc[j] = "summary" => records[j] \in {"none", "succeeded"}
        /\ outcome[j] # "none" => pc[j] = "done"
        /\ records[j] = "running" <=> pc[j] = "spawn"
        /\ records[j] = "failed" => outcome[j] = "error"
        /\ records[j] = "cancelled" => outcome[j] = "cancelled"
        /\ outcome[j] = "success" => records[j] \in {"none", "succeeded"}

IInv == TypeOK /\ ActiveCounts /\ CancelReachesInFlight /\ RecordInv

\* Sets of jobs are finite, and cancel()'s index has as many as are counted.
LEMMA JobsFinite ==
    ASSUME NEW S \in SUBSET Jobs
    PROVE  IsFiniteSet(S) /\ Cardinality(S) \in Nat
BY FS_Subset, FS_CardinalityType, ConstantsAssumption

LEMMA ActiveIsTasks ==
    ASSUME CancelReachesInFlight
    PROVE  ActiveCounts <=> active = Cardinality(tasks)
BY DEF CancelReachesInFlight, ActiveCounts

\* Trimming drops finished records and changes no other.
LEMMA TrimKeeps ==
    ASSUME NEW recs \in [Jobs -> Statuses]
    PROVE  /\ Trim(recs) \in [Jobs -> Statuses]
           /\ \A j \in Jobs : Trim(recs)[j] \in {recs[j], "none"}
           /\ \A j \in Jobs : recs[j] = "running" => Trim(recs)[j] = "running"
BY DEF Trim, Evicted, Finished, Statuses

LEMMA InitInv == Init => IInv
<1> SUFFICES ASSUME Init PROVE IInv
  OBVIOUS
<1>1. {j \in Jobs : pc[j] \in Counted} = {}
  BY DEF Init, Counted
<1>2. TypeOK
  BY DEF Init, TypeOK, Statuses, Results
<1>3. ActiveCounts /\ CancelReachesInFlight
  BY <1>1, FS_EmptySet DEF Init, ActiveCounts, CancelReachesInFlight
<1>4. RecordInv
  BY DEF Init, RecordInv
<1> QED BY <1>2, <1>3, <1>4 DEF IInv

\* A step that moves one job among the places that are not counted, and touches
\* neither the registry nor (unless the job ends) the outcomes.
LEMMA Uncounted ==
    ASSUME IInv, UNCHANGED registry, NEW S \in SUBSET Jobs,
           pc' \in [Jobs -> {"new", "done"} \cup Waiting],
           \A j \in Jobs \ S : pc'[j] = pc[j] /\ outcome'[j] = outcome[j],
           \A j \in S : pc[j] \notin Counted /\ pc'[j] \notin Counted,
           \A j \in S : pc[j] \in {"new", "queued", "context"},
           outcome' \in [Jobs -> Results],
           \A j \in S : \/ pc'[j] = "done" /\ outcome'[j] # "success"
                        \/ pc'[j] \in {"queued", "context"} /\ outcome'[j] = "none",
           cancelling' \subseteq cancelling,
           \A j \in cancelling' : pc'[j] \in Waiting
    PROVE  IInv'
<1> USE DEF IInv, registry
<1>1. TypeOK'
  BY DEF TypeOK
<1>2. {j \in Jobs : pc'[j] \in Counted} = {j \in Jobs : pc[j] \in Counted}
  OBVIOUS
<1>3. ActiveCounts' /\ CancelReachesInFlight'
  BY <1>2 DEF ActiveCounts, CancelReachesInFlight
<1>4. RecordInv'
  <2> SUFFICES ASSUME NEW j \in Jobs
               PROVE  /\ pc'[j] \in {"new", "queued", "context"} => records'[j] = "none"
                      /\ pc'[j] = "summary" => records'[j] \in {"none", "succeeded"}
                      /\ outcome'[j] # "none" => pc'[j] = "done"
                      /\ records'[j] = "running" <=> pc'[j] = "spawn"
                      /\ records'[j] = "failed" => outcome'[j] = "error"
                      /\ records'[j] = "cancelled" => outcome'[j] = "cancelled"
                      /\ outcome'[j] = "success" => records'[j] \in {"none", "succeeded"}
    BY DEF RecordInv
  <2>1. CASE j \in S
    BY <2>1 DEF RecordInv, Counted
  <2>2. CASE j \notin S
    BY <2>2 DEF RecordInv
  <2> QED BY <2>1, <2>2
<1> QED BY <1>1, <1>3, <1>4

LEMMA DelegateInv ==
    ASSUME IInv, NEW j \in Jobs, pc[j] \in {"new", "queued"}, j \notin cancelling, Delegate(j)
    PROVE  IInv'
<1>1. \A k \in cancelling : k # j /\ pc[k] \in Waiting
  BY DEF IInv, CancelReachesInFlight
<1>2. pc' \in [Jobs -> {"new", "done"} \cup Waiting] /\ outcome' \in [Jobs -> Results]
  BY DEF IInv, TypeOK, Delegate, Refuse, Trip, Pass, End, Results, Waiting
<1>3. \A k \in Jobs \ {j} : pc'[k] = pc[k] /\ outcome'[k] = outcome[k]
  BY DEF IInv, TypeOK, Delegate, Refuse, Trip, Pass, End
<1>4. \/ pc'[j] = "done" /\ outcome'[j] # "success"
      \/ pc'[j] = "context" /\ outcome'[j] = "none"
  BY DEF IInv, TypeOK, RecordInv, Delegate, Refuse, Trip, Pass, End
<1>5. UNCHANGED registry /\ UNCHANGED cancelling
  BY DEF Delegate, Refuse, Trip, Pass
<1>6. \A k \in cancelling' : pc'[k] \in Waiting
  BY <1>1, <1>3, <1>5 DEF IInv, TypeOK
<1>7. {j} \in SUBSET Jobs
  OBVIOUS
<1> QED
  <2> DEFINE S == {j}
  <2>1. \A k \in S : /\ pc[k] \in {"new", "queued", "context"}
                     /\ pc[k] \notin Counted /\ pc'[k] \notin Counted
                     /\ \/ pc'[k] = "done" /\ outcome'[k] # "success"
                        \/ pc'[k] \in {"queued", "context"} /\ outcome'[k] = "none"
    BY <1>4 DEF Counted
  <2>2. \A k \in Jobs \ S : pc'[k] = pc[k] /\ outcome'[k] = outcome[k]
    BY <1>3
  <2>3. S \in SUBSET Jobs /\ cancelling' \subseteq cancelling
    BY <1>5
  <2> HIDE DEF S
  <2> QED BY <2>1, <2>2, <2>3, <1>2, <1>5, <1>6, Uncounted

LEMMA SubmitBatchInv == IInv /\ SubmitBatch => IInv'
<1> SUFFICES ASSUME IInv, SubmitBatch PROVE IInv'
  OBVIOUS
<1>1. Parallel \in SUBSET Jobs
  BY DEF Jobs
<1>2. \A k \in cancelling : k \notin Parallel /\ pc[k] \in Waiting
  BY DEF IInv, CancelReachesInFlight, SubmitBatch, Waiting
<1>3. pc' \in [Jobs -> {"new", "done"} \cup Waiting] /\ outcome' \in [Jobs -> Results]
  BY DEF IInv, TypeOK, SubmitBatch, Waiting
<1>4. \A k \in Jobs \ Parallel : pc'[k] = pc[k] /\ outcome'[k] = outcome[k]
  BY DEF SubmitBatch
<1>5. \A k \in Parallel : /\ pc[k] \in {"new", "queued", "context"}
                          /\ pc[k] \notin Counted /\ pc'[k] \notin Counted
                          /\ pc'[k] \in {"queued", "context"} /\ outcome'[k] = "none"
  BY <1>1 DEF IInv, RecordInv, SubmitBatch, Counted
<1>6. UNCHANGED registry /\ cancelling' \subseteq cancelling
  BY DEF SubmitBatch
<1>7. \A k \in cancelling' : pc'[k] \in Waiting
  BY <1>2, <1>6, <1>4 DEF IInv, TypeOK
<1> QED BY <1>1, <1>3, <1>4, <1>5, <1>6, <1>7, Uncounted

LEMMA ContextBuiltInv == \A j \in Jobs : IInv /\ ContextBuilt(j) => IInv'
<1> SUFFICES ASSUME NEW j \in Jobs, IInv, ContextBuilt(j) PROVE IInv'
  OBVIOUS
<1> USE DEF IInv
<1>1. TypeOK'
  <2>1. 1 + Cardinality({i \in Jobs : since[i] > 0}) \in Nat
    <3>1. {i \in Jobs : since[i] > 0} \in SUBSET Jobs
      OBVIOUS
    <3> QED BY <3>1, JobsFinite
  <2> QED BY <2>1 DEF TypeOK, ContextBuilt, Runs, Waiting, Statuses
<1>2. tasks' = {k \in Jobs : pc'[k] \in Counted}
  BY DEF TypeOK, CancelReachesInFlight, ContextBuilt, Counted
<1>3. CancelReachesInFlight'
  BY <1>2 DEF TypeOK, CancelReachesInFlight, ContextBuilt, Runs, Waiting
<1>4. ActiveCounts'
  <2>1. j \notin tasks /\ tasks' = tasks \cup {j} /\ active' = active + 1
    BY DEF CancelReachesInFlight, ContextBuilt, Runs, Counted
  <2>2. active' = Cardinality(tasks')
    BY <2>1, JobsFinite, FS_AddElement, ActiveIsTasks DEF TypeOK
  <2> QED BY <1>2, <2>2 DEF ActiveCounts
<1>5. RecordInv'
  BY DEF TypeOK, RecordInv, ContextBuilt, Runs
<1> QED BY <1>1, <1>3, <1>4, <1>5

LEMMA SpawnReturnsInv == \A j \in Jobs : IInv /\ SpawnReturns(j) => IInv'
<1> SUFFICES ASSUME NEW j \in Jobs, IInv, SpawnReturns(j) PROVE IInv'
  OBVIOUS
<1> USE DEF IInv
<1>1. TypeOK'
  BY DEF TypeOK, SpawnReturns, Waiting, Statuses
<1>2. {k \in Jobs : pc'[k] \in Counted} = {k \in Jobs : pc[k] \in Counted}
  BY DEF TypeOK, SpawnReturns, Runs, Counted
<1>3. CancelReachesInFlight' /\ ActiveCounts'
  BY <1>2 DEF TypeOK, CancelReachesInFlight, ActiveCounts, SpawnReturns, Runs, Waiting
<1>4. RecordInv'
  BY DEF TypeOK, RecordInv, SpawnReturns, Runs
<1> QED BY <1>1, <1>3, <1>4

\* The end of a delegation whose counter had gone up, by any of its three ways:
\* a result and a status that go together.
LEMMA LeaveInv ==
    ASSUME IInv, NEW j \in Jobs, NEW result, NEW status, pc[j] \in Counted,
           End(j, result), Leave(j, status),
           \/ result = "error" /\ status = "failed"
           \/ result = "cancelled" /\ status = "cancelled"
           \/ result \in {"success", "cancelled"} /\ status = "succeeded",
           cancelling' = cancelling \ {j}
    PROVE  IInv'
<1> USE DEF IInv
<1> DEFINE recs == IF records[j] = "none" THEN records ELSE [records EXCEPT ![j] = status]
<1>1. recs \in [Jobs -> Statuses] /\ records' = Trim(recs)
  BY DEF TypeOK, Statuses, Leave
<1>2. /\ records' \in [Jobs -> Statuses]
      /\ \A k \in Jobs : records'[k] \in {recs[k], "none"}
      /\ \A k \in Jobs : recs[k] = "running" => records'[k] = "running"
  BY <1>1, TrimKeeps
<1>3. j \in tasks /\ tasks' = tasks \ {j} /\ active' = active - 1
  BY DEF CancelReachesInFlight, Leave
<1>4. active' = Cardinality(tasks') /\ active' \in Nat
  <2>1. active = Cardinality(tasks) /\ IsFiniteSet(tasks)
    BY JobsFinite, ActiveIsTasks DEF TypeOK
  <2>2. active' = Cardinality(tasks')
    BY <1>3, <2>1, FS_RemoveElement
  <2>3. tasks' \in SUBSET Jobs
    BY <1>3 DEF TypeOK
  <2> QED BY <2>2, <2>3, JobsFinite
<1>5. TypeOK'
  BY <1>2, <1>3, <1>4 DEF TypeOK, End, Leave, Results
<1>6. tasks' = {k \in Jobs : pc'[k] \in Counted}
  BY <1>3 DEF TypeOK, CancelReachesInFlight, End, Counted
<1>7. CancelReachesInFlight' /\ ActiveCounts'
  BY <1>4, <1>6 DEF TypeOK, CancelReachesInFlight, ActiveCounts, End, Waiting
<1>8. RecordInv'
  <2> SUFFICES ASSUME NEW k \in Jobs
               PROVE  /\ pc'[k] \in {"new", "queued", "context"} => records'[k] = "none"
                      /\ pc'[k] = "summary" => records'[k] \in {"none", "succeeded"}
                      /\ outcome'[k] # "none" => pc'[k] = "done"
                      /\ records'[k] = "running" <=> pc'[k] = "spawn"
                      /\ records'[k] = "failed" => outcome'[k] = "error"
                      /\ records'[k] = "cancelled" => outcome'[k] = "cancelled"
                      /\ outcome'[k] = "success" => records'[k] \in {"none", "succeeded"}
    BY DEF RecordInv
  <2>1. CASE k = j
    <3>1. pc'[j] = "done" /\ outcome'[j] = result /\ records'[j] \in {"none", status}
      BY <1>2 DEF TypeOK, End
    <3> QED BY <2>1, <3>1
  <2>2. CASE k # j
    <3>1. /\ pc'[k] = pc[k] /\ outcome'[k] = outcome[k]
          /\ records'[k] \in {records[k], "none"}
          /\ records[k] = "running" => records'[k] = "running"
      BY <2>2, <1>2 DEF TypeOK, End
    <3> QED BY <3>1 DEF RecordInv
  <2> QED BY <2>1, <2>2
<1> QED BY <1>5, <1>7, <1>8

LEMMA CancelDeliveredInv == \A j \in Jobs : IInv /\ CancelDelivered(j) => IInv'
<1> SUFFICES ASSUME NEW j \in Jobs, IInv, CancelDelivered(j) PROVE IInv'
  OBVIOUS
<1>1. CASE pc[j] = "spawn"
  BY <1>1, LeaveInv DEF CancelDelivered, Counted
<1>2. CASE pc[j] = "summary"
  BY <1>2, LeaveInv DEF CancelDelivered, Counted
<1>3. CASE pc[j] \in {"queued", "context"}
  <2>1. UNCHANGED registry /\ cancelling' = cancelling \ {j} /\ End(j, "cancelled")
    BY <1>3 DEF CancelDelivered
  <2> DEFINE S == {j}
  <2>2. pc' \in [Jobs -> {"new", "done"} \cup Waiting] /\ outcome' \in [Jobs -> Results]
    BY <2>1 DEF IInv, TypeOK, End, Results
  <2>3. \A k \in Jobs \ S : pc'[k] = pc[k] /\ outcome'[k] = outcome[k]
    BY <2>1 DEF IInv, TypeOK, End
  <2>4. \A k \in S : /\ pc[k] \in {"new", "queued", "context"}
                     /\ pc[k] \notin Counted /\ pc'[k] \notin Counted
                     /\ pc'[k] = "done" /\ outcome'[k] # "success"
    BY <1>3, <2>1 DEF IInv, TypeOK, End, Counted
  <2>5. \A k \in cancelling' : pc'[k] \in Waiting
    BY <2>1 DEF IInv, TypeOK, CancelReachesInFlight, End
  <2>6. S \in SUBSET Jobs /\ cancelling' \subseteq cancelling
    BY <2>1
  <2> HIDE DEF S
  <2> QED BY <2>1, <2>2, <2>3, <2>4, <2>5, <2>6, Uncounted
<1> QED BY <1>1, <1>2, <1>3 DEF CancelDelivered, Waiting

\* A cancellation is requested, of jobs suspended in delegate.
LEMMA CancelInv ==
    ASSUME IInv, UNCHANGED <<pc, outcome, registry>>, NEW S \in SUBSET Jobs,
           \A j \in S : pc[j] \in Waiting, cancelling' = cancelling \cup S
    PROVE  IInv'
BY DEF IInv, registry, TypeOK, ActiveCounts, CancelReachesInFlight, RecordInv

LEMMA NextInv == IInv /\ [Next]_vars => IInv'
<1> SUFFICES ASSUME IInv, [Next]_vars PROVE IInv'
  OBVIOUS
<1>1. CASE SubmitBatch
  BY <1>1, SubmitBatchInv
<1>2. CASE \E j \in Jobs : CallDirect(j)
  BY <1>2, DelegateInv DEF CallDirect, Runs
<1>3. ASSUME NEW j \in Jobs, Step(j) PROVE IInv'
  <2>1. CASE AcquireSemaphore(j)
    BY <2>1, DelegateInv DEF AcquireSemaphore, Runs
  <2>2. CASE ContextBuilt(j)
    BY <2>2, ContextBuiltInv
  <2>3. CASE SpawnReturns(j)
    BY <2>3, SpawnReturnsInv
  <2>4. CASE SpawnFails(j)
    <3>1. cancelling' = cancelling \ {j}
      BY <2>4 DEF SpawnFails, Runs
    <3> QED BY <2>4, <3>1, LeaveInv DEF SpawnFails, Runs, Counted
  <2>5. CASE SummaryRecorded(j)
    <3>1. cancelling' = cancelling \ {j}
      BY <2>5 DEF SummaryRecorded, Runs
    <3> QED BY <2>5, <3>1, LeaveInv DEF SummaryRecorded, Runs, Counted
  <2>6. CASE CancelDelivered(j)
    BY <2>6, CancelDeliveredInv
  <2> QED BY <1>3, <2>1, <2>2, <2>3, <2>4, <2>5, <2>6 DEF Step
<1>4. ASSUME NEW j \in Jobs, Cancel(j) PROVE IInv'
  <2> DEFINE S == {j}
  <2>1. S \in SUBSET Jobs /\ (\A k \in S : pc[k] \in Waiting) /\ cancelling' = cancelling \cup S
    BY <1>4 DEF Cancel, IInv, CancelReachesInFlight, Counted, Waiting
  <2> HIDE DEF S
  <2> QED BY <1>4, <2>1, CancelInv DEF Cancel
<1>5. ASSUME NEW js \in {{j} : j \in Direct} \cup {Parallel}, CancelCaller(js) PROVE IInv'
  <2> DEFINE S == {j \in js : pc[j] \in Waiting}
  <2>1. js \subseteq Jobs
    BY <1>5 DEF Jobs
  <2>2. S \in SUBSET Jobs /\ (\A k \in S : pc[k] \in Waiting) /\ cancelling' = cancelling \cup S
    BY <1>5, <2>1 DEF CancelCaller
  <2> HIDE DEF S
  <2> QED BY <1>5, <2>2, CancelInv DEF CancelCaller
<1>6. CASE UNCHANGED vars
  BY <1>6 DEF vars, registry, IInv, TypeOK, ActiveCounts, CancelReachesInFlight, RecordInv
<1> QED BY <1>1, <1>2, <1>3, <1>4, <1>5, <1>6 DEF Next, AllDone

\* IInv holds in every reachable state.
THEOREM Invariance == Spec => []IInv
BY InitInv, NextInv, PTL DEF Spec

\* The spawner's variables keep their types.
THEOREM TypeCorrect == Spec => []TypeOK
<1>1. IInv => TypeOK
  BY DEF IInv
<1> QED BY <1>1, Invariance, PTL

\* The counter and cancel()'s index agree with what is in flight.
THEOREM DelegationsBooked == Spec => []InFlightBooked
<1>1. IInv => InFlightBooked
  BY DEF IInv, InFlightBooked
<1> QED BY <1>1, Invariance, PTL

\* A record marked failed or cancelled agrees with what the caller saw.
THEOREM RecordsTruthful == Spec => []RecordTellsOutcome
<1>1. IInv => RecordTellsOutcome
  BY DEF IInv, RecordInv, RecordTellsOutcome
<1> QED BY <1>1, Invariance, PTL

\* The jobs counted by the ceiling, with no direct delegation among them, are
\* fewer than the semaphore admits.
LEMMA HoldersBelowCeiling ==
    ASSUME IInv, NEW j \in Parallel, Cardinality(Holders) < Limit, MaxConcurrent > 0,
           active >= MaxConcurrent
    PROVE  \E d \in Direct : pc[d] \in Counted
<1> SUFFICES ASSUME \A d \in Direct : pc[d] \notin Counted PROVE FALSE
  OBVIOUS
<1>1. tasks \in SUBSET Holders
  BY DEF IInv, TypeOK, CancelReachesInFlight, Holders, Jobs
<1>2. Holders \in SUBSET Jobs
  BY DEF Holders, Jobs
<1>3. IsFiniteSet(Holders) /\ Cardinality(Holders) \in Nat
  BY <1>2, JobsFinite
<1>4. active <= Cardinality(Holders) /\ active \in Nat
  BY <1>1, <1>3, FS_Subset, ActiveIsTasks DEF IInv, TypeOK
<1>5. Limit <= MaxConcurrent /\ Limit \in Nat
  BY ConstantsAssumption DEF Limit
<1> QED BY <1>3, <1>4, <1>5, ConstantsAssumption

\* Only Trip gives the outcome "ceiling", and to the job it is about.
LEMMA CeilingStep ==
    ASSUME IInv, Next, NEW j \in Parallel, outcome'[j] = "ceiling", outcome[j] # "ceiling"
    PROVE  AcquireSemaphore(j) /\ Trip(j)
<1> USE DEF IInv
<1>1. j \in Jobs /\ outcome' # outcome
  BY DEF Jobs
<1>2. \A k \in Jobs : Delegate(k) => k = j /\ Trip(k)
  BY <1>1 DEF TypeOK, Delegate, Refuse, Trip, Pass, End
<1>3. ASSUME NEW k \in Jobs, CallDirect(k) PROVE FALSE
  BY <1>2, <1>3, ConstantsAssumption DEF CallDirect
<1>4. ASSUME NEW k \in Jobs, Step(k) PROVE k = j /\ AcquireSemaphore(j) /\ Trip(j)
  <2>1. \A result \in {"error", "success", "cancelled"} : ~End(k, result)
    BY <1>1 DEF TypeOK, End
  <2>2. ~SpawnFails(k) /\ ~SummaryRecorded(k) /\ ~CancelDelivered(k)
    BY <2>1 DEF SpawnFails, SummaryRecorded, CancelDelivered
  <2>3. ~ContextBuilt(k) /\ ~SpawnReturns(k)
    BY <1>1 DEF ContextBuilt, SpawnReturns
  <2>4. AcquireSemaphore(k)
    BY <1>4, <2>2, <2>3 DEF Step
  <2> QED BY <1>2, <2>4 DEF AcquireSemaphore
<1>5. /\ ~SubmitBatch
      /\ \A k \in Jobs : ~Cancel(k)
      /\ \A js : ~CancelCaller(js)
      /\ ~AllDone
  BY <1>1 DEF SubmitBatch, Cancel, CancelCaller, AllDone, vars
<1> QED BY <1>3, <1>4, <1>5 DEF Next

\* Alone, a batch never trips the ceiling it sizes its semaphore by.
THEOREM BatchWithinCeiling == Spec => BatchTripsOnlyBesideDirect
<1> DEFINE A == \A j \in Parallel :
                  MaxConcurrent > 0 /\ outcome'[j] = "ceiling" /\ outcome[j] # "ceiling" =>
                     \E d \in Direct : pc[d] \in Counted
<1>1. IInv /\ [Next]_vars => [A]_vars
  <2> SUFFICES ASSUME IInv, Next, NEW j \in Parallel, MaxConcurrent > 0,
                      outcome'[j] = "ceiling", outcome[j] # "ceiling"
               PROVE  \E d \in Direct : pc[d] \in Counted
    BY DEF A
  <2>1. Cardinality(Holders) < Limit /\ active >= MaxConcurrent
    BY CeilingStep DEF AcquireSemaphore, Trip
  <2> QED BY <2>1, HoldersBelowCeiling
<1>2. Spec => [][A]_vars
  BY <1>1, Invariance, PTL DEF Spec
<1> QED BY <1>2 DEF BatchTripsOnlyBesideDirect, A

-----------------------------------------------------------------------------
(* The monitoring registry is bounded.                                     *)

Recorded == {i \in Jobs : since[i] > 0}
Summarizing == {j \in Jobs : pc[j] = "summary"}

\* started_at orders the recorded jobs: it is positive and different for each.
SinceInv ==
    /\ \A j \in Jobs : records[j] # "none" => since[j] > 0
    /\ \A j \in Jobs : pc[j] \in {"new", "queued", "context"} => since[j] = 0
    /\ \A j \in Jobs : since[j] <= Cardinality(Recorded)
    /\ \A i, j \in Jobs : since[i] = since[j] /\ since[i] > 0 => i = j

\* A delegation that writes its summary is listed as finished before it is trimmed.
RetentionInv == Cardinality(Finished(records)) <= MaxFinished + Cardinality(Summarizing)

\* The finished records of recs that are older than the one of j.
Older(recs, j) == {i \in Finished(recs) : since[i] < since[j]}

LEMMA OlderCounts ==
    ASSUME TypeOK, NEW recs, NEW i \in Finished(recs), NEW j \in Finished(recs)
    PROVE  /\ Cardinality(Older(recs, j)) \in 0..(Cardinality(Finished(recs)) - 1)
           /\ since[i] < since[j] => Cardinality(Older(recs, i)) < Cardinality(Older(recs, j))
<1>1. i \in Jobs /\ j \in Jobs /\ since[i] \in Nat /\ since[j] \in Nat
  BY DEF Finished, TypeOK
<1>2. Finished(recs) \in SUBSET Jobs /\ Older(recs, i) \in SUBSET Jobs
      /\ Older(recs, j) \in SUBSET Jobs
  BY DEF Finished, Older
<1>3. ASSUME NEW S \in SUBSET Jobs, NEW x \in S, NEW T \in SUBSET (S \ {x})
      PROVE  Cardinality(T) < Cardinality(S)
  <2>1. IsFiniteSet(S) /\ Cardinality(S) \in Nat
    BY JobsFinite
  <2>2. IsFiniteSet(S \ {x}) /\ Cardinality(S \ {x}) = Cardinality(S) - 1
    BY <2>1, FS_RemoveElement
  <2>3. Cardinality(T) <= Cardinality(S \ {x}) /\ Cardinality(T) \in Nat
    BY <1>3, <2>2, FS_Subset, JobsFinite
  <2> QED BY <2>1, <2>2, <2>3
<1>4. Cardinality(Older(recs, j)) < Cardinality(Finished(recs))
  <2>1. Older(recs, j) \in SUBSET (Finished(recs) \ {j})
    BY <1>1 DEF Older
  <2> QED BY <1>2, <1>3, <2>1
<1>5. ASSUME since[i] < since[j]
      PROVE  Cardinality(Older(recs, i)) < Cardinality(Older(recs, j))
  <2>1. i \in Older(recs, j)
    BY <1>5 DEF Older
  <2>2. \A k \in Finished(recs) : since[k] \in Nat
    BY DEF Finished, TypeOK
  <2>3. Older(recs, i) \in SUBSET (Older(recs, j) \ {i})
    BY <1>1, <1>5, <2>2 DEF Older
  <2> QED BY <1>2, <1>3, <2>1, <2>3
<1> QED BY <1>2, <1>4, <1>5, JobsFinite

\* _trim_records leaves at most MaxFinished finished records: each has another number of
\* older ones, and that number is among the MaxFinished highest.
LEMMA TrimBounds ==
    ASSUME TypeOK, NEW recs \in [Jobs -> Statuses],
           \A i, j \in Finished(recs) : since[i] = since[j] => i = j
    PROVE  Cardinality(Finished(Trim(recs))) <= MaxFinished
<1> DEFINE F == Finished(recs)
           K == Finished(Trim(recs))
           n == Cardinality(F)
           older == [j \in K |-> Cardinality(Older(recs, j))]
<1>1. K = F \ Evicted(recs)
  BY DEF Finished, Trim, Evicted
<1>2. F \in SUBSET Jobs /\ K \in SUBSET F
  BY <1>1 DEF Finished
<1>3. n \in Nat /\ MaxFinished \in Nat
  BY <1>2, JobsFinite, ConstantsAssumption
<1>4. CASE MaxFinished > n
  <2>1. Cardinality(K) <= n /\ Cardinality(K) \in Nat
    BY <1>2, JobsFinite, FS_Subset
  <2> QED BY <1>3, <1>4, <2>1
<1>5. CASE MaxFinished <= n
  <2> DEFINE low == n - MaxFinished
             high == n - 1
  <2>1. \A j \in K : Cardinality(Older(recs, j)) \in low..high
    <3> SUFFICES ASSUME NEW j \in K PROVE Cardinality(Older(recs, j)) \in low..high
      OBVIOUS
    <3>1. Cardinality(Older(recs, j)) \in 0..(n - 1)
      BY <1>2, OlderCounts
    <3>2. ~(MaxFinished + Cardinality(Older(recs, j)) < n)
      BY <1>1 DEF Evicted, Older
    <3> QED BY <1>3, <3>1, <3>2
  <2>2. \A i, j \in K : Cardinality(Older(recs, i)) = Cardinality(Older(recs, j)) => i = j
    <3> SUFFICES ASSUME NEW i \in K, NEW j \in K, i # j
                 PROVE  Cardinality(Older(recs, i)) # Cardinality(Older(recs, j))
      OBVIOUS
    <3>1. since[i] # since[j] /\ since[i] \in Nat /\ since[j] \in Nat
      BY <1>2 DEF TypeOK
    <3>2. /\ Cardinality(Older(recs, i)) \in Nat /\ Cardinality(Older(recs, j)) \in Nat
          /\ since[i] < since[j] => Cardinality(Older(recs, i)) < Cardinality(Older(recs, j))
          /\ since[j] < since[i] => Cardinality(Older(recs, j)) < Cardinality(Older(recs, i))
      BY <1>2, OlderCounts
    <3> QED BY <3>1, <3>2
  <2>3. older \in Injection(K, low..high)
    BY <2>1, <2>2 DEF Injection, IsInjective
  <2>4. low \in Int /\ high \in Int
    BY <1>3
  <2>5. IsFiniteSet(low..high)
        /\ Cardinality(low..high) = IF low > high THEN 0 ELSE high - low + 1
    BY <2>4, FS_Interval
  <2> HIDE DEF low, high, older
  <2>6. Cardinality(K) <= Cardinality(low..high)
    BY <2>3, <2>5, FS_Injection
  <2>7. Cardinality(low..high) <= MaxFinished
    BY <1>3, <2>5 DEF low, high
  <2>8. Cardinality(K) \in Nat /\ Cardinality(low..high) \in Nat
    BY <1>2, <2>5, JobsFinite, FS_CardinalityType
  <2> QED BY <1>3, <2>6, <2>7, <2>8
<1> QED BY <1>3, <1>4, <1>5

\* A step that files no record and takes no job back before its context.
LEMMA SinceKept ==
    ASSUME IInv, SinceInv, UNCHANGED since,
           \A j \in Jobs : records'[j] # "none" => records[j] # "none",
           \A j \in Jobs : pc'[j] \in {"new", "queued", "context"}
                             => pc[j] \in {"new", "queued", "context"}
    PROVE  SinceInv'
BY DEF SinceInv, Recorded

\* A step that leaves the registry and the summaries alone.
LEMMA RetentionKept ==
    ASSUME RetentionInv, UNCHANGED records, \A j \in Jobs : pc'[j] = "summary" <=> pc[j] = "summary"
    PROVE  RetentionInv'
<1>1. Summarizing' = Summarizing /\ Finished(records)' = Finished(records)
  BY DEF Summarizing, Finished
<1> QED BY <1>1 DEF RetentionInv

LEMMA FilingInv ==
    ASSUME IInv, SinceInv, RetentionInv, NEW j \in Jobs, ContextBuilt(j)
    PROVE  SinceInv' /\ RetentionInv'
<1> DEFINE N == Cardinality(Recorded)
<1>1. /\ since \in [Jobs -> Nat] /\ since' = [since EXCEPT ![j] = 1 + N]
      /\ pc \in [Jobs -> {"new", "done"} \cup Waiting] /\ pc' = [pc EXCEPT ![j] = "spawn"]
      /\ records \in [Jobs -> Statuses] /\ records' = [records EXCEPT ![j] = "running"]
      /\ pc[j] = "context"
  BY DEF IInv, TypeOK, ContextBuilt, Recorded, Runs
<1>2. Recorded \in SUBSET Jobs /\ N \in Nat /\ IsFiniteSet(Recorded)
  BY JobsFinite DEF Recorded
<1> HIDE DEF N
<1>3. j \notin Recorded /\ Recorded' = Recorded \cup {j}
  BY <1>1, <1>2 DEF Recorded, SinceInv
<1>4. Cardinality(Recorded') = N + 1
  BY <1>2, <1>3, FS_AddElement DEF N
<1>5. SinceInv'
  <2>1. \A k \in Jobs : since[k] <= N
    BY DEF N, SinceInv
  <2> QED BY <1>1, <1>2, <1>4, <2>1 DEF SinceInv
<1>6. RetentionInv'
  <2>1. Summarizing' = Summarizing
    BY <1>1 DEF Summarizing
  <2>2. records[j] = "none"
    BY <1>1 DEF IInv, RecordInv
  <2>3. Finished(records)' = Finished(records)
    BY <1>1, <2>2 DEF Finished
  <2> QED BY <2>1, <2>3 DEF RetentionInv
<1> QED BY <1>5, <1>6

LEMMA SummarizingInv ==
    ASSUME IInv, RetentionInv, NEW j \in Jobs, SpawnReturns(j)
    PROVE  RetentionInv'
<1>1. /\ pc[j] = "spawn" /\ pc' = [pc EXCEPT ![j] = "summary"]
      /\ records' = [records EXCEPT ![j] = "succeeded"] /\ records[j] = "running"
  BY DEF SpawnReturns, Runs, IInv, RecordInv
<1>2. /\ Summarizing' = Summarizing \cup {j} /\ j \notin Summarizing
      /\ Finished(records)' = Finished(records) \cup {j} /\ j \notin Finished(records)
  BY <1>1 DEF Summarizing, Finished, IInv, TypeOK
<1>3. Summarizing \in SUBSET Jobs /\ Finished(records) \in SUBSET Jobs
  BY DEF Summarizing, Finished
<1>4. /\ IsFiniteSet(Summarizing) /\ Cardinality(Summarizing) \in Nat
      /\ IsFiniteSet(Finished(records)) /\ Cardinality(Finished(records)) \in Nat
  BY <1>3, JobsFinite
<1>5. /\ Cardinality(Summarizing') = Cardinality(Summarizing) + 1
      /\ Cardinality(Finished(records)') = Cardinality(Finished(records)) + 1
  BY <1>2, <1>4, FS_AddElement
<1> QED BY <1>4, <1>5, ConstantsAssumption DEF RetentionInv

LEMMA TrimmedInv ==
    ASSUME IInv, SinceInv, NEW j \in Jobs, NEW result, NEW status \in Statuses,
           End(j, result), Leave(j, status)
    PROVE  SinceInv' /\ RetentionInv'
<1> DEFINE recs == IF records[j] = "none" THEN records ELSE [records EXCEPT ![j] = status]
<1>1. recs \in [Jobs -> Statuses] /\ records' = Trim(recs) /\ UNCHANGED since
  BY DEF IInv, TypeOK, Leave
<1>2. \A k \in Jobs : recs[k] # "none" => records[k] # "none"
  BY DEF IInv, TypeOK
<1>3. \A k \in Jobs : records'[k] \in {recs[k], "none"}
  BY <1>1, TrimKeeps
<1>4. pc' = [pc EXCEPT ![j] = "done"] /\ pc \in [Jobs -> {"new", "done"} \cup Waiting]
  BY DEF End, IInv, TypeOK
<1> HIDE DEF recs
<1>5. SinceInv'
  BY <1>1, <1>2, <1>3, <1>4, SinceKept
<1>6. \A i, k \in Finished(recs) : since[i] = since[k] => i = k
  BY <1>2 DEF SinceInv, Finished
<1>7. Cardinality(Finished(records)') <= MaxFinished
  <2>1. Finished(records)' = Finished(Trim(recs))
    BY <1>1 DEF Finished
  <2> QED BY <1>1, <1>6, <2>1, TrimBounds DEF IInv
<1>8. Cardinality(Summarizing') \in Nat /\ Cardinality(Finished(records)') \in Nat
  <2>1. Summarizing' \in SUBSET Jobs /\ Finished(records)' \in SUBSET Jobs
    BY DEF Summarizing, Finished
  <2> QED BY <2>1, JobsFinite
<1> QED BY <1>5, <1>7, <1>8, ConstantsAssumption DEF RetentionInv

LEMMA RetentionNext ==
    ASSUME IInv, SinceInv, RetentionInv, [Next]_vars
    PROVE  SinceInv' /\ RetentionInv'
<1>1. CASE SubmitBatch
  <2>1. /\ UNCHANGED <<since, records>>
        /\ \A j \in Jobs : pc'[j] = pc[j] \/ (pc[j] = "new" /\ pc'[j] = "queued")
    BY <1>1 DEF SubmitBatch, registry
  <2> QED BY <2>1, SinceKept, RetentionKept
<1>2. ASSUME NEW j \in Jobs, CallDirect(j) \/ AcquireSemaphore(j)
      PROVE  SinceInv' /\ RetentionInv'
  <2>1. /\ UNCHANGED <<since, records>> /\ pc[j] \in {"new", "queued"}
        /\ pc' = [pc EXCEPT ![j] = "done"] \/ pc' = [pc EXCEPT ![j] = "context"]
    BY <1>2 DEF CallDirect, AcquireSemaphore, Runs, Delegate, Refuse, Trip, Pass, End, registry
  <2>2. \A k \in Jobs : \/ pc'[k] = pc[k]
                        \/ pc[k] \in {"new", "queued"} /\ pc'[k] \in {"done", "context"}
    BY <2>1 DEF IInv, TypeOK
  <2> QED BY <2>1, <2>2, SinceKept, RetentionKept
<1>3. ASSUME NEW j \in Jobs, ContextBuilt(j)
      PROVE  SinceInv' /\ RetentionInv'
  BY <1>3, FilingInv
<1>4. ASSUME NEW j \in Jobs, SpawnReturns(j)
      PROVE  SinceInv' /\ RetentionInv'
  <2>1. SinceInv'
    <3>1. /\ UNCHANGED since /\ pc' = [pc EXCEPT ![j] = "summary"]
          /\ records' = [records EXCEPT ![j] = "succeeded"] /\ records[j] = "running"
      BY <1>4 DEF SpawnReturns, Runs, IInv, RecordInv
    <3> QED BY <3>1, SinceKept DEF IInv, TypeOK
  <2> QED BY <1>4, <2>1, SummarizingInv
<1>5. ASSUME NEW j \in Jobs, SpawnFails(j) \/ SummaryRecorded(j)
      PROVE  SinceInv' /\ RetentionInv'
  <2>1. "failed" \in Statuses /\ "succeeded" \in Statuses
    BY DEF Statuses
  <2> QED BY <1>5, <2>1, TrimmedInv DEF SpawnFails, SummaryRecorded
<1>6. ASSUME NEW j \in Jobs, CancelDelivered(j)
      PROVE  SinceInv' /\ RetentionInv'
  <2>1. "cancelled" \in Statuses /\ "succeeded" \in Statuses
    BY DEF Statuses
  <2>2. CASE pc[j] \in Counted
    BY <1>6, <2>1, <2>2, TrimmedInv DEF CancelDelivered, Counted
  <2>3. CASE pc[j] \notin Counted
    <3>1. UNCHANGED <<since, records>> /\ pc' = [pc EXCEPT ![j] = "done"] /\ pc[j] # "summary"
      BY <1>6, <2>3 DEF CancelDelivered, Counted, End, registry
    <3> QED BY <3>1, SinceKept, RetentionKept DEF IInv, TypeOK
  <2> QED BY <2>2, <2>3
<1>7. CASE UNCHANGED <<pc, records, since>>
  BY <1>7, SinceKept, RetentionKept
<1> QED
  BY <1>1, <1>2, <1>3, <1>4, <1>5, <1>6, <1>7
  DEF Next, Step, Cancel, CancelCaller, AllDone, registry, vars

LEMMA RetentionInvariance == Spec => [](SinceInv /\ RetentionInv)
<1>1. Init => SinceInv /\ RetentionInv
  <2> SUFFICES ASSUME Init PROVE SinceInv /\ RetentionInv
    OBVIOUS
  <2>1. Finished(records) = {} /\ Summarizing = {} /\ Recorded = {}
    BY DEF Init, Finished, Summarizing, Recorded
  <2>2. Cardinality({}) = 0
    BY FS_EmptySet
  <2> QED BY <2>1, <2>2, ConstantsAssumption DEF Init, SinceInv, RetentionInv
<1> QED BY <1>1, RetentionNext, Invariance, PTL DEF Spec

LEMMA DisjointJobs ==
    ASSUME NEW S \in SUBSET Jobs, NEW T \in SUBSET Jobs, S \cap T = {}
    PROVE  Cardinality(S \cup T) = Cardinality(S) + Cardinality(T)
<1>1. IsFiniteSet(S) /\ Cardinality(S) \in Nat /\ IsFiniteSet(T) /\ Cardinality(T) \in Nat
  BY JobsFinite
<1>2. Cardinality(S \cup T) = Cardinality(S) + Cardinality(T) - Cardinality(S \cap T)
  BY <1>1, FS_Union
<1>3. Cardinality(S \cap T) = 0
  BY FS_EmptySet
<1> QED BY <1>1, <1>2, <1>3

\* `list' shows no more than MaxFinished records beside those of delegations in flight,
\* however many delegations there were and in whatever order they ended (_trim_records).
THEOREM RegistryBounded ==
    Spec => [](Cardinality({j \in Jobs : records[j] # "none"}) <= MaxFinished + active)
<1> DEFINE Listed == {j \in Jobs : records[j] # "none"}
<1>1. IInv /\ RetentionInv => Cardinality(Listed) <= MaxFinished + active
  <2> SUFFICES ASSUME IInv, RetentionInv PROVE Cardinality(Listed) <= MaxFinished + active
    OBVIOUS
  <2> DEFINE Spawned == {j \in Jobs : pc[j] = "spawn"}
             Flying == {j \in Jobs : pc[j] \in Counted}
             F == Finished(records)
  <2>1. Listed = F \cup Spawned /\ Flying = Summarizing \cup Spawned
        /\ Summarizing \cap Spawned = {} /\ F \cap Spawned = {}
    BY DEF IInv, RecordInv, Finished, Summarizing, Counted
  <2>2. F \in SUBSET Jobs /\ Spawned \in SUBSET Jobs /\ Summarizing \in SUBSET Jobs
    BY DEF Finished, Summarizing
  <2> HIDE DEF F, Spawned
  <2>3. /\ IsFiniteSet(F) /\ IsFiniteSet(Spawned) /\ IsFiniteSet(Summarizing)
        /\ Cardinality(F) \in Nat /\ Cardinality(Spawned) \in Nat
        /\ Cardinality(Summarizing) \in Nat
    BY <2>2, JobsFinite
  <2>4. Cardinality(F \cup Spawned) = Cardinality(F) + Cardinality(Spawned)
    BY <2>1, <2>2, DisjointJobs
  <2>5. Cardinality(Summarizing \cup Spawned) = Cardinality(Summarizing) + Cardinality(Spawned)
    BY <2>1, <2>2, DisjointJobs
  <2>6. active = Cardinality(Flying)
    BY DEF IInv, ActiveCounts
  <2>7. Cardinality(F) <= MaxFinished + Cardinality(Summarizing)
    BY DEF RetentionInv, F
  <2> QED BY <2>1, <2>3, <2>4, <2>5, <2>6, <2>7, ConstantsAssumption
<1> QED BY <1>1, Invariance, RetentionInvariance, PTL

-----------------------------------------------------------------------------
(* How far the ceiling can be passed.                                      *)

\* The semaphore of a batch admits no more than Limit jobs at a time.
SemaphoreInv == Cardinality(Holders) <= Limit

LEMMA SemaphoreNext ==
    ASSUME IInv, SemaphoreInv, [Next]_vars
    PROVE  SemaphoreInv'
<1>1. Holders \in SUBSET Jobs /\ Holders' \in SUBSET Jobs /\ Limit \in Nat
  BY ConstantsAssumption DEF Holders, Jobs, Limit
<1>2. /\ IsFiniteSet(Holders) /\ Cardinality(Holders) \in Nat
      /\ IsFiniteSet(Holders') /\ Cardinality(Holders') \in Nat
  BY <1>1, JobsFinite
<1>3. Limit' = Limit
  BY DEF Limit
<1>4. CASE Holders' \in SUBSET Holders
  <2>1. Cardinality(Holders') <= Cardinality(Holders)
    BY <1>2, <1>4, FS_Subset
  <2> QED BY <1>1, <1>2, <1>3, <2>1 DEF SemaphoreInv
<1>5. ASSUME NEW j \in Jobs, AcquireSemaphore(j)
      PROVE  SemaphoreInv'
  <2>1. pc' = [pc EXCEPT ![j] = "done"] \/ pc' = [pc EXCEPT ![j] = "context"]
    BY <1>5 DEF AcquireSemaphore, Delegate, Refuse, Trip, Pass, End
  <2>2. Holders' \in SUBSET (Holders \cup {j})
    BY <2>1 DEF Holders, Jobs, IInv, TypeOK
  <2>3. IsFiniteSet(Holders \cup {j}) /\ Cardinality(Holders \cup {j}) <= Cardinality(Holders) + 1
        /\ Cardinality(Holders \cup {j}) \in Nat
    <3>1. CASE j \in Holders
      <4>1. Holders \cup {j} = Holders
        BY <3>1
      <4> QED BY <1>2, <4>1
    <3>2. CASE j \notin Holders
      BY <1>2, <3>2, FS_AddElement
    <3> QED BY <3>1, <3>2
  <2>4. Cardinality(Holders') <= Cardinality(Holders \cup {j})
    BY <2>2, <2>3, FS_Subset
  <2>5. Cardinality(Holders) < Limit
    BY <1>5 DEF AcquireSemaphore
  <2> QED BY <1>1, <1>2, <1>3, <2>3, <2>4, <2>5 DEF SemaphoreInv
<1>6. \/ \E j \in Jobs : AcquireSemaphore(j)
      \/ \A k \in Parallel : pc'[k] \in {"context"} \cup Counted => pc[k] \in {"context"} \cup Counted
  <2>1. CASE SubmitBatch
    BY <2>1 DEF SubmitBatch, Counted, Jobs
  <2>2. ASSUME NEW j \in Jobs, CallDirect(j)
        PROVE  \A k \in Parallel : pc'[k] = pc[k]
    BY <2>2, ConstantsAssumption
    DEF CallDirect, Delegate, Refuse, Trip, Pass, End, IInv, TypeOK, Jobs
  <2>3. ASSUME NEW j \in Jobs, Step(j), ~AcquireSemaphore(j)
        PROVE  \A k \in Jobs : pc'[k] \in {"context"} \cup Counted => pc[k] \in {"context"} \cup Counted
    BY <2>3 DEF Step, ContextBuilt, SpawnReturns, SpawnFails, SummaryRecorded, CancelDelivered,
       End, Runs, IInv, TypeOK, Counted
  <2>4. CASE UNCHANGED pc
    BY <2>4
  <2> QED BY <2>1, <2>2, <2>3, <2>4 DEF Next, Cancel, CancelCaller, AllDone, vars, Jobs
<1> QED BY <1>4, <1>5, <1>6 DEF Holders

\* However many delegations build their context at the same time, no more than Limit
\* of a batch are in flight: what passes the ceiling beyond that are direct calls, which
\* test it (spawner.py, delegate) before the counter knows of each other.
THEOREM OverrunIsDirect ==
    Spec => [](active <= Limit + Cardinality({d \in Direct : pc[d] \in Counted}))
<1>1. Init => SemaphoreInv
  <2> SUFFICES ASSUME Init PROVE SemaphoreInv
    OBVIOUS
  <2>1. Holders = {}
    BY DEF Init, Holders, Counted, Jobs
  <2>2. Limit \in Nat
    BY ConstantsAssumption DEF Limit
  <2> QED BY <2>1, <2>2, FS_EmptySet DEF SemaphoreInv
<1>2. Spec => []SemaphoreInv
  BY <1>1, SemaphoreNext, Invariance, PTL DEF Spec
<1>3. IInv /\ SemaphoreInv
      => active <= Limit + Cardinality({d \in Direct : pc[d] \in Counted})
  <2> SUFFICES ASSUME IInv, SemaphoreInv
               PROVE  active <= Limit + Cardinality({d \in Direct : pc[d] \in Counted})
    OBVIOUS
  <2> DEFINE D == {d \in Direct : pc[d] \in Counted}
  <2>1. D \in SUBSET Jobs /\ Holders \in SUBSET Jobs /\ tasks \in SUBSET (D \cup Holders)
    BY DEF Jobs, Holders, IInv, CancelReachesInFlight
  <2> HIDE DEF D
  <2>2. /\ IsFiniteSet(D) /\ Cardinality(D) \in Nat
        /\ IsFiniteSet(Holders) /\ Cardinality(Holders) \in Nat
    BY <2>1, JobsFinite
  <2>3. /\ IsFiniteSet(D \cup Holders)
        /\ Cardinality(D \cup Holders) = Cardinality(D) + Cardinality(Holders)
                                         - Cardinality(D \cap Holders)
    BY <2>2, FS_Union
  <2>4. Cardinality(D \cap Holders) \in Nat
    BY <2>1, JobsFinite
  <2>5. Cardinality(tasks) <= Cardinality(D \cup Holders) /\ active = Cardinality(tasks)
    BY <2>1, <2>3, FS_Subset, ActiveIsTasks DEF IInv
  <2>6. active \in Nat /\ Limit \in Nat
    BY ConstantsAssumption DEF IInv, TypeOK, Limit
  <2> QED BY <2>2, <2>3, <2>4, <2>5, <2>6 DEF D, SemaphoreInv
<1> QED BY <1>2, <1>3, Invariance, PTL

-----------------------------------------------------------------------------
(* Delegations advance                                                     *)

\* The places a delegation has before it, in the order it passes them.
Ahead(place) ==
    CASE place = "new"     -> {"queued", "context", "spawn", "summary", "done"}
      [] place = "queued"  -> {"context", "spawn", "summary", "done"}
      [] place = "context" -> {"spawn", "summary", "done"}
      [] place = "spawn"   -> {"summary", "done"}
      [] place = "summary" -> {"done"}
      [] OTHER             -> {}

\* All of them, of all delegations.
Remaining == {p \in Jobs \X (Waiting \cup {"done"}) : p[2] \in Ahead(pc[p[1]])}

LEMMA RemainingFinite == IsFiniteSet(Remaining)
<1>1. IsFiniteSet(Waiting \cup {"done"})
  <2>1. Waiting \cup {"done"} = {"queued"} \cup {"context"} \cup {"spawn"} \cup {"summary"} \cup {"done"}
    BY DEF Waiting
  <2> QED BY <2>1, FS_Singleton, FS_Union
<1>2. IsFiniteSet(Jobs \X (Waiting \cup {"done"}))
  BY <1>1, FS_Product, ConstantsAssumption
<1> QED BY <1>2, FS_Subset DEF Remaining

\* One delegation that goes on takes from what remains, whatever the others do.
LEMMA GoingOnTakes ==
    ASSUME TypeOK, NEW j \in Jobs, NEW place, place \in Ahead(pc[j]),
           pc' = [pc EXCEPT ![j] = place]
    PROVE  Remaining' \subseteq Remaining /\ Remaining' # Remaining
<1>1. pc[j] \in {"new", "done"} \cup Waiting /\ place \in Waiting \cup {"done"}
  BY DEF TypeOK, Ahead, Waiting
<1>2. Ahead(place) \subseteq Ahead(pc[j]) /\ place \notin Ahead(place)
  BY <1>1 DEF Ahead, Waiting
<1>3. pc'[j] = place /\ \A i \in Jobs \ {j} : pc'[i] = pc[i]
  BY DEF TypeOK
<1>4. Remaining' \subseteq Remaining
  BY <1>2, <1>3 DEF Remaining
<1>5. <<j, place>> \in Remaining /\ <<j, place>> \notin Remaining'
  BY <1>1, <1>2, <1>3 DEF Remaining
<1> QED BY <1>4, <1>5

\* A delegation passes at most five places in its life, whatever cancellations and
\* failures meet it, and no step of anybody sends one back; and a batch job that finds the
\* semaphore taken waits for a job that is past it, never for one that waits like itself.
\* Of BatchAnswered that leaves to fairness only that each step begun is taken.
THEOREM DelegationsAdvance ==
    Spec =>
      /\ [](/\ IsFiniteSet(Remaining)
            /\ \A j \in Parallel : Runs(j, "queued") =>
                  \/ Cardinality(Holders) < Limit
                  \/ \E i \in Parallel \ {j} : pc[i] \in {"context", "spawn", "summary"})
      /\ [][/\ Remaining' \subseteq Remaining
            /\ (\E j \in Jobs : Step(j) \/ CallDirect(j)) => Remaining' # Remaining]_vars
<1>1. ASSUME NEW j \in Parallel, Runs(j, "queued")
      PROVE  \/ Cardinality(Holders) < Limit
             \/ \E i \in Parallel \ {j} : pc[i] \in {"context", "spawn", "summary"}
  <2>1. CASE Holders = {}
    <3>1. Cardinality(Holders) = 0
      BY <2>1, FS_EmptySet
    <3>2. Limit \in Nat /\ Limit >= 1
      BY ConstantsAssumption DEF Limit
    <3> QED BY <3>1, <3>2
  <2>2. CASE Holders # {}
    BY <1>1, <2>2 DEF Holders, Counted, Runs
  <2> QED BY <2>1, <2>2
<1> DEFINE Takes == Remaining' \subseteq Remaining /\ Remaining' # Remaining
<1>2. ASSUME TypeOK, NEW j \in Jobs, Step(j) \/ CallDirect(j) PROVE Takes
  <2>1. pc[j] \in {"new", "queued"} /\ Delegate(j) => Takes
    <3> SUFFICES ASSUME pc[j] \in {"new", "queued"}, Delegate(j) PROVE Takes
      OBVIOUS
    <3>1. \E place \in {"context", "done"} : pc' = [pc EXCEPT ![j] = place]
      BY DEF Delegate, Refuse, Trip, Pass, End
    <3>2. {"context", "done"} \subseteq Ahead(pc[j])
      BY DEF Ahead
    <3> QED BY <3>1, <3>2, <1>2, GoingOnTakes
  <2>2. CASE AcquireSemaphore(j) \/ CallDirect(j)
    BY <2>1, <2>2 DEF AcquireSemaphore, CallDirect, Runs
  <2>3. CASE ContextBuilt(j)
    <3>1. "spawn" \in Ahead(pc[j]) /\ pc' = [pc EXCEPT ![j] = "spawn"]
      BY <2>3 DEF ContextBuilt, Runs, Ahead
    <3> QED BY <3>1, <1>2, GoingOnTakes
  <2>4. CASE SpawnReturns(j)
    <3>1. "summary" \in Ahead(pc[j]) /\ pc' = [pc EXCEPT ![j] = "summary"]
      BY <2>4 DEF SpawnReturns, Runs, Ahead
    <3> QED BY <3>1, <1>2, GoingOnTakes
  <2>5. CASE SpawnFails(j) \/ SummaryRecorded(j) \/ CancelDelivered(j)
    <3>1. "done" \in Ahead(pc[j]) /\ pc' = [pc EXCEPT ![j] = "done"]
      BY <2>5 DEF SpawnFails, SummaryRecorded, CancelDelivered, Runs, End, Ahead, Waiting
    <3> QED BY <3>1, <1>2, GoingOnTakes
  <2> QED BY <1>2, <2>2, <2>3, <2>4, <2>5 DEF Step
<1>3. ASSUME TypeOK, [Next]_vars PROVE Remaining' \subseteq Remaining
  <2>1. CASE \E j \in Jobs : Step(j) \/ CallDirect(j)
    BY <1>2, <1>3, <2>1
  <2>2. CASE SubmitBatch
    <3>1. \A j \in Jobs : Ahead(pc'[j]) \subseteq Ahead(pc[j])
      BY <2>2 DEF SubmitBatch, Ahead
    <3> QED BY <3>1 DEF Remaining
  <2>3. CASE \/ \E j \in Jobs : Cancel(j)
             \/ \E js \in {{j} : j \in Direct} \cup {Parallel} : CancelCaller(js)
             \/ UNCHANGED vars
    BY <2>3 DEF Cancel, CancelCaller, vars, Remaining
  <2> QED BY <1>3, <2>1, <2>2, <2>3 DEF Next, AllDone
<1>4. TypeOK /\ [Next]_vars =>
        [/\ Remaining' \subseteq Remaining
         /\ (\E j \in Jobs : Step(j) \/ CallDirect(j)) => Remaining' # Remaining]_vars
  BY <1>2, <1>3
<1>5. /\ IsFiniteSet(Remaining)
      /\ \A j \in Parallel : Runs(j, "queued") =>
            \/ Cardinality(Holders) < Limit
            \/ \E i \in Parallel \ {j} : pc[i] \in {"context", "spawn", "summary"}
  BY <1>1, RemainingFinite
<1> QED BY <1>4, <1>5, TypeCorrect, PTL DEF Spec

=============================================================================
