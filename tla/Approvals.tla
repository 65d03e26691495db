----------------------------- MODULE Approvals -----------------------------
(***************************************************************************)
(* Approval interrupt/resume over the persona database: consume_or_suspend *)
(* (src/assistant/core/capabilities/approvals.py) in the processes that run *)
(* gated operations, and `assistant approvals approve|deny' in the          *)
(* operators' processes, against PostgresApprovalStore                      *)
(* (src/assistant/core/durable.py).                                        *)
(*                                                                         *)
(* Each store method is one READ COMMITTED transaction, hence one step;    *)
(* `decide' is two, because its UPDATE names the row by id alone and does  *)
(* not see again what its SELECT saw.  consume_or_suspend is synchronous,  *)
(* so the calls of one process do not interleave: a caller is a process.   *)
(* The threading.Lock of the store orders the threads of one process; each *)
(* operator command is a process of its own, so it orders nothing here.    *)
(***************************************************************************)
EXTENDS Naturals, FiniteSets

CONSTANTS
    Callers,     \* the processes that run gated operations (CLI session, server)
    Operators,   \* the processes in which a human decision is recorded
    Keys,        \* the gated actions: (persona, action_type, resource)
    MaxRecords,  \* bound: approval requests ever filed
    Expiring     \* BOOLEAN: approval_expiry_seconds is positive

ASSUME ConstantsAssumption ==
    /\ Keys # {}
    /\ MaxRecords \in Nat
    /\ Expiring \in BOOLEAN
    /\ Callers \cap Operators = {}

Ids == 1..MaxRecords

\* APPROVAL_STATUSES, and "none" for an id not filed yet.
Statuses == {"none", "pending", "approved", "denied", "consumed", "expired"}
Resolved == {"approved", "denied"}

VARIABLES
    key,        \* key[i]: the action request i was filed for
    status,     \* status[i]: the status column
    lapsed,     \* lapsed[i]: expires_at has passed
    caller,     \* where each caller is in consume_or_suspend
    operator,   \* the request each operator has read as pending, 0 for none
    approvals,  \* history: approve decisions accepted for request i
    denials,    \* history: deny decisions accepted for request i
    grants      \* history: grants[c][i], times caller c proceeded on request i

rows == <<key, status, lapsed>>
history == <<approvals, denials, grants>>
vars == <<rows, caller, operator, history>>

AnyKey == CHOOSE k \in Keys : TRUE
AtRest == [pc |-> "idle", key |-> AnyKey, record |-> 0, saw |-> "none"]

Caller == [pc : {"idle", "consume", "find_pending", "create"}, key : Keys,
           record : 0..MaxRecords, saw : {"none"} \cup Resolved]

Init ==
    /\ key = [i \in Ids |-> AnyKey]
    /\ status = [i \in Ids |-> "none"]
    /\ lapsed = [i \in Ids |-> FALSE]
    /\ caller = [c \in Callers |-> AtRest]
    /\ operator = [o \in Operators |-> 0]
    /\ approvals = [i \in Ids |-> 0]
    /\ denials = [i \in Ids |-> 0]
    /\ grants = [c \in Callers |-> [i \in Ids |-> 0]]

-----------------------------------------------------------------------------
(* The store                                                               *)

\* Mutant of AfterExpiry: a status outside APPROVAL_STATUSES.
AfterExpiryUnknown ==
    [i \in Ids |-> IF status[i] = "pending" /\ lapsed[i] THEN "lapsed" ELSE status[i]]

\* _expire_lapsed, run by every read: the statuses after it.
Expired(i) == status[i] = "pending" /\ lapsed[i]
AfterExpiry == [i \in Ids |-> IF Expired(i) THEN "expired" ELSE status[i]]

\* Mutant of Matching: the resource is left out of the WHERE clause.
MatchingAnyKey(k, sts) == {i \in Ids : AfterExpiry[i] \in sts}

\* _find: the matching requests, of which the first in created_at order, the
\* one of Oldest, is returned.
Matching(k, sts) == {i \in Ids : key[i] = k /\ AfterExpiry[i] \in sts}
Oldest(ids) == {i \in ids : \A j \in ids : i <= j}

\* create gives the request the next id (ids stand for created_at order).
Free == {i \in Ids : status[i] = "none"}

\* Mutants of ConsumeRow: the condition of the UPDATE names the wrong statuses.
ConsumeRowPending(i) ==
    status' = IF status[i] = "pending" THEN [status EXCEPT ![i] = "consumed"] ELSE status

ConsumeRowApproved(i) ==
    status' = IF status[i] = "approved" THEN [status EXCEPT ![i] = "consumed"] ELSE status

\* consume: a conditional UPDATE, which changes nothing unless the row is
\* resolved.  (Its result, whether a row changed, is what the caller ignores.)
ConsumeRow(i) ==
    status' = IF status[i] \in Resolved THEN [status EXCEPT ![i] = "consumed"] ELSE status

-----------------------------------------------------------------------------
(* consume_or_suspend                                                      *)

\* A gated operation is tried, or retried, and find_resolved finds a decision.
FindResolved(c, k) ==
    /\ caller[c].pc = "idle"
    /\ \E i \in Oldest(Matching(k, Resolved)) :
         caller' = [caller EXCEPT ![c] =
                      [pc |-> "consume", key |-> k, record |-> i, saw |-> AfterExpiry[i]]]
    /\ status' = AfterExpiry
    /\ UNCHANGED <<key, lapsed, operator, history>>

\* ... or finds none.
FindNoResolved(c, k) ==
    /\ caller[c].pc = "idle"
    /\ Matching(k, Resolved) = {}
    /\ caller' = [caller EXCEPT ![c] =
                    [pc |-> "find_pending", key |-> k, record |-> 0, saw |-> "none"]]
    /\ status' = AfterExpiry
    /\ UNCHANGED <<key, lapsed, operator, history>>

Rest(c) == caller' = [caller EXCEPT ![c] = AtRest]

\* store.consume, and then the operation proceeds if what find_resolved returned
\* was approved, or ApprovalDeniedError is raised.
Consume(c) ==
    /\ caller[c].pc = "consume"
    /\ ConsumeRow(caller[c].record)
    /\ grants' = IF caller[c].saw = "approved"
                 THEN [grants EXCEPT ![c][caller[c].record] = @ + 1]
                 ELSE grants
    /\ Rest(c)
    /\ UNCHANGED <<key, lapsed, operator, approvals, denials>>

\* find_pending: PendingApprovalError with the id already filed, or go on.
FindPending(c) ==
    /\ caller[c].pc = "find_pending"
    /\ caller' = [caller EXCEPT ![c] =
                    IF Matching(@.key, {"pending"}) # {} THEN AtRest
                    ELSE [@ EXCEPT !.pc = "create"]]
    /\ status' = AfterExpiry
    /\ UNCHANGED <<key, lapsed, operator, history>>

\* build_approval_request and store.create, then PendingApprovalError.  (When
\* MaxRecords have been filed, the bound, the insert fails and the error is raised.)
Create(c) ==
    /\ caller[c].pc = "create"
    /\ IF Free = {}
       THEN UNCHANGED <<status, key>>
       ELSE \E i \in Oldest(Free) : /\ status' = [status EXCEPT ![i] = "pending"]
                                    /\ key' = [key EXCEPT ![i] = caller[c].key]
    /\ Rest(c)
    /\ UNCHANGED <<lapsed, operator, history>>

\* The process dies, or the transaction fails and the error is raised.
Crash(c) ==
    /\ caller[c].pc # "idle"
    /\ Rest(c)
    /\ UNCHANGED <<rows, operator, history>>

-----------------------------------------------------------------------------
(* decide                                                                  *)

\* The SELECT finds the request pending.  (A request found lapsed or decided is
\* an error, which rolls the expiry back with the transaction: no change.)
DecideRead(o, i) ==
    /\ operator[o] = 0
    /\ status[i] = "pending" /\ ~lapsed[i]
    /\ operator' = [operator EXCEPT ![o] = i]
    /\ UNCHANGED <<rows, caller, history>>

\* The UPDATE, by id alone, and the commit, with the expiry of the other rows.
DecideWrite(o, approved) ==
    /\ operator[o] # 0
    /\ LET i == operator[o] IN
         /\ status' = [AfterExpiry EXCEPT ![i] = IF approved THEN "approved" ELSE "denied"]
         /\ approvals' = IF approved THEN [approvals EXCEPT ![i] = @ + 1] ELSE approvals
         /\ denials' = IF approved THEN denials ELSE [denials EXCEPT ![i] = @ + 1]
    /\ operator' = [operator EXCEPT ![o] = 0]
    /\ UNCHANGED <<key, lapsed, caller, grants>>

\* expires_at passes.
Lapse(i) ==
    /\ Expiring /\ status[i] = "pending" /\ ~lapsed[i]
    /\ lapsed' = [lapsed EXCEPT ![i] = TRUE]
    /\ UNCHANGED <<key, status, caller, operator, history>>

CallerStep(c) ==
    \/ \E k \in Keys : FindResolved(c, k) \/ FindNoResolved(c, k)
    \/ Consume(c)
    \/ FindPending(c)
    \/ Create(c)

Next ==
    \/ \E c \in Callers : CallerStep(c) \/ Crash(c)
    \/ \E o \in Operators, i \in Ids : DecideRead(o, i)
    \/ \E o \in Operators, approved \in BOOLEAN : DecideWrite(o, approved)
    \/ \E i \in Ids : Lapse(i)

Spec == Init /\ [][Next]_vars

\* The resume protocol is retry-shaped: every caller keeps retrying each of its
\* suspended operations, and a transaction begun ends.  Nobody is obliged to
\* decide, and a process that keeps crashing in mid-call is not retrying.
Fairness ==
    \A c \in Callers :
        /\ \A k \in Keys : SF_vars(FindResolved(c, k))
        /\ SF_vars(Consume(c))
        /\ WF_vars(FindPending(c)) /\ WF_vars(Create(c))

FairSpec == Spec /\ Fairness

-----------------------------------------------------------------------------
(* Properties                                                              *)

\* Type invariant.
TypeOK ==
    /\ key \in [Ids -> Keys]
    /\ status \in [Ids -> Statuses]
    /\ lapsed \in [Ids -> BOOLEAN]
    /\ caller \in [Callers -> Caller]
    /\ operator \in [Operators -> 0..MaxRecords]
    /\ approvals \in [Ids -> Nat] /\ denials \in [Ids -> Nat]
    /\ grants \in [Callers -> [Ids -> Nat]]

\* However many operators decide and callers race, one caller proceeds on a
\* request at most once per approve decision a human recorded for it.
ProceedsPerApproval ==
    \A c \in Callers, i \in Ids : grants[c][i] <= approvals[i]

\* A caller never proceeds on a decision filed for another action, nor on a
\* request whose every decision was a deny: a proceeding step of c consumes a
\* record of its own key that some human approved.
ProceedsOnlyAsApproved ==
    [][\A c \in Callers, i \in Ids :
         grants'[c][i] # grants[c][i] => key[i] = caller[c].key /\ approvals[i] > 0]_vars

\* A human decision reaches a retrying caller: it does not stay unconsumed.
DecisionConsumed ==
    \A i \in Ids : (status[i] \in Resolved) ~> (status[i] \notin Resolved)

\* "an approve decision lets the action proceed exactly once": one approve
\* decision is not used by two callers.
ApprovalUsedOnce ==
    \A i \in Ids : approvals[i] = 1 =>
        \A c, d \in Callers : grants[c][i] > 0 /\ grants[d][i] > 0 => c = d

=============================================================================
