-------------------------- MODULE ApprovalsProofs --------------------------
(***************************************************************************)
(* Safety of Approvals for any callers, operators, actions and number of   *)
(* requests, with or without expiry.                                       *)
(***************************************************************************)
EXTENDS Approvals, FiniteSetTheorems, TLAPS

\* Caller c is about to consume request i, which it saw approved.
HoldsApproval(c, i) ==
    caller[c].pc = "consume" /\ caller[c].record = i /\ caller[c].saw = "approved"

\* An approval c can still use, because the row says so or c has already read
\* it, is one that c's past proceedings on the request have not used up.
CreditInv ==
    \A c \in Callers, i \in Ids :
        /\ grants[c][i] <= approvals[i]
        /\ status[i] = "approved" \/ HoldsApproval(c, i) => grants[c][i] < approvals[i]

\* What a caller is about to consume is a request filed for its own action.
RecordInv ==
    \A c \in Callers : caller[c].pc = "consume" =>
        /\ caller[c].record \in Ids
        /\ status[caller[c].record] # "none"
        /\ key[caller[c].record] = caller[c].key

IInv == TypeOK /\ CreditInv /\ RecordInv

\* Expiring the lapsed requests changes no request that is not pending.
LEMMA ExpiryKeeps ==
    ASSUME TypeOK
    PROVE  /\ AfterExpiry \in [Ids -> Statuses]
           /\ \A i \in Ids : status[i] # "pending" => AfterExpiry[i] = status[i]
           /\ \A i \in Ids : AfterExpiry[i] \in {status[i], "expired"}
           /\ \A i \in Ids : status[i] # "none" => AfterExpiry[i] # "none"
BY DEF TypeOK, AfterExpiry, Expired, Statuses

LEMMA InitInv == Init => IInv
<1> SUFFICES ASSUME Init PROVE IInv
  OBVIOUS
<1>1. AnyKey \in Keys
  BY ConstantsAssumption DEF AnyKey
<1>2. AtRest \in Caller /\ AtRest.pc = "idle"
  BY <1>1, ConstantsAssumption DEF AtRest, Caller, Ids
<1>3. TypeOK
  BY <1>1, <1>2, ConstantsAssumption DEF Init, TypeOK, Statuses
<1>4. CreditInv /\ RecordInv
  BY <1>2 DEF Init, CreditInv, RecordInv, HoldsApproval
<1> QED BY <1>3, <1>4 DEF IInv

\* A caller's record stays well typed when it comes to rest.
LEMMA RestTyped ==
    ASSUME TypeOK, NEW c \in Callers, Rest(c)
    PROVE  /\ caller' \in [Callers -> Caller]
           /\ caller'[c].pc = "idle"
           /\ \A d \in Callers \ {c} : caller'[d] = caller[d]
<1>1. AnyKey \in Keys
  BY ConstantsAssumption DEF AnyKey
<1>2. AtRest \in Caller /\ AtRest.pc = "idle"
  BY <1>1, ConstantsAssumption DEF AtRest, Caller
<1> QED BY <1>2 DEF TypeOK, Rest

\* Nothing changes but caller c, which ends in a state other than "consume", and
\* statuses, none of which becomes "none" or "approved".
LEMMA QuietStep ==
    ASSUME IInv, NEW c \in Callers, caller' \in [Callers -> Caller],
           caller'[c].pc # "consume", \A d \in Callers \ {c} : caller'[d] = caller[d],
           status' \in [Ids -> Statuses],
           \A i \in Ids : status'[i] = "approved" => status[i] = "approved",
           \A i \in Ids : status[i] # "none" => status'[i] # "none",
           key' \in [Ids -> Keys],
           \A i \in Ids : status[i] # "none" => key'[i] = key[i],
           UNCHANGED <<lapsed, operator, history>>
    PROVE  IInv'
<1>1. TypeOK'
  BY DEF IInv, TypeOK, history
<1>2. CreditInv'
  BY DEF IInv, CreditInv, HoldsApproval, history
<1>3. RecordInv'
  BY DEF IInv, RecordInv
<1> QED BY <1>1, <1>2, <1>3 DEF IInv

LEMMA FindResolvedInv ==
    ASSUME IInv, NEW c \in Callers, NEW k \in Keys, FindResolved(c, k)
    PROVE  IInv'
<1>1. PICK i \in Oldest(Matching(k, Resolved)) :
         caller' = [caller EXCEPT ![c] =
                      [pc |-> "consume", key |-> k, record |-> i, saw |-> AfterExpiry[i]]]
  BY DEF FindResolved
<1>2. i \in Ids /\ key[i] = k /\ AfterExpiry[i] \in Resolved
  BY <1>1 DEF Oldest, Matching
<1>3. status[i] = AfterExpiry[i]
  BY <1>2, ExpiryKeeps DEF IInv, Resolved
<1>4. /\ caller' \in [Callers -> Caller]
      /\ caller'[c].pc = "consume" /\ caller'[c].key = k /\ caller'[c].record = i
      /\ caller'[c].saw = status[i]
      /\ \A d \in Callers \ {c} : caller'[d] = caller[d]
  <2>1. [pc |-> "consume", key |-> k, record |-> i, saw |-> AfterExpiry[i]] \in Caller
    BY <1>2, ConstantsAssumption DEF Caller, Ids
  <2> QED BY <1>1, <1>3, <2>1 DEF IInv, TypeOK
<1>5. status' = AfterExpiry /\ UNCHANGED <<key, lapsed, operator, history>>
  BY DEF FindResolved
<1>6. TypeOK'
  BY <1>4, <1>5, ExpiryKeeps DEF IInv, TypeOK, history
<1>7. CreditInv'
  <2> SUFFICES ASSUME NEW d \in Callers, NEW j \in Ids
               PROVE  /\ grants[d][j] <= approvals[j]
                      /\ status'[j] = "approved" \/ HoldsApproval(d, j)'
                           => grants[d][j] < approvals[j]
    BY <1>5 DEF CreditInv, history
  <2>1. status'[j] = "approved" => status[j] = "approved"
    BY <1>5, ExpiryKeeps DEF IInv
  <2>2. HoldsApproval(d, j)' => HoldsApproval(d, j) \/ status[j] = "approved"
    BY <1>4 DEF HoldsApproval
  <2> QED BY <2>1, <2>2 DEF IInv, CreditInv
<1>8. RecordInv'
  BY <1>2, <1>3, <1>4, <1>5, ExpiryKeeps DEF IInv, RecordInv, Resolved
<1> QED BY <1>6, <1>7, <1>8 DEF IInv

LEMMA ConsumeInv ==
    ASSUME IInv, NEW c \in Callers, Consume(c)
    PROVE  IInv'
<1> DEFINE i == caller[c].record
<1>1. /\ i \in Ids /\ status[i] # "none" /\ key[i] = caller[c].key
      /\ caller[c].pc = "consume"
  BY DEF Consume, IInv, RecordInv
<1>2. /\ caller' \in [Callers -> Caller] /\ caller'[c].pc = "idle"
      /\ \A d \in Callers \ {c} : caller'[d] = caller[d]
  BY RestTyped DEF IInv, Consume
<1>3. UNCHANGED <<key, lapsed, operator, approvals, denials>>
  BY DEF Consume
<1>4. /\ status' \in [Ids -> Statuses] /\ status'[i] # "approved"
      /\ \A j \in Ids : status'[j] \in {status[j], "consumed"}
  BY <1>1 DEF Consume, ConsumeRow, IInv, TypeOK, Statuses, Resolved
<1>5. /\ \A d \in Callers, j \in Ids :
           ~(d = c /\ j = i /\ caller[c].saw = "approved") => grants'[d][j] = grants[d][j]
      /\ caller[c].saw = "approved" => grants'[c][i] = grants[c][i] + 1
      /\ grants' \in [Callers -> [Ids -> Nat]]
  <2>1. CASE caller[c].saw = "approved"
    <3>1. grants' = [grants EXCEPT ![c][i] = @ + 1]
      BY <2>1 DEF Consume
    <3> QED BY <1>1, <2>1, <3>1 DEF IInv, TypeOK
  <2>2. CASE caller[c].saw # "approved"
    BY <2>2 DEF Consume, IInv, TypeOK
  <2> QED BY <2>1, <2>2
<1>6. TypeOK'
  BY <1>2, <1>3, <1>4, <1>5 DEF IInv, TypeOK
<1> HIDE DEF i
<1>7. CreditInv'
  <2> SUFFICES ASSUME NEW d \in Callers, NEW j \in Ids
               PROVE  /\ grants'[d][j] <= approvals[j]
                      /\ status'[j] = "approved" \/ HoldsApproval(d, j)'
                           => grants'[d][j] < approvals[j]
    BY <1>3 DEF CreditInv
  <2>0. grants[d][j] \in Nat /\ approvals[j] \in Nat
    BY DEF IInv, TypeOK
  <2>1. CASE d = c /\ j = i /\ caller[c].saw = "approved"
    <3>1. HoldsApproval(c, i)
      BY <1>1, <2>1 DEF HoldsApproval, i
    <3>2. grants[c][i] < approvals[i]
      BY <1>1, <3>1 DEF IInv, CreditInv
    <3>3. ~HoldsApproval(d, j)' /\ status'[j] # "approved"
      BY <1>2, <1>4, <2>1 DEF HoldsApproval
    <3> QED BY <1>5, <2>0, <2>1, <3>2, <3>3
  <2>2. CASE ~(d = c /\ j = i /\ caller[c].saw = "approved")
    <3>1. grants'[d][j] = grants[d][j]
      BY <1>5, <2>2
    <3>2. status'[j] = "approved" => status[j] = "approved"
      BY <1>4
    <3>3. HoldsApproval(d, j)' => HoldsApproval(d, j)
      BY <1>2 DEF HoldsApproval
    <3> QED BY <3>1, <3>2, <3>3 DEF IInv, CreditInv
  <2> QED BY <2>1, <2>2
<1>8. RecordInv'
  BY <1>2, <1>3, <1>4 DEF IInv, RecordInv
<1> QED BY <1>6, <1>7, <1>8 DEF IInv

LEMMA DecideWriteInv ==
    ASSUME IInv, NEW o \in Operators, NEW approved \in BOOLEAN, DecideWrite(o, approved)
    PROVE  IInv'
<1> DEFINE i == operator[o]
<1>1. i \in Ids
  BY ConstantsAssumption DEF DecideWrite, IInv, TypeOK, Ids
<1>2. UNCHANGED <<key, lapsed, caller, grants>>
  BY DEF DecideWrite
<1>3. /\ status' \in [Ids -> Statuses]
      /\ status'[i] = IF approved THEN "approved" ELSE "denied"
      /\ \A j \in Ids \ {i} : status'[j] = AfterExpiry[j]
  <2>1. status' = [AfterExpiry EXCEPT ![i] = IF approved THEN "approved" ELSE "denied"]
    BY DEF DecideWrite
  <2>2. AfterExpiry \in [Ids -> Statuses]
    BY ExpiryKeeps DEF IInv
  <2> QED BY <1>1, <2>1, <2>2 DEF Statuses
<1>4. /\ approvals' \in [Ids -> Nat] /\ denials' \in [Ids -> Nat]
      /\ approved => approvals'[i] = approvals[i] + 1
      /\ \A j \in Ids : approvals'[j] = approvals[j] \/ approvals'[j] = approvals[j] + 1
  BY <1>1 DEF DecideWrite, IInv, TypeOK
<1>5. operator' \in [Operators -> 0..MaxRecords]
  BY ConstantsAssumption DEF DecideWrite, IInv, TypeOK
<1>6. TypeOK'
  BY <1>2, <1>3, <1>4, <1>5 DEF IInv, TypeOK
<1> HIDE DEF i
<1>7. CreditInv'
  <2> SUFFICES ASSUME NEW d \in Callers, NEW j \in Ids
               PROVE  /\ grants[d][j] <= approvals'[j]
                      /\ status'[j] = "approved" \/ HoldsApproval(d, j)
                           => grants[d][j] < approvals'[j]
    BY <1>2 DEF CreditInv, HoldsApproval
  <2>1. /\ grants[d][j] \in Nat /\ approvals[j] \in Nat /\ approvals'[j] \in Nat
        /\ approvals'[j] >= approvals[j]
    BY <1>4 DEF IInv, TypeOK
  <2>2. CASE status'[j] = "approved" /\ j = i
    BY <1>1, <1>3, <1>4, <2>1, <2>2 DEF IInv, CreditInv
  <2>3. CASE ~(status'[j] = "approved" /\ j = i)
    <3>1. status'[j] = "approved" => status[j] = "approved"
      BY <1>3, <2>3, ExpiryKeeps DEF IInv
    <3> QED BY <2>1, <3>1 DEF IInv, CreditInv
  <2> QED BY <2>2, <2>3
<1>8. RecordInv'
  <2>1. \A j \in Ids : status[j] # "none" => status'[j] # "none"
    BY <1>3, ExpiryKeeps DEF IInv
  <2> QED BY <1>2, <2>1 DEF IInv, RecordInv
<1> QED BY <1>6, <1>7, <1>8 DEF IInv

\* Every step keeps the inductive invariant.
LEMMA NextInv == IInv /\ [Next]_vars => IInv'
<1> SUFFICES ASSUME IInv, [Next]_vars
             PROVE  IInv'
  OBVIOUS
<1>1. ASSUME NEW c \in Callers, NEW k \in Keys, FindResolved(c, k)
      PROVE  IInv'
  BY <1>1, FindResolvedInv
<1>2. ASSUME NEW c \in Callers, NEW k \in Keys, FindNoResolved(c, k)
      PROVE  IInv'
  <2>1. [pc |-> "find_pending", key |-> k, record |-> 0, saw |-> "none"] \in Caller
    BY ConstantsAssumption DEF Caller
  <2>2. /\ caller' \in [Callers -> Caller] /\ caller'[c].pc # "consume"
        /\ \A d \in Callers \ {c} : caller'[d] = caller[d]
    BY <1>2, <2>1 DEF FindNoResolved, IInv, TypeOK
  <2>3. status' = AfterExpiry /\ key' = key /\ UNCHANGED <<lapsed, operator, history>>
    BY <1>2 DEF FindNoResolved
  <2> QED
    BY <2>2, <2>3, ExpiryKeeps, QuietStep DEF IInv, TypeOK
<1>3. ASSUME NEW c \in Callers, Consume(c)
      PROVE  IInv'
  BY <1>3, ConsumeInv
<1>4. ASSUME NEW c \in Callers, FindPending(c)
      PROVE  IInv'
  <2>1. AnyKey \in Keys
    BY ConstantsAssumption DEF AnyKey
  <2>2. AtRest \in Caller /\ AtRest.pc = "idle"
    BY <2>1, ConstantsAssumption DEF AtRest, Caller
  <2>3. [caller[c] EXCEPT !.pc = "create"] \in Caller
    BY DEF IInv, TypeOK, Caller
  <2>4. /\ caller' \in [Callers -> Caller] /\ caller'[c].pc # "consume"
        /\ \A d \in Callers \ {c} : caller'[d] = caller[d]
    BY <1>4, <2>2, <2>3 DEF FindPending, IInv, TypeOK, Caller
  <2>5. status' = AfterExpiry /\ key' = key /\ UNCHANGED <<lapsed, operator, history>>
    BY <1>4 DEF FindPending
  <2> QED
    BY <2>4, <2>5, ExpiryKeeps, QuietStep DEF IInv, TypeOK
<1>5. ASSUME NEW c \in Callers, Create(c)
      PROVE  IInv'
  <2>1. /\ caller' \in [Callers -> Caller] /\ caller'[c].pc # "consume"
        /\ \A d \in Callers \ {c} : caller'[d] = caller[d]
    BY <1>5, RestTyped DEF IInv, Create
  <2>2. UNCHANGED <<lapsed, operator, history>>
    BY <1>5 DEF Create
  <2>3. CASE Free = {}
    BY <1>5, <2>1, <2>2, <2>3, QuietStep DEF Create, IInv, TypeOK
  <2>4. CASE Free # {}
    <3>1. PICK i \in Oldest(Free) : /\ status' = [status EXCEPT ![i] = "pending"]
                                    /\ key' = [key EXCEPT ![i] = caller[c].key]
      BY <1>5, <2>4 DEF Create
    <3>2. i \in Ids /\ status[i] = "none" /\ caller[c].key \in Keys
      BY <3>1 DEF Oldest, Free, IInv, TypeOK, Caller
    <3>3. /\ status' \in [Ids -> Statuses] /\ key' \in [Ids -> Keys]
          /\ \A j \in Ids : status'[j] = "approved" => status[j] = "approved"
          /\ \A j \in Ids : status[j] # "none" => status'[j] # "none" /\ key'[j] = key[j]
      BY <3>1, <3>2 DEF IInv, TypeOK, Statuses
    <3> QED BY <2>1, <2>2, <3>3, QuietStep
  <2> QED BY <2>3, <2>4
<1>6. ASSUME NEW c \in Callers, Crash(c)
      PROVE  IInv'
  <2>1. /\ caller' \in [Callers -> Caller] /\ caller'[c].pc # "consume"
        /\ \A d \in Callers \ {c} : caller'[d] = caller[d]
    BY <1>6, RestTyped DEF IInv, Crash
  <2> QED BY <1>6, <2>1, QuietStep DEF Crash, IInv, TypeOK, rows
<1>7. ASSUME NEW o \in Operators, NEW i \in Ids, DecideRead(o, i)
      PROVE  IInv'
  <2>1. operator' \in [Operators -> 0..MaxRecords]
    BY <1>7, ConstantsAssumption DEF DecideRead, IInv, TypeOK, Ids
  <2> QED
    BY <1>7, <2>1 DEF DecideRead, IInv, TypeOK, CreditInv, RecordInv, HoldsApproval, rows, history
<1>8. ASSUME NEW o \in Operators, NEW approved \in BOOLEAN, DecideWrite(o, approved)
      PROVE  IInv'
  BY <1>8, DecideWriteInv
<1>9. ASSUME NEW i \in Ids, Lapse(i)
      PROVE  IInv'
  <2>1. lapsed' \in [Ids -> BOOLEAN]
    BY <1>9 DEF Lapse, IInv, TypeOK
  <2> QED
    BY <1>9, <2>1 DEF Lapse, IInv, TypeOK, CreditInv, RecordInv, HoldsApproval, history
<1>10. CASE UNCHANGED vars
  BY <1>10 DEF IInv, TypeOK, CreditInv, RecordInv, HoldsApproval, vars, rows, history
<1> QED
  BY <1>1, <1>2, <1>3, <1>4, <1>5, <1>6, <1>7, <1>8, <1>9, <1>10 DEF Next, CallerStep

LEMMA Invariance == Spec => []IInv
BY InitInv, NextInv, PTL DEF Spec

-----------------------------------------------------------------------------
\* Every variable keeps its type.
THEOREM TypeCorrect == Spec => []TypeOK
BY Invariance, PTL DEF IInv

\* No caller proceeds on a request more often than humans approved it, whatever
\* the races between callers, between operators and with expiry.
THEOREM ApprovalsNotMultiplied == Spec => []ProceedsPerApproval
<1>1. IInv => ProceedsPerApproval
  BY DEF IInv, CreditInv, ProceedsPerApproval
<1> QED BY <1>1, Invariance, PTL

\* A caller proceeds only on a request for its own action that was approved.
THEOREM ProceedingIsApproved == Spec => ProceedsOnlyAsApproved
<1>1. IInv /\ [Next]_vars
      => [\A c \in Callers, i \in Ids :
            grants'[c][i] # grants[c][i] => key[i] = caller[c].key /\ approvals[i] > 0]_vars
  <2> SUFFICES ASSUME IInv, Next, NEW c \in Callers, NEW i \in Ids,
                      grants'[c][i] # grants[c][i]
               PROVE  key[i] = caller[c].key /\ approvals[i] > 0
    OBVIOUS
  <2>1. PICK d \in Callers : Consume(d)
    BY DEF Next, CallerStep, FindResolved, FindNoResolved, FindPending, Create, Crash, DecideRead,
       DecideWrite, Lapse, history
  <2>2. d = c /\ i = caller[c].record /\ caller[c].saw = "approved"
    BY <2>1 DEF Consume, IInv, TypeOK
  <2>3. HoldsApproval(c, i)
    BY <2>1, <2>2 DEF HoldsApproval, Consume
  <2>4. grants[c][i] < approvals[i] /\ grants[c][i] \in Nat /\ approvals[i] \in Nat
    BY <2>3 DEF IInv, CreditInv, TypeOK
  <2>5. key[i] = caller[c].key
    BY <2>3, <2>2 DEF IInv, RecordInv, HoldsApproval
  <2> QED BY <2>4, <2>5
<1> QED BY <1>1, Invariance, PTL DEF Spec, ProceedsOnlyAsApproved

-----------------------------------------------------------------------------
(* How often a request is decided.                                         *)

\* The operators who have read request i as pending and will decide it.
Readers(i) == {o \in Operators : operator[o] = i}

\* Decisions made and decisions on their way are within the operators there are, and
\* a request still pending has no decision: it is not read again once it has one.
DecisionInv ==
    \A i \in Ids :
        /\ approvals[i] + denials[i] + Cardinality(Readers(i)) <= Cardinality(Operators)
        /\ status[i] \in {"none", "pending"} => approvals[i] = 0 /\ denials[i] = 0

LEMMA ReadersFinite ==
    ASSUME IsFiniteSet(Operators), NEW S \in SUBSET Operators
    PROVE  /\ IsFiniteSet(S) /\ Cardinality(S) \in Nat
           /\ Cardinality(S) <= Cardinality(Operators) /\ Cardinality(Operators) \in Nat
BY FS_Subset, FS_CardinalityType

\* A step without a decision: no request becomes pending but a new one.
LEMMA UndecidedStep ==
    ASSUME DecisionInv, UNCHANGED <<operator, approvals, denials>>,
           \A i \in Ids : status'[i] \in {"none", "pending"} => status[i] \in {"none", "pending"}
    PROVE  DecisionInv'
BY DEF DecisionInv, Readers

LEMMA DecisionNext ==
    ASSUME IsFiniteSet(Operators), TypeOK, DecisionInv, [Next]_vars
    PROVE  DecisionInv'
<1>1. \A i \in Ids : AfterExpiry[i] \in {"none", "pending"} => status[i] \in {"none", "pending"}
  BY ExpiryKeeps
<1>2. ASSUME NEW c \in Callers, CallerStep(c) \/ Crash(c)
      PROVE  DecisionInv'
  <2>1. UNCHANGED <<operator, approvals, denials>>
    BY <1>2 DEF CallerStep, FindResolved, FindNoResolved, Consume, FindPending, Create, Crash,
       history
  <2>2. \A i \in Ids : status'[i] \in {"none", "pending"} => status[i] \in {"none", "pending"}
    <3>1. CASE status' = AfterExpiry
      BY <1>1, <3>1
    <3>2. CASE Consume(c)
      BY <3>2 DEF Consume, ConsumeRow, TypeOK
    <3>3. CASE Create(c)
      BY <3>3 DEF Create, Oldest, Free, TypeOK
    <3>4. CASE Crash(c)
      BY <3>4 DEF Crash, rows
    <3> QED BY <1>2, <3>1, <3>2, <3>3, <3>4
            DEF CallerStep, FindResolved, FindNoResolved, FindPending
  <2> QED BY <2>1, <2>2, UndecidedStep
<1>3. ASSUME NEW o \in Operators, NEW i \in Ids, DecideRead(o, i)
      PROVE  DecisionInv'
  <2>1. UNCHANGED <<status, approvals, denials>>
    BY <1>3 DEF DecideRead, rows, history
  <2> SUFFICES ASSUME NEW j \in Ids
               PROVE  approvals[j] + denials[j] + Cardinality(Readers(j)') <= Cardinality(Operators)
    BY <2>1 DEF DecisionInv
  <2>2. CASE j = i
    <3>1. approvals[j] = 0 /\ denials[j] = 0
      BY <1>3, <2>2 DEF DecideRead, DecisionInv
    <3>2. Readers(j)' \in SUBSET Operators
      BY DEF Readers
    <3> QED BY <3>1, <3>2, ReadersFinite
  <2>3. CASE j # i
    <3>1. Readers(j)' = Readers(j)
      BY <1>3, <2>3 DEF DecideRead, Readers, TypeOK, Ids
    <3> QED BY <3>1 DEF DecisionInv
  <2> QED BY <2>2, <2>3
<1>4. ASSUME NEW o \in Operators, NEW approved \in BOOLEAN, DecideWrite(o, approved)
      PROVE  DecisionInv'
  <2>1. PICK i \in Ids : operator[o] = i
    BY <1>4, ConstantsAssumption DEF DecideWrite, TypeOK, Ids
  <2>2. /\ approvals'[i] + denials'[i] = approvals[i] + denials[i] + 1
        /\ approvals'[i] \in Nat /\ denials'[i] \in Nat
        /\ status'[i] \in Resolved
    <3>1. status' = [AfterExpiry EXCEPT ![i] = IF approved THEN "approved" ELSE "denied"]
      BY <1>4, <2>1 DEF DecideWrite
    <3>2. status'[i] \in Resolved
      BY <2>1, <3>1, ExpiryKeeps DEF Resolved
    <3>3. \/ approvals' = [approvals EXCEPT ![i] = @ + 1] /\ denials' = denials
          \/ approvals' = approvals /\ denials' = [denials EXCEPT ![i] = @ + 1]
      <4>1. CASE approved
        BY <1>4, <2>1, <4>1, Zenon DEF DecideWrite
      <4>2. CASE ~approved
        BY <1>4, <2>1, <4>2, Zenon DEF DecideWrite
      <4> QED BY <4>1, <4>2
    <3>4. approvals \in [Ids -> Nat] /\ denials \in [Ids -> Nat]
      BY DEF TypeOK
    <3> QED BY <2>1, <3>2, <3>3, <3>4
  <2>3. \A j \in Ids \ {i} :
           approvals'[j] = approvals[j] /\ denials'[j] = denials[j] /\ status'[j] = AfterExpiry[j]
    BY <1>4, <2>1, ExpiryKeeps DEF DecideWrite, TypeOK
  <2>4. /\ Readers(i)' = Readers(i) \ {o} /\ o \in Readers(i)
        /\ \A j \in Ids \ {i} : Readers(j)' = Readers(j)
    BY <1>4, <2>1 DEF DecideWrite, Readers, TypeOK, Ids
  <2>5. Cardinality(Readers(i)') = Cardinality(Readers(i)) - 1
    BY <2>4, ReadersFinite, FS_RemoveElement DEF Readers
  <2>6. Readers(i) \in SUBSET Operators /\ approvals[i] \in Nat /\ denials[i] \in Nat
    BY <2>1 DEF Readers, TypeOK
  <2> SUFFICES ASSUME NEW j \in Ids
               PROVE  /\ approvals'[j] + denials'[j] + Cardinality(Readers(j)')
                           <= Cardinality(Operators)
                      /\ status'[j] \in {"none", "pending"} => approvals'[j] = 0 /\ denials'[j] = 0
    BY DEF DecisionInv
  <2>7. CASE j = i
    <3>1. Cardinality(Readers(i)) \in Nat /\ Cardinality(Operators) \in Nat
      BY <2>6, ReadersFinite
    <3>2. approvals[i] + denials[i] + Cardinality(Readers(i)) <= Cardinality(Operators)
      BY <2>1 DEF DecisionInv
    <3> QED BY <2>2, <2>5, <2>6, <2>7, <3>1, <3>2 DEF Resolved
  <2>8. CASE j # i
    BY <1>1, <2>3, <2>4, <2>8 DEF DecisionInv
  <2> QED BY <2>7, <2>8
<1>5. ASSUME NEW i \in Ids, Lapse(i)
      PROVE  DecisionInv'
  BY <1>5, UndecidedStep DEF Lapse, history
<1>6. CASE UNCHANGED vars
  BY <1>6, UndecidedStep DEF vars, rows, history
<1> QED BY <1>2, <1>3, <1>4, <1>5, <1>6 DEF Next

\* Each of the operators deciding at one time decides a request once at most, so that
\* one deciding alone has "first-decision-wins decide" (core/durable.py): the second
\* decision of README, section 5, takes two who read the request before either writes.
THEOREM DecisionsBounded ==
    ASSUME IsFiniteSet(Operators)
    PROVE  Spec => [](\A i \in Ids : approvals[i] + denials[i] <= Cardinality(Operators))
<1>1. Init => DecisionInv
  <2> SUFFICES ASSUME Init, NEW i \in Ids
               PROVE  Cardinality(Readers(i)) <= Cardinality(Operators)
    <3>1. \A n \in Nat : 0 + 0 + n = n
      OBVIOUS
    <3> QED BY <3>1, ReadersFinite DEF Init, DecisionInv, Readers
  <2> QED BY ReadersFinite DEF Readers
<1>2. TypeOK /\ DecisionInv /\ [Next]_vars => DecisionInv'
  BY DecisionNext
<1>3. TypeOK /\ DecisionInv
      => \A i \in Ids : approvals[i] + denials[i] <= Cardinality(Operators)
  <2> SUFFICES ASSUME TypeOK, DecisionInv, NEW i \in Ids
               PROVE  approvals[i] + denials[i] <= Cardinality(Operators)
    OBVIOUS
  <2>1. Readers(i) \in SUBSET Operators /\ approvals[i] \in Nat /\ denials[i] \in Nat
    BY DEF Readers, TypeOK
  <2> QED BY <2>1, ReadersFinite DEF DecisionInv
<1> QED BY <1>1, <1>2, <1>3, TypeCorrect, PTL DEF Spec

\* Nor is a denied request proceeded on, unless a second operator approved it beside the
\* first: denials and what one caller made of the approvals share the same bound.
THEOREM DenialsCount ==
    ASSUME IsFiniteSet(Operators)
    PROVE  Spec => [](\A c \in Callers, i \in Ids :
                        grants[c][i] + denials[i] <= Cardinality(Operators))
<1>1. /\ TypeOK /\ ProceedsPerApproval
      /\ \A i \in Ids : approvals[i] + denials[i] <= Cardinality(Operators)
      => \A c \in Callers, i \in Ids : grants[c][i] + denials[i] <= Cardinality(Operators)
  <2> SUFFICES ASSUME TypeOK, ProceedsPerApproval, NEW c \in Callers, NEW i \in Ids,
                      approvals[i] + denials[i] <= Cardinality(Operators)
               PROVE  grants[c][i] + denials[i] <= Cardinality(Operators)
    OBVIOUS
  <2>1. /\ grants[c][i] \in Nat /\ approvals[i] \in Nat /\ denials[i] \in Nat
        /\ grants[c][i] <= approvals[i]
    BY DEF TypeOK, ProceedsPerApproval
  <2> QED BY <2>1, FS_CardinalityType
<1> QED BY <1>1, TypeCorrect, ApprovalsNotMultiplied, DecisionsBounded, PTL

=============================================================================
