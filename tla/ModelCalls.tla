----------------------------- MODULE ModelCalls -----------------------------
(***************************************************************************)
(* Choosing and paying for a model: the walk along a resolved fallback     *)
(* chain, each reference gated by the persona's guardrails                 *)
(* (src/assistant/core/capabilities/model_bindings.py, guardrails.py), by  *)
(* the SDK harnesses, the delegation router and reflection.                *)
(*                                                                         *)
(* Within a process the code from a check to the end of its binding does   *)
(* not await, so one walk at a time is in such a section; walks interleave *)
(* where a model is invoked.  Processes of one persona interleave at every *)
(* query of a shared ledger.                                               *)
(***************************************************************************)
EXTENDS Integers, Sequences, FiniteSets

CONSTANTS
    Processes,       \* processes serving the persona
    Walks,           \* tasks that need a model
    Home,            \* the process of each task,
    Kind,            \* and who it is: see Kinds
    Refs,            \* entries of the model registry
    Chains,          \* the chains the registry may resolve to
    Cost,            \* what a call of each is estimated to cost
    MaxCost,         \* the largest of these
    Policies,        \* guardrails.policies, in declaration order
    DailyCeiling,    \* budgets.model_call.daily_usd, 0 is unlimited
    MonthlyCeiling,  \* budgets.model_call.monthly_usd
    MaxDay,          \* bound: days
    MonthStart,      \* the first day of the month of each day,
    MonthEnd         \* and the first day after it

\* Who walks: a harness, the delegation router, or reflection.
Kinds == {"harness", "router", "reflection"}
Effects == {"allow", "deny", "require_confirmation"}
\* The ledger in the persona database, as opposed to that of one process.
Shared == "shared"
Days == 1..MaxDay

ASSUME ConstantsAssumption ==
    /\ IsFiniteSet(Processes) /\ Shared \notin Processes
    /\ Home \in [Walks -> Processes] /\ Kind \in [Walks -> Kinds]
    /\ Chains \subseteq Seq(Refs) /\ <<>> \notin Chains
    /\ Cost \in [Refs -> Nat] /\ MaxCost \in Nat
    /\ \A r \in Refs : Cost[r] <= MaxCost
    /\ Policies \in Seq([refs : SUBSET Refs, kinds : SUBSET Kinds, min_chain_depth : Nat,
                         effect : Effects])
    /\ DailyCeiling \in Nat /\ MonthlyCeiling \in Nat
    /\ MaxDay \in Nat \ {0}
    /\ MonthStart \in [Days -> Days] /\ MonthEnd \in [Days -> 2..(MaxDay + 1)]
    /\ \A d \in Days : MonthStart[d] <= d /\ d < MonthEnd[d]
    /\ \A d, e \in Days :
          MonthStart[e] <= d /\ d < MonthEnd[e] =>
              MonthStart[d] = MonthStart[e] /\ MonthEnd[d] = MonthEnd[e]

VARIABLES
    persist,     \* budgets.model_call.persist: "memory", "file" or "db"
    today,       \* the UTC day
    spent,       \* per ledger: what spent_since answers for each day
    file,        \* the spend file, likewise
    walk,        \* per task: where it is, the rest of its chain, the day of its
                 \* check, and the references it was refused
    dispatched   \* per day: the cost of the calls the shared ledger let through

vars == <<persist, today, spent, file, walk, dispatched>>

Ledgers == Processes \cup {Shared}
NothingSpent == [d \in 1..(MaxDay + 1) |-> 0]

Idle == [at |-> "idle", chain |-> <<>>, day |-> 1, refused |-> {}]

Init ==
    /\ persist \in {"memory", "file", "db"}
    /\ today = 1
    /\ spent = [l \in Ledgers |-> NothingSpent]
    /\ file = NothingSpent
    /\ walk = [w \in Walks |-> Idle]
    /\ dispatched = [d \in Days |-> 0]

-----------------------------------------------------------------------------
(* Policies and ledgers                                                    *)

\* check_model_call is never given an identity: the one it makes has no hops.
ChainDepth == 0

Matches(policy, kind, ref) ==
    /\ ref \in policy.refs
    /\ kind \in policy.kinds
    /\ ChainDepth >= policy.min_chain_depth

\* _match_policy: the effect of the first policy that matches.
Effect(kind, ref) ==
    LET matching == {i \in DOMAIN Policies : Matches(Policies[i], kind, ref)}
    IN  IF matching = {} THEN "allow"
        ELSE Policies[CHOOSE i \in matching : \A j \in matching : i <= j].effect

\* budget_ledger_for: the process-wide ledger of the persona, or the table.
Ledger(w) == IF persist = "db" THEN Shared ELSE Home[w]

\* Mutant of Charged: the ledger is a balance that is drawn down.
ChargedDown(ledger, day, cost) ==
    [d \in DOMAIN ledger |-> IF d <= day THEN ledger[d] - cost ELSE ledger[d]]

\* A cost recorded on a day counts for every window that began by then.
Charged(ledger, day, cost) ==
    [d \in DOMAIN ledger |-> IF d <= day THEN ledger[d] + cost ELSE ledger[d]]

Sections == {"check", "daily", "monthly", "record", "bind"}
\* No task of the process is in a section that does not await.
LoopFree(p) == \A w \in Walks : Home[w] = p => walk[w].at \notin Sections

At(w, place) == walk[w].at = place
Ref(w) == Head(walk[w].chain)
Move(w, place) == walk' = [walk EXCEPT ![w].at = place]

-----------------------------------------------------------------------------
(* The walk                                                                *)

\* A task that goes on with the next reference, or gives up after the last.
Advanced(w, refused) ==
    IF Len(walk[w].chain) = 1 THEN Idle
    ELSE [walk[w] EXCEPT !.at = "check", !.chain = Tail(@), !.refused = @ \cup refused]

\* A binding that fails is not the end of the walk.
Advance(w) == walk' = [walk EXCEPT ![w] = Advanced(w, {})]

\* Mutant of Refuse: a refusal is taken for a failure to bind.
RefuseWalksOn(w) == walk' = [walk EXCEPT ![w] = Advanced(w, {Ref(w)})]

\* A refusal is a policy stop, except to the router, which tries the next one.
Refuse(w) ==
    walk' = [walk EXCEPT ![w] =
                IF Kind[w] = "router" THEN Advanced(w, {}) ELSE Idle]

Begin(w, chain) ==
    /\ walk[w].at \in {"idle", "bound"}
    /\ LoopFree(Home[w])
    /\ walk' = [walk EXCEPT ![w] = [Idle EXCEPT !.at = "check", !.chain = chain]]
    /\ UNCHANGED <<persist, today, spent, file, dispatched>>

\* A call that needs confirmation: a harness consults its approval store, if it has
\* one (an approval may be consumed; the call be suspended, or was denied; a store
\* that fails is like a failing binding).  A confirmed call does not reach the budget.
Confirm(w) ==
    \/ Kind[w] = "harness" /\ Move(w, "bind")
    \/ Kind[w] = "harness" /\ Advance(w)
    \/ Refuse(w)

Check(w) ==
    /\ At(w, "check")
    /\ CASE Effect(Kind[w], Ref(w)) = "deny" -> Refuse(w)
         [] Effect(Kind[w], Ref(w)) = "require_confirmation" -> Confirm(w)
         [] OTHER -> walk' = [walk EXCEPT ![w].at = "daily", ![w].day = today]
    /\ UNCHANGED <<persist, today, spent, file, dispatched>>

WithinCeiling(w, ceiling, since) ==
    ceiling > 0 => spent[Ledger(w)][since] + Cost[Ref(w)] <= ceiling

\* Mutant of ReadDaily: the cost of the call itself is left out.
ReadDailySpentOnly(w) ==
    /\ At(w, "daily")
    /\ IF DailyCeiling > 0 => spent[Ledger(w)][walk[w].day] <= DailyCeiling
       THEN Move(w, "monthly") ELSE Refuse(w)
    /\ UNCHANGED <<persist, today, spent, file, dispatched>>

ReadDaily(w) ==
    /\ At(w, "daily")
    /\ IF WithinCeiling(w, DailyCeiling, walk[w].day) THEN Move(w, "monthly") ELSE Refuse(w)
    /\ UNCHANGED <<persist, today, spent, file, dispatched>>

ReadMonthly(w) ==
    /\ At(w, "monthly")
    /\ IF WithinCeiling(w, MonthlyCeiling, MonthStart[walk[w].day])
       THEN Move(w, "record") ELSE Refuse(w)
    /\ UNCHANGED <<persist, today, spent, file, dispatched>>

\* The spend is recorded under the time of the check.  The file is written whole,
\* from the entries of this process; failing to write it is only logged.
Record(w) ==
    /\ At(w, "record")
    /\ spent' = [spent EXCEPT ![Ledger(w)] = Charged(@, walk[w].day, Cost[Ref(w)])]
    /\ \/ persist = "file" /\ Cost[Ref(w)] > 0 /\ file' = spent'[Home[w]]
       \/ UNCHANGED file
    /\ Move(w, "bind")
    /\ UNCHANGED <<persist, today, dispatched>>

\* Mutant of LedgerFails: the spend is not recorded, and the call let through.
LedgerFailsOpen(w) ==
    /\ persist = "db"
    /\ At(w, "record") /\ Cost[Ref(w)] > 0
    /\ Move(w, "bind")
    /\ UNCHANGED <<persist, today, spent, file, dispatched>>

\* The ledger is used and the database does not answer: to every walker an
\* exception like one of the binding.
LedgerFails(w) ==
    /\ persist = "db"
    /\ \/ At(w, "daily") /\ DailyCeiling > 0
       \/ At(w, "monthly") /\ MonthlyCeiling > 0
       \/ At(w, "record") /\ Cost[Ref(w)] > 0
    /\ Advance(w)
    /\ UNCHANGED <<persist, today, spent, file, dispatched>>

\* The model is bound; the router and reflection invoke it at once.
Bind(w) ==
    /\ At(w, "bind")
    /\ Move(w, IF Kind[w] = "harness" THEN "bound" ELSE "invoking")
    /\ dispatched' =
         IF persist = "db" /\ Effect(Kind[w], Ref(w)) # "require_confirmation"
         THEN [dispatched EXCEPT ![walk[w].day] = @ + Cost[Ref(w)]] ELSE dispatched
    /\ UNCHANGED <<persist, today, spent, file>>

BindFails(w) ==
    /\ At(w, "bind") /\ Kind[w] # "reflection"
    /\ Advance(w)
    /\ UNCHANGED <<persist, today, spent, file, dispatched>>

Answer(w) ==
    /\ At(w, "invoking") /\ LoopFree(Home[w])
    /\ walk' = [walk EXCEPT ![w] = Idle]
    /\ UNCHANGED <<persist, today, spent, file, dispatched>>

\* The invocation fails (or reflection is answered nothing): the next reference.
InvocationFails(w) ==
    /\ At(w, "invoking") /\ LoopFree(Home[w])
    /\ Advance(w)
    /\ UNCHANGED <<persist, today, spent, file, dispatched>>

-----------------------------------------------------------------------------

NewDay ==
    /\ today < MaxDay
    /\ today' = today + 1
    /\ UNCHANGED <<persist, spent, file, walk, dispatched>>

\* A process dies and is started again.  Its ledger starts from nothing, or from
\* the file; a file that cannot be read (being written, torn by a crash) is empty.
Restart(p) ==
    /\ walk' = [w \in Walks |-> IF Home[w] = p THEN Idle ELSE walk[w]]
    /\ spent' \in {[spent EXCEPT ![p] = entries] :
                      entries \in {NothingSpent} \cup (IF persist = "file" THEN {file} ELSE {})}
    /\ file' \in {file} \cup
         (IF persist = "file" /\ \E w \in Walks : Home[w] = p /\ At(w, "record")
          THEN {NothingSpent} ELSE {})
    /\ UNCHANGED <<persist, today, dispatched>>

Next ==
    \/ \E w \in Walks :
          \/ \E chain \in Chains : Begin(w, chain)
          \/ Check(w)
          \/ ReadDaily(w)
          \/ ReadMonthly(w)
          \/ Record(w)
          \/ LedgerFails(w)
          \/ Bind(w)
          \/ BindFails(w)
          \/ Answer(w)
          \/ InvocationFails(w)
    \/ NewDay
    \/ \E p \in Processes : Restart(p)

Spec == Init /\ [][Next]_vars

-----------------------------------------------------------------------------
(* Properties                                                              *)

Spends == [1..(MaxDay + 1) -> Nat]

\* Type invariant.
TypeOK ==
    /\ persist \in {"memory", "file", "db"}
    /\ today \in Days
    /\ spent \in [Ledgers -> Spends]
    /\ file \in Spends
    /\ walk \in [Walks -> [at : {"idle", "bound", "invoking"} \cup Sections,
                           chain : Seq(Refs), day : Days, refused : SUBSET Refs]]
    /\ dispatched \in [Days -> Nat]

\* The days on which a budget starts again, and what was spent from one to the next.
DayWindows == {<<d, d + 1>> : d \in Days}
MonthWindows == {<<MonthStart[d], MonthEnd[d]>> : d \in Days}
SpentIn(l, window) == spent[l][window[1]] - spent[l][window[2]]

\* The budget of each window is kept: exactly by the ledger of one process, and by
\* the shared one up to the calls of other processes that were checked against the
\* same balance.  (check_action tests and records in separate transactions.)
BudgetKept(windows, ceiling) ==
    ceiling > 0 =>
        \A l \in Ledgers, window \in windows :
            IF l = Shared
            THEN SpentIn(l, window) < ceiling + MaxCost * Cardinality(Processes)
            ELSE SpentIn(l, window) <= ceiling

CeilingKept ==
    /\ BudgetKept(DayWindows, DailyCeiling)
    /\ BudgetKept(MonthWindows, MonthlyCeiling)

\* Every call let through without a human's confirmation is on the shared ledger, on
\* the day of its check, however many references were tried before it and whichever
\* process restarted.  (A confirmed call is not.)
DispatchesCharged ==
    \A d \in Days : dispatched[d] <= SpentIn(Shared, <<d, d + 1>>)

\* What a task may use: never a reference its policies deny, one that needs
\* confirmation only after a human's, and, but for the router, nothing once a
\* reference was refused.  ("A policy stop, not a provider failure".)
DispatchesPermitted ==
    \A w \in Walks :
        walk[w].at \in {"bound", "invoking"} =>
            /\ Effect(Kind[w], Ref(w)) # "deny"
            /\ Effect(Kind[w], Ref(w)) = "require_confirmation" => Kind[w] = "harness"
            /\ Kind[w] # "router" => walk[w].refused = {}

=============================================================================
