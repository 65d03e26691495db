------------------------- MODULE ModelCallsProofs -------------------------
(***************************************************************************)
(* Proofs for ModelCalls: budgets are kept, exactly by the ledger of a     *)
(* process and up to one call of each process by the shared one; no        *)
(* reference is used that the policies do not permit; and what is let      *)
(* through is on the ledger.                                               *)
(***************************************************************************)
EXTENDS ModelCalls, FiniteSetTheorems, TLAPS

\* The walks that passed the test of a window's budget and have yet to record.
\* `places' are the places after that test.
Owing(w, window, places) ==
    /\ walk[w].at \in places
    /\ window[1] <= walk[w].day /\ walk[w].day < window[2]
    /\ Cost[Ref(w)] > 0
Pending(window, places) == {w \in Walks : Owing(w, window, places)}

\* Of the ledgers in use: the money spent and owed is within the budget.
LocalInv(window, ceiling, places) ==
    persist # "db" =>
        /\ \A p \in Processes : SpentIn(p, window) <= ceiling
        /\ file[window[1]] - file[window[2]] <= ceiling
        /\ \A w \in Walks :
              Owing(w, window, places) => SpentIn(Home[w], window) + Cost[Ref(w)] <= ceiling
SharedInv(window, ceiling, places) ==
    persist = "db" =>
        SpentIn(Shared, window) + MaxCost * Cardinality(Pending(window, places))
            < ceiling + MaxCost * Cardinality(Processes)
WindowInv(window, ceiling, places) ==
    LocalInv(window, ceiling, places) /\ SharedInv(window, ceiling, places)

DayPlaces == {"monthly", "record"}
MonthPlaces == {"record"}
BudgetInv ==
    /\ DailyCeiling > 0 =>
          \A window \in DayWindows : WindowInv(window, DailyCeiling, DayPlaces)
    /\ MonthlyCeiling > 0 =>
          \A window \in MonthWindows : WindowInv(window, MonthlyCeiling, MonthPlaces)

\* The ledgers not in use stay empty.
UnusedInv ==
    /\ persist = "db" => \A p \in Processes : spent[p] = NothingSpent
    /\ persist # "db" => spent[Shared] = NothingSpent

\* One section at a time in a process, and there is a reference to be tried.
SectionInv ==
    /\ \A v, w \in Walks :
          v # w /\ Home[v] = Home[w] => walk[v].at \notin Sections \/ walk[w].at \notin Sections
    /\ \A w \in Walks : walk[w].at # "idle" => walk[w].chain # <<>>

\* What was found permitted stays so up to the dispatch.
PermitInv ==
    \A w \in Walks :
        /\ walk[w].refused = {}
        /\ walk[w].at \in {"daily", "monthly", "record"} =>
              Effect(Kind[w], Ref(w)) \notin {"deny", "require_confirmation"}
        /\ walk[w].at \in {"bind", "bound", "invoking"} =>
              /\ Effect(Kind[w], Ref(w)) # "deny"
              /\ Effect(Kind[w], Ref(w)) = "require_confirmation" => Kind[w] = "harness"

IInv == TypeOK /\ SectionInv /\ UnusedInv /\ PermitInv /\ BudgetInv

-----------------------------------------------------------------------------
(* Arithmetic and counting                                                 *)

LEMMA TimesMonotone ==
    ASSUME NEW m \in Nat, NEW x \in Nat, NEW y \in Nat, x <= y
    PROVE  m * x <= m * y
<1>1. PICK z \in Nat : y = x + z
  <2>1. y - x \in Nat /\ y = x + (y - x)
    OBVIOUS
  <2> QED
    BY <2>1
<1>2. m * y = m * x + m * z
  BY <1>1
<1>3. m * z \in Nat /\ m * x \in Nat
  OBVIOUS
<1> QED
  BY <1>2, <1>3

LEMMA TimesSuccessor ==
    ASSUME NEW m \in Nat, NEW x \in Nat
    PROVE  m * (x + 1) = m * x + m
OBVIOUS

LEMMA OnePerProcess ==
    ASSUME NEW S \in SUBSET Walks, \A v, w \in S : Home[v] = Home[w] => v = w
    PROVE  /\ IsFiniteSet(S)
           /\ Cardinality(S) \in Nat
           /\ Cardinality(Processes) \in Nat
           /\ Cardinality(S) <= Cardinality(Processes)
<1> DEFINE f == [w \in S |-> Home[w]]
<1>1. f \in Injection(S, Processes)
  BY ConstantsAssumption DEF Injection, IsInjective
<1>2. IsFiniteSet(Processes)
  BY ConstantsAssumption
<1>3. IsFiniteSet(S) /\ Cardinality(S) <= Cardinality(Processes)
  BY <1>1, <1>2, FS_Injection
<1> QED
  BY <1>2, <1>3, FS_CardinalityType

-----------------------------------------------------------------------------
(* What a step does to the budget of one window                            *)

Window(window) ==
    /\ window[1] \in Days /\ window[2] \in 1..(MaxDay + 1)
    /\ window[1] < window[2]

LEMMA WindowsWellFormed ==
    \A window \in DayWindows \cup MonthWindows : Window(window)
<1>1. ASSUME NEW d \in Days PROVE Window(<<d, d + 1>>)
  BY ConstantsAssumption DEF Window, Days
<1>2. ASSUME NEW d \in Days PROVE Window(<<MonthStart[d], MonthEnd[d]>>)
  <2>1. /\ MonthStart[d] \in Days /\ MonthEnd[d] \in 2..(MaxDay + 1)
        /\ MonthStart[d] <= d /\ d < MonthEnd[d] /\ d \in Nat /\ MaxDay \in Nat
    BY ConstantsAssumption DEF Days
  <2> QED
    BY <2>1 DEF Window, Days
<1> QED
  BY <1>1, <1>2 DEF DayWindows, MonthWindows

LEMMA SpendIsNatural ==
    ASSUME TypeOK, NEW window, Window(window), NEW l \in Ledgers
    PROVE  spent[l][window[1]] \in Nat /\ spent[l][window[2]] \in Nat
<1>1. MaxDay \in Nat
  BY ConstantsAssumption
<1>2. window[1] \in 1..(MaxDay + 1) /\ window[2] \in 1..(MaxDay + 1)
  BY <1>1 DEF Window, Days
<1>3. spent[l] \in [1..(MaxDay + 1) -> Nat]
  BY DEF TypeOK, Spends
<1> QED
  BY <1>2, <1>3

\* No walk begins to owe.
LEMMA LeaveKeepsBudget ==
    ASSUME TypeOK, TypeOK', SectionInv, SectionInv',
           NEW window, NEW ceiling \in Nat, NEW places, places \subseteq Sections,
           WindowInv(window, ceiling, places), Window(window),
           spent' = spent, file' = file, persist' = persist,
           \A w \in Walks : Owing(w, window, places)' => Owing(w, window, places) /\ Ref(w)' = Ref(w)
    PROVE  WindowInv(window, ceiling, places)'
<1> DEFINE S == Pending(window, places)
<1>1. LocalInv(window, ceiling, places)'
  BY DEF WindowInv, LocalInv, SpentIn
<1>2. SharedInv(window, ceiling, places)'
  <2> SUFFICES ASSUME persist = "db"
               PROVE  SpentIn(Shared, window) + MaxCost * Cardinality(S')
                         < ceiling + MaxCost * Cardinality(Processes)
    BY DEF SharedInv, SpentIn
  <2>1. S' \subseteq S
    BY DEF Pending
  <2>2. IsFiniteSet(S) /\ Cardinality(S) \in Nat /\ Cardinality(Processes) \in Nat
    <3>1. \A v, w \in S : Home[v] = Home[w] => v = w
      BY DEF SectionInv, Pending, Owing
    <3> QED
      BY <3>1, OnePerProcess DEF Pending
  <2>3. Cardinality(S') <= Cardinality(S) /\ Cardinality(S') \in Nat
    BY <2>1, <2>2, FS_Subset, FS_CardinalityType
  <2>4. MaxCost * Cardinality(S') <= MaxCost * Cardinality(S)
    BY <2>2, <2>3, TimesMonotone, ConstantsAssumption
  <2>5. SpentIn(Shared, window) + MaxCost * Cardinality(S)
           < ceiling + MaxCost * Cardinality(Processes)
    BY DEF WindowInv, SharedInv
  <2>6. SpentIn(Shared, window) \in Int
    BY SpendIsNatural DEF SpentIn, Ledgers
  <2>7. MaxCost * Cardinality(S') \in Nat /\ MaxCost * Cardinality(S) \in Nat
        /\ MaxCost * Cardinality(Processes) \in Nat
    BY <2>2, <2>3, ConstantsAssumption
  <2> QED
    BY <2>4, <2>5, <2>6, <2>7
<1> QED
  BY <1>1, <1>2 DEF WindowInv

\* A walk passes the test and owes.
LEMMA EnterKeepsBudget ==
    ASSUME TypeOK, TypeOK', SectionInv, SectionInv',
           NEW window, NEW ceiling \in Nat, NEW places, places \subseteq Sections,
           WindowInv(window, ceiling, places), Window(window),
           spent' = spent, file' = file, persist' = persist,
           NEW w \in Walks, walk[w].chain # <<>>,
           NEW place, walk' = [walk EXCEPT ![w].at = place],
           spent[Ledger(w)][window[1]] + Cost[Ref(w)] <= ceiling
    PROVE  WindowInv(window, ceiling, places)'
<1>0. \A l \in Ledgers : spent[l][window[1]] \in Nat /\ spent[l][window[2]] \in Nat
  BY SpendIsNatural
<1>1. Ref(w) \in Refs /\ Cost[Ref(w)] \in Nat
  <2>1. walk[w].chain \in Seq(Refs)
    BY DEF TypeOK
  <2>2. Head(walk[w].chain) \in Refs
    BY <2>1
  <2> QED
    BY <2>2, ConstantsAssumption DEF Ref
<1>2. \A v \in Walks : Ref(v)' = Ref(v) /\ (v # w => walk'[v] = walk[v])
  BY DEF Ref, TypeOK
<1>3. LocalInv(window, ceiling, places)'
  <2> SUFFICES ASSUME persist # "db", NEW v \in Walks, Owing(v, window, places)'
               PROVE  SpentIn(Home[v], window) + Cost[Ref(v)] <= ceiling
    BY <1>2 DEF WindowInv, LocalInv, SpentIn
  <2>1. CASE v # w
    BY <1>2, <2>1 DEF Owing, WindowInv, LocalInv
  <2>2. CASE v = w
    <3>1. Home[w] \in Ledgers
      BY ConstantsAssumption DEF Ledgers
    <3> QED
      BY <1>0, <1>1, <2>2, <3>1 DEF Ledger, SpentIn
  <2> QED
    BY <2>1, <2>2
<1>4. SharedInv(window, ceiling, places)'
  <2> SUFFICES ASSUME persist = "db"
               PROVE  SpentIn(Shared, window) + MaxCost * Cardinality(Pending(window, places)')
                         < ceiling + MaxCost * Cardinality(Processes)
    BY DEF SharedInv, SpentIn
  <2>1. CASE Owing(w, window, places)'
    <3>1. Cost[Ref(w)] > 0
      BY <1>2, <2>1 DEF Owing
    <3>2. SpentIn(Shared, window) < ceiling /\ SpentIn(Shared, window) \in Int
      BY <1>0, <1>1, <3>1 DEF Ledger, Ledgers, SpentIn
    <3>3. /\ Cardinality(Pending(window, places)') \in Nat /\ Cardinality(Processes) \in Nat
          /\ Cardinality(Pending(window, places)') <= Cardinality(Processes)
      <4>1. \A u, v \in Pending(window, places)' : Home[u] = Home[v] => u = v
        BY DEF SectionInv, Pending, Owing
      <4> QED
        BY <4>1, OnePerProcess DEF Pending
    <3>4. MaxCost * Cardinality(Pending(window, places)') <= MaxCost * Cardinality(Processes)
      BY <3>3, TimesMonotone, ConstantsAssumption
    <3>5. /\ MaxCost * Cardinality(Pending(window, places)') \in Nat
          /\ MaxCost * Cardinality(Processes) \in Nat
      BY <3>3, ConstantsAssumption
    <3> QED
      BY <3>2, <3>4, <3>5
  <2>2. CASE ~Owing(w, window, places)'
    <3>1. \A v \in Walks : Owing(v, window, places)' => Owing(v, window, places) /\ Ref(v)' = Ref(v)
      BY <1>2, <2>2 DEF Owing
    <3>2. WindowInv(window, ceiling, places)'
      BY <3>1, LeaveKeepsBudget
    <3> QED
      BY <3>2 DEF WindowInv, SharedInv, SpentIn
  <2> QED
    BY <2>1, <2>2
<1> QED
  BY <1>3, <1>4 DEF WindowInv

LEMMA ChargedWindow ==
    ASSUME NEW f \in Spends, NEW day \in Days, NEW cost \in Nat, NEW window, Window(window)
    PROVE  LET g == Charged(f, day, cost)
           IN  /\ g \in Spends
               /\ window[1] <= day /\ day < window[2] =>
                     g[window[1]] - g[window[2]] = f[window[1]] - f[window[2]] + cost
               /\ ~(window[1] <= day /\ day < window[2]) =>
                     g[window[1]] - g[window[2]] = f[window[1]] - f[window[2]]
<1> DEFINE g == Charged(f, day, cost)
<1>1. MaxDay \in Nat /\ day \in Nat
  BY ConstantsAssumption DEF Days
<1>2. /\ window[1] \in 1..(MaxDay + 1) /\ window[2] \in 1..(MaxDay + 1)
      /\ window[1] \in Nat /\ window[2] \in Nat /\ window[1] < window[2]
  BY <1>1 DEF Window, Days
<1>3. DOMAIN f = 1..(MaxDay + 1) /\ \A d \in 1..(MaxDay + 1) : f[d] \in Nat
  BY DEF Spends
<1>4. \A d \in 1..(MaxDay + 1) : g[d] = IF d <= day THEN f[d] + cost ELSE f[d]
  BY <1>3 DEF Charged
<1>5. g \in Spends
  BY <1>1, <1>3 DEF Charged, Spends
<1>6. /\ f[window[1]] \in Nat /\ f[window[2]] \in Nat
      /\ g[window[1]] = IF window[1] <= day THEN f[window[1]] + cost ELSE f[window[1]]
      /\ g[window[2]] = IF window[2] <= day THEN f[window[2]] + cost ELSE f[window[2]]
  BY <1>2, <1>3, <1>4
<1> HIDE DEF g
<1>7. ~(window[1] <= day /\ day < window[2]) => window[1] > day \/ window[2] <= day
  BY <1>1, <1>2
<1> QED
  BY <1>1, <1>2, <1>5, <1>6, <1>7 DEF g

LEMMA RecordKeepsBudget ==
    ASSUME TypeOK, TypeOK', SectionInv, SectionInv',
           NEW window, NEW ceiling \in Nat, NEW places, places \subseteq Sections,
           "record" \in places, "bind" \notin places,
           WindowInv(window, ceiling, places), Window(window),
           NEW w \in Walks, Record(w)
    PROVE  WindowInv(window, ceiling, places)'
<1> DEFINE S == Pending(window, places)
<1>l. PICK L \in Ledgers : L = Ledger(w)
  BY ConstantsAssumption DEF Ledger, Ledgers
<1>c. PICK cost : cost = Cost[Ref(w)]
  OBVIOUS
<1>0. /\ Home[w] \in Ledgers /\ Shared \in Ledgers
      /\ persist' = persist /\ walk[w].day \in Days /\ walk[w].at = "record"
  BY ConstantsAssumption DEF Ledger, Ledgers, Record, TypeOK, At
<1>1. cost \in Nat /\ cost <= MaxCost /\ MaxCost \in Nat
  <2>1. walk[w].chain \in Seq(Refs) /\ walk[w].chain # <<>>
    BY <1>0 DEF TypeOK, SectionInv
  <2>2. Head(walk[w].chain) \in Refs
    BY <2>1
  <2> QED
    BY <1>c, <2>2, ConstantsAssumption DEF Ref
<1>2. \A v \in Walks : Ref(v)' = Ref(v) /\ (v # w => walk'[v] = walk[v])
  BY DEF Ref, TypeOK, Record, Move
<1>3. ~Owing(w, window, places)' /\ \A v \in Walks \ {w} : Owing(v, window, places)' <=> Owing(v, window, places)
  <2>1. walk'[w].at = "bind"
    BY DEF TypeOK, Record, Move
  <2> QED
    BY <1>2, <2>1 DEF Owing
<1>4. /\ spent[L] \in Spends
      /\ spent'[L] = Charged(spent[L], walk[w].day, cost)
      /\ \A l \in Ledgers : l # L => spent'[l] = spent[l]
  BY <1>0, <1>c, <1>l DEF TypeOK, Record
<1>5. /\ SpentIn(L, window) \in Int
      /\ Owing(w, window, places) => SpentIn(L, window)' = SpentIn(L, window) + cost
      /\ ~Owing(w, window, places) => SpentIn(L, window)' = SpentIn(L, window)
  <2>1. SpentIn(L, window) \in Int
    BY <1>0, SpendIsNatural DEF SpentIn
  <2>2. CASE window[1] <= walk[w].day /\ walk[w].day < window[2]
    <3>1. SpentIn(L, window)' = SpentIn(L, window) + cost
      BY <1>0, <1>1, <1>4, <2>2, ChargedWindow DEF SpentIn
    <3>2. ~Owing(w, window, places) => cost = 0
      BY <1>0, <1>1, <1>c, <2>2 DEF Owing
    <3> QED
      BY <2>1, <3>1, <3>2
  <2>3. CASE ~(window[1] <= walk[w].day /\ walk[w].day < window[2])
    <3>1. SpentIn(L, window)' = SpentIn(L, window)
      BY <1>0, <1>1, <1>4, <2>3, ChargedWindow DEF SpentIn
    <3> QED
      BY <2>1, <2>3, <3>1 DEF Owing
  <2> QED
    BY <2>2, <2>3
<1>6. \A l \in Ledgers : l # L => SpentIn(l, window)' = SpentIn(l, window)
  BY <1>4 DEF SpentIn
<1>7. LocalInv(window, ceiling, places)'
  <2> SUFFICES ASSUME persist # "db" PROVE LocalInv(window, ceiling, places)'
    BY <1>0 DEF LocalInv
  <2>0. L = Home[w] /\ L \in Processes
    BY <1>l, ConstantsAssumption DEF Ledger
  <2>1. SpentIn(L, window)' <= ceiling
    BY <1>5, <1>c, <2>0 DEF WindowInv, LocalInv
  <2>2. \A p \in Processes : SpentIn(p, window)' <= ceiling
    BY <1>6, <2>1 DEF WindowInv, LocalInv, Ledgers
  <2>3. file'[window[1]] - file'[window[2]] <= ceiling
    <3>1. CASE file' = spent'[Home[w]]
      BY <2>0, <2>1, <3>1 DEF SpentIn
    <3>2. CASE file' = file
      BY <3>2 DEF WindowInv, LocalInv
    <3> QED
      BY <3>1, <3>2 DEF Record
  <2>4. ASSUME NEW v \in Walks, Owing(v, window, places)'
        PROVE  (SpentIn(Home[v], window) + Cost[Ref(v)] <= ceiling)'
    <3>1. v # w /\ Owing(v, window, places)
      BY <1>3, <2>4
    <3>2. Home[v] # Home[w]
      BY <1>0, <3>1 DEF SectionInv, Owing, Sections
    <3>3. SpentIn(Home[v], window)' = SpentIn(Home[v], window)
      BY <1>6, <2>0, <3>2, ConstantsAssumption DEF Ledgers
    <3> QED
      BY <1>2, <3>1, <3>3 DEF WindowInv, LocalInv
  <2> QED
    BY <2>2, <2>3, <2>4 DEF LocalInv
<1>8. SharedInv(window, ceiling, places)'
  <2> SUFFICES ASSUME persist = "db"
               PROVE  SpentIn(Shared, window)' + MaxCost * Cardinality(S')
                         < ceiling + MaxCost * Cardinality(Processes)
    BY <1>0 DEF SharedInv
  <2>0. L = Shared
    BY <1>l DEF Ledger
  <2>1. /\ IsFiniteSet(S) /\ Cardinality(S) \in Nat /\ Cardinality(Processes) \in Nat
    <3>1. \A u, v \in S : Home[u] = Home[v] => u = v
      BY DEF SectionInv, Pending, Owing
    <3> QED
      BY <3>1, OnePerProcess DEF Pending
  <2>2. SpentIn(Shared, window) + MaxCost * Cardinality(S)
           < ceiling + MaxCost * Cardinality(Processes)
    BY DEF WindowInv, SharedInv
  <2>3. S' = S \ {w}
    BY <1>3 DEF Pending
  <2>4. CASE Owing(w, window, places)
    <3>1. w \in S
      BY <2>4 DEF Pending
    <3>2. Cardinality(S') \in Nat /\ Cardinality(S) = Cardinality(S') + 1
      <4>1. IsFiniteSet(S \ {w}) /\ Cardinality(S \ {w}) = Cardinality(S) - 1
        BY <2>1, <3>1, FS_RemoveElement
      <4>2. Cardinality(S \ {w}) \in Nat
        BY <4>1, FS_CardinalityType
      <4> HIDE DEF S
      <4> QED
        BY <2>1, <2>3, <4>1, <4>2
    <3>3. MaxCost * Cardinality(S) = MaxCost * Cardinality(S') + MaxCost
      BY <1>1, <3>2, TimesSuccessor
    <3>4. /\ MaxCost * Cardinality(S') \in Nat /\ MaxCost * Cardinality(Processes) \in Nat
      BY <1>1, <2>1, <3>2
    <3>5. SpentIn(Shared, window)' = SpentIn(Shared, window) + cost
      BY <1>5, <2>0, <2>4
    <3> HIDE DEF S
    <3>6. SpentIn(Shared, window) \in Int
      BY <1>5, <2>0
    <3> QED
      BY <1>1, <2>2, <3>3, <3>4, <3>5, <3>6
  <2>5. CASE ~Owing(w, window, places)
    <3>1. S' = S
      BY <2>3, <2>5 DEF Pending
    <3> QED
      BY <1>5, <2>0, <2>2, <2>5, <3>1
  <2> QED
    BY <2>4, <2>5
<1> QED
  BY <1>7, <1>8 DEF WindowInv

LEMMA RestartKeepsBudget ==
    ASSUME TypeOK, TypeOK', SectionInv, SectionInv',
           NEW window, NEW ceiling \in Nat, NEW places, places \subseteq Sections,
           WindowInv(window, ceiling, places), Window(window),
           NEW p \in Processes, Restart(p)
    PROVE  WindowInv(window, ceiling, places)'
<1>0. persist' = persist /\ p # Shared /\ p \in Ledgers
  BY ConstantsAssumption DEF Restart, Ledgers
<1>1. \A v \in Walks : Owing(v, window, places)' =>
         Home[v] # p /\ Owing(v, window, places) /\ Ref(v)' = Ref(v)
  BY DEF Restart, Owing, Ref, Idle, Sections
<1>2. NothingSpent[window[1]] = 0 /\ NothingSpent[window[2]] = 0
  <2>1. MaxDay \in Nat
    BY ConstantsAssumption
  <2>2. window[1] \in 1..(MaxDay + 1) /\ window[2] \in 1..(MaxDay + 1)
    BY <2>1 DEF Window, Days
  <2> QED
    BY <2>2 DEF NothingSpent
<1>3. /\ \A l \in Ledgers \ {p} : SpentIn(l, window)' = SpentIn(l, window)
      /\ \/ SpentIn(p, window)' = 0
         \/ persist # "db" /\ SpentIn(p, window)' = file[window[1]] - file[window[2]]
  <2>1. PICK entries \in {NothingSpent} \cup (IF persist = "file" THEN {file} ELSE {}) :
           spent' = [spent EXCEPT ![p] = entries]
    BY DEF Restart
  <2>2. spent'[p] = entries /\ \A l \in Ledgers \ {p} : spent'[l] = spent[l]
    BY <1>0, <2>1 DEF TypeOK
  <2> QED
    BY <1>2, <2>1, <2>2 DEF SpentIn
<1>4. LocalInv(window, ceiling, places)'
  <2> SUFFICES ASSUME persist # "db" PROVE LocalInv(window, ceiling, places)'
    BY <1>0 DEF LocalInv
  <2>1. file'[window[1]] - file'[window[2]] <= ceiling
    <3>1. CASE file' = file
      BY <3>1 DEF WindowInv, LocalInv
    <3>2. CASE file' = NothingSpent
      BY <1>2, <3>2
    <3> QED
      BY <3>1, <3>2 DEF Restart
  <2>2. \A q \in Processes : SpentIn(q, window)' <= ceiling
    BY <1>3 DEF WindowInv, LocalInv, Ledgers
  <2>3. ASSUME NEW v \in Walks, Owing(v, window, places)'
        PROVE  (SpentIn(Home[v], window) + Cost[Ref(v)] <= ceiling)'
    <3>1. SpentIn(Home[v], window)' = SpentIn(Home[v], window)
      BY <1>1, <1>3, <2>3, ConstantsAssumption DEF Ledgers
    <3> QED
      BY <1>1, <2>3, <3>1 DEF WindowInv, LocalInv
  <2> QED
    BY <2>1, <2>2, <2>3 DEF LocalInv
<1>5. SharedInv(window, ceiling, places)'
  <2> DEFINE S == Pending(window, places)
  <2> SUFFICES ASSUME persist = "db"
               PROVE  SpentIn(Shared, window)' + MaxCost * Cardinality(S')
                         < ceiling + MaxCost * Cardinality(Processes)
    BY <1>0 DEF SharedInv
  <2>1. S' \subseteq S
    BY <1>1 DEF Pending
  <2>2. /\ IsFiniteSet(S) /\ Cardinality(S) \in Nat /\ Cardinality(Processes) \in Nat
    <3>1. \A u, v \in S : Home[u] = Home[v] => u = v
      BY DEF SectionInv, Pending, Owing
    <3> QED
      BY <3>1, OnePerProcess DEF Pending
  <2>3. Cardinality(S') <= Cardinality(S) /\ Cardinality(S') \in Nat
    BY <2>1, <2>2, FS_Subset, FS_CardinalityType
  <2>4. MaxCost * Cardinality(S') <= MaxCost * Cardinality(S)
    BY <2>2, <2>3, TimesMonotone, ConstantsAssumption
  <2>5. SpentIn(Shared, window) + MaxCost * Cardinality(S)
           < ceiling + MaxCost * Cardinality(Processes)
    BY DEF WindowInv, SharedInv
  <2>6. SpentIn(Shared, window)' = SpentIn(Shared, window) /\ SpentIn(Shared, window) \in Int
    BY <1>0, <1>3, SpendIsNatural DEF SpentIn, Ledgers
  <2>7. MaxCost * Cardinality(S') \in Nat /\ MaxCost * Cardinality(S) \in Nat
        /\ MaxCost * Cardinality(Processes) \in Nat
    BY <2>2, <2>3, ConstantsAssumption
  <2> QED
    BY <2>4, <2>5, <2>6, <2>7
<1> QED
  BY <1>4, <1>5 DEF WindowInv

-----------------------------------------------------------------------------
(* The invariant                                                           *)

WalkRecords == [at : {"idle", "bound", "invoking"} \cup Sections, chain : Seq(Refs),
                day : Days, refused : SUBSET Refs]

\* What the invariant says of one walk.
Fit(w, record) ==
    /\ record \in WalkRecords
    /\ record.at # "idle" => record.chain # <<>>
    /\ record.refused = {}
    /\ record.at \in {"daily", "monthly", "record"} =>
          Effect(Kind[w], Head(record.chain)) \notin {"deny", "require_confirmation"}
    /\ record.at \in {"bind", "bound", "invoking"} =>
          /\ Effect(Kind[w], Head(record.chain)) # "deny"
          /\ Effect(Kind[w], Head(record.chain)) = "require_confirmation" => Kind[w] = "harness"

LEMMA WalksFit ==
    ASSUME TypeOK, SectionInv, PermitInv, NEW w \in Walks
    PROVE  Fit(w, walk[w])
BY DEF TypeOK, SectionInv, PermitInv, Fit, WalkRecords, Ref

LEMMA IdleFits ==
    ASSUME NEW w \in Walks
    PROVE  Fit(w, Idle) /\ Idle.at = "idle"
<1>1. 1 \in Days
  BY ConstantsAssumption DEF Days
<1>2. <<>> \in Seq(Refs)
  OBVIOUS
<1> QED
  BY <1>1, <1>2 DEF Fit, Idle, WalkRecords

LEMMA AdvancedFits ==
    ASSUME TypeOK, SectionInv, PermitInv, NEW w \in Walks, walk[w].chain # <<>>
    PROVE  /\ Fit(w, Advanced(w, {}))
           /\ Advanced(w, {}).at \in {"idle", "check"}
<1>1. CASE Len(walk[w].chain) = 1
  BY <1>1, IdleFits DEF Advanced
<1>2. CASE Len(walk[w].chain) # 1
  <2>1. walk[w] \in WalkRecords /\ walk[w].refused = {}
    BY DEF TypeOK, PermitInv, WalkRecords
  <2>2. walk[w].chain \in Seq(Refs)
    BY <2>1 DEF WalkRecords
  <2>3. Tail(walk[w].chain) \in Seq(Refs) /\ Tail(walk[w].chain) # <<>>
    <3>1. ASSUME NEW chain \in Seq(Refs), chain # <<>>, Len(chain) # 1
          PROVE  Tail(chain) \in Seq(Refs) /\ Len(Tail(chain)) = Len(chain) - 1
                 /\ Len(chain) \in Nat /\ Len(chain) # 0
      BY <3>1
    <3>2. Len(Tail(walk[w].chain)) # 0 /\ Tail(walk[w].chain) \in Seq(Refs)
      BY <1>2, <2>2, <3>1
    <3>3. Len(<<>>) = 0
      OBVIOUS
    <3> QED
      BY <3>2, <3>3
  <2>4. Advanced(w, {}) = [walk[w] EXCEPT !.at = "check", !.chain = Tail(@), !.refused = @ \cup {}]
    BY <1>2 DEF Advanced
  <2>5. /\ Advanced(w, {}).at = "check" /\ Advanced(w, {}).chain = Tail(walk[w].chain)
        /\ Advanced(w, {}).refused = {} /\ Advanced(w, {}) \in WalkRecords
    BY <2>1, <2>3, <2>4 DEF WalkRecords, Sections
  <2> QED
    BY <2>3, <2>5 DEF Fit
<1> QED
  BY <1>1, <1>2

\* The actions of a walk w.
WalkStep(w) ==
    \/ \E chain \in Chains : Begin(w, chain)
    \/ Check(w) \/ ReadDaily(w) \/ ReadMonthly(w) \/ Record(w) \/ LedgerFails(w)
    \/ Bind(w) \/ BindFails(w) \/ Answer(w) \/ InvocationFails(w)

\* Such an action changes the record of the walk, which enters a section only when
\* the loop is free.
LEMMA WalkStepFits ==
    ASSUME TypeOK, SectionInv, PermitInv, NEW w \in Walks, WalkStep(w)
    PROVE  \E record :
              /\ walk' = [walk EXCEPT ![w] = record]
              /\ Fit(w, record)
              /\ record.at \in Sections => walk[w].at \in Sections \/ LoopFree(Home[w])
<1> DEFINE Goal(record) ==
              /\ walk' = [walk EXCEPT ![w] = record]
              /\ Fit(w, record)
              /\ record.at \in Sections => walk[w].at \in Sections \/ LoopFree(Home[w])
<1>0. /\ walk[w] \in WalkRecords /\ walk[w].refused = {} /\ Fit(w, walk[w])
      /\ walk[w].at \in Sections \cup {"invoking"} => walk[w].chain # <<>>
  BY WalksFit DEF Fit, Sections
<1>1. ASSUME NEW chain \in Chains, Begin(w, chain) PROVE \E record : Goal(record)
  <2>1. chain \in Seq(Refs) /\ chain # <<>>
    BY ConstantsAssumption
  <2>2. 1 \in Days
    BY ConstantsAssumption DEF Days
  <2>3. Fit(w, [Idle EXCEPT !.at = "check", !.chain = chain])
    BY <2>1, <2>2 DEF Fit, Idle, WalkRecords, Sections
  <2> QED
    BY <1>1, <2>3 DEF Begin
<1>2. ASSUME walk[w].at \in Sections, Refuse(w) PROVE \E record : Goal(record)
  <2>1. CASE Kind[w] = "router"
    BY <1>0, <1>2, <2>1, AdvancedFits DEF Refuse
  <2>2. CASE Kind[w] # "router"
    BY <1>2, <2>2, IdleFits DEF Refuse
  <2> QED
    BY <2>1, <2>2
<1>3. ASSUME walk[w].at \in Sections \/ LoopFree(Home[w]), walk[w].chain # <<>>, Advance(w)
      PROVE  \E record : Goal(record)
  BY <1>3, AdvancedFits DEF Advance
<1>4. ASSUME walk[w].at \in Sections, NEW place \in {"bound", "invoking"} \cup Sections, Move(w, place),
             Fit(w, [walk[w] EXCEPT !.at = place])
      PROVE  \E record : Goal(record)
  BY <1>4 DEF Move
<1>5. ASSUME Check(w) PROVE \E record : Goal(record)
  <2>0. walk[w].at \in Sections /\ walk[w].chain # <<>>
    BY <1>0, <1>5 DEF Check, At, Sections
  <2>1. CASE Effect(Kind[w], Ref(w)) = "deny"
    BY <1>2, <1>5, <2>0, <2>1 DEF Check
  <2>2. CASE Effect(Kind[w], Ref(w)) = "require_confirmation"
    <3>1. Confirm(w)
      BY <1>5, <2>2 DEF Check
    <3>2. CASE Kind[w] = "harness" /\ Move(w, "bind")
      <4>1. Fit(w, [walk[w] EXCEPT !.at = "bind"])
        BY <1>0, <2>0, <2>2, <3>2 DEF Fit, WalkRecords, Ref, Sections
      <4> QED
        BY <1>4, <2>0, <3>2, <4>1 DEF Sections
    <3>3. CASE Kind[w] = "harness" /\ Advance(w)
      BY <1>3, <2>0, <3>3
    <3> QED
      BY <1>2, <2>0, <3>1, <3>2, <3>3 DEF Confirm
  <2>3. CASE Effect(Kind[w], Ref(w)) \notin {"deny", "require_confirmation"}
    <3>1. walk' = [walk EXCEPT ![w] = [walk[w] EXCEPT !.at = "daily", !.day = today]]
      BY <1>5, <2>3 DEF Check, TypeOK
    <3>2. Fit(w, [walk[w] EXCEPT !.at = "daily", !.day = today])
      BY <1>0, <2>0, <2>3 DEF Fit, WalkRecords, Ref, Sections, TypeOK
    <3> QED
      BY <2>0, <3>1, <3>2
  <2> QED
    BY <2>1, <2>2, <2>3
<1>6. ASSUME ReadDaily(w) PROVE \E record : Goal(record)
  <2>0. walk[w].at = "daily" /\ walk[w].at \in Sections /\ walk[w].chain # <<>>
    BY <1>0, <1>6 DEF ReadDaily, At, Sections
  <2>1. Fit(w, [walk[w] EXCEPT !.at = "monthly"])
    BY <1>0, <2>0 DEF Fit, WalkRecords, Sections
  <2> QED
    BY <1>2, <1>4, <1>6, <2>0, <2>1 DEF ReadDaily, Sections
<1>7. ASSUME ReadMonthly(w) PROVE \E record : Goal(record)
  <2>0. walk[w].at = "monthly" /\ walk[w].at \in Sections /\ walk[w].chain # <<>>
    BY <1>0, <1>7 DEF ReadMonthly, At, Sections
  <2>1. Fit(w, [walk[w] EXCEPT !.at = "record"])
    BY <1>0, <2>0 DEF Fit, WalkRecords, Sections
  <2> QED
    BY <1>2, <1>4, <1>7, <2>0, <2>1 DEF ReadMonthly, Sections
<1>8. ASSUME Record(w) PROVE \E record : Goal(record)
  <2>0. walk[w].at = "record" /\ walk[w].at \in Sections /\ walk[w].chain # <<>>
    BY <1>0, <1>8 DEF Record, At, Sections
  <2>1. Fit(w, [walk[w] EXCEPT !.at = "bind"])
    BY <1>0, <2>0 DEF Fit, WalkRecords, Sections
  <2> QED
    BY <1>4, <1>8, <2>0, <2>1 DEF Record, Sections
<1>9. ASSUME LedgerFails(w) PROVE \E record : Goal(record)
  BY <1>0, <1>3, <1>9 DEF LedgerFails, At, Sections
<1>10. ASSUME Bind(w) PROVE \E record : Goal(record)
  <2>0. walk[w].at = "bind" /\ walk[w].at \in Sections /\ walk[w].chain # <<>>
    BY <1>0, <1>10 DEF Bind, At, Sections
  <2>1. ASSUME NEW place \in {"bound", "invoking"} PROVE Fit(w, [walk[w] EXCEPT !.at = place])
    BY <1>0, <2>0 DEF Fit, WalkRecords, Sections
  <2> QED
    BY <1>4, <1>10, <2>0, <2>1 DEF Bind
<1>11. ASSUME BindFails(w) PROVE \E record : Goal(record)
  BY <1>0, <1>3, <1>11 DEF BindFails, At, Sections
<1>12. ASSUME Answer(w) PROVE \E record : Goal(record)
  BY <1>12, IdleFits DEF Answer
<1>13. ASSUME InvocationFails(w) PROVE \E record : Goal(record)
  BY <1>0, <1>3, <1>13 DEF InvocationFails, At
<1> HIDE DEF Goal
<1>14. \E record : Goal(record)
  BY <1>1, <1>5, <1>6, <1>7, <1>8, <1>9, <1>10, <1>11, <1>12, <1>13 DEF WalkStep
<1> QED
  BY <1>14 DEF Goal

LEMMA InitHolds == Init => IInv
<1> SUFFICES ASSUME Init PROVE IInv
  OBVIOUS
<1>0. MaxDay \in Nat /\ MaxDay # 0 /\ 1 \in Days
  BY ConstantsAssumption DEF Days
<1>1. \A w \in Walks : walk[w] = Idle /\ Fit(w, walk[w])
  BY IdleFits DEF Init
<1>2. NothingSpent \in Spends
  BY DEF NothingSpent, Spends
<1>3. TypeOK
  BY <1>0, <1>1, <1>2 DEF Init, TypeOK, Fit, WalkRecords
<1>4. SectionInv /\ UnusedInv /\ PermitInv
  BY <1>1, ConstantsAssumption DEF Init, SectionInv, UnusedInv, PermitInv, Idle, Sections, Ledgers
<1>5. ASSUME NEW window, Window(window), NEW ceiling \in Nat, ceiling > 0,
             NEW places, places \subseteq Sections
      PROVE  WindowInv(window, ceiling, places)
  <2>1. Pending(window, places) = {}
    BY <1>1, <1>5 DEF Pending, Owing, Idle, Sections
  <2>2. /\ window[1] \in 1..(MaxDay + 1) /\ window[2] \in 1..(MaxDay + 1)
    BY <1>0, <1>5 DEF Window, Days
  <2>3. \A l \in Ledgers : SpentIn(l, window) = 0
    BY <2>2 DEF Init, NothingSpent, SpentIn
  <2>4. file[window[1]] - file[window[2]] = 0
    BY <2>2 DEF Init, NothingSpent
  <2>5. LocalInv(window, ceiling, places)
    BY <1>5, <2>1, <2>3, <2>4 DEF LocalInv, Ledgers, Pending
  <2>6. SharedInv(window, ceiling, places)
    <3>1. MaxCost * Cardinality(Processes) \in Nat /\ MaxCost * 0 = 0
      BY ConstantsAssumption, FS_CardinalityType
    <3> QED
      BY <1>5, <2>1, <2>3, <3>1, FS_EmptySet DEF SharedInv, Ledgers
  <2> QED
    BY <2>5, <2>6 DEF WindowInv
<1>6. BudgetInv
  BY <1>5, WindowsWellFormed, ConstantsAssumption DEF BudgetInv, DayPlaces, MonthPlaces, Sections
<1> QED
  BY <1>3, <1>4, <1>6 DEF IInv

\* All but the budget.
LEMMA ShapeKept ==
    ASSUME TypeOK, SectionInv, UnusedInv, PermitInv, [Next]_vars
    PROVE  TypeOK' /\ SectionInv' /\ UnusedInv' /\ PermitInv'
<1>0. \A w \in Walks : Fit(w, walk[w])
  BY WalksFit
<1>1. ASSUME NEW w \in Walks, WalkStep(w)
      PROVE  TypeOK' /\ SectionInv' /\ UnusedInv' /\ PermitInv'
  <2>1. PICK record :
           /\ walk' = [walk EXCEPT ![w] = record]
           /\ Fit(w, record)
           /\ record.at \in Sections => walk[w].at \in Sections \/ LoopFree(Home[w])
    BY <1>1, WalkStepFits
  <2>2. walk' \in [Walks -> WalkRecords] /\ walk'[w] = record
        /\ \A v \in Walks : v # w => walk'[v] = walk[v]
    BY <2>1 DEF TypeOK, Fit, WalkRecords
  <2>3. \A v \in Walks : Fit(v, walk'[v])
    BY <1>0, <2>1, <2>2
  <2>4. PermitInv' /\ \A v \in Walks : walk'[v].at # "idle" => walk'[v].chain # <<>>
    BY <2>3 DEF PermitInv, Fit, Ref
  <2>5. ASSUME NEW u \in Walks, NEW v \in Walks, u # v, Home[u] = Home[v],
               walk'[u].at \in Sections, walk'[v].at \in Sections
        PROVE  FALSE
    BY <2>1, <2>2, <2>5 DEF SectionInv, LoopFree
  <2>6. SectionInv'
    BY <2>4, <2>5 DEF SectionInv
  <2>7. CASE Record(w)
    <3>0. persist' = persist /\ today' = today /\ dispatched' = dispatched
          /\ walk[w].at = "record"
      BY <2>7 DEF Record, At
    <3>1. Ledger(w) \in Ledgers /\ Home[w] \in Ledgers
      BY ConstantsAssumption DEF Ledger, Ledgers
    <3>2. Cost[Ref(w)] \in Nat /\ walk[w].day \in Days
      <4>1. walk[w].chain \in Seq(Refs) /\ walk[w].chain # <<>> /\ walk[w].day \in Days
        BY <1>0, <3>0 DEF Fit, WalkRecords
      <4>2. Head(walk[w].chain) \in Refs
        BY <4>1
      <4> QED
        BY <4>1, <4>2, ConstantsAssumption DEF Ref
    <3>3. ASSUME NEW f \in Spends PROVE Charged(f, walk[w].day, Cost[Ref(w)]) \in Spends
      <4>1. walk[w].day \in Nat
        BY <3>2, ConstantsAssumption DEF Days
      <4>2. DOMAIN f = 1..(MaxDay + 1) /\ \A d \in 1..(MaxDay + 1) : f[d] \in Nat /\ f[d] + Cost[Ref(w)] \in Nat
        BY <3>2, <3>3 DEF Spends
      <4> QED
        BY <4>1, <4>2 DEF Charged, Spends
    <3>4. spent' \in [Ledgers -> Spends]
      BY <2>7, <3>1, <3>3 DEF Record, TypeOK
    <3>5. file' \in Spends
      BY <2>7, <3>1, <3>4 DEF Record, TypeOK
    <3>6. UnusedInv'
      BY <2>7, <3>0, ConstantsAssumption DEF Record, Ledger, Ledgers, UnusedInv, TypeOK
    <3> QED
      BY <2>2, <2>4, <2>6, <3>0, <3>4, <3>5, <3>6 DEF TypeOK, WalkRecords
  <2>8. CASE Bind(w)
    <3>0. persist' = persist /\ today' = today /\ spent' = spent /\ file' = file
          /\ walk[w].at = "bind"
      BY <2>8 DEF Bind, At
    <3>1. Cost[Ref(w)] \in Nat /\ walk[w].day \in Days
      <4>1. walk[w].chain \in Seq(Refs) /\ walk[w].chain # <<>> /\ walk[w].day \in Days
        BY <1>0, <3>0 DEF Fit, WalkRecords
      <4>2. Head(walk[w].chain) \in Refs
        BY <4>1
      <4> QED
        BY <4>1, <4>2, ConstantsAssumption DEF Ref
    <3>2. dispatched' \in [Days -> Nat]
      BY <2>8, <3>1 DEF Bind, TypeOK
    <3> QED
      BY <2>2, <2>4, <2>6, <3>0, <3>2 DEF TypeOK, WalkRecords, UnusedInv
  <2>9. CASE ~Record(w) /\ ~Bind(w)
    <3>1. UNCHANGED <<persist, today, spent, file, dispatched>>
      BY <1>1, <2>9 DEF WalkStep, Begin, Check, ReadDaily, ReadMonthly, LedgerFails, BindFails,
                        Answer, InvocationFails
    <3> QED
      BY <2>2, <2>4, <2>6, <3>1 DEF TypeOK, WalkRecords, UnusedInv
  <2> QED
    BY <2>7, <2>8, <2>9
<1>2. ASSUME NewDay PROVE TypeOK' /\ SectionInv' /\ UnusedInv' /\ PermitInv'
  <2>1. today' \in Days
    BY <1>2, ConstantsAssumption DEF NewDay, TypeOK, Days
  <2> QED
    BY <1>2, <2>1 DEF NewDay, TypeOK, SectionInv, UnusedInv, PermitInv, Ref
<1>3. ASSUME NEW p \in Processes, Restart(p)
      PROVE  TypeOK' /\ SectionInv' /\ UnusedInv' /\ PermitInv'
  <2>1. \A w \in Walks : Fit(w, walk'[w]) /\ (walk'[w] = walk[w] \/ walk'[w] = Idle)
    BY <1>0, <1>3, IdleFits DEF Restart
  <2>2. walk' \in [Walks -> WalkRecords]
    BY <1>3, <2>1 DEF Restart, Fit
  <2>3. SectionInv' /\ PermitInv'
    BY <2>1 DEF SectionInv, PermitInv, Fit, Ref, Idle, Sections
  <2>4. NothingSpent \in Spends /\ file \in Spends
    BY DEF NothingSpent, Spends, TypeOK
  <2>5. PICK entries \in {NothingSpent} \cup (IF persist = "file" THEN {file} ELSE {}) :
           spent' = [spent EXCEPT ![p] = entries]
    BY <1>3 DEF Restart
  <2>6. p \in Ledgers /\ p # Shared /\ entries \in Spends
    BY <2>4, <2>5, ConstantsAssumption DEF Ledgers
  <2>7. spent' \in [Ledgers -> Spends] /\ file' \in Spends
    BY <1>3, <2>4, <2>5, <2>6 DEF Restart, TypeOK
  <2>8. UnusedInv'
    BY <1>3, <2>5, <2>6 DEF Restart, UnusedInv, TypeOK, Ledgers
  <2> QED
    BY <1>3, <2>2, <2>3, <2>7, <2>8 DEF Restart, TypeOK, WalkRecords
<1>4. ASSUME UNCHANGED vars PROVE TypeOK' /\ SectionInv' /\ UnusedInv' /\ PermitInv'
  BY <1>4 DEF vars, TypeOK, SectionInv, UnusedInv, PermitInv, Ref
<1> QED
  BY <1>1, <1>2, <1>3, <1>4 DEF Next, WalkStep

LEMMA BudgetStep ==
    ASSUME TypeOK, TypeOK', SectionInv, SectionInv', [Next]_vars,
           NEW window, Window(window), NEW ceiling \in Nat, NEW places,
           places \in {DayPlaces, MonthPlaces}, WindowInv(window, ceiling, places),
           \A w \in Walks :
              /\ places = DayPlaces /\ ReadDaily(w) /\ Move(w, "monthly") /\ Owing(w, window, places)'
                    => spent[Ledger(w)][window[1]] + Cost[Ref(w)] <= ceiling
              /\ places = MonthPlaces /\ ReadMonthly(w) /\ Move(w, "record") /\ Owing(w, window, places)'
                    => spent[Ledger(w)][window[1]] + Cost[Ref(w)] <= ceiling
    PROVE  WindowInv(window, ceiling, places)'
<1>0. places \subseteq Sections /\ "record" \in places /\ "bind" \notin places
  BY DEF DayPlaces, MonthPlaces, Sections
<1>1. ASSUME spent' = spent, file' = file, persist' = persist,
             \A w \in Walks : Owing(w, window, places)' => Owing(w, window, places) /\ Ref(w)' = Ref(w)
      PROVE  WindowInv(window, ceiling, places)'
  BY <1>0, <1>1, LeaveKeepsBudget
\* A walk that is moved where it does not owe.
<1>2. ASSUME NEW w \in Walks, spent' = spent, file' = file, persist' = persist,
             NEW record, walk' = [walk EXCEPT ![w] = record], record.at \notin places
      PROVE  WindowInv(window, ceiling, places)'
  <2>1. ~Owing(w, window, places)'
    BY <1>2 DEF Owing, TypeOK
  <2>2. \A v \in Walks \ {w} : walk'[v] = walk[v]
    BY <1>2 DEF TypeOK
  <2> QED
    BY <1>1, <1>2, <2>1, <2>2 DEF Owing, Ref
<1>3. ASSUME NEW w \in Walks, spent' = spent, file' = file, persist' = persist,
             walk[w].chain # <<>>, Refuse(w) \/ Advance(w)
      PROVE  WindowInv(window, ceiling, places)'
  <2>1. Idle.at \notin places /\ \A r : Advanced(w, r).at \in {"idle", "check"}
    BY <1>0 DEF Idle, Sections, Advanced, TypeOK, DayPlaces, MonthPlaces
  <2>2. "check" \notin places /\ "idle" \notin places
    BY DEF DayPlaces, MonthPlaces
  <2> QED
    BY <1>2, <1>3, <2>1, <2>2 DEF Refuse, Advance
<1>4. \A w \in Walks : walk[w].at \in Sections \cup {"invoking"} => walk[w].chain # <<>>
  BY DEF SectionInv, Sections
\* A walk that passes the test.
<1>5. ASSUME NEW w \in Walks, spent' = spent, file' = file, persist' = persist,
             NEW place, Move(w, place), walk[w].chain # <<>>,
             Owing(w, window, places)' => spent[Ledger(w)][window[1]] + Cost[Ref(w)] <= ceiling
      PROVE  WindowInv(window, ceiling, places)'
  <2>1. CASE Owing(w, window, places)'
    BY <1>0, <1>5, <2>1, EnterKeepsBudget DEF Move
  <2>2. CASE ~Owing(w, window, places)'
    <3>1. \A v \in Walks : v # w => walk'[v] = walk[v]
      BY <1>5 DEF Move, TypeOK
    <3> QED
      BY <1>1, <1>5, <2>2, <3>1 DEF Owing, Ref
  <2> QED
    BY <2>1, <2>2
<1>6. ASSUME NEW w \in Walks, WalkStep(w) PROVE WindowInv(window, ceiling, places)'
  <2>0. /\ {"idle", "check", "daily", "bind", "bound", "invoking"} \cap places = {}
        /\ places = MonthPlaces => "monthly" \notin places
        /\ Idle.at = "idle"
    BY DEF DayPlaces, MonthPlaces, Idle
  <2>1. ASSUME NEW chain \in Chains, Begin(w, chain) PROVE WindowInv(window, ceiling, places)'
    <3>1. [Idle EXCEPT !.at = "check", !.chain = chain].at = "check"
      BY DEF Idle
    <3> QED
      BY <1>2, <2>0, <2>1, <3>1 DEF Begin
  <2>2. ASSUME Check(w) PROVE WindowInv(window, ceiling, places)'
    <3>0. /\ walk[w].chain # <<>> /\ spent' = spent /\ file' = file /\ persist' = persist
          /\ walk[w] \in WalkRecords
      BY <1>4, <2>2 DEF Check, At, Sections, TypeOK, WalkRecords
    <3>1. CASE Refuse(w) \/ Advance(w)
      BY <1>3, <3>0, <3>1
    <3>2. CASE Move(w, "bind")
      <4>1. [walk[w] EXCEPT !.at = "bind"].at = "bind"
        BY <3>0 DEF WalkRecords
      <4> QED
        BY <1>2, <2>0, <3>0, <3>2, <4>1 DEF Move
    <3>3. CASE walk' = [walk EXCEPT ![w].at = "daily", ![w].day = today]
      <4>1. [walk[w] EXCEPT !.at = "daily", !.day = today].at = "daily"
        BY <3>0 DEF WalkRecords
      <4>2. walk' = [walk EXCEPT ![w] = [walk[w] EXCEPT !.at = "daily", !.day = today]]
        BY <3>3 DEF TypeOK
      <4> QED
        BY <1>2, <2>0, <3>0, <4>1, <4>2
    <3> QED
      BY <2>2, <3>1, <3>2, <3>3 DEF Check, Confirm
  <2>3. ASSUME ReadDaily(w) PROVE WindowInv(window, ceiling, places)'
    <3>0. walk[w].chain # <<>> /\ spent' = spent /\ file' = file /\ persist' = persist
      BY <1>4, <2>3 DEF ReadDaily, At, Sections
    <3>1. CASE Refuse(w)
      BY <1>3, <3>0, <3>1
    <3>2. CASE Move(w, "monthly")
      <4>1. walk'[w].at = "monthly"
        BY <3>2 DEF Move, TypeOK
      <4>2. Owing(w, window, places)' => places = DayPlaces
        BY <2>0, <4>1 DEF Owing
      <4> QED
        BY <1>5, <2>3, <3>0, <3>2, <4>2
    <3> QED
      BY <2>3, <3>1, <3>2 DEF ReadDaily
  <2>4. ASSUME ReadMonthly(w) PROVE WindowInv(window, ceiling, places)'
    <3>0. walk[w].chain # <<>> /\ spent' = spent /\ file' = file /\ persist' = persist
          /\ walk[w].at = "monthly"
      BY <1>4, <2>4 DEF ReadMonthly, At, Sections
    <3>1. CASE Refuse(w)
      BY <1>3, <3>0, <3>1
    <3>2. CASE Move(w, "record")
      <4>1. CASE places = MonthPlaces
        BY <1>5, <2>4, <3>0, <3>2, <4>1
      <4>2. CASE places = DayPlaces
        <5>1. \A v \in Walks : v # w => walk'[v] = walk[v]
          BY <3>2 DEF Move, TypeOK
        <5>2. walk'[w].chain = walk[w].chain /\ walk'[w].day = walk[w].day
          BY <3>2 DEF Move, TypeOK
        <5>3. Owing(w, window, places)' => Owing(w, window, places) /\ Ref(w)' = Ref(w)
          BY <3>0, <4>2, <5>2 DEF Owing, Ref, DayPlaces
        <5>4. \A v \in Walks : Owing(v, window, places)' => Owing(v, window, places) /\ Ref(v)' = Ref(v)
          BY <5>1, <5>3 DEF Owing, Ref
        <5> QED
          BY <1>1, <3>0, <5>4
      <4> QED
        BY <4>1, <4>2
    <3> QED
      BY <2>4, <3>1, <3>2 DEF ReadMonthly
  <2>5. ASSUME Record(w) PROVE WindowInv(window, ceiling, places)'
    BY <1>0, <2>5, RecordKeepsBudget
  <2>6. ASSUME LedgerFails(w) \/ BindFails(w) \/ InvocationFails(w)
        PROVE  WindowInv(window, ceiling, places)'
    <3>1. walk[w].chain # <<>> /\ spent' = spent /\ file' = file /\ persist' = persist /\ Advance(w)
      BY <1>4, <2>6 DEF LedgerFails, BindFails, InvocationFails, At, Sections
    <3> QED
      BY <1>3, <3>1
  <2>7. ASSUME Bind(w) PROVE WindowInv(window, ceiling, places)'
    <3>1. PICK place \in {"bound", "invoking"} : Move(w, place)
      BY <2>7 DEF Bind
    <3>2. [walk[w] EXCEPT !.at = place].at = place
      BY DEF TypeOK
    <3> QED
      BY <1>2, <2>0, <2>7, <3>1, <3>2 DEF Bind, Move
  <2>8. ASSUME Answer(w) PROVE WindowInv(window, ceiling, places)'
    BY <1>2, <2>0, <2>8 DEF Answer
  <2> QED
    BY <1>6, <2>1, <2>2, <2>3, <2>4, <2>5, <2>6, <2>7, <2>8 DEF WalkStep
<1>7. ASSUME NewDay \/ UNCHANGED vars PROVE WindowInv(window, ceiling, places)'
  BY <1>1, <1>7 DEF NewDay, vars, Owing, Ref
<1>8. ASSUME NEW p \in Processes, Restart(p) PROVE WindowInv(window, ceiling, places)'
  BY <1>0, <1>8, RestartKeepsBudget
<1> QED
  BY <1>6, <1>7, <1>8 DEF Next, WalkStep

LEMMA StepHolds == IInv /\ [Next]_vars => IInv'
<1> SUFFICES ASSUME IInv, [Next]_vars PROVE IInv'
  OBVIOUS
<1>0. TypeOK /\ SectionInv /\ UnusedInv /\ PermitInv /\ BudgetInv
  BY DEF IInv
<1>1. TypeOK' /\ SectionInv' /\ UnusedInv' /\ PermitInv'
  BY <1>0, ShapeKept
\* The test is about the window a walk then owes to.
<1>2. ASSUME NEW d \in Days, DailyCeiling > 0
      PROVE  WindowInv(<<d, d + 1>>, DailyCeiling, DayPlaces)'
  <2> DEFINE window == <<d, d + 1>>
  <2>1. window \in DayWindows
    BY DEF DayWindows
  <2>2. Window(window) /\ WindowInv(window, DailyCeiling, DayPlaces)
    BY <1>0, <1>2, <2>1, WindowsWellFormed DEF BudgetInv
  <2>3. ASSUME NEW w \in Walks, ReadDaily(w), Move(w, "monthly"), Owing(w, window, DayPlaces)'
        PROVE  spent[Ledger(w)][window[1]] + Cost[Ref(w)] <= DailyCeiling
    <3>1. walk[w].at = "daily" /\ walk'[w].at = "monthly" /\ walk'[w].day = walk[w].day
      BY <1>0, <2>3 DEF ReadDaily, At, Move, TypeOK
    <3>2. walk[w].day = d
      <4>1. walk[w].day >= d /\ walk[w].day < d + 1
        BY <2>3, <3>1 DEF Owing
      <4>2. walk[w].day \in Int /\ d \in Int
        BY <1>0, ConstantsAssumption DEF TypeOK, Days
      <4> QED
        BY <4>1, <4>2
    <3>3. WithinCeiling(w, DailyCeiling, walk[w].day)
      <4>1. Idle.at # "monthly" /\ Advanced(w, {}).at # "monthly"
        BY <1>0 DEF Idle, Advanced, TypeOK
      <4>2. ~Refuse(w)
        BY <1>0, <3>1, <4>1 DEF Refuse, TypeOK
      <4> QED
        BY <2>3, <4>2 DEF ReadDaily
    <3> QED
      BY <1>2, <3>2, <3>3 DEF WithinCeiling
  <2>4. DayPlaces # MonthPlaces
    BY DEF DayPlaces, MonthPlaces
  <2> HIDE DEF window
  <2>5. WindowInv(window, DailyCeiling, DayPlaces)'
    BY <1>0, <1>1, <2>2, <2>3, <2>4, BudgetStep, ConstantsAssumption
  <2> QED
    BY <2>5 DEF window
<1>3. ASSUME NEW d \in Days, MonthlyCeiling > 0
      PROVE  WindowInv(<<MonthStart[d], MonthEnd[d]>>, MonthlyCeiling, MonthPlaces)'
  <2> DEFINE window == <<MonthStart[d], MonthEnd[d]>>
  <2>1. window \in MonthWindows
    BY DEF MonthWindows
  <2>2. Window(window) /\ WindowInv(window, MonthlyCeiling, MonthPlaces)
    BY <1>0, <1>3, <2>1, WindowsWellFormed DEF BudgetInv
  <2>3. ASSUME NEW w \in Walks, ReadMonthly(w), Move(w, "record"), Owing(w, window, MonthPlaces)'
        PROVE  spent[Ledger(w)][window[1]] + Cost[Ref(w)] <= MonthlyCeiling
    <3>1. walk[w].at = "monthly" /\ walk'[w].at = "record" /\ walk'[w].day = walk[w].day
      BY <1>0, <2>3 DEF ReadMonthly, At, Move, TypeOK
    <3>2. MonthStart[walk[w].day] = MonthStart[d]
      BY <1>0, <2>3, <3>1, ConstantsAssumption DEF Owing, TypeOK
    <3>3. WithinCeiling(w, MonthlyCeiling, MonthStart[walk[w].day])
      <4>1. Idle.at # "record" /\ Advanced(w, {}).at # "record"
        BY <1>0 DEF Idle, Advanced, TypeOK
      <4>2. ~Refuse(w)
        BY <1>0, <3>1, <4>1 DEF Refuse, TypeOK
      <4> QED
        BY <2>3, <4>2 DEF ReadMonthly
    <3> QED
      BY <1>3, <3>2, <3>3 DEF WithinCeiling
  <2>4. DayPlaces # MonthPlaces
    BY DEF DayPlaces, MonthPlaces
  <2> HIDE DEF window
  <2>5. WindowInv(window, MonthlyCeiling, MonthPlaces)'
    BY <1>0, <1>1, <2>2, <2>3, <2>4, BudgetStep, ConstantsAssumption
  <2> QED
    BY <2>5 DEF window
<1>4. BudgetInv'
  BY <1>2, <1>3 DEF BudgetInv, DayWindows, MonthWindows
<1> QED
  BY <1>1, <1>4 DEF IInv

-----------------------------------------------------------------------------
(* The theorems                                                            *)

\* The strengthening of TypeOK, CeilingKept and DispatchesPermitted is inductive.
THEOREM Invariance == Spec => []IInv
BY InitHolds, StepHolds, PTL DEF Spec

\* The state of every component keeps its type.
THEOREM TypeCorrect == Spec => []TypeOK
<1>1. IInv => TypeOK
  BY DEF IInv
<1> QED
  BY <1>1, Invariance, PTL

\* Budgets are kept for any number of processes and walks, any chains, costs and
\* ceilings, and any calendar: exactly within one process (_check_budget and record
\* are one section of its loop), and in the shared table up to one call per process.
THEOREM BudgetsKept == Spec => []CeilingKept
<1>1. IInv => CeilingKept
  <2> SUFFICES ASSUME IInv PROVE CeilingKept
    OBVIOUS
  <2>0. TypeOK /\ SectionInv /\ UnusedInv /\ BudgetInv
    BY DEF IInv
  <2>1. ASSUME NEW window, Window(window), NEW ceiling \in Nat, ceiling > 0,
               NEW places, places \subseteq Sections, WindowInv(window, ceiling, places),
               NEW l \in Ledgers
        PROVE  IF l = Shared
               THEN SpentIn(l, window) < ceiling + MaxCost * Cardinality(Processes)
               ELSE SpentIn(l, window) <= ceiling
    <3>1. /\ IsFiniteSet(Processes) /\ Cardinality(Processes) \in Nat
          /\ MaxCost \in Nat /\ MaxCost * Cardinality(Processes) \in Nat
      BY ConstantsAssumption, FS_CardinalityType
    <3>2. SpentIn(l, window) \in Int
      BY <2>0, <2>1, SpendIsNatural DEF SpentIn
    <3>3. ASSUME spent[l] = NothingSpent PROVE SpentIn(l, window) = 0
      <4>1. MaxDay \in Nat
        BY ConstantsAssumption
      <4>2. window[1] \in 1..(MaxDay + 1) /\ window[2] \in 1..(MaxDay + 1)
        BY <2>1, <4>1 DEF Window, Days
      <4> QED
        BY <3>3, <4>2 DEF NothingSpent, SpentIn
    <3>4. CASE l = Shared /\ persist = "db"
      <4> DEFINE S == Pending(window, places)
      <4>1. S \subseteq Walks /\ \A u, v \in S : Home[u] = Home[v] => u = v
        BY <2>0, <2>1 DEF SectionInv, Pending, Owing
      <4>2. Cardinality(S) \in Nat
        BY <4>1, OnePerProcess
      <4>3. MaxCost * Cardinality(S) \in Nat
        BY <3>1, <4>2
      <4>4. SpentIn(Shared, window) + MaxCost * Cardinality(S)
               < ceiling + MaxCost * Cardinality(Processes)
        BY <2>1, <3>4 DEF WindowInv, SharedInv
      <4> HIDE DEF S
      <4> QED
        BY <3>1, <3>2, <3>4, <4>3, <4>4
    <3>5. CASE l = Shared /\ persist # "db"
      <4>1. SpentIn(l, window) = 0
        BY <2>0, <3>3, <3>5 DEF UnusedInv
      <4> QED
        BY <2>1, <3>1, <3>5, <4>1
    <3>6. CASE l # Shared /\ persist = "db"
      <4>1. SpentIn(l, window) = 0
        BY <2>0, <3>3, <3>6 DEF UnusedInv, Ledgers
      <4> QED
        BY <2>1, <3>6, <4>1
    <3>7. CASE l # Shared /\ persist # "db"
      BY <2>1, <3>7 DEF WindowInv, LocalInv, Ledgers
    <3> QED
      BY <3>4, <3>5, <3>6, <3>7
  <2>2. DayPlaces \subseteq Sections /\ MonthPlaces \subseteq Sections
    BY DEF DayPlaces, MonthPlaces, Sections
  <2>3. BudgetKept(DayWindows, DailyCeiling)
    BY <2>0, <2>1, <2>2, WindowsWellFormed, ConstantsAssumption DEF BudgetInv, BudgetKept
  <2>4. BudgetKept(MonthWindows, MonthlyCeiling)
    BY <2>0, <2>1, <2>2, WindowsWellFormed, ConstantsAssumption DEF BudgetInv, BudgetKept
  <2> QED
    BY <2>3, <2>4 DEF CeilingKept
<1> QED
  BY <1>1, Invariance, PTL

\* A reference is only used as the policies, the human and the walker's own stop at
\* a refusal permit (check_action, check_model_call, and the walks' except clauses).
THEOREM OnlyPermitted == Spec => []DispatchesPermitted
<1>1. IInv => DispatchesPermitted
  BY DEF IInv, PermitInv, DispatchesPermitted
<1> QED
  BY <1>1, Invariance, PTL

-----------------------------------------------------------------------------
(* Every call let through is charged                                       *)

\* A walk has recorded the cost of its call on the shared ledger, and has yet to
\* be let through.
Charges(w) ==
    persist = "db" /\ At(w, "bind") /\ Effect(Kind[w], Ref(w)) # "require_confirmation"

\* The cost of that call, coin by coin: a sum of costs is the size of a set of coins.
Coins(w) == {w} \X (1..Cost[Ref(w)])
Owed(d) ==
    {coin \in Walks \X Nat : /\ Charges(coin[1]) /\ walk[coin[1]].day = d
                             /\ coin[2] \in 1..Cost[Ref(coin[1])]}

\* The ledger holds what was let through and what is about to be.
Covered(d) ==
    /\ IsFiniteSet(Owed(d))
    /\ dispatched[d] + Cardinality(Owed(d)) <= SpentIn(Shared, <<d, d + 1>>)
ChargedInv == \A d \in Days : Covered(d)

\* The numbers the proofs below reason about.
LEMMA CoveredNumbers ==
    ASSUME TypeOK, NEW d \in Days
    PROVE  dispatched[d] \in Nat /\ SpentIn(Shared, <<d, d + 1>>) \in Int
<1>1. Window(<<d, d + 1>>)
  BY WindowsWellFormed DEF DayWindows
<1>2. Shared \in Ledgers
  BY DEF Ledgers
<1>3. spent[Shared][d] \in Nat /\ spent[Shared][d + 1] \in Nat
  BY <1>1, <1>2, SpendIsNatural
<1> QED
  BY <1>3 DEF TypeOK, SpentIn

LEMMA CoinsCount ==
    ASSUME NEW w \in Walks, NEW cost \in Nat
    PROVE  IsFiniteSet({w} \X (1..cost)) /\ Cardinality({w} \X (1..cost)) = cost
<1>1. IsFiniteSet({w}) /\ Cardinality({w}) = 1
  BY FS_Singleton
<1>2. IsFiniteSet(1..cost) /\ Cardinality(1..cost) = cost
  BY FS_Interval, cost >= 1 \/ cost = 0
<1>3. ASSUME NEW S, NEW T, IsFiniteSet(S), Cardinality(S) = 1, IsFiniteSet(T), Cardinality(T) = cost
      PROVE  IsFiniteSet(S \X T) /\ Cardinality(S \X T) = cost
  <2>1. IsFiniteSet(S \X T) /\ Cardinality(S \X T) = 1 * cost
    BY <1>3, FS_Product
  <2> QED
    BY <2>1
<1> QED
  BY <1>1, <1>2, <1>3

LEMMA CostOfStep ==
    ASSUME TypeOK, SectionInv, NEW w \in Walks, walk[w].at # "idle"
    PROVE  Cost[Ref(w)] \in Nat /\ walk[w].day \in Days
<1>1. walk[w].chain \in Seq(Refs) /\ walk[w].chain # <<>> /\ walk[w].day \in Days
  BY DEF TypeOK, SectionInv
<1>2. Head(walk[w].chain) \in Refs
  BY <1>1
<1> QED
  BY <1>1, <1>2, ConstantsAssumption DEF Ref

LEMMA InitCharged == Init => ChargedInv
<1> SUFFICES ASSUME Init, NEW d \in Days PROVE Covered(d)
  BY DEF ChargedInv
<1>1. Owed(d) = {}
  BY DEF Init, Owed, Charges, At, Idle
<1>2. d \in 1..(MaxDay + 1) /\ d + 1 \in 1..(MaxDay + 1)
  BY ConstantsAssumption DEF Days
<1>3. SpentIn(Shared, <<d, d + 1>>) = 0 /\ dispatched[d] = 0
  BY <1>2 DEF Init, SpentIn, NothingSpent, Ledgers
<1> QED
  BY <1>1, <1>3, FS_EmptySet DEF Covered

\* A step that lets nothing through and after which no walk has newly recorded.
LEMMA NothingNewlyOwed ==
    ASSUME TypeOK, ChargedInv, dispatched' = dispatched,
           \A d \in Days : SpentIn(Shared, <<d, d + 1>>)' = SpentIn(Shared, <<d, d + 1>>),
           \A w \in Walks : Charges(w)' => Charges(w) /\ walk'[w] = walk[w]
    PROVE  ChargedInv'
<1> SUFFICES ASSUME NEW d \in Days PROVE Covered(d)'
  BY DEF ChargedInv
<1>1. Owed(d)' \subseteq Owed(d)
  BY DEF Owed, Ref
<1>2. /\ IsFiniteSet(Owed(d)) /\ Cardinality(Owed(d)) \in Nat
      /\ dispatched[d] + Cardinality(Owed(d)) <= SpentIn(Shared, <<d, d + 1>>)
  BY FS_CardinalityType DEF ChargedInv, Covered
<1>3. /\ IsFiniteSet(Owed(d)') /\ Cardinality(Owed(d)') \in Nat
      /\ Cardinality(Owed(d)') <= Cardinality(Owed(d))
  BY <1>1, <1>2, FS_Subset, FS_CardinalityType
<1>4. dispatched[d] + Cardinality(Owed(d)') <= SpentIn(Shared, <<d, d + 1>>)
  BY <1>2, <1>3, CoveredNumbers
<1> QED
  BY <1>3, <1>4 DEF Covered

\* Record charges what the walk then owes.
LEMMA RecordCharges ==
    ASSUME TypeOK, TypeOK', SectionInv, PermitInv, ChargedInv, NEW w \in Walks, Record(w)
    PROVE  ChargedInv'
<1>0. /\ At(w, "record") /\ walk' = [walk EXCEPT ![w].at = "bind"]
      /\ persist' = persist /\ dispatched' = dispatched
  BY DEF Record, Move
<1>1. /\ walk'[w] = [walk[w] EXCEPT !.at = "bind"] /\ Ref(w)' = Ref(w)
      /\ \A v \in Walks \ {w} : walk'[v] = walk[v]
      /\ Cost[Ref(w)] \in Nat /\ walk[w].day \in Days /\ ~Charges(w)
  BY <1>0, CostOfStep DEF TypeOK, Ref, At, Charges
<1> SUFFICES ASSUME NEW d \in Days PROVE Covered(d)'
  BY DEF ChargedInv
<1>w. Window(<<d, d + 1>>)
  BY WindowsWellFormed DEF DayWindows
<1>2. /\ IsFiniteSet(Owed(d)) /\ Cardinality(Owed(d)) \in Nat /\ dispatched[d] \in Nat
      /\ SpentIn(Shared, <<d, d + 1>>) \in Int
      /\ dispatched[d] + Cardinality(Owed(d)) <= SpentIn(Shared, <<d, d + 1>>)
  BY CoveredNumbers, FS_CardinalityType DEF ChargedInv, Covered
<1>3. CASE persist = "db" /\ walk[w].day = d
  <2>1. SpentIn(Shared, <<d, d + 1>>)' = SpentIn(Shared, <<d, d + 1>>) + Cost[Ref(w)]
    <3>1. spent[Shared] \in Spends
          /\ spent'[Shared] = Charged(spent[Shared], walk[w].day, Cost[Ref(w)])
      BY <1>3 DEF Record, Ledger, Ledgers, TypeOK
    <3>2. d <= d /\ d < d + 1
      BY ConstantsAssumption DEF Days
    <3> QED
      BY <1>w, <1>1, <1>3, <3>1, <3>2, ChargedWindow DEF SpentIn
  <2>2. Owed(d)' = Owed(d) \cup Coins(w)
    <3>1. Charges(w)' /\ walk'[w].day = d
      BY <1>0, <1>1, <1>3 DEF Charges, At, PermitInv, TypeOK
    <3>2. \A v \in Walks \ {w} : (Charges(v)' <=> Charges(v)) /\ Ref(v)' = Ref(v)
      BY <1>0, <1>1 DEF Charges, At, Ref
    <3>3. 1..Cost[Ref(w)] \subseteq Nat
      BY <1>1
    <3> QED
      BY <1>1, <3>1, <3>2, <3>3 DEF Owed, Coins
  <2>3. IsFiniteSet(Coins(w)) /\ Cardinality(Coins(w)) = Cost[Ref(w)]
    BY <1>1, CoinsCount DEF Coins
  <2>4. Owed(d) \cap Coins(w) = {}
    BY <1>1 DEF Owed, Coins
  <2>5. IsFiniteSet(Owed(d)') /\ Cardinality(Owed(d)') = Cardinality(Owed(d)) + Cost[Ref(w)]
    <3>1. ASSUME NEW S, NEW T, IsFiniteSet(S), IsFiniteSet(T), S \cap T = {}
          PROVE  IsFiniteSet(S \cup T) /\ Cardinality(S \cup T) = Cardinality(S) + Cardinality(T)
      <4>1. Cardinality(S) \in Nat /\ Cardinality(T) \in Nat /\ Cardinality(S \cap T) = 0
        BY <3>1, FS_CardinalityType, FS_EmptySet
      <4>2. /\ IsFiniteSet(S \cup T)
            /\ Cardinality(S \cup T) = Cardinality(S) + Cardinality(T) - Cardinality(S \cap T)
        BY <3>1, FS_Union
      <4> QED
        BY <4>1, <4>2
    <3> QED
      BY <1>2, <2>2, <2>3, <2>4, <3>1
  <2>6. dispatched'[d] + Cardinality(Owed(d)') <= SpentIn(Shared, <<d, d + 1>>)'
    BY <1>0, <1>1, <1>2, <2>1, <2>5
  <2> QED
    BY <2>5, <2>6 DEF Covered
<1>4. CASE ~(persist = "db" /\ walk[w].day = d)
  <2>1. SpentIn(Shared, <<d, d + 1>>)' = SpentIn(Shared, <<d, d + 1>>)
    <3>1. CASE persist # "db"
      BY <3>1, ConstantsAssumption DEF Record, Ledger, Ledgers, TypeOK, SpentIn
    <3>2. CASE persist = "db"
      <4>1. spent[Shared] \in Spends
            /\ spent'[Shared] = Charged(spent[Shared], walk[w].day, Cost[Ref(w)])
        BY <3>2 DEF Record, Ledger, Ledgers, TypeOK
      <4>2. ~(d <= walk[w].day /\ walk[w].day < d + 1)
        <5>1. walk[w].day \in Int /\ d \in Int /\ walk[w].day # d
          BY <1>1, <1>4, <3>2 DEF Days
        <5> QED
          BY <5>1
      <4> QED
        BY <1>w, <1>1, <4>1, <4>2, ChargedWindow DEF SpentIn
    <3> QED
      BY <3>1, <3>2
  <2>2. Owed(d)' \subseteq Owed(d)
    BY <1>0, <1>1, <1>4 DEF Owed, Charges, At, Ref
  <2>3. IsFiniteSet(Owed(d)') /\ Cardinality(Owed(d)') <= Cardinality(Owed(d))
        /\ Cardinality(Owed(d)') \in Nat
    BY <1>2, <2>2, FS_Subset, FS_CardinalityType
  <2>4. dispatched'[d] + Cardinality(Owed(d)') <= SpentIn(Shared, <<d, d + 1>>)'
    BY <1>0, <1>2, <2>1, <2>3
  <2> QED
    BY <2>3, <2>4 DEF Covered
<1> QED
  BY <1>3, <1>4

\* Bind lets through what the walk owed.
LEMMA BindCharged ==
    ASSUME TypeOK, SectionInv, ChargedInv, NEW w \in Walks, Bind(w)
    PROVE  ChargedInv'
<1>0. /\ At(w, "bind") /\ persist' = persist /\ spent' = spent
      /\ walk' = [walk EXCEPT ![w].at = IF Kind[w] = "harness" THEN "bound" ELSE "invoking"]
      /\ dispatched' = IF Charges(w) THEN [dispatched EXCEPT ![walk[w].day] = @ + Cost[Ref(w)]]
                       ELSE dispatched
  BY DEF Bind, Move, Charges
<1>1. /\ ~Charges(w)' /\ Cost[Ref(w)] \in Nat /\ walk[w].day \in Days
      /\ \A v \in Walks \ {w} : walk'[v] = walk[v] /\ Ref(v)' = Ref(v)
                                /\ (Charges(v)' <=> Charges(v))
  BY <1>0, CostOfStep DEF TypeOK, Ref, At, Charges
<1> SUFFICES ASSUME NEW d \in Days PROVE Covered(d)'
  BY DEF ChargedInv
<1>s. SpentIn(Shared, <<d, d + 1>>)' = SpentIn(Shared, <<d, d + 1>>)
  BY <1>0 DEF SpentIn
<1>2. /\ IsFiniteSet(Owed(d)) /\ Cardinality(Owed(d)) \in Nat /\ dispatched[d] \in Nat
      /\ SpentIn(Shared, <<d, d + 1>>) \in Int
      /\ dispatched[d] + Cardinality(Owed(d)) <= SpentIn(Shared, <<d, d + 1>>)
  BY CoveredNumbers, FS_CardinalityType DEF ChargedInv, Covered
<1>3. CASE Charges(w) /\ walk[w].day = d
  <2>1. Owed(d)' = Owed(d) \ Coins(w)
    BY <1>1 DEF Owed, Coins
  <2>2. Owed(d) \cap Coins(w) = Coins(w)
    <3>1. 1..Cost[Ref(w)] \subseteq Nat
      BY <1>1
    <3> QED
      BY <1>3, <3>1 DEF Owed, Coins
  <2>3. Cardinality(Coins(w)) = Cost[Ref(w)]
    BY <1>1, CoinsCount DEF Coins
  <2>4. /\ IsFiniteSet(Owed(d)')
        /\ Cardinality(Owed(d)') = Cardinality(Owed(d)) - Cost[Ref(w)]
    <3>1. ASSUME NEW S, NEW T, IsFiniteSet(S), S \cap T = T
          PROVE  IsFiniteSet(S \ T) /\ Cardinality(S \ T) = Cardinality(S) - Cardinality(T)
      BY <3>1, FS_Difference
    <3> QED
      BY <1>2, <2>1, <2>2, <2>3, <3>1
  <2>5. dispatched'[d] = dispatched[d] + Cost[Ref(w)]
    BY <1>0, <1>3 DEF TypeOK
  <2>6. dispatched'[d] + Cardinality(Owed(d)') <= SpentIn(Shared, <<d, d + 1>>)'
    BY <1>s, <1>1, <1>2, <2>4, <2>5
  <2> QED
    BY <2>4, <2>6 DEF Covered
<1>4. CASE ~(Charges(w) /\ walk[w].day = d)
  <2>1. Owed(d)' \subseteq Owed(d)
    BY <1>1 DEF Owed
  <2>2. IsFiniteSet(Owed(d)') /\ Cardinality(Owed(d)') <= Cardinality(Owed(d))
        /\ Cardinality(Owed(d)') \in Nat
    BY <1>2, <2>1, FS_Subset, FS_CardinalityType
  <2>3. dispatched'[d] = dispatched[d]
    BY <1>0, <1>4 DEF TypeOK
  <2>4. dispatched'[d] + Cardinality(Owed(d)') <= SpentIn(Shared, <<d, d + 1>>)'
    BY <1>s, <1>2, <2>2, <2>3
  <2> QED
    BY <2>2, <2>4 DEF Covered
<1> QED
  BY <1>3, <1>4

LEMMA StepCharged == IInv /\ ChargedInv /\ [Next]_vars => ChargedInv'
<1> SUFFICES ASSUME IInv, ChargedInv, [Next]_vars PROVE ChargedInv'
  OBVIOUS
<1>0. TypeOK /\ SectionInv /\ UnusedInv /\ PermitInv /\ TypeOK'
  BY StepHolds DEF IInv
<1>1. ASSUME NEW w \in Walks, WalkStep(w), ~Record(w), ~Bind(w) PROVE ChargedInv'
  <2>1. UNCHANGED <<persist, today, spent, file, dispatched>>
    <3>1. /\ ~Record(w) /\ ~Bind(w)
          /\ \/ \E chain \in Chains : Begin(w, chain)
             \/ Check(w) \/ ReadDaily(w) \/ ReadMonthly(w) \/ Record(w) \/ LedgerFails(w)
             \/ Bind(w) \/ BindFails(w) \/ Answer(w) \/ InvocationFails(w)
      BY <1>1 DEF WalkStep
    <3>2. CASE \E chain \in Chains : Begin(w, chain)
      BY <3>2 DEF Begin
    <3> QED
      BY <3>1, <3>2 DEF Check, ReadDaily, ReadMonthly, LedgerFails, BindFails, Answer,
                        InvocationFails
  <2>2. \A v \in Walks \ {w} : walk'[v] = walk[v]
    <3>1. \E record : walk' = [walk EXCEPT ![w] = record]
      BY <1>0, <1>1, WalkStepFits
    <3> QED
      BY <1>0, <3>1 DEF TypeOK
  <2>3. ~Charges(w)'
    <3>1. Idle.at # "bind" /\ Advanced(w, {}).at # "bind"
      BY <1>0 DEF Idle, Advanced, TypeOK
    <3>2. Refuse(w) \/ Advance(w) => walk'[w].at # "bind"
      BY <1>0, <3>1 DEF Refuse, Advance, TypeOK
    <3>3. CASE \E chain \in Chains : Begin(w, chain)
      BY <1>0, <3>3 DEF Begin, Idle, TypeOK, Charges, At
    <3>4. CASE Check(w)
      <4>1. CASE Confirm(w) /\ Effect(Kind[w], Ref(w)) = "require_confirmation"
        BY <1>0, <3>2, <4>1 DEF Confirm, Move, Charges, At, Ref, TypeOK
      <4>2. CASE walk' = [walk EXCEPT ![w].at = "daily", ![w].day = today]
        BY <1>0, <4>2 DEF Charges, At, TypeOK
      <4> QED
        BY <3>2, <3>4, <4>1, <4>2 DEF Check, Charges, At
    <3>5. CASE ReadDaily(w) \/ ReadMonthly(w)
      BY <1>0, <3>2, <3>5 DEF ReadDaily, ReadMonthly, Move, Charges, At, TypeOK
    <3>6. CASE LedgerFails(w) \/ BindFails(w) \/ InvocationFails(w)
      BY <3>2, <3>6 DEF LedgerFails, BindFails, InvocationFails, Charges, At
    <3>7. CASE Answer(w)
      BY <1>0, <3>1, <3>7 DEF Answer, Charges, At, TypeOK
    <3> QED
      BY <1>1, <3>3, <3>4, <3>5, <3>6, <3>7 DEF WalkStep
  <2>4. \A v \in Walks : Charges(v)' => Charges(v) /\ walk'[v] = walk[v]
    BY <2>1, <2>2, <2>3 DEF Charges, At, Ref
  <2>5. \A d \in Days : SpentIn(Shared, <<d, d + 1>>)' = SpentIn(Shared, <<d, d + 1>>)
    BY <2>1 DEF SpentIn
  <2> QED
    BY <1>0, <2>1, <2>4, <2>5, NothingNewlyOwed
<1>2. CASE NewDay \/ UNCHANGED vars
  <2>1. UNCHANGED <<persist, spent, walk, dispatched>>
    BY <1>2 DEF NewDay, vars
  <2>2. \A v \in Walks : Charges(v)' => Charges(v) /\ walk'[v] = walk[v]
    BY <2>1 DEF Charges, At, Ref
  <2>3. \A d \in Days : SpentIn(Shared, <<d, d + 1>>)' = SpentIn(Shared, <<d, d + 1>>)
    BY <2>1 DEF SpentIn
  <2> QED
    BY <1>0, <2>1, <2>2, <2>3, NothingNewlyOwed
<1>3. ASSUME NEW p \in Processes, Restart(p) PROVE ChargedInv'
  <2>1. persist' = persist /\ dispatched' = dispatched /\ spent'[Shared] = spent[Shared]
    BY <1>0, <1>3, ConstantsAssumption DEF Restart, TypeOK, Ledgers
  <2>2. \A v \in Walks : Charges(v)' => Charges(v) /\ walk'[v] = walk[v]
    BY <1>3, <2>1 DEF Restart, Charges, At, Ref, Idle
  <2>3. \A d \in Days : SpentIn(Shared, <<d, d + 1>>)' = SpentIn(Shared, <<d, d + 1>>)
    BY <2>1 DEF SpentIn
  <2> QED
    BY <1>0, <2>1, <2>2, <2>3, NothingNewlyOwed
<1> QED
  BY <1>0, <1>1, <1>2, <1>3, RecordCharges, BindCharged DEF Next, WalkStep

\* Whatever is let through without a confirmation is on the shared ledger, under the
\* day of its check, for any costs, chains and policies: the walk records before it
\* binds, a failing ledger lets nothing through, and a restart forgets no row.
THEOREM AllCharged == Spec => []DispatchesCharged
<1>1. ASSUME IInv, ChargedInv, NEW d \in Days
      PROVE  dispatched[d] <= spent[Shared][d] - spent[Shared][d + 1]
  <2>1. TypeOK
    BY <1>1 DEF IInv
  <2>2. /\ Cardinality(Owed(d)) \in Nat /\ dispatched[d] \in Nat
        /\ SpentIn(Shared, <<d, d + 1>>) \in Int
        /\ dispatched[d] + Cardinality(Owed(d)) <= SpentIn(Shared, <<d, d + 1>>)
    BY <1>1, <2>1, CoveredNumbers, FS_CardinalityType DEF ChargedInv, Covered
  <2> QED
    BY <2>2 DEF SpentIn
<1>2. IInv /\ ChargedInv => DispatchesCharged
  BY <1>1 DEF DispatchesCharged, SpentIn
<1>3. Spec => []ChargedInv
  BY InitCharged, StepCharged, Invariance, PTL DEF Spec
<1> QED
  BY <1>2, <1>3, Invariance, PTL

=============================================================================
