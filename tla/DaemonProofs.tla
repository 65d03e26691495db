---------------------------- MODULE DaemonProofs ----------------------------
(***************************************************************************)
(* Proofs about Daemon and Reflection, which it runs as a job of its own.  *)
(* Of Daemon: the type invariant, that extensions are released, that the   *)
(* way down goes down and starts nothing, and that calendar events are     *)
(* served, for any jobs, periods, calendars, leads and answer times.  Of   *)
(* Reflection: the type invariant, that the marker passes no interaction   *)
(* untold, and that none is told of twice undisturbed.                     *)
(***************************************************************************)
EXTENDS Daemon, Reflection, FiniteSetTheorems, WellFoundedInduction, TLAPS

-----------------------------------------------------------------------------
(* Daemon: the extensions                                                  *)

Loading == {"loading", "discarding"}
Up == {"serving", "draining", "stopping"}

\* What the hooks made of extension x, on the way up and on the way down.
Settled(x, owners) ==
    \/ ext[x] = "ready" /\ closings[x] = 0 /\ x \in owners
    \/ ext[x] = "disabled" /\ closings[x] = 1 /\ x \notin owners
Untouched(x) == ext[x] = "new" /\ closings[x] = 0 /\ x \notin held
Down(x) == ext[x] = "closed" /\ closings[x] = 1 /\ x \notin held

\* A load interrupted at extension main.ext: nobody owns what was initialized.
Forgotten ==
    /\ held = {}
    /\ ext[main.ext] = "new"
    /\ \A x \in Exts : ext[x] # "closed" /\ closings[x] <= 1

\* Every extension a complete load took up is held until it is closed, the later
\* ones first.
TakenDown ==
    /\ \A x \in Exts : Settled(x, held) \/ Down(x)
    /\ \A x \in held, y \in Exts : ext[y] = "closed" => x < y

\* Who owns the extensions at each place of the main task.
LifeInv ==
    /\ main.at \in Loading =>
          /\ active = {}
          /\ \A x \in Exts : x < main.ext => Settled(x, held)
          /\ \A x \in Exts : x > main.ext => Untouched(x)
          /\ ext[main.ext] = "new" /\ main.ext \notin held
          /\ closings[main.ext] = IF main.at = "loading" THEN 0 ELSE 1
    /\ main.at \in Up => held = {} /\ \A x \in Exts : Settled(x, active)
    /\ main.at \in {"releasing", "ended"} => active = {} /\ (Forgotten \/ TakenDown)
    /\ main.at = "ended" => held = {}

\* No loop runs before the load is over or after the end, and none is left running,
\* not even with a cancellation on its way, unless the server made the process exit; or
\* at all, unless the server's task raised.
TaskInv ==
    /\ main.at \in Loading => Alive = {}
    /\ main.at \in Loading \cup {"serving", "draining"} => cancelling = {}
    /\ main.at = "releasing" =>
          \A j \in Alive : server = "failed" \/ (server = "exited" /\ j \in cancelling)
    /\ main.at = "ended" => Alive = {}

-----------------------------------------------------------------------------
(* Daemon: the calendar events                                             *)

\* The time that runs of other events may still take before that of event e, as none
\* is run twice.
Left(j, e) == Cardinality(Events \ (fired[j] \cup {e})) * MaxRun

\* From time w on any poll of job j that succeeds lists event e, and a cycle and an
\* answer later it has not begun.
Open(j, e, w) ==
    /\ booked[e] <= w /\ up[j] <= w /\ Start[e] - Lead <= w
    /\ w + Cycle + MaxPoll <= Start[e]

\* The first request after time w is made within a cycle, and the event is run before
\* it begins, even if every event not yet run is run before it.
InTime(j, e, w) ==
    /\ loop[j].at = "asleep" => loop[j].wake + Left(j, e) <= w + Cycle
    /\ loop[j].at = "asking" => loop[j].since + Left(j, e) <= w + Cycle
    /\ loop[j].at = "running" =>
          loop[j].since + MaxRun + Left(j, e) <=
             w + Cycle + (IF e \in loop[j].todo THEN MaxPoll ELSE -Poll)

\* One job: what was run is what was marked, and what is still to be run was not; it is
\* not late, as time does not go on past what is due; and what it owes is in time.
Served(j) ==
    /\ \A e \in Events : runs[j][e] = IF e \in fired[j] THEN 1 ELSE 0
    /\ loop[j].at = "running" => loop[j].todo \cap fired[j] = {}
    /\ loop[j].at # "off" => loop[j].since <= now
    /\ loop[j].at = "asking" => now <= loop[j].since + MaxPoll
    /\ loop[j].at = "running" => now <= loop[j].since + MaxRun
    /\ loop[j].at = "asleep" => now <= loop[j].wake
    /\ \A e \in Events : \A w \in Nat :
          e \notin fired[j] /\ Open(j, e, w) => InTime(j, e, w)

ServedInv == \A j \in Calendars : Served(j)

-----------------------------------------------------------------------------
(* Daemon: the type invariant                                              *)

Task == [at : {"off"} \cup Suspended, since : Times, wake : Nat, todo : SUBSET Events]

\* Only the loop of a calendar job asks for events.
AskInv == \A j \in Jobs \ Calendars : loop[j].at # "asking"

LEMMA NextFireTimeType ==
    ASSUME NEW j \in Cron \cup Intervals, now \in Nat
    PROVE  NextFireTime(j) \in Nat
<1>1. Period[j] \in Nat /\ Period[j] > 0
  BY DaemonAssumption
<1>2. now \div Period[j] \in Nat
  BY <1>1
<1>3. (now \div Period[j] + 1) * Period[j] \in Nat
  BY <1>1, <1>2
<1> QED BY <1>1, <1>3 DEF NextFireTime

\* What a task's record may become.
LEMMA TaskTypes ==
    ASSUME now \in Times
    PROVE  /\ Off \in Task /\ Asking \in Task
           /\ \A todo \in SUBSET Events : Running(todo) \in Task
           /\ \A wake \in Nat : Asleep(wake) \in Task
           /\ \A j \in Jobs : Again(j) \in Task
<1>1. now \in Nat /\ now \in 0..MaxTime /\ 0 \in Times /\ MaxTime \in Nat
  BY DaemonAssumption DEF Times
<1>2. Off \in Task
  BY <1>1 DEF Off, Task
<1>3. Asking \in Task
  BY <1>1 DEF Asking, Off, Task, Suspended, Times
<1>4. ASSUME NEW todo \in SUBSET Events PROVE Running(todo) \in Task
  BY <1>1 DEF Running, Off, Task, Suspended, Times
<1>5. ASSUME NEW wake \in Nat PROVE Asleep(wake) \in Task
  BY <1>1 DEF Asleep, Off, Task, Suspended
<1>6. ASSUME NEW j \in Jobs PROVE Again(j) \in Task
  BY <1>1, <1>3, <1>5, <1>6, NextFireTimeType DEF Again, Jobs
<1> QED BY <1>2, <1>3, <1>4, <1>5, <1>6

LEMMA DaemonTypeInit == DaemonInit => DaemonTypeOK /\ AskInv
<1> SUFFICES ASSUME DaemonInit PROVE DaemonTypeOK /\ AskInv
  OBVIOUS
<1>1. 0 \in Times /\ now = 0 /\ 1 \in Exts
  BY DaemonAssumption DEF DaemonInit, Times, Exts
<1>2. loop \in [Jobs -> Task] /\ AskInv
  BY <1>1, TaskTypes DEF DaemonInit, AskInv, Off
<1>3. booked \in [Events -> Times]
  BY DaemonAssumption DEF DaemonInit
<1>4. main \in [at : MainPlaces, ext : Exts]
  BY <1>1 DEF DaemonInit, MainPlaces
<1> QED BY <1>1, <1>2, <1>3, <1>4 DEF DaemonInit, DaemonTypeOK, Task, Servers

\* An answer is run or over.
LEMMA FireNextType ==
    ASSUME DaemonTypeOK, NEW j \in Calendars, NEW todo \in SUBSET Events, FireNext(j, todo)
    PROVE  /\ loop' \in [Jobs -> Task]
           /\ fired' \in [Calendars -> SUBSET Events]
           /\ runs' \in [Calendars -> [Events -> Nat]]
<1>1. now \in Times /\ now + Poll \in Nat /\ j \in Jobs
  BY DaemonAssumption DEF DaemonTypeOK, Times, Jobs
<1>2. loop \in [Jobs -> Task]
  BY DEF DaemonTypeOK, Task
<1>3. CASE todo = {}
  BY <1>1, <1>2, <1>3, TaskTypes DEF FireNext, DaemonTypeOK
<1>4. CASE todo # {}
  <2>1. PICK e \in todo :
           /\ fired' = [fired EXCEPT ![j] = @ \cup {e}]
           /\ runs' = [runs EXCEPT ![j][e] = @ + 1]
           /\ loop' = [loop EXCEPT ![j] = Running(todo \ {e})]
    BY <1>4 DEF FireNext
  <2>2. Running(todo \ {e}) \in Task
    BY <1>1, TaskTypes
  <2>3. loop' \in [Jobs -> Task]
    BY <1>2, <2>1, <2>2
  <2>4. fired' \in [Calendars -> SUBSET Events]
    BY <2>1 DEF DaemonTypeOK
  <2>5. runs' \in [Calendars -> [Events -> Nat]]
    BY <2>1 DEF DaemonTypeOK
  <2> QED BY <2>3, <2>4, <2>5
<1> QED BY <1>3, <1>4

LEMMA LoadNextType ==
    ASSUME DaemonTypeOK, NEW loaded \in SUBSET Exts, LoadNext(loaded)
    PROVE  /\ main' \in [at : MainPlaces, ext : Exts]
           /\ active' \subseteq Exts /\ held' \subseteq Exts
           /\ server' \in Servers
           /\ loop' \in [Jobs -> Task]
           /\ up' \in [Calendars -> Times]
           /\ cancelling' \subseteq Jobs
<1>1. now \in Times /\ loop \in [Jobs -> Task]
  BY DEF DaemonTypeOK, Task
<1>2. CASE main.ext < NumExts
  <2>1. main.ext \in Exts /\ main.ext + 1 \in Exts
    BY <1>2, DaemonAssumption DEF DaemonTypeOK, Exts
  <2>2. main' \in [at : MainPlaces, ext : Exts]
    BY <1>2, <2>1 DEF LoadNext, MainPlaces
  <2> QED BY <1>1, <1>2, <2>2 DEF LoadNext, DaemonTypeOK
<1>3. CASE ~(main.ext < NumExts)
  <2>1. Loaded(loaded)
    BY <1>3 DEF LoadNext
  <2>2. loop' \in [Jobs -> Task]
    BY <1>1, <2>1, TaskTypes DEF Loaded
  <2>3. main' \in [at : MainPlaces, ext : Exts]
    BY <2>1 DEF Loaded, GoOn, DaemonTypeOK, MainPlaces
  <2>4. server' \in Servers /\ active' \subseteq Exts /\ held' \subseteq Exts
    BY <2>1 DEF Loaded, DaemonTypeOK, Servers
  <2>5. up' \in [Calendars -> Times]
    BY <1>1, <2>1 DEF Loaded
  <2>6. cancelling' \subseteq Jobs
    BY <2>1 DEF Loaded, Scheduled, DaemonTypeOK
  <2> QED BY <2>2, <2>3, <2>4, <2>5, <2>6
<1> QED BY <1>2, <1>3

LEMMA ReleaseType ==
    ASSUME DaemonTypeOK, Release
    PROVE  /\ main' \in [at : MainPlaces, ext : Exts]
           /\ active' \subseteq Exts /\ held' \subseteq Exts
BY DEF DaemonTypeOK, Release, GoOn, MainPlaces

\* A set of numbers up to a bound that is not empty has a largest.
LEMMA BoundedHasLargest ==
    ASSUME NEW n \in Nat, NEW S \in SUBSET (1..n), S # {}
    PROVE  \E i \in S : \A k \in S : k <= i
<1> DEFINE T == {m \in Nat : \E i \in S : m = n - i}
<1>1. T \subseteq Nat /\ T # {} /\ \A i \in S : n - i \in T
  <2>1. \A i \in S : n - i \in Nat
    OBVIOUS
  <2> QED BY <2>1
<1>2. PICK t \in T : \A y \in T : ~(<<y, t>> \in OpToRel(<, Nat))
  BY <1>1, NatLessThanWellFounded, WFMin
<1>3. \A y \in T : ~(y < t)
  BY <1>1, <1>2 DEF OpToRel
<1>4. PICK i \in S : t = n - i
  BY <1>2
<1>5. \A k \in S : k <= i
  <2> TAKE k \in S
  <2>1. ~(n - k < n - i)
    BY <1>1, <1>3, <1>4
  <2> QED BY <2>1
<1> QED BY <1>5

\* The extension closed next is the last one held.
LEMMA ClosesLast ==
    ASSUME DaemonTypeOK, CloseNext
    PROVE  \E x \in held :
              /\ \A z \in held : z <= x
              /\ ext' = [ext EXCEPT ![x] = "closed"]
              /\ closings' = [closings EXCEPT ![x] = @ + 1]
              /\ held' = held \ {x}
<1> DEFINE x == CHOOSE y \in held : \A z \in held : z <= y
<1>1. \E y \in held : \A z \in held : z <= y
  BY BoundedHasLargest, DaemonAssumption DEF DaemonTypeOK, CloseNext, Exts
<1>2. x \in held /\ \A z \in held : z <= x
  BY <1>1
<1>3. /\ ext' = [ext EXCEPT ![x] = "closed"]
      /\ closings' = [closings EXCEPT ![x] = @ + 1]
      /\ held' = held \ {x}
  BY DEF CloseNext
<1> HIDE DEF x
<1> QED BY <1>2, <1>3

LEMMA DaemonTypeNext ==
    DaemonTypeOK /\ AskInv /\ [DaemonNext]_daemonVars => DaemonTypeOK' /\ AskInv'
<1> SUFFICES ASSUME DaemonTypeOK, AskInv, [DaemonNext]_daemonVars
             PROVE  DaemonTypeOK' /\ AskInv'
  OBVIOUS
<1> USE DEF mainVars, loopVars
<1>a. /\ now \in Times /\ now \in Nat /\ loop \in [Jobs -> Task]
      /\ Calendars \subseteq Jobs /\ Jobs \ Calendars \subseteq Cron \cup Intervals
  BY DaemonAssumption DEF DaemonTypeOK, Task, Times, Jobs
<1>b. /\ Off.at = "off" /\ Asking.at = "asking"
      /\ \A todo : Running(todo).at = "running"
      /\ \A wake : Asleep(wake).at = "asleep"
  BY DEF Off, Asking, Running, Asleep
<1>c. ASSUME NEW j \in Jobs, NEW task \in Task, loop' = [loop EXCEPT ![j] = task],
             j \in Calendars \/ task.at # "asking"
      PROVE  loop' \in [Jobs -> Task] /\ AskInv'
  BY <1>a, <1>c DEF AskInv
<1>1. ASSUME NEW j \in Jobs, LoopStep(j) PROVE DaemonTypeOK' /\ AskInv'
  <2>1. CASE PollAnswers(j)
    <3>1. j \in Calendars
      BY <2>1 DEF PollAnswers, LoopAt, AskInv
    <3>2. PICK todo \in SUBSET Events : FireNext(j, todo)
      BY <2>1 DEF PollAnswers, Upcoming
    <3>3. AskInv'
      BY <1>a, <3>1, <3>2 DEF FireNext, AskInv
    <3> QED BY <2>1, <3>1, <3>2, <3>3, FireNextType DEF PollAnswers, DaemonTypeOK, Task
  <2>2. CASE PollFails(j)
    <3>1. j \in Calendars
      BY <2>2 DEF PollFails, LoopAt, AskInv
    <3>2. Asleep(now + Poll) \in Task
      BY <1>a, TaskTypes, DaemonAssumption
    <3>3. loop' \in [Jobs -> Task] /\ AskInv'
      BY <1>b, <1>c, <2>2, <3>2 DEF PollFails
    <3>4. up' \in [Calendars -> Times]
      BY <1>a, <2>2, <3>1 DEF PollFails, DaemonTypeOK
    <3> QED BY <2>2, <3>3, <3>4 DEF PollFails, DaemonTypeOK, Task
  <2>3. CASE Wakes(j)
    <3>1. loop' \in [Jobs -> Task] /\ AskInv'
      BY <1>a, <1>b, <1>c, <2>3, TaskTypes DEF Wakes
    <3> QED BY <2>3, <3>1 DEF Wakes, DaemonTypeOK, Task
  <2>4. CASE RunEnds(j)
    <3>1. CASE j \in Calendars
      <4>1. FireNext(j, loop[j].todo) /\ loop[j].todo \in SUBSET Events
        BY <1>a, <2>4, <3>1 DEF RunEnds, Task
      <4>2. AskInv'
        BY <1>a, <3>1, <4>1 DEF FireNext, AskInv
      <4> QED BY <2>4, <3>1, <4>1, <4>2, FireNextType DEF RunEnds, DaemonTypeOK, Task
    <3>2. CASE j \notin Calendars
      <4>1. Again(j) \in Task /\ Again(j).at # "asking"
        BY <1>a, <1>b, <3>2, TaskTypes DEF Again
      <4>2. loop' \in [Jobs -> Task] /\ AskInv'
        BY <1>c, <2>4, <3>2, <4>1 DEF RunEnds
      <4> QED BY <2>4, <3>2, <4>2 DEF RunEnds, DaemonTypeOK, Task
    <3> QED BY <3>1, <3>2
  <2>5. CASE CancelDelivered(j)
    <3>1. loop' \in [Jobs -> Task] /\ AskInv'
      BY <1>a, <1>b, <1>c, <2>5, TaskTypes DEF CancelDelivered
    <3> QED BY <2>5, <3>1 DEF CancelDelivered, DaemonTypeOK, Task
  <2> QED BY <1>1, <2>1, <2>2, <2>3, <2>4, <2>5 DEF LoopStep
<1>2. ASSUME Initialized \/ Discarded PROVE DaemonTypeOK' /\ AskInv'
  <2>1. PICK loaded \in SUBSET Exts : LoadNext(loaded)
    BY <1>2 DEF Initialized, Discarded, DaemonTypeOK
  <2>2. ext' \in [Exts -> {"new", "ready", "disabled", "closed"}]
    <3>1. CASE Initialized
      BY <3>1 DEF Initialized, DaemonTypeOK
    <3>2. CASE Discarded
      BY <3>2 DEF Discarded, DaemonTypeOK
    <3> QED BY <1>2, <3>1, <3>2
  <2>3. AskInv'
    BY <1>a, <1>b, <2>1 DEF LoadNext, Loaded, AskInv, Again
  <2> QED BY <1>2, <2>1, <2>2, <2>3, LoadNextType DEF Initialized, Discarded, DaemonTypeOK, Task
<1>3. ASSUME InitializeFails PROVE DaemonTypeOK' /\ AskInv'
  BY <1>3 DEF InitializeFails, GoOn, DaemonTypeOK, AskInv, MainPlaces
<1>4. ASSUME Interrupted \/ StopEnds \/ StopSkipped PROVE DaemonTypeOK' /\ AskInv'
  BY <1>4, ReleaseType DEF Interrupted, StopEnds, StopSkipped, DaemonTypeOK, AskInv
<1>5. ASSUME ServerExits PROVE DaemonTypeOK' /\ AskInv'
  BY <1>5, ReleaseType DEF ServerExits, DaemonTypeOK, AskInv, Alive, Servers
<1>6. ASSUME StopSignal \/ StopScheduler PROVE DaemonTypeOK' /\ AskInv'
  BY <1>6 DEF StopSignal, StopScheduler, GoOn, DaemonTypeOK, AskInv, Alive, MainPlaces
<1>7. ASSUME CloseNext PROVE DaemonTypeOK' /\ AskInv'
  <2>1. ext' \in [Exts -> {"new", "ready", "disabled", "closed"}] /\ closings' \in [Exts -> Nat]
    <3>1. PICK x \in held :
             ext' = [ext EXCEPT ![x] = "closed"] /\ closings' = [closings EXCEPT ![x] = @ + 1]
      BY <1>7, ClosesLast
    <3> QED BY <3>1 DEF DaemonTypeOK
  <2> QED BY <1>7, <2>1 DEF CloseNext, DaemonTypeOK, AskInv
<1>8. ASSUME Ends PROVE DaemonTypeOK' /\ AskInv'
  <2>1. loop' \in [Jobs -> Task] /\ AskInv'
    BY <1>a, <1>b, <1>8, TaskTypes DEF Ends, AskInv
  <2> QED BY <1>8, <2>1 DEF Ends, GoOn, DaemonTypeOK, Task, MainPlaces
<1>9. ASSUME ServerReturns \/ ServerRaises PROVE DaemonTypeOK' /\ AskInv'
  BY <1>9 DEF ServerReturns, ServerRaises, DaemonTypeOK, AskInv, Servers
<1>10. ASSUME Tick PROVE DaemonTypeOK' /\ AskInv'
  BY <1>10, <1>a, DaemonAssumption DEF Tick, DaemonTypeOK, AskInv, Times
<1>11. ASSUME UNCHANGED daemonVars PROVE DaemonTypeOK' /\ AskInv'
  BY <1>11 DEF daemonVars, DaemonTypeOK, AskInv
<1> QED
  BY <1>1, <1>2, <1>3, <1>4, <1>5, <1>6, <1>7, <1>8, <1>9, <1>10, <1>11
  DEF DaemonNext, MainStep, Over

LEMMA DaemonTyped == DaemonSpec => [](DaemonTypeOK /\ AskInv)
BY DaemonTypeInit, DaemonTypeNext, PTL DEF DaemonSpec

\* Every reachable state of the daemon is well typed.
THEOREM DaemonTypeCorrect == DaemonSpec => []DaemonTypeOK
BY DaemonTyped, PTL

-----------------------------------------------------------------------------
(* Daemon: the extensions are released                                     *)

LEMMA LifeInit == DaemonInit => LifeInv /\ TaskInv
<1> SUFFICES ASSUME DaemonInit PROVE LifeInv /\ TaskInv
  OBVIOUS
<1>1. 1 \in Exts /\ \A x \in Exts : ~(x < 1)
  BY DaemonAssumption DEF Exts
<1>2. LifeInv
  BY <1>1 DEF DaemonInit, LifeInv, Untouched, Loading, Up
<1>3. TaskInv
  BY DEF DaemonInit, TaskInv, Alive, Off, Loading
<1> QED BY <1>2, <1>3

\* A loop's step starts no task, and a task with a cancellation only ends.
LEMMA LoopStepTasks ==
    ASSUME DaemonTypeOK, TaskInv, NEW j \in Jobs, LoopStep(j)
    PROVE  TaskInv'
<1>1. CASE PollAnswers(j) \/ PollFails(j) \/ Wakes(j) \/ RunEnds(j)
  <2>1. j \in Alive /\ j \notin cancelling /\ UNCHANGED <<main, server, cancelling>>
    BY <1>1 DEF PollAnswers, PollFails, Wakes, RunEnds, LoopAt, Alive, mainVars
  <2>2. main.at \notin Loading \cup {"ended"} /\ (main.at = "releasing" => server = "failed")
    BY <2>1 DEF TaskInv, Loading
  <2> QED BY <2>1, <2>2 DEF TaskInv, Loading
<1>2. CASE CancelDelivered(j)
  <2>1. /\ j \in cancelling /\ cancelling' = cancelling \ {j} /\ UNCHANGED <<main, server>>
        /\ loop' = [loop EXCEPT ![j] = Off]
    BY <1>2 DEF CancelDelivered, mainVars
  <2>2. Alive' = Alive \ {j}
    BY <2>1 DEF Alive, Off, DaemonTypeOK
  <2> QED BY <2>1, <2>2 DEF TaskInv, Loading
<1> QED BY <1>1, <1>2 DEF LoopStep

LEMMA TaskNext == DaemonTypeOK /\ TaskInv /\ [DaemonNext]_daemonVars => TaskInv'
<1> SUFFICES ASSUME DaemonTypeOK, TaskInv, [DaemonNext]_daemonVars PROVE TaskInv'
  OBVIOUS
<1> USE DEF mainVars, loopVars, Loading
<1>1. ASSUME NEW j \in Jobs, LoopStep(j) PROVE TaskInv'
  BY <1>1, LoopStepTasks
<1>2. ASSUME Initialized \/ Discarded PROVE TaskInv'
  <2>1. Alive = {} /\ cancelling = {}
    BY <1>2 DEF Initialized, Discarded, TaskInv
  <2>2. \/ main'.at = "serving" /\ UNCHANGED cancelling
        \/ main'.at = "stopping"
        \/ main'.at = "loading" /\ UNCHANGED <<loop, cancelling>>
    BY <1>2 DEF Initialized, Discarded, LoadNext, Loaded, GoOn, DaemonTypeOK
  <2> QED BY <2>1, <2>2 DEF TaskInv, Alive
<1>3. ASSUME InitializeFails PROVE TaskInv'
  BY <1>3 DEF InitializeFails, GoOn, TaskInv, Alive, DaemonTypeOK
<1>4. ASSUME Interrupted \/ StopEnds \/ StopSkipped PROVE TaskInv'
  BY <1>4 DEF Interrupted, StopEnds, StopSkipped, Release, GoOn, TaskInv, Alive, DaemonTypeOK
<1>5. ASSUME ServerExits PROVE TaskInv'
  BY <1>5 DEF ServerExits, Release, GoOn, TaskInv, Alive, DaemonTypeOK
<1>6. ASSUME StopSignal \/ StopScheduler PROVE TaskInv'
  BY <1>6 DEF StopSignal, StopScheduler, GoOn, TaskInv, Alive, DaemonTypeOK
<1>7. ASSUME CloseNext PROVE TaskInv'
  BY <1>7 DEF CloseNext, TaskInv, Alive
<1>8. ASSUME Ends PROVE TaskInv'
  BY <1>8 DEF Ends, GoOn, Off, TaskInv, Alive, DaemonTypeOK
<1>9. ASSUME ServerReturns \/ ServerRaises PROVE TaskInv'
  BY <1>9 DEF ServerReturns, ServerRaises, TaskInv, Alive
<1>10. ASSUME Tick \/ UNCHANGED daemonVars PROVE TaskInv'
  BY <1>10 DEF Tick, daemonVars, TaskInv, Alive
<1> QED
  BY <1>1, <1>2, <1>3, <1>4, <1>5, <1>6, <1>7, <1>8, <1>9, <1>10
  DEF DaemonNext, MainStep, Over

\* The load goes on to the next extension, or what it loaded goes to the registry.
LEMMA LoadNextLife ==
    ASSUME DaemonTypeOK, main.at \in Loading, LifeInv, NEW loaded \in SUBSET Exts,
           LoadNext(loaded),
           \A x \in Exts \ {main.ext} : ext'[x] = ext[x] /\ closings'[x] = closings[x],
           \A x \in Exts \ {main.ext} : x \in loaded <=> x \in held,
           \/ ext'[main.ext] = "ready" /\ closings'[main.ext] = 0 /\ main.ext \in loaded
           \/ ext'[main.ext] = "disabled" /\ closings'[main.ext] = 1 /\ main.ext \notin loaded
    PROVE  LifeInv'
<1> DEFINE m == main.ext
<1>1. /\ m \in Exts /\ active = {} /\ ext[m] = "new"
      /\ \A x \in Exts : x < m => Settled(x, held)
      /\ \A x \in Exts : x > m => Untouched(x)
  BY DEF DaemonTypeOK, LifeInv
<1>2. CASE m < NumExts
  <2>1. /\ main' = [at |-> "loading", ext |-> m + 1] /\ held' = loaded /\ active' = {}
        /\ m + 1 \in Exts /\ m \in Nat
    BY <1>1, <1>2, DaemonAssumption DEF LoadNext, Exts
  <2>2. \A x \in Exts : x < m + 1 <=> x < m \/ x = m
    BY <1>1, DaemonAssumption DEF Exts
  <2>3. \A x \in Exts : x < m + 1 => Settled(x, held)'
    BY <1>1, <2>1, <2>2 DEF Settled, Exts
  <2>4. \A x \in Exts : x > m => Untouched(x)'
    BY <1>1, <2>1 DEF Untouched, Exts
  <2>5. m + 1 > m /\ \A x \in Exts : x > m + 1 => x > m
    BY <2>1 DEF Exts
  <2> QED BY <2>1, <2>3, <2>4, <2>5 DEF LifeInv, Loading, Up, Untouched
<1>3. CASE ~(m < NumExts)
  <2>1. Loaded(loaded)
    BY <1>3 DEF LoadNext
  <2>2. main'.at \in {"serving", "stopping"} /\ held' = {} /\ active' = loaded
    BY <1>1, <2>1 DEF Loaded, GoOn, DaemonTypeOK
  <2>3. \A x \in Exts : x < m \/ x = m
    BY <1>1, <1>3, DaemonAssumption DEF Exts
  <2>4. \A x \in Exts : Settled(x, active)'
    BY <1>1, <2>2, <2>3 DEF Settled, Exts
  <2> QED BY <2>2, <2>4 DEF LifeInv, Loading, Up
<1> QED BY <1>2, <1>3

\* Everything the registry holds is to be released, or an unfinished load is forgotten.
LEMMA ReleaseLife ==
    ASSUME DaemonTypeOK, LifeInv, main.at \in Loading \cup Up, Release, UNCHANGED <<ext, closings>>
    PROVE  LifeInv'
<1>1. main'.at = "releasing" /\ main'.ext = main.ext /\ held' = active /\ active' = {}
  BY DEF Release, GoOn, DaemonTypeOK
<1>2. CASE main.at \in Loading
  <2>1. main.ext \in Exts /\ \A x \in Exts : x < main.ext \/ x = main.ext \/ x > main.ext
    BY DEF DaemonTypeOK, Exts
  <2>2. held' = {} /\ ext'[main.ext] = "new"
    BY <1>1, <1>2 DEF LifeInv
  <2>3. \A x \in Exts : ext'[x] # "closed" /\ closings'[x] <= 1
    BY <1>2, <2>1 DEF LifeInv, Settled, Untouched
  <2> QED BY <1>1, <2>2, <2>3 DEF LifeInv, Loading, Up, Forgotten
<1>3. CASE main.at \in Up
  <2>1. TakenDown'
    BY <1>1, <1>3 DEF LifeInv, Settled, TakenDown
  <2> QED BY <1>1, <2>1 DEF LifeInv, Loading, Up
<1> QED BY <1>2, <1>3

LEMMA LifeNext == DaemonTypeOK /\ LifeInv /\ [DaemonNext]_daemonVars => LifeInv'
<1> SUFFICES ASSUME DaemonTypeOK, LifeInv, [DaemonNext]_daemonVars PROVE LifeInv'
  OBVIOUS
<1> USE DEF mainVars, loopVars
<1>a. ASSUME UNCHANGED <<main, ext, closings, active, held>> PROVE LifeInv'
  BY <1>a DEF LifeInv, Settled, Untouched, Down, Forgotten, TakenDown
<1>1. ASSUME NEW j \in Jobs, LoopStep(j) PROVE LifeInv'
  BY <1>1, <1>a DEF LoopStep, PollAnswers, PollFails, Wakes, RunEnds, CancelDelivered
<1>2. CASE Initialized
  <2>1. /\ main.at \in Loading /\ LoadNext(held \cup {main.ext}) /\ UNCHANGED closings
        /\ ext' = [ext EXCEPT ![main.ext] = "ready"] /\ closings[main.ext] = 0
        /\ main.ext \in Exts /\ held \cup {main.ext} \in SUBSET Exts
    BY <1>2 DEF Initialized, Loading, LifeInv, DaemonTypeOK
  <2>2. /\ ext'[main.ext] = "ready"
        /\ \A x \in Exts \ {main.ext} : ext'[x] = ext[x]
    BY <2>1 DEF DaemonTypeOK
  <2> QED BY <2>1, <2>2, LoadNextLife
<1>3. CASE Discarded
  <2>1. /\ main.at \in Loading /\ LoadNext(held) /\ UNCHANGED closings
        /\ ext' = [ext EXCEPT ![main.ext] = "disabled"] /\ closings[main.ext] = 1
        /\ main.ext \in Exts /\ held \in SUBSET Exts /\ main.ext \notin held
    BY <1>3 DEF Discarded, Loading, LifeInv, DaemonTypeOK
  <2>2. /\ ext'[main.ext] = "disabled"
        /\ \A x \in Exts \ {main.ext} : ext'[x] = ext[x]
    BY <2>1 DEF DaemonTypeOK
  <2> QED BY <2>1, <2>2, LoadNextLife
<1>4. CASE InitializeFails
  <2>1. /\ main.at = "loading" /\ main.ext \in Exts /\ main' = [main EXCEPT !.at = "discarding"]
        /\ closings' = [closings EXCEPT ![main.ext] = @ + 1] /\ UNCHANGED <<ext, active, held>>
    BY <1>4 DEF InitializeFails, GoOn, DaemonTypeOK
  <2>2. /\ main'.at = "discarding" /\ main'.ext = main.ext
        /\ closings[main.ext] = 0 /\ closings'[main.ext] = 1
        /\ \A x \in Exts \ {main.ext} : closings'[x] = closings[x]
    BY <2>1 DEF LifeInv, Loading, DaemonTypeOK
  <2>3. \A x \in Exts : x < main.ext \/ x > main.ext => x # main.ext
    BY <2>1 DEF Exts
  <2> QED BY <2>1, <2>2, <2>3 DEF LifeInv, Loading, Up, Settled, Untouched
<1>5. CASE Interrupted \/ StopEnds \/ StopSkipped \/ ServerExits
  BY <1>5, ReleaseLife DEF Interrupted, StopEnds, StopSkipped, ServerExits, Loading, Up
<1>6. CASE StopSignal \/ StopScheduler
  <2>1. /\ main.at \in Up /\ main'.at \in Up /\ UNCHANGED <<ext, closings, active, held>>
    BY <1>6 DEF StopSignal, StopScheduler, GoOn, Up, DaemonTypeOK
  <2> QED BY <2>1 DEF LifeInv, Settled, Up, Loading
<1>7. CASE CloseNext
  <2>1. PICK x \in held :
           /\ \A z \in held : z <= x
           /\ ext' = [ext EXCEPT ![x] = "closed"]
           /\ closings' = [closings EXCEPT ![x] = @ + 1]
           /\ held' = held \ {x}
    BY <1>7, ClosesLast
  <2>2. /\ main.at = "releasing" /\ UNCHANGED <<main, active>> /\ active = {} /\ x \in Exts
        /\ TakenDown
    BY <1>7, <2>1 DEF CloseNext, LifeInv, Forgotten, DaemonTypeOK
  <2>3. ext'[x] = "closed" /\ closings[x] = 0 /\ closings'[x] = 1
    BY <2>1, <2>2 DEF TakenDown, Settled, Down, DaemonTypeOK
  <2>4. \A y \in Exts \ {x} : ext'[y] = ext[y] /\ closings'[y] = closings[y]
    BY <2>1, <2>2 DEF DaemonTypeOK
  <2>5. \A y \in Exts : (Settled(y, held) \/ Down(y))'
    BY <2>1, <2>2, <2>3, <2>4 DEF TakenDown, Settled, Down
  <2>6. \A z \in held', y \in Exts : ext'[y] = "closed" => z < y
    <3>1. ASSUME NEW z \in held', NEW y \in Exts, ext'[y] = "closed" PROVE z < y
      <4>1. z \in held /\ z # x /\ z <= x /\ z \in Exts
        BY <2>1 DEF DaemonTypeOK
      <4>2. CASE y = x
        BY <2>2, <4>1, <4>2 DEF Exts
      <4>3. CASE y # x
        BY <2>2, <2>4, <3>1, <4>1, <4>3 DEF TakenDown
      <4> QED BY <4>2, <4>3
    <3> QED BY <3>1
  <2> QED BY <2>2, <2>5, <2>6, <1>7 DEF LifeInv, TakenDown, Loading, Up, CloseNext
<1>8. CASE Ends
  <2>1. /\ main.at = "releasing" /\ main'.at = "ended" /\ main'.ext = main.ext /\ held = {}
        /\ UNCHANGED <<ext, closings, active, held>>
    BY <1>8 DEF Ends, GoOn, DaemonTypeOK
  <2> QED BY <2>1 DEF LifeInv, Loading, Up, Forgotten, TakenDown, Settled, Down
<1>9. CASE ServerReturns \/ ServerRaises \/ Tick \/ UNCHANGED daemonVars
  BY <1>9, <1>a DEF ServerReturns, ServerRaises, Tick, daemonVars
<1> QED
  BY <1>1, <1>2, <1>3, <1>4, <1>5, <1>6, <1>7, <1>8, <1>9
  DEF DaemonNext, MainStep, Over

LEMMA LifeInvariant == DaemonSpec => [](DaemonTypeOK /\ LifeInv /\ TaskInv)
<1>1. DaemonSpec => []LifeInv
  BY LifeInit, LifeNext, DaemonTypeCorrect, PTL DEF DaemonSpec
<1>2. DaemonSpec => []TaskInv
  BY LifeInit, TaskNext, DaemonTypeCorrect, PTL DEF DaemonSpec
<1> QED BY <1>1, <1>2, DaemonTypeCorrect, PTL

\* What was initialized is shut down once, the later before the earlier, or the load was
\* interrupted; and meanwhile no job runs but one that was told to end, or, when the
\* server's task raised, those whose stop was skipped.
THEOREM ExtensionsGoDown == DaemonSpec => []ExtensionsReleased
<1>1. DaemonTypeOK /\ LifeInv /\ TaskInv => ExtensionsReleased
  <2> SUFFICES ASSUME DaemonTypeOK, LifeInv, TaskInv PROVE ExtensionsReleased
    OBVIOUS
  <2>1. ASSUME NEW x \in Exts
        PROVE  /\ closings[x] <= 1
               /\ ext[x] = "closed" => \A y \in Exts : y > x => ext[y] # "ready"
    <3>1. CASE main.at \in Loading
      <4>1. main.ext \in Exts /\ (x < main.ext \/ x = main.ext \/ x > main.ext)
        BY DEF DaemonTypeOK, Exts
      <4> QED BY <3>1, <4>1 DEF LifeInv, Settled, Untouched
    <3>2. CASE main.at \in Up
      BY <3>2 DEF LifeInv, Settled
    <3>3. CASE main.at \in {"releasing", "ended"} /\ Forgotten
      BY <3>3 DEF Forgotten
    <3>4. CASE main.at \in {"releasing", "ended"} /\ TakenDown
      <4>1. closings[x] <= 1
        BY <3>4 DEF TakenDown, Settled, Down
      <4>2. ASSUME ext[x] = "closed", NEW y \in Exts, y > x, ext[y] = "ready" PROVE FALSE
        <5>1. y \in held
          BY <3>4, <4>2 DEF TakenDown, Settled, Down
        <5>2. y < x
          BY <3>4, <4>2, <5>1 DEF TakenDown
        <5> QED BY <4>2, <5>2 DEF Exts
      <4> QED BY <4>1, <4>2
    <3>5. main.at \in Loading \cup Up \cup {"releasing", "ended"}
      BY DEF DaemonTypeOK, MainPlaces, Loading, Up
    <3> QED BY <3>1, <3>2, <3>3, <3>4, <3>5 DEF LifeInv
  <2>2. main.at = "ended" =>
          \/ \A x \in Exts : ext[x] \in {"closed", "disabled"} /\ closings[x] = 1
          \/ \A x \in Exts : ext[x] # "closed" /\ ext[main.ext] # "ready"
    BY DEF LifeInv, Forgotten, TakenDown, Settled, Down
  <2>3. main.at = "releasing" =>
          \A j \in Alive : server = "failed" \/ (server = "exited" /\ j \in cancelling)
    BY DEF TaskInv
  <2> QED BY <2>1, <2>2, <2>3 DEF ExtensionsReleased
<1> QED BY <1>1, LifeInvariant, PTL

-----------------------------------------------------------------------------
(* Daemon: the way down                                                    *)

Closing == {"draining", "stopping", "releasing"}

\* The main task waits for no task that was not told to end, and a task is told only
\* while there is one.
ToldInv ==
    /\ cancelling \subseteq Alive
    /\ main.at = "stopping" => Alive \subseteq cancelling

\* The waits the main task has before it at each place.
Stage ==
    CASE main.at = "draining"  -> 3
      [] main.at = "stopping"  -> 2
      [] main.at = "releasing" -> 1
      [] OTHER                 -> 0

Serving == IF server = "up" THEN 1 ELSE 0

\* What is left to do once the daemon was asked to stop: those waits, the server, the
\* tasks, and the extensions with their owner.
ToDo == Stage + Serving + Cardinality(Alive) + Cardinality(active) + Cardinality(held)

\* The steps that take something down.
DownStep ==
    MainStep \/ ServerReturns \/ ServerRaises \/ ServerExits \/ \E j \in Jobs : CancelDelivered(j)

LEMMA LoopsKeepTasks ==
    ASSUME DaemonTypeOK, NEW j \in Jobs, PollAnswers(j) \/ PollFails(j) \/ Wakes(j) \/ RunEnds(j)
    PROVE  /\ Alive' = Alive /\ j \in Alive /\ j \notin cancelling
           /\ UNCHANGED <<main, active, held, server, cancelling>>
<1>1. j \in Alive /\ j \notin cancelling /\ UNCHANGED <<main, active, held, server, cancelling>>
  BY DEF PollAnswers, PollFails, Wakes, RunEnds, LoopAt, Alive, mainVars
<1>2. ASSUME NEW todo, FireNext(j, todo)
      PROVE  \E task : task.at # "off" /\ loop' = [loop EXCEPT ![j] = task]
  BY <1>2 DEF FireNext, Asleep, Running, Off
<1>3. \E task : task.at # "off" /\ loop' = [loop EXCEPT ![j] = task]
  <2>1. CASE PollAnswers(j)
    BY <2>1, <1>2 DEF PollAnswers
  <2>2. CASE PollFails(j) \/ Wakes(j)
    BY <2>2 DEF PollFails, Wakes, Asking, Asleep, Running, Off
  <2>3. CASE RunEnds(j)
    BY <2>3, <1>2 DEF RunEnds, Again, Asking, Asleep, Off
  <2> QED BY <2>1, <2>2, <2>3
<1> QED BY <1>1, <1>3 DEF Alive, DaemonTypeOK

LEMMA ToldNext == DaemonTypeOK /\ TaskInv /\ ToldInv /\ [DaemonNext]_daemonVars => ToldInv'
<1> SUFFICES ASSUME DaemonTypeOK, TaskInv, ToldInv, [DaemonNext]_daemonVars PROVE ToldInv'
  OBVIOUS
<1> USE DEF mainVars, loopVars
<1>1. ASSUME NEW j \in Jobs, LoopStep(j) PROVE ToldInv'
  <2>1. CASE PollAnswers(j) \/ PollFails(j) \/ Wakes(j) \/ RunEnds(j)
    BY <2>1, LoopsKeepTasks DEF ToldInv
  <2>2. CASE CancelDelivered(j)
    <3>1. Alive' = Alive \ {j} /\ cancelling' = cancelling \ {j} /\ UNCHANGED main
      BY <2>2 DEF CancelDelivered, Alive, Off, DaemonTypeOK
    <3> QED BY <3>1 DEF ToldInv
  <2> QED BY <1>1, <2>1, <2>2 DEF LoopStep
<1>2. CASE Initialized \/ Discarded
  <2>1. cancelling = {} /\ main.at \in Loading
    BY <1>2 DEF Initialized, Discarded, TaskInv, Loading
  <2>2. PICK loaded : LoadNext(loaded)
    BY <1>2 DEF Initialized, Discarded
  <2>3. CASE main'.at # "stopping" /\ UNCHANGED cancelling
    BY <2>1, <2>3 DEF ToldInv
  <2>4. CASE Loaded(loaded) /\ cancelling' = Scheduled(loaded)
    <3>1. \A j \in Jobs : Again(j).at # "off" /\ Off.at = "off"
      BY DEF Again, Asking, Asleep, Off
    <3>2. Alive' = Scheduled(loaded)
      BY <2>4, <3>1 DEF Loaded, Alive, Scheduled
    <3> QED BY <2>4, <3>2 DEF ToldInv
  <2> QED BY <2>2, <2>3, <2>4 DEF LoadNext, Loaded, GoOn, DaemonTypeOK
<1>3. CASE StopScheduler
  BY <1>3 DEF StopScheduler, ToldInv, Alive
<1>4. CASE \/ ServerReturns \/ ServerRaises \/ Tick \/ CloseNext \/ UNCHANGED daemonVars
  BY <1>4 DEF ServerReturns, ServerRaises, Tick, CloseNext, daemonVars, ToldInv, Alive
<1>5. CASE \/ InitializeFails \/ StopEnds \/ StopSkipped \/ Interrupted \/ StopSignal
           \/ ServerExits
  BY <1>5 DEF InitializeFails, StopEnds, StopSkipped, Release, Interrupted, StopSignal,
              ServerExits, GoOn, ToldInv, Alive, DaemonTypeOK
<1>6. CASE Ends
  BY <1>6 DEF Ends, GoOn, ToldInv, DaemonTypeOK
<1> QED BY <1>1, <1>2, <1>3, <1>4, <1>5, <1>6 DEF DaemonNext, MainStep, Over

LEMMA ToldInvariant == DaemonSpec => []ToldInv
<1>1. DaemonInit => ToldInv
  BY DEF DaemonInit, ToldInv
<1> QED BY <1>1, ToldNext, LifeInvariant, PTL DEF DaemonSpec

LEMMA ToDoFinite ==
    ASSUME IsFiniteSet(Jobs), DaemonTypeOK
    PROVE  /\ IsFiniteSet(Alive) /\ IsFiniteSet(active) /\ IsFiniteSet(held)
           /\ Cardinality(Alive) \in Nat /\ Cardinality(active) \in Nat
           /\ Cardinality(held) \in Nat
<1>1. IsFiniteSet(Exts)
  BY FS_Interval, DaemonAssumption DEF Exts
<1>2. Alive \subseteq Jobs /\ active \subseteq Exts /\ held \subseteq Exts
  BY DEF Alive, DaemonTypeOK
<1>3. IsFiniteSet(Alive) /\ IsFiniteSet(active) /\ IsFiniteSet(held)
  BY <1>1, <1>2, FS_Subset
<1> QED BY <1>3, FS_CardinalityType

\* Release hands the extensions over, none is lost or counted twice.
LEMMA ReleaseDown ==
    ASSUME IsFiniteSet(Jobs), DaemonTypeOK, LifeInv, main.at \in Up, Release
    PROVE  /\ main'.at = "releasing" /\ Stage' = 1
           /\ Cardinality(active') \in Nat /\ Cardinality(held') \in Nat
           /\ Cardinality(active') + Cardinality(held') = Cardinality(active) + Cardinality(held)
<1>1. main'.at = "releasing"
  BY DEF Release, GoOn, DaemonTypeOK
<1>2. held = {} /\ held' = active /\ active' = {}
  BY DEF Release, LifeInv
<1>3. Cardinality(held) = Cardinality(active') /\ Cardinality(held') = Cardinality(active)
  BY <1>2
<1>4. Stage' = 1
  BY <1>1 DEF Stage
<1> QED BY <1>1, <1>3, <1>4, ToDoFinite

\* The step half of what follows.
LEMMA DownNext ==
    ASSUME IsFiniteSet(Jobs), DaemonTypeOK, LifeInv, TaskInv, ToldInv,
           main.at \in Closing, [DaemonNext]_daemonVars
    PROVE  /\ main'.at \in Closing \cup {"ended"}
           /\ ToDo' <= ToDo
           /\ DownStep => ToDo' < ToDo
<1> DEFINE Same == UNCHANGED <<main, server, active, held>> /\ Alive' = Alive
           Less == main'.at \in Closing \cup {"ended"} /\ ToDo' \in Int /\ ToDo' < ToDo
<1> USE DEF mainVars, loopVars
<1>1. /\ Stage \in Nat /\ Serving \in Nat /\ Cardinality(Alive) \in Nat
      /\ Cardinality(active) \in Nat /\ Cardinality(held) \in Nat
      /\ IsFiniteSet(Alive) /\ IsFiniteSet(held) /\ IsFiniteSet(active)
  BY ToDoFinite DEF Stage, Serving
<1>2. ASSUME NEW j \in Jobs, CancelDelivered(j) PROVE Less
  <2>1. Alive' = Alive \ {j} /\ j \in Alive /\ UNCHANGED <<main, server, active, held>>
    BY <1>2 DEF CancelDelivered, Alive, Off, DaemonTypeOK, ToldInv
  <2>2. Cardinality(Alive') = Cardinality(Alive) - 1
    BY <1>1, <2>1, FS_RemoveElement
  <2> QED BY <1>1, <2>1, <2>2 DEF ToDo, Stage, Serving
<1>3. ASSUME ServerReturns \/ ServerRaises PROVE Less
  <2>1. Serving = 1 /\ Serving' = 0 /\ Alive' = Alive /\ UNCHANGED <<main, active, held>>
    BY <1>3 DEF ServerReturns, ServerRaises, Serving, Alive
  <2> QED BY <1>1, <2>1 DEF ToDo, Stage
<1>4. ASSUME ServerExits PROVE Less
  <2>1. main.at = "draining" /\ Release /\ Alive' = Alive /\ Serving = 1 /\ Serving' = 0
    BY <1>4 DEF ServerExits, Closing, Serving, Alive
  <2>2. Stage = 3 /\ main.at \in Up
    BY <2>1 DEF Stage, Up
  <2> QED BY <1>1, <2>1, <2>2, ReleaseDown, ToDoFinite DEF ToDo, Closing
<1>5. ASSUME StopScheduler PROVE Less
  <2>1. main.at = "draining" /\ main'.at = "stopping" /\ Alive' = Alive
        /\ UNCHANGED <<server, active, held>>
    BY <1>5 DEF StopScheduler, GoOn, Alive, DaemonTypeOK
  <2>2. Stage = 3 /\ Stage' = 2
    BY <2>1 DEF Stage
  <2> QED BY <1>1, <2>1, <2>2 DEF ToDo, Serving, Closing
<1>6. ASSUME StopEnds \/ StopSkipped PROVE Less
  <2>1. main.at \in {"draining", "stopping"} /\ Release /\ Alive' = Alive /\ UNCHANGED server
    BY <1>6 DEF StopEnds, StopSkipped, Alive
  <2>2. Stage \in {2, 3} /\ main.at \in Up
    BY <2>1 DEF Stage, Up
  <2> QED BY <1>1, <2>1, <2>2, ReleaseDown DEF ToDo, Serving, Closing
<1>7. ASSUME CloseNext PROVE Less
  <2>1. PICK x \in held : held' = held \ {x}
    BY <1>7, ClosesLast
  <2>2. Alive' = Alive /\ UNCHANGED <<main, server, active>>
    BY <1>7 DEF CloseNext, Alive
  <2>3. Cardinality(held') = Cardinality(held) - 1
    BY <1>1, <2>1, <2>2, FS_RemoveElement
  <2> QED BY <1>1, <2>2, <2>3 DEF ToDo, Stage, Serving
<1>8. ASSUME Ends PROVE Less
  <2>1. main.at = "releasing" /\ main'.at = "ended" /\ UNCHANGED <<server, active, held>>
    BY <1>8 DEF Ends, GoOn, DaemonTypeOK
  <2>2. Alive' = {}
    BY <1>8 DEF Ends, Alive, Off
  <2>3. Cardinality(Alive') = 0
    BY <2>2, FS_EmptySet
  <2>4. Stage = 1 /\ Stage' = 0
    BY <2>1 DEF Stage
  <2> QED BY <1>1, <2>1, <2>3, <2>4 DEF ToDo, Serving
<1>9. ASSUME NEW j \in Jobs, PollAnswers(j) \/ PollFails(j) \/ Wakes(j) \/ RunEnds(j) PROVE Same
  BY <1>9, LoopsKeepTasks
<1>10. ASSUME Tick \/ UNCHANGED daemonVars PROVE Same
  BY <1>10 DEF Tick, daemonVars, Alive
<1>11. ~(Initialized \/ InitializeFails \/ Discarded \/ Interrupted \/ StopSignal)
  BY DEF Initialized, InitializeFails, Discarded, Interrupted, StopSignal, Closing
<1>12. Same => main'.at \in Closing /\ ToDo' = ToDo
  BY DEF ToDo, Stage, Serving
<1>13. DownStep => Less
  BY <1>2, <1>3, <1>4, <1>5, <1>6, <1>7, <1>8, <1>11 DEF DownStep, MainStep
<1>14. Less \/ Same
  BY <1>2, <1>9, <1>10, <1>11, <1>13 DEF DaemonNext, LoopStep, Over, DownStep
<1>15. ToDo \in Nat
  BY <1>1 DEF ToDo
<1> QED BY <1>12, <1>13, <1>14, <1>15

\* A daemon asked to stop goes down and never turns back: no step, of the main task, of a
\* job still in a run or of the clock, adds to what is left to do, and each end of the
\* server, task that ends, wait that is over and extension that is closed takes from it;
\* and what the main task waits for has been told to end.  So it is only over that finite
\* amount of work that DaemonEnds needs its fairness.
THEOREM ShutdownAdvances ==
    ASSUME IsFiniteSet(Jobs)
    PROVE  DaemonSpec =>
             /\ []ToldInv
             /\ [][main.at \in Closing =>
                     /\ main'.at \in Closing \cup {"ended"}
                     /\ ToDo' <= ToDo
                     /\ DownStep => ToDo' < ToDo]_daemonVars
<1>1. DaemonTypeOK /\ LifeInv /\ TaskInv /\ ToldInv /\ [DaemonNext]_daemonVars =>
        [main.at \in Closing =>
           /\ main'.at \in Closing \cup {"ended"}
           /\ ToDo' <= ToDo
           /\ DownStep => ToDo' < ToDo]_daemonVars
  BY DownNext
<1> QED BY <1>1, LifeInvariant, ToldInvariant, PTL DEF DaemonSpec

\* scheduler.stop() or the server's SystemExit has cancelled the loops.  It has not when
\* the server's task raised and the stop was skipped.
Stopped ==
    main.at \in {"stopping", "ended"} \/ (main.at = "releasing" /\ server # "failed")

\* scheduler.stop() is final, where it is reached: from then on, also while the extensions
\* go, no loop asks a calendar, starts a job or marks an event, and a job in a run only
\* ends.
THEOREM NothingStartsAfterStop ==
    DaemonSpec => [][Stopped =>
                        /\ UNCHANGED <<fired, runs>>
                        /\ \A j \in Jobs : loop'[j] \in {loop[j], Off}]_daemonVars
<1> DEFINE Still == UNCHANGED <<fired, runs>> /\ \A j \in Jobs : loop'[j] \in {loop[j], Off}
<1>1. ASSUME DaemonTypeOK, TaskInv, ToldInv, Stopped, [DaemonNext]_daemonVars PROVE Still
  <2> USE <1>1 DEF mainVars, loopVars
  <2>1. Alive \subseteq cancelling
    BY DEF TaskInv, ToldInv, Stopped
  <2>2. ASSUME NEW j \in Jobs, LoopStep(j) PROVE Still
    <3>1. CancelDelivered(j)
      BY <2>1, <2>2, LoopsKeepTasks DEF LoopStep
    <3> QED BY <3>1 DEF CancelDelivered, DaemonTypeOK
  <2>3. ASSUME Ends PROVE Still
    BY <2>3 DEF Ends
  <2>4. ASSUME \/ StopEnds \/ CloseNext \/ ServerReturns \/ ServerRaises \/ ServerExits
               \/ Tick \/ UNCHANGED daemonVars
        PROVE  Still
    BY <2>4 DEF StopEnds, CloseNext, ServerReturns, ServerRaises, ServerExits, Tick, daemonVars
  <2>5. ~(\/ Initialized \/ InitializeFails \/ Discarded \/ Interrupted \/ StopSignal
          \/ StopScheduler \/ StopSkipped)
    BY DEF Initialized, InitializeFails, Discarded, Interrupted, StopSignal, StopScheduler,
           StopSkipped, Stopped
  <2> QED BY <2>2, <2>3, <2>4, <2>5 DEF DaemonNext, MainStep, Over
<1>2. DaemonTypeOK /\ TaskInv /\ ToldInv /\ [DaemonNext]_daemonVars =>
        [Stopped => Still]_daemonVars
  BY <1>1
<1> QED BY <1>2, LifeInvariant, ToldInvariant, PTL DEF DaemonSpec

-----------------------------------------------------------------------------
(* Daemon: the calendar events are served                                  *)

LEMMA ProductGrows ==
    ASSUME NEW a \in Nat, NEW b \in Nat, NEW c \in Nat, a <= b
    PROVE  a * c \in Nat /\ a * c <= b * c /\ (a + 1) * c = a * c + c
<1>1. PICK d \in Nat : b = a + d
  <2>1. b - a \in Nat /\ b = a + (b - a)
    OBVIOUS
  <2> QED BY <2>1
<1>2. (a + d) * c = a * c + d * c /\ d * c \in Nat /\ a * c \in Nat
  OBVIOUS
<1>3. (a + 1) * c = a * c + c
  OBVIOUS
<1> QED BY <1>1, <1>2, <1>3

\* The runs of other events still possible are no more than there are other events, and
\* one less when one of them is marked.
LEMMA LeftBounds ==
    ASSUME NEW marked \in SUBSET Events, NEW e \in Events
    PROVE  LET left(m) == Cardinality(Events \ (m \cup {e})) * MaxRun
           IN  /\ left(marked) \in Nat
               /\ left(marked) <= (Cardinality(Events) - 1) * MaxRun
               /\ \A f \in Events \ marked :
                     f # e => left(marked \cup {f}) + MaxRun = left(marked)
<1> DEFINE others == Events \ {e}
           open == Events \ (marked \cup {e})
<1>1. IsFiniteSet(Events) /\ IsFiniteSet(others) /\ IsFiniteSet(open) /\ open \subseteq others
  BY FS_Subset, DaemonAssumption
<1>2. /\ Cardinality(others) = Cardinality(Events) - 1
      /\ Cardinality(Events) \in Nat /\ Cardinality(others) \in Nat /\ Cardinality(open) \in Nat
      /\ Cardinality(open) <= Cardinality(others)
  BY <1>1, FS_RemoveElement, FS_CardinalityType, FS_Subset
<1>3. MaxRun \in Nat
  BY DaemonAssumption
<1>4. ASSUME NEW f \in Events \ marked, f # e
      PROVE  Cardinality(Events \ (marked \cup {f} \cup {e})) * MaxRun + MaxRun
                = Cardinality(open) * MaxRun
  <2>1. f \in open /\ Events \ (marked \cup {f} \cup {e}) = open \ {f}
    BY <1>4
  <2>2. Cardinality(open \ {f}) = Cardinality(open) - 1 /\ Cardinality(open \ {f}) \in Nat
    BY <1>1, <2>1, FS_RemoveElement, FS_CardinalityType, FS_Subset
  <2>3. Cardinality(open) = Cardinality(open \ {f}) + 1
    BY <1>2, <2>2
  <2>4. (Cardinality(open \ {f}) + 1) * MaxRun = Cardinality(open \ {f}) * MaxRun + MaxRun
    BY <1>3, <2>2, ProductGrows
  <2> HIDE DEF open
  <2> QED BY <2>1, <2>3, <2>4
<1>5. /\ Cardinality(open) * MaxRun \in Nat
      /\ Cardinality(open) * MaxRun <= (Cardinality(Events) - 1) * MaxRun
  <2> HIDE DEF open, others
  <2> QED BY <1>2, <1>3, ProductGrows
<1> QED BY <1>4, <1>5

\* A cycle has room for an answer, whatever is left to be run, and the sleep.
LEMMA CycleBounds ==
    ASSUME DaemonTypeOK, NEW j \in Calendars, NEW e \in Events
    PROVE  /\ Left(j, e) \in Nat /\ Cycle \in Nat
           /\ MaxPoll + Left(j, e) + Poll <= Cycle
<1>1. fired[j] \in SUBSET Events /\ MaxPoll \in Nat /\ Poll \in Nat
  BY DaemonAssumption DEF DaemonTypeOK
<1> DEFINE most == (Cardinality(Events) - 1) * MaxRun
<1>2. Left(j, e) \in Nat /\ Left(j, e) <= most
  BY <1>1, LeftBounds DEF Left
<1>3. most \in Int
  BY DaemonAssumption, FS_CardinalityType
<1>4. Cycle = MaxPoll + most + Poll
  BY DEF Cycle
<1> HIDE DEF most
<1> QED BY <1>1, <1>2, <1>3, <1>4

LEMMA ServedFrame ==
    ASSUME NEW j \in Calendars, Served(j), UNCHANGED <<now, booked>>,
           loop'[j] = loop[j], fired'[j] = fired[j], runs'[j] = runs[j], up'[j] = up[j]
    PROVE  Served(j)'
BY DEF Served, Open, InTime, Left

\* The rest of an answer is run in time if the answer came in time.
LEMMA FireNextServes ==
    ASSUME DaemonTypeOK, NEW j \in Calendars, Served(j), NEW todo \in SUBSET Events,
           todo \cap fired[j] = {}, FireNext(j, todo), UNCHANGED <<now, booked, up>>,
           \A e \in Events \ fired[j] : \A w \in Nat :
              Open(j, e, w) =>
                 now + Left(j, e) <= w + Cycle + (IF e \in todo THEN MaxPoll ELSE -Poll)
    PROVE  Served(j)'
<1>1. /\ now \in Nat /\ Poll \in Nat /\ MaxRun \in Nat /\ j \in Jobs /\ MaxPoll \in Nat
      /\ Poll > 0
      /\ fired[j] \in SUBSET Events
  BY DaemonAssumption DEF DaemonTypeOK, Times, Jobs
<1>2. CASE todo = {}
  <2>1. loop'[j] = Asleep(now + Poll) /\ UNCHANGED <<fired, runs>>
    BY <1>1, <1>2 DEF FireNext, DaemonTypeOK
  <2>2. /\ loop'[j].at = "asleep" /\ loop'[j].wake = now + Poll /\ loop'[j].since = 0
    BY <2>1 DEF Asleep, Off
  <2>3. ASSUME NEW e \in Events, NEW w \in Nat, e \notin fired[j], Open(j, e, w)'
        PROVE  InTime(j, e, w)'
    <3>1. now + Left(j, e) <= w + Cycle + (-Poll)
      BY <1>2, <2>3 DEF Open
    <3>2. Left(j, e)' = Left(j, e) /\ Left(j, e) \in Nat /\ Cycle \in Nat
      BY <2>1, CycleBounds DEF Left
    <3> QED BY <1>1, <2>2, <3>1, <3>2 DEF InTime
  <2>4. now <= now + Poll /\ 0 <= now
    BY <1>1
  <2> QED BY <2>1, <2>2, <2>3, <2>4 DEF Served
<1>3. CASE todo # {}
  <2>1. PICK f \in todo :
           /\ fired' = [fired EXCEPT ![j] = @ \cup {f}]
           /\ runs' = [runs EXCEPT ![j][f] = @ + 1]
           /\ loop' = [loop EXCEPT ![j] = Running(todo \ {f})]
    BY <1>3 DEF FireNext
  <2>2. /\ loop'[j].at = "running" /\ loop'[j].since = now /\ loop'[j].todo = todo \ {f}
        /\ fired'[j] = fired[j] \cup {f} /\ f \in Events \ fired[j]
    BY <1>1, <2>1 DEF Running, Off, DaemonTypeOK
  <2>3. \A e \in Events : runs'[j][e] = IF e \in fired'[j] THEN 1 ELSE 0
    <3> TAKE e \in Events
    <3>1. runs'[j][e] = IF e = f THEN runs[j][f] + 1 ELSE runs[j][e]
      BY <2>1, <2>2 DEF DaemonTypeOK
    <3>2. runs[j][e] = (IF e \in fired[j] THEN 1 ELSE 0) /\ runs[j][f] = 0
      BY <2>2 DEF Served
    <3> QED BY <2>2, <3>1, <3>2
  <2>4. loop'[j].todo \cap fired'[j] = {}
    BY <2>2
  <2>5. ASSUME NEW e \in Events, NEW w \in Nat, e \notin fired'[j], Open(j, e, w)'
        PROVE  InTime(j, e, w)'
    <3>1. e \notin fired[j] /\ e # f /\ (e \in todo <=> e \in loop'[j].todo)
      BY <2>2, <2>5
    <3>2. now + Left(j, e) <= w + Cycle + (IF e \in todo THEN MaxPoll ELSE -Poll)
      BY <2>5, <3>1 DEF Open
    <3>3. /\ Left(j, e)' + MaxRun = Left(j, e)
          /\ Left(j, e)' \in Nat /\ Left(j, e) \in Nat /\ Cycle \in Nat
      BY <1>1, <2>2, <3>1, LeftBounds, CycleBounds DEF Left
    <3> QED BY <1>1, <2>2, <3>1, <3>2, <3>3 DEF InTime
  <2>6. now <= now /\ now <= now + MaxRun
    BY <1>1
  <2> QED BY <2>2, <2>3, <2>4, <2>5, <2>6 DEF Served
<1> QED BY <1>2, <1>3

\* An answer comes in time: one that may lack the event was asked for before it could
\* be listed.
LEMMA PollServes ==
    ASSUME DaemonTypeOK, NEW j \in Calendars, Served(j), PollAnswers(j)
    PROVE  Served(j)'
<1>1. /\ now \in Nat /\ MaxPoll \in Nat /\ Poll \in Nat /\ Lead \in Nat /\ j \in Jobs
      /\ loop[j].since \in Nat /\ Start \in [Events -> Nat] /\ booked \in [Events -> Nat]
      /\ Poll > 0
  BY DaemonAssumption DEF DaemonTypeOK, Times, Jobs
<1>2. /\ loop[j].at = "asking" /\ now <= loop[j].since + MaxPoll /\ loop[j].since <= now
      /\ UNCHANGED <<now, booked, up>>
  BY DEF PollAnswers, LoopAt, Served
<1>3. PICK seen \in loop[j].since..now :
         FireNext(j, {e \in Upcoming(seen) \ fired[j] : now <= Start[e] /\ Start[e] <= now + Lead})
  BY DEF PollAnswers
<1> DEFINE todo == {e \in Upcoming(seen) \ fired[j] : now <= Start[e] /\ Start[e] <= now + Lead}
<1>4. ASSUME NEW e \in Events \ fired[j], NEW w \in Nat, Open(j, e, w)
      PROVE  now + Left(j, e) <= w + Cycle + (IF e \in todo THEN MaxPoll ELSE -Poll)
  <2>1. /\ Left(j, e) \in Nat /\ Cycle \in Nat /\ MaxPoll + Left(j, e) + Poll <= Cycle
        /\ loop[j].since + Left(j, e) <= w + Cycle
    BY <1>2, <1>4, CycleBounds DEF Served, InTime
  <2>2. CASE e \in todo
    BY <1>1, <1>2, <2>1, <2>2
  <2>3. CASE e \notin todo
    <3>1. loop[j].since < w
      <4> SUFFICES ASSUME loop[j].since >= w PROVE FALSE
        BY <1>1
      <4>1. /\ booked[e] <= w /\ Start[e] - Lead <= w /\ w + Cycle + MaxPoll <= Start[e]
            /\ booked[e] \in Nat /\ Start[e] \in Nat
        BY <1>1, <1>4 DEF Open
      <4>2. now <= Start[e] /\ Start[e] <= now + Lead
        BY <1>1, <1>2, <2>1, <4>1
      <4>3. e \in Upcoming(seen)
        BY <1>1, <1>3, <4>1, <4>2 DEF Upcoming
      <4> QED BY <1>4, <2>3, <4>2, <4>3
    <3> QED BY <1>1, <1>2, <2>1, <2>3, <3>1
  <2> QED BY <2>2, <2>3
<1>5. todo \in SUBSET Events /\ todo \cap fired[j] = {} /\ FireNext(j, todo)
  BY <1>3 DEF Upcoming
<1> HIDE DEF todo
<1> QED BY <1>2, <1>4, <1>5, FireNextServes

LEMMA RunServes ==
    ASSUME DaemonTypeOK, NEW j \in Calendars, Served(j), RunEnds(j)
    PROVE  Served(j)'
<1>1. /\ now \in Nat /\ MaxPoll \in Nat /\ MaxRun \in Nat /\ Poll \in Nat /\ j \in Jobs
      /\ loop[j].since \in Nat /\ loop[j].todo \in SUBSET Events
  BY DaemonAssumption DEF DaemonTypeOK, Times, Jobs
<1>2. /\ loop[j].at = "running" /\ now <= loop[j].since + MaxRun
      /\ loop[j].todo \cap fired[j] = {}
      /\ FireNext(j, loop[j].todo) /\ UNCHANGED <<now, booked, up>>
  BY DEF RunEnds, LoopAt, Served
<1>3. ASSUME NEW e \in Events \ fired[j], NEW w \in Nat, Open(j, e, w)
      PROVE  now + Left(j, e) <= w + Cycle + (IF e \in loop[j].todo THEN MaxPoll ELSE -Poll)
  <2>1. /\ Left(j, e) \in Nat /\ Cycle \in Nat
        /\ loop[j].since + MaxRun + Left(j, e) <=
              w + Cycle + (IF e \in loop[j].todo THEN MaxPoll ELSE -Poll)
    BY <1>2, <1>3, CycleBounds DEF Served, InTime
  <2> QED BY <1>1, <1>2, <2>1
<1> QED BY <1>1, <1>2, <1>3, FireNextServes

\* A poll that fails, and a loop that starts, owe an event a cycle from now on.
LEMMA FailServes ==
    ASSUME DaemonTypeOK, NEW j \in Calendars, Served(j), PollFails(j)
    PROVE  Served(j)'
<1>1. /\ now \in Nat /\ MaxPoll \in Nat /\ Poll \in Nat /\ j \in Jobs
  BY DaemonAssumption DEF DaemonTypeOK, Times, Jobs
<1>2. /\ loop'[j] = Asleep(now + Poll) /\ up'[j] = now /\ UNCHANGED <<now, booked, fired, runs>>
  BY <1>1 DEF PollFails, DaemonTypeOK
<1>3. /\ loop'[j].at = "asleep" /\ loop'[j].wake = now + Poll /\ loop'[j].since = 0
  BY <1>2 DEF Asleep, Off
<1>4. ASSUME NEW e \in Events, NEW w \in Nat, Open(j, e, w)' PROVE InTime(j, e, w)'
  <2>1. now <= w
    BY <1>2, <1>4 DEF Open
  <2>2. Left(j, e)' = Left(j, e) /\ Left(j, e) \in Nat /\ Cycle \in Nat
        /\ MaxPoll + Left(j, e) + Poll <= Cycle
    BY <1>2, CycleBounds DEF Left
  <2> QED BY <1>1, <1>3, <2>1, <2>2 DEF InTime
<1>5. now <= now + Poll /\ 0 <= now
  BY <1>1
<1> QED BY <1>2, <1>3, <1>4, <1>5 DEF Served

LEMMA LoadedServes ==
    ASSUME DaemonTypeOK, NEW j \in Calendars, Served(j), NEW loaded, Loaded(loaded),
           UNCHANGED <<now, booked, fired, runs>>
    PROVE  Served(j)'
<1>1. /\ now \in Nat /\ MaxPoll \in Nat /\ Poll \in Nat /\ j \in Jobs
  BY DaemonAssumption DEF DaemonTypeOK, Times, Jobs
<1>2. /\ loop'[j] \in {Asking, Off} /\ up'[j] = now
  BY <1>1 DEF Loaded, Again
<1>3. /\ loop'[j].at \in {"asking", "off"} /\ (loop'[j].at = "asking" => loop'[j].since = now)
  <2>1. Asking.at = "asking" /\ Asking.since = now /\ Off.at = "off"
    BY DEF Asking, Off
  <2> QED BY <1>2, <2>1
<1>4. ASSUME NEW e \in Events, NEW w \in Nat, Open(j, e, w)' PROVE InTime(j, e, w)'
  <2>1. now <= w
    BY <1>2, <1>4 DEF Open
  <2>2. Left(j, e)' = Left(j, e) /\ Left(j, e) \in Nat /\ Cycle \in Nat
        /\ MaxPoll + Left(j, e) + Poll <= Cycle
    BY CycleBounds DEF Left
  <2> QED BY <1>1, <1>3, <2>1, <2>2 DEF InTime
<1>5. now <= now /\ now <= now + MaxPoll
  BY <1>1
<1> QED BY <1>3, <1>4, <1>5 DEF Served

LEMMA WakesServes ==
    ASSUME DaemonTypeOK, NEW j \in Calendars, Served(j), Wakes(j)
    PROVE  Served(j)'
<1>1. /\ now \in Nat /\ MaxPoll \in Nat /\ j \in Jobs /\ loop[j].wake \in Nat
  BY DaemonAssumption DEF DaemonTypeOK, Times, Jobs
<1>2. /\ loop[j].at = "asleep" /\ loop[j].wake = now
      /\ loop'[j] = Asking /\ UNCHANGED <<now, booked, fired, runs, up>>
  <2>1. loop[j].at = "asleep" /\ loop[j].wake <= now /\ now <= loop[j].wake
    BY DEF Wakes, LoopAt, Served
  <2>2. loop'[j] = Asking /\ UNCHANGED <<now, booked, fired, runs, up>>
    BY <1>1 DEF Wakes, DaemonTypeOK
  <2> QED BY <1>1, <2>1, <2>2
<1>3. loop'[j].at = "asking" /\ loop'[j].since = now
  BY <1>2 DEF Asking, Off
<1>4. ASSUME NEW e \in Events, NEW w \in Nat, e \notin fired[j], Open(j, e, w)'
      PROVE  InTime(j, e, w)'
  <2>1. loop[j].wake + Left(j, e) <= w + Cycle /\ Left(j, e)' = Left(j, e)
    BY <1>2, <1>4 DEF Served, Open, InTime, Left
  <2> QED BY <1>2, <1>3, <2>1 DEF InTime
<1>5. now <= now /\ now <= now + MaxPoll
  BY <1>1
<1> QED BY <1>2, <1>3, <1>4, <1>5 DEF Served

\* A task that ends owes nothing.
LEMMA OffServes ==
    ASSUME NEW j \in Calendars, Served(j), loop'[j] = Off, UNCHANGED <<now, booked, fired, runs>>
    PROVE  Served(j)'
<1>1. loop'[j].at = "off"
  BY DEF Off
<1> QED BY <1>1 DEF Served, InTime

LEMMA TickServes ==
    ASSUME DaemonTypeOK, NEW j \in Calendars, Served(j), Tick
    PROVE  Served(j)'
<1>1. /\ now \in Nat /\ j \in Jobs /\ loop[j].since \in Nat /\ loop[j].wake \in Nat
      /\ MaxPoll \in Nat /\ MaxRun \in Nat
      /\ loop[j].at \in {"off"} \cup Suspended
  BY DaemonAssumption DEF DaemonTypeOK, Times, Jobs
<1>2. now' = now + 1 /\ UNCHANGED <<booked, loop, fired, runs, up>>
  BY DEF Tick, loopVars
<1>3. /\ loop[j].at = "asleep" => now < loop[j].wake
      /\ loop[j].at = "asking" => now < loop[j].since + MaxPoll
      /\ loop[j].at = "running" => now < loop[j].since + MaxRun
  <2>1. loop[j].at # "off" => j \in Alive
    BY <1>1 DEF Alive
  <2> QED BY <2>1 DEF Tick, NobodyDue
<1>4. /\ loop[j].at = "asleep" => now + 1 <= loop[j].wake
      /\ loop[j].at = "asking" => now + 1 <= loop[j].since + MaxPoll
      /\ loop[j].at = "running" => now + 1 <= loop[j].since + MaxRun
      /\ loop[j].since <= now => loop[j].since <= now + 1
  BY <1>1, <1>3
<1>5. \A e \in Events : \A w \in Nat : (Open(j, e, w)' <=> Open(j, e, w)) /\ (InTime(j, e, w)' <=> InTime(j, e, w))
  BY <1>2 DEF Open, InTime, Left
<1> QED BY <1>2, <1>4, <1>5 DEF Served

LEMMA ServedInit == DaemonInit => ServedInv
<1> SUFFICES ASSUME DaemonInit, NEW j \in Calendars PROVE Served(j)
  BY DEF ServedInv
<1>1. loop[j].at = "off" /\ j \in Jobs
  BY DEF DaemonInit, Off, Jobs
<1>2. fired[j] = {} /\ \A e \in Events : runs[j][e] = 0
  BY DEF DaemonInit
<1> QED BY <1>1, <1>2 DEF Served, InTime

LEMMA ServedNext ==
    DaemonTypeOK /\ ServedInv /\ [DaemonNext]_daemonVars => ServedInv'
<1> SUFFICES ASSUME DaemonTypeOK, ServedInv, [DaemonNext]_daemonVars, NEW j \in Calendars
             PROVE  Served(j)'
  BY DEF ServedInv
<1> USE DEF mainVars, loopVars
<1>a. Served(j) /\ j \in Jobs
  BY DEF ServedInv, Jobs
<1>b. ASSUME UNCHANGED <<now, booked, loopVars>> PROVE Served(j)'
  BY <1>a, <1>b, ServedFrame
<1>1. ASSUME NEW k \in Jobs, LoopStep(k) PROVE Served(j)'
  <2>1. CASE k # j
    <3>1. UNCHANGED <<now, booked>> /\ loop'[j] = loop[j] /\ up'[j] = up[j]
      BY <1>1, <1>a, <2>1
      DEF LoopStep, PollAnswers, PollFails, Wakes, RunEnds, CancelDelivered, FireNext, DaemonTypeOK
    <3>2. fired'[j] = fired[j] /\ runs'[j] = runs[j]
      BY <1>1, <1>a, <2>1
      DEF LoopStep, PollAnswers, PollFails, Wakes, RunEnds, CancelDelivered, FireNext, DaemonTypeOK
    <3> QED BY <1>a, <3>1, <3>2, ServedFrame
  <2>2. CASE k = j
    <3>1. CASE PollAnswers(j)
      BY <1>a, <3>1, PollServes
    <3>2. CASE PollFails(j)
      BY <1>a, <3>2, FailServes
    <3>3. CASE Wakes(j)
      BY <1>a, <3>3, WakesServes
    <3>4. CASE RunEnds(j)
      BY <1>a, <3>4, RunServes
    <3>5. CASE CancelDelivered(j)
      BY <1>a, <3>5, OffServes DEF CancelDelivered, DaemonTypeOK
    <3> QED BY <1>1, <2>2, <3>1, <3>2, <3>3, <3>4, <3>5 DEF LoopStep
  <2> QED BY <2>1, <2>2
<1>2. ASSUME Initialized \/ Discarded PROVE Served(j)'
  <2>1. PICK loaded : LoadNext(loaded)
    BY <1>2 DEF Initialized, Discarded
  <2>2. UNCHANGED <<now, booked, fired, runs>>
    BY <1>2 DEF Initialized, Discarded
  <2>3. CASE Loaded(loaded)
    BY <1>a, <2>2, <2>3, LoadedServes
  <2>4. CASE UNCHANGED <<loop, up>>
    BY <1>b, <2>2, <2>4
  <2> QED BY <2>1, <2>3, <2>4 DEF LoadNext
<1>3. ASSUME \/ InitializeFails \/ Interrupted \/ StopSignal \/ StopScheduler \/ StopSkipped
             \/ StopEnds \/ ServerReturns \/ ServerRaises \/ ServerExits \/ CloseNext
             \/ UNCHANGED daemonVars
      PROVE  Served(j)'
  BY <1>3, <1>b
  DEF InitializeFails, Interrupted, StopSignal, StopScheduler, StopSkipped, StopEnds,
      ServerReturns, ServerRaises, ServerExits, CloseNext, daemonVars
<1>4. ASSUME Ends PROVE Served(j)'
  BY <1>4, <1>a, OffServes DEF Ends
<1>5. ASSUME Tick PROVE Served(j)'
  BY <1>5, <1>a, TickServes
<1> QED
  BY <1>1, <1>2, <1>3, <1>4, <1>5 DEF DaemonNext, MainStep, Over

\* Whenever an event has been in the calendar and in the lead window for a cycle and an
\* answer of a loop that is up, it is run once and before it begins; and no event twice.
THEOREM EventsAreServed == DaemonSpec => []EventsServed
<1>1. DaemonTypeOK /\ ServedInv => EventsServed
  <2> SUFFICES ASSUME DaemonTypeOK, ServedInv, NEW j \in Calendars, NEW e \in Events
               PROVE  runs[j][e] <= 1 /\ (Owed(j, e) => runs[j][e] = 1)
    BY DEF EventsServed
  <2>1. runs[j][e] = IF e \in fired[j] THEN 1 ELSE 0
    BY DEF ServedInv, Served
  <2>2. ASSUME Owed(j, e), e \notin fired[j] PROVE FALSE
    <3>1. /\ now \in Nat /\ MaxPoll \in Nat /\ MaxRun \in Nat /\ Poll \in Nat /\ Lead \in Nat
          /\ booked[e] \in Nat /\ up[j] \in Nat /\ Start[e] \in Nat
          /\ loop[j].at \in Suspended /\ loop[j].since \in Nat /\ loop[j].wake \in Nat
          /\ Start[e] < now
      BY <2>2, DaemonAssumption DEF Owed, DaemonTypeOK, Times, Jobs
    <3>2. Left(j, e) \in Nat /\ Cycle \in Nat
      BY CycleBounds
    <3>3. \A t \in {booked[e], up[j], Start[e] - Lead} : t + Cycle + MaxPoll <= Start[e]
      BY <2>2 DEF Owed
    <3>4. PICK w \in Nat : Open(j, e, w)
      <4>1. \E w \in {booked[e], up[j], Start[e] - Lead} :
                 w \in Nat /\ booked[e] <= w /\ up[j] <= w /\ Start[e] - Lead <= w
        BY <3>1
      <4> QED BY <3>3, <4>1 DEF Open
    <3>5. /\ InTime(j, e, w) /\ w + Cycle + MaxPoll <= Start[e]
          /\ loop[j].at = "asking" => now <= loop[j].since + MaxPoll
          /\ loop[j].at = "running" => now <= loop[j].since + MaxRun
          /\ loop[j].at = "asleep" => now <= loop[j].wake
      BY <2>2, <3>4 DEF ServedInv, Served, Open
    <3>6. CASE loop[j].at = "asleep"
      BY <3>1, <3>2, <3>5, <3>6 DEF InTime
    <3>7. CASE loop[j].at = "asking"
      BY <3>1, <3>2, <3>5, <3>7 DEF InTime
    <3>8. CASE loop[j].at = "running"
      BY <3>1, <3>2, <3>5, <3>8 DEF InTime
    <3> QED BY <3>1, <3>6, <3>7, <3>8 DEF Suspended
  <2> QED BY <2>1, <2>2
<1>2. DaemonSpec => []ServedInv
  BY ServedInit, ServedNext, DaemonTypeCorrect, PTL DEF DaemonSpec
<1> QED BY <1>1, <1>2, DaemonTypeCorrect, PTL

-----------------------------------------------------------------------------
(* Reflection                                                              *)

\* A set of interactions that is not empty has a newest one.
LEMMA LatestIsLargest ==
    ASSUME NEW rows \in SUBSET Rows, rows # {}
    PROVE  Latest(rows) \in rows /\ \A j \in rows : j <= Latest(rows)
BY BoundedHasLargest, ConstantsAssumption DEF Latest, Rows

LEMMA NewestAreOfThem == ASSUME NEW n, NEW rows PROVE Newest(n, rows) \subseteq rows
BY DEF Newest

LEMMA KeptIsNew == ASSUME NEW new, NEW model PROVE Kept(new, model) \subseteq new
BY NewestAreOfThem DEF Kept

-----------------------------------------------------------------------------
(* The type invariant                                                      *)

LEMMA IdleIsAPass == Idle \in Pass
BY ConstantsAssumption DEF Idle, Pass

LEMMA TypeInit == Init => TypeOK
<1> SUFFICES ASSUME Init PROVE TypeOK
    OBVIOUS
<1>1. refl \in [Reflectors -> Pass]
      BY IdleIsAPass DEF Init
<1>2. disturbed \in BOOLEAN
      BY DEF Init
<1>3. until \in 0..NumRows /\ age \in 0..FactLimit
      BY ConstantsAssumption DEF Init
<1>4. QED
      BY <1>1, <1>2, <1>3 DEF Init, TypeOK, Idle

LEMMA RecoveryType ==
    ASSUME TypeOK, NEW unless \in BOOLEAN, Recovers(unless)
    PROVE  disturbed' \in BOOLEAN /\ repeated' \subseteq Rows
BY DEF TypeOK, Recovers

LEMMA TypeStep == TypeOK /\ [Next]_vars => TypeOK'
<1> SUFFICES ASSUME TypeOK, [Next]_vars PROVE TypeOK'
    OBVIOUS
<1> USE ConstantsAssumption DEF TypeOK, At
<1>1. ASSUME NEW r \in Reflectors, Begin(r) PROVE TypeOK'
  <2> DEFINE base == IF age < FactLimit THEN until ELSE 0
  <2>1. refl' = [refl EXCEPT ![r] = [Idle EXCEPT !.at = "list", !.base = base]]
        BY <1>1 DEF Begin
  <2>2. [Idle EXCEPT !.at = "list", !.base = base] \in Pass
    <3>1. base \in 0..NumRows
          OBVIOUS
    <3> HIDE DEF base
    <3>2. QED
          BY <3>1 DEF Idle, Pass
  <2>3. refl' \in [Reflectors -> Pass]
        BY <2>1, <2>2
  <2>4. disturbed' \in BOOLEAN
        BY <1>1 DEF Begin
  <2>5. \A q \in Reflectors : refl'[q] = refl[q] \/ refl'[q].at = "list"
        BY <2>1 DEF Idle
  <2>6. QED
        BY <1>1, <2>3, <2>4, <2>5 DEF Begin
<1>2. ASSUME NEW r \in Reflectors, List(r) PROVE TypeOK'
  <2> DEFINE new == {i \in Newest(Limit, committed) : i > refl[r].base}
             left == {i \in UpTo(Latest(new)) : i > refl[r].base} \ new
  <2>1. new \subseteq Rows /\ left \subseteq Rows
        BY NewestAreOfThem DEF UpTo
  <2>2. refl' = [refl EXCEPT ![r] =
            IF new = {} THEN Idle
            ELSE [at |-> "summarize", base |-> refl[r].base, new |-> new, left |-> left]]
        BY <1>2 DEF List
  <2> HIDE DEF new, left
  <2>3. [at |-> "summarize", base |-> refl[r].base, new |-> new, left |-> left] \in Pass
        BY <2>1 DEF Pass
  <2>4. refl' \in [Reflectors -> Pass]
        BY <2>2, <2>3, IdleIsAPass
  <2>5. \A q \in Reflectors :
            refl'[q] = refl[q] \/ refl'[q].at = "idle" \/ refl'[q].new # {}
        BY <2>2 DEF Idle
  <2>6. disturbed' \in BOOLEAN /\ repeated' \subseteq Rows
        BY <1>2, RecoveryType DEF List
  <2>7. QED
        BY <1>2, <2>4, <2>5, <2>6 DEF List
<1>3. ASSUME NEW r \in Reflectors, StoreSummary(r) PROVE TypeOK'
  <2>1. PICK model \in BOOLEAN :
            LET kept == Kept(refl[r].new, model)
            IN  /\ consolidated' = consolidated \cup kept
                /\ repeated' = repeated \cup (consolidated \cap kept)
                /\ refl' = [refl EXCEPT ![r].at = "mark", ![r].left = @ \cup (refl[r].new \ kept)]
        BY <1>3 DEF StoreSummary
  <2>2. Kept(refl[r].new, model) \subseteq Rows
        BY KeptIsNew DEF Pass
  <2>3. refl' \in [Reflectors -> Pass]
        BY <2>1, <2>2 DEF Pass
  <2>4. \A q \in Reflectors : refl'[q] = refl[q] \/ (q = r /\ refl'[q].new = refl[r].new)
        BY <2>1 DEF Pass
  <2>5. refl[r].new # {}
        BY <1>3 DEF StoreSummary
  <2>6. age' \in 0..FactLimit
        BY <1>3 DEF StoreSummary, Older
  <2>7. QED
        BY <1>3, <2>1, <2>2, <2>3, <2>4, <2>5, <2>6 DEF StoreSummary
<1>4. ASSUME NEW r \in Reflectors, StoreMarker(r) PROVE TypeOK'
  <2>1. refl[r].new \in SUBSET Rows /\ refl[r].left \subseteq Rows /\ refl[r].new # {}
        BY <1>4 DEF StoreMarker, Pass
  <2>2. Latest(refl[r].new) \in 0..NumRows
        BY <2>1, LatestIsLargest DEF Rows
  <2>3. refl' \in [Reflectors -> Pass]
        BY <1>4, IdleIsAPass DEF StoreMarker
  <2>4. \A q \in Reflectors : refl'[q] = refl[q] \/ refl'[q].at = "idle"
        BY <1>4 DEF StoreMarker, Idle
  <2>5. disturbed' \in BOOLEAN /\ repeated' \subseteq Rows
        BY <1>4, RecoveryType DEF StoreMarker
  <2>6. QED
        BY <1>4, <2>1, <2>2, <2>3, <2>4, <2>5 DEF StoreMarker
<1>5. ASSUME NEW r \in Reflectors, Fails(r) PROVE TypeOK'
  <2>1. refl' \in [Reflectors -> Pass]
        BY <1>5, IdleIsAPass DEF Fails
  <2>2. \A q \in Reflectors : refl'[q] = refl[q] \/ refl'[q].at = "idle"
        BY <1>5 DEF Fails, Idle
  <2>3. disturbed' \in BOOLEAN /\ repeated' \subseteq Rows
    <3>1. (disturbed \/ At(r, "mark")) \in BOOLEAN
          OBVIOUS
    <3>2. QED
          BY <1>5, <3>1, RecoveryType DEF Fails
  <2>4. QED
        BY <1>5, <2>1, <2>2, <2>3 DEF Fails
<1>6. ASSUME NEW i \in Rows, Commit(i) PROVE TypeOK'
      BY <1>6 DEF Commit
<1>7. CASE OtherFact \/ FactsDeleted
      BY <1>7 DEF OtherFact, FactsDeleted, Older
<1>8. CASE UNCHANGED vars
      BY <1>8 DEF vars
<1>9. QED
      BY <1>1, <1>2, <1>3, <1>4, <1>5, <1>6, <1>7, <1>8 DEF Next

\* The passes, the marker and the histories keep their types (core/learning.py); only
\* a pass with something new gets past the listing.
THEOREM TypeCorrect == Spec => []TypeOK
<1>1. QED
      BY TypeInit, TypeStep, PTL DEF Spec

-----------------------------------------------------------------------------
(* Nothing lost.  What is up to the marker a pass has found is told of, or *)
(* missed; what lies between it and the newest interaction of the pass is  *)
(* new or left out, and once the summary is stored, told of or left out.   *)

Told == consolidated \cup missed

PassCovers(r) ==
    /\ UpTo(refl[r].base) \subseteq Told
    /\ refl[r].at \in {"summarize", "mark"} =>
          UpTo(Latest(refl[r].new)) \subseteq UpTo(refl[r].base) \cup refl[r].new \cup refl[r].left
    /\ At(r, "mark") => refl[r].new \subseteq consolidated \cup refl[r].left

LossInv ==
    /\ UpTo(until) \subseteq Told
    /\ \A r \in Reflectors : PassCovers(r)

LEMMA NoneUpToZero == UpTo(0) = {}
BY ConstantsAssumption DEF UpTo, Rows

LEMMA LossInit == Init => LossInv
BY NoneUpToZero DEF Init, LossInv, PassCovers, Idle, At

\* What a pass covers stays covered while the histories grow.
LEMMA CoverageLasts ==
    ASSUME NEW r \in Reflectors, PassCovers(r), refl'[r] = refl[r],
           consolidated \subseteq consolidated', missed \subseteq missed'
    PROVE  PassCovers(r)'
BY DEF PassCovers, Told, At, UpTo

LEMMA IdleCovers == ASSUME NEW r \in Reflectors, refl'[r] = Idle PROVE PassCovers(r)'
BY NoneUpToZero DEF PassCovers, Idle, At, UpTo

LEMMA LossStep == TypeOK /\ LossInv /\ [Next]_vars => LossInv'
<1> SUFFICES ASSUME TypeOK, LossInv, [Next]_vars PROVE LossInv'
    OBVIOUS
<1> USE DEF LossInv
<1>1. ASSUME NEW r \in Reflectors, Begin(r) PROVE LossInv'
  <2>1. /\ refl'[r].at = "list" /\ refl'[r].base \in {until, 0}
        /\ \A q \in Reflectors \ {r} : refl'[q] = refl[q]
        /\ UNCHANGED <<consolidated, missed, until>>
        BY <1>1 DEF Begin, TypeOK, Pass, Idle
  <2>2. PassCovers(r)'
        BY <2>1, NoneUpToZero DEF PassCovers, Told, At, UpTo
  <2>3. \A q \in Reflectors : PassCovers(q)'
        BY <2>1, <2>2, CoverageLasts
  <2>4. QED
        BY <2>1, <2>3 DEF Told, UpTo
<1>2. ASSUME NEW r \in Reflectors, List(r) PROVE LossInv'
  <2> DEFINE base == refl[r].base
             new == {i \in Newest(Limit, committed) : i > base}
             left == {i \in UpTo(Latest(new)) : i > base} \ new
  <2>1. refl' = [refl EXCEPT ![r] =
            IF new = {} THEN Idle
            ELSE [at |-> "summarize", base |-> base, new |-> new, left |-> left]]
        BY <1>2 DEF List
  <2>2. UpTo(Latest(new)) \subseteq UpTo(base) \cup new \cup left
        BY DEF UpTo, TypeOK, Pass, Rows
  <2> HIDE DEF new, left
  <2>3. /\ refl'[r] = Idle \/ refl'[r] = [at |-> "summarize", base |-> base, new |-> new, left |-> left]
        /\ \A q \in Reflectors \ {r} : refl'[q] = refl[q]
        /\ UNCHANGED <<consolidated, missed, until>>
        BY <1>2, <2>1 DEF List, TypeOK
  <2>4. PassCovers(r)'
    <3>1. CASE refl'[r] = Idle
          BY <3>1, IdleCovers
    <3>2. CASE refl'[r] = [at |-> "summarize", base |-> base, new |-> new, left |-> left]
          BY <2>2, <2>3, <3>2 DEF PassCovers, Told, At, UpTo, Latest
    <3>3. QED
          BY <2>3, <3>1, <3>2
  <2>5. \A q \in Reflectors : PassCovers(q)'
        BY <2>3, <2>4, CoverageLasts
  <2>6. QED
        BY <2>3, <2>5 DEF Told, UpTo
<1>3. ASSUME NEW r \in Reflectors, StoreSummary(r) PROVE LossInv'
  <2>1. PICK kept \in SUBSET Rows :
            /\ consolidated' = consolidated \cup kept
            /\ refl' = [refl EXCEPT ![r].at = "mark", ![r].left = @ \cup (refl[r].new \ kept)]
    <3>1. \A model \in BOOLEAN : Kept(refl[r].new, model) \subseteq Rows
          BY KeptIsNew DEF TypeOK, Pass
    <3>2. QED
          BY <1>3, <3>1 DEF StoreSummary
  <2>2. /\ refl'[r].base = refl[r].base /\ refl'[r].new = refl[r].new /\ refl'[r].at = "mark"
        /\ refl'[r].left = refl[r].left \cup (refl[r].new \ kept)
        /\ \A q \in Reflectors \ {r} : refl'[q] = refl[q]
        /\ UNCHANGED <<missed, until>>
        BY <1>3, <2>1 DEF StoreSummary, TypeOK, Pass
  <2>3. PassCovers(r)'
        BY <1>3, <2>1, <2>2 DEF StoreSummary, PassCovers, Told, At, UpTo, Latest
  <2>4. \A q \in Reflectors : PassCovers(q)'
        BY <2>1, <2>2, <2>3, CoverageLasts
  <2>5. QED
        BY <2>1, <2>2, <2>4 DEF Told, UpTo
<1>4. ASSUME NEW r \in Reflectors, StoreMarker(r) PROVE LossInv'
  <2>1. /\ until' = Latest(refl[r].new) /\ missed' = missed \cup refl[r].left
        /\ refl'[r] = Idle /\ \A q \in Reflectors \ {r} : refl'[q] = refl[q]
        /\ UNCHANGED consolidated
        BY <1>4 DEF StoreMarker, TypeOK
  <2>2. UpTo(Latest(refl[r].new)) \subseteq Told \cup refl[r].left
        BY <1>4 DEF StoreMarker, PassCovers, Told, At
  <2>3. \A q \in Reflectors : PassCovers(q)'
        BY <2>1, IdleCovers, CoverageLasts
  <2>4. QED
        BY <2>1, <2>2, <2>3 DEF Told, UpTo
<1>5. ASSUME NEW r \in Reflectors, Fails(r) PROVE LossInv'
  <2>1. /\ refl'[r] = Idle /\ \A q \in Reflectors \ {r} : refl'[q] = refl[q]
        /\ UNCHANGED <<until, consolidated, missed>>
        BY <1>5 DEF Fails, TypeOK
  <2>2. \A q \in Reflectors : PassCovers(q)'
        BY <2>1, IdleCovers, CoverageLasts
  <2>3. QED
        BY <2>1, <2>2 DEF Told, UpTo
<1>6. CASE (\E i \in Rows : Commit(i)) \/ OtherFact \/ FactsDeleted \/ UNCHANGED vars
  <2>1. UNCHANGED <<until, consolidated, missed, refl>>
        BY <1>6 DEF Commit, OtherFact, FactsDeleted, vars
  <2>2. \A q \in Reflectors : PassCovers(q)'
        BY <2>1, CoverageLasts
  <2>3. QED
        BY <2>1, <2>2 DEF Told, UpTo
<1>7. QED
      BY <1>1, <1>2, <1>3, <1>4, <1>5, <1>6 DEF Next

\* The marker passes no interaction that is neither told of nor counted as missed
\* (core/learning.py, run_reflection).
THEOREM MarkerPassesNothing == Spec => []NothingLost
<1>1. LossInv => NothingLost
      BY DEF LossInv, NothingLost, Told
<1>2. QED
      BY <1>1, TypeInit, TypeStep, LossInit, LossStep, PTL DEF Spec

-----------------------------------------------------------------------------
(* Consolidated once.  Undisturbed, one pass at most is under way, it has  *)
(* found the marker, and what is told of lies up to the marker, or, before *)
(* the marker is moved, up to the newest interaction of the pass.  That is *)
(* so again, whatever disturbed it, once the marker has caught up.         *)

Undisturbed ==
    /\ repeated = {}
    /\ \A q, r \in Reflectors : ~At(q, "idle") /\ ~At(r, "idle") => q = r
    /\ (\A r \in Reflectors : ~At(r, "mark")) => consolidated \subseteq UpTo(until)
    /\ \A r \in Reflectors :
          /\ refl[r].at \in {"list", "summarize"} => refl[r].base = until
          /\ ~At(r, "idle") => \A i \in refl[r].new : i > refl[r].base
          /\ At(r, "mark") => consolidated \subseteq UpTo(Latest(refl[r].new))

OnceInv == disturbed \/ Undisturbed

LEMMA OnceInit == Init => OnceInv
BY DEF Init, OnceInv, Undisturbed, Idle, At

\* A pass that ends leaves nothing disturbed if the marker has caught up, and otherwise
\* what there was.
LEMMA RecoveryUndisturbed ==
    ASSUME NEW unless \in BOOLEAN, Recovers(unless), ~disturbed', ~Undisturbed'
    PROVE  ~unless /\ UNCHANGED repeated
<1>1. CaughtUp' /\ repeated' = {} => Undisturbed'
      BY DEF CaughtUp, Undisturbed, At
<1>2. QED
      BY <1>1 DEF Recovers

\* A pass that ends, or that none disturbed, leaves what there was of it undisturbed.
LEMMA OnceStep == TypeOK /\ OnceInv /\ [Next]_vars => OnceInv'
<1> SUFFICES ASSUME TypeOK, OnceInv, [Next]_vars, ~disturbed', ~Undisturbed' PROVE FALSE
    BY DEF OnceInv
<1>1. ASSUME NEW r \in Reflectors, Begin(r) PROVE FALSE
  <2>1. /\ ~disturbed
        /\ ~(until > 0 /\ age >= FactLimit)
        /\ \A q \in Reflectors \ {r} : At(q, "idle")
        BY <1>1 DEF Begin
  <2>2. Undisturbed
        BY <2>1 DEF OnceInv
  <2>3. /\ refl'[r].at = "list" /\ refl'[r].base = until /\ refl'[r].new = {}
        /\ \A q \in Reflectors \ {r} : refl'[q] = refl[q]
        /\ At(r, "idle")
        /\ UNCHANGED <<consolidated, repeated, until>>
        BY <1>1, <2>1, ConstantsAssumption DEF Begin, TypeOK, Pass, Idle
  <2>4. consolidated \subseteq UpTo(until)
        BY <2>1, <2>2, <2>3 DEF Undisturbed, At
  <2>5. QED
        BY <2>1, <2>2, <2>3, <2>4 DEF Undisturbed, At, UpTo
<1>2. ASSUME NEW r \in Reflectors, List(r) PROVE FALSE
  <2> DEFINE base == refl[r].base
             new == {i \in Newest(Limit, committed) : i > base}
             left == {i \in UpTo(Latest(new)) : i > base} \ new
  <2>1. Undisturbed /\ UNCHANGED repeated
        BY <1>2, RecoveryUndisturbed DEF List, OnceInv, TypeOK
  <2>2. \A i \in new : i > base
        OBVIOUS
  <2>3. refl' = [refl EXCEPT ![r] =
            IF new = {} THEN Idle
            ELSE [at |-> "summarize", base |-> base, new |-> new, left |-> left]]
        BY <1>2 DEF List
  <2> HIDE DEF new, left
  <2>4. /\ \/ refl'[r].at = "idle" /\ refl'[r].new = {}
           \/ refl'[r].at = "summarize" /\ refl'[r].base = base /\ refl'[r].new = new
        /\ \A q \in Reflectors \ {r} : refl'[q] = refl[q]
        /\ At(r, "list")
        /\ UNCHANGED <<consolidated, repeated, until>>
        BY <1>2, <2>1, <2>3 DEF List, TypeOK, Idle
  <2>5. consolidated \subseteq UpTo(until)
        BY <2>1, <2>4 DEF Undisturbed, At
  <2>6. QED
        BY <2>1, <2>2, <2>4, <2>5 DEF Undisturbed, At, UpTo
<1>3. ASSUME NEW r \in Reflectors, StoreSummary(r) PROVE FALSE
  <2>1. Undisturbed
        BY <1>3 DEF StoreSummary, OnceInv
  <2>2. PICK kept \in SUBSET refl[r].new :
            /\ consolidated' = consolidated \cup kept
            /\ repeated' = repeated \cup (consolidated \cap kept)
            /\ refl' = [refl EXCEPT ![r].at = "mark", ![r].left = @ \cup (refl[r].new \ kept)]
    <3>1. \A model \in BOOLEAN : Kept(refl[r].new, model) \subseteq refl[r].new
          BY KeptIsNew
    <3>2. QED
          BY <1>3, <3>1 DEF StoreSummary
  <2>3. /\ refl'[r].base = refl[r].base /\ refl'[r].new = refl[r].new /\ refl'[r].at = "mark"
        /\ \A q \in Reflectors \ {r} : refl'[q] = refl[q]
        /\ At(r, "summarize")
        /\ UNCHANGED until
        BY <1>3, <2>2 DEF StoreSummary, TypeOK, Pass
  <2>4. /\ refl[r].new \in SUBSET Rows /\ refl[r].new # {}
        /\ until \in 0..NumRows
        BY <2>3 DEF TypeOK, Pass, At
  <2>5. /\ consolidated \subseteq UpTo(until)
        /\ \A i \in refl[r].new : i > until
        BY <2>1, <2>3 DEF Undisturbed, At
  <2>6. repeated' = {}
        BY <2>1, <2>2, <2>4, <2>5, ConstantsAssumption DEF Undisturbed, UpTo, Rows
  <2>7. consolidated' \subseteq UpTo(Latest(refl[r].new))
        BY <2>2, <2>4, <2>5, LatestIsLargest, ConstantsAssumption DEF UpTo, Rows
  <2>8. QED
        BY <2>1, <2>3, <2>6, <2>7 DEF Undisturbed, At, UpTo, Latest
<1>4. ASSUME NEW r \in Reflectors, StoreMarker(r) PROVE FALSE
  <2>1. Undisturbed /\ UNCHANGED repeated
        BY <1>4, RecoveryUndisturbed DEF StoreMarker, OnceInv, TypeOK
  <2>2. /\ refl'[r].at = "idle" /\ refl'[r].new = {}
        /\ \A q \in Reflectors \ {r} : refl'[q] = refl[q]
        /\ At(r, "mark")
        /\ until' = Latest(refl[r].new)
        /\ UNCHANGED <<consolidated, repeated>>
        BY <1>4, <2>1 DEF StoreMarker, TypeOK, Idle
  <2>3. \A q \in Reflectors \ {r} : At(q, "idle")
        BY <2>1, <2>2 DEF Undisturbed, At
  <2>4. consolidated \subseteq UpTo(Latest(refl[r].new))
        BY <2>1, <2>2 DEF Undisturbed
  <2>5. QED
        BY <2>1, <2>2, <2>3, <2>4 DEF Undisturbed, At, UpTo
<1>5. ASSUME NEW r \in Reflectors, Fails(r) PROVE FALSE
  <2>1. Undisturbed /\ ~At(r, "mark") /\ ~At(r, "idle") /\ UNCHANGED repeated
    <3>1. (disturbed \/ At(r, "mark")) \in BOOLEAN
          BY DEF TypeOK, At
    <3>2. QED
          BY <1>5, <3>1, RecoveryUndisturbed DEF Fails, OnceInv
  <2>2. /\ refl'[r].at = "idle" /\ refl'[r].new = {}
        /\ \A q \in Reflectors \ {r} : refl'[q] = refl[q]
        /\ UNCHANGED <<until, consolidated, repeated>>
        BY <1>5, <2>1 DEF Fails, TypeOK, Idle
  <2>3. \A q \in Reflectors \ {r} : At(q, "idle")
        BY <2>1 DEF Undisturbed
  <2>4. consolidated \subseteq UpTo(until)
        BY <2>1, <2>3 DEF Undisturbed, At
  <2>5. QED
        BY <2>1, <2>2, <2>3, <2>4 DEF Undisturbed, At, UpTo
<1>6. CASE (\E i \in Rows : Commit(i)) \/ OtherFact \/ FactsDeleted \/ UNCHANGED vars
  <2>1. UNCHANGED <<until, consolidated, repeated, disturbed, refl>>
        BY <1>6 DEF Commit, OtherFact, FactsDeleted, vars
  <2>2. QED
        BY <2>1 DEF OnceInv, Undisturbed, At, UpTo, Latest
<1>7. QED
      BY <1>1, <1>2, <1>3, <1>4, <1>5, <1>6 DEF Next

\* No interaction is told of twice, unless a pass ends between its stores, passes
\* overlap, or the marker is not found; and then only until the marker has caught up
\* (core/learning.py, LAST_REFLECTION_KEY).
THEOREM NoneConsolidatedTwice == Spec => []ConsolidatedOnce
<1>1. OnceInv => ConsolidatedOnce
      BY DEF OnceInv, Undisturbed, ConsolidatedOnce
<1>2. QED
      BY <1>1, TypeInit, TypeStep, OnceInit, OnceStep, PTL DEF Spec
=============================================================================
