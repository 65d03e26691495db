------------------------------- MODULE Daemon -------------------------------
(***************************************************************************)
(* `assistant daemon' (src/assistant/cli.py): the persona's extensions are *)
(* initialized (core/persona.py), a task per scheduled job loops           *)
(* (core/scheduler.py), optionally beside a web server, until a signal     *)
(* asks the main task to take everything down again.                       *)
(*                                                                         *)
(* One asyncio loop: every step lasts from one suspending await to the     *)
(* next.  Time is discrete; a timer that is due fires before time goes on. *)
(***************************************************************************)
EXTENDS Integers, FiniteSets

CONSTANTS
    Cron, Intervals, Calendars,  \* the enabled jobs, by kind of trigger
    Period,        \* of each cron or interval job
    Source,        \* the extension that is the calendar of each calendar job
    Lead,          \* lead_minutes
    Poll,          \* calendar_poll_seconds
    Events,        \* what the calendars hold
    Start,         \* when each begins
    BookTimes,     \* when each may be entered
    NumExts,       \* the persona's extensions are 1..NumExts, as declared
    MaxPoll,       \* bound: how long a calendar takes to answer
    MaxRun,        \* bound: how long a job takes
    MaxTime        \* bound: the clock

Jobs == Cron \cup Intervals \cup Calendars
Exts == 1..NumExts
Times == 0..MaxTime

ASSUME DaemonAssumption ==
    /\ Cron \cap Intervals = {} /\ (Cron \cup Intervals) \cap Calendars = {}
    /\ Period \in [Cron \cup Intervals -> Nat \ {0}]
    /\ NumExts \in Nat \ {0}
    /\ Source \in [Calendars -> Exts]
    /\ Lead \in Nat /\ Poll \in Nat \ {0}
    /\ MaxPoll \in Nat \ {0} /\ MaxRun \in Nat \ {0} /\ MaxTime \in Nat
    /\ IsFiniteSet(Events)
    /\ Start \in [Events -> Nat]
    /\ BookTimes \subseteq Times

VARIABLES
    now,         \* the clock
    booked,      \* per event: since when it is in the calendars
    main,        \* the main task: where it is, and the extension it has at hand
    ext,         \* per extension: what its hooks made of it
    closings,    \* history, per extension: calls of its shutdown hook
    active,      \* PersonaRegistry._active_extensions
    held,        \* the extensions a load or a shutdown has in its local list
    server,      \* the task of the web server
    loop,        \* per job: its task
    fired,       \* AssistantScheduler._fired_events
    runs,        \* history, per calendar job and event: how often it was run
    up,          \* history, per job: when it was last known to miss nothing
    cancelling   \* tasks with a cancellation not delivered yet

mainVars == <<main, ext, closings, active, held>>
loopVars == <<loop, fired, runs, up>>
daemonVars == <<now, booked, mainVars, server, loopVars, cancelling>>

\* A job's task: where it is and since when, when its sleep ends, and the events
\* of the last answer it has still to run.
Off == [at |-> "off", since |-> 0, wake |-> 0, todo |-> {}]
Suspended == {"asking", "running", "asleep"}

DaemonInit ==
    /\ now = 0
    /\ booked \in [Events -> BookTimes]
    /\ main = [at |-> "loading", ext |-> 1]
    /\ ext = [x \in Exts |-> "new"]
    /\ closings = [x \in Exts |-> 0]
    /\ active = {} /\ held = {}
    /\ server \in {"none", "wanted"}
    /\ loop = [j \in Jobs |-> Off]
    /\ fired = [j \in Calendars |-> {}]
    /\ runs = [j \in Calendars |-> [e \in Events |-> 0]]
    /\ up = [j \in Calendars |-> 0]
    /\ cancelling = {}

-----------------------------------------------------------------------------
(* The jobs' loops                                                         *)

Asking == [Off EXCEPT !.at = "asking", !.since = now]
Running(todo) == [Off EXCEPT !.at = "running", !.since = now, !.todo = todo]
Asleep(wake) == [Off EXCEPT !.at = "asleep", !.wake = wake]

\* Mutant of NextFireTime: the last match instead of the next.
LastFireTime(j) ==
    IF j \in Cron THEN ((now - 1) \div Period[j]) * Period[j] ELSE now + Period[j]

\* next_fire_time: the next match of a cron expression, or a period from now.
NextFireTime(j) ==
    IF j \in Cron THEN (now \div Period[j] + 1) * Period[j] ELSE now + Period[j]

\* Where a loop starts over.
Again(j) == IF j \in Calendars THEN Asking ELSE Asleep(NextFireTime(j))

\* start: no task for a job whose calendar is not among the loaded extensions.
Scheduled(loaded) == {j \in Jobs : j \in Calendars => Source[j] \in loaded}

LoopAt(j, place) == loop[j].at = place /\ j \notin cancelling

\* Mutant of FireNext: only the first event of an answer is run, then the poll sleeps.
FireFirst(j, todo) ==
    IF todo = {} \/ loop[j].at = "running"
    THEN /\ loop' = [loop EXCEPT ![j] = Asleep(now + Poll)]
         /\ UNCHANGED <<fired, runs>>
    ELSE \E e \in todo :
            /\ fired' = [fired EXCEPT ![j] = @ \cup todo]
            /\ runs' = [runs EXCEPT ![j][e] = @ + 1]
            /\ loop' = [loop EXCEPT ![j] = Running(todo \ {e})]

\* The rest of an answer: the next event is marked and run, in the order of the
\* calendar, or the poll is over.
FireNext(j, todo) ==
    IF todo = {}
    THEN /\ loop' = [loop EXCEPT ![j] = Asleep(now + Poll)]
         /\ UNCHANGED <<fired, runs>>
    ELSE \E e \in todo :
            /\ fired' = [fired EXCEPT ![j] = @ \cup {e}]
            /\ runs' = [runs EXCEPT ![j][e] = @ + 1]
            /\ loop' = [loop EXCEPT ![j] = Running(todo \ {e})]

\* What upcoming_events(within_minutes=lead) lists at time t.
Upcoming(t) == {e \in Events : booked[e] <= t /\ t <= Start[e] /\ Start[e] <= t + Lead}

\* The calendar answers with what it saw at some time since it was asked; `now' is
\* read after the answer, once, and all events of the answer are tested against it.
PollAnswers(j) ==
    /\ LoopAt(j, "asking")
    /\ \E seen \in loop[j].since..now :
          FireNext(j, {e \in Upcoming(seen) \ fired[j] : now <= Start[e] /\ Start[e] <= now + Lead})
    /\ UNCHANGED <<now, booked, mainVars, server, up, cancelling>>

\* upcoming_events raises: no events this time.
PollFails(j) ==
    /\ LoopAt(j, "asking")
    /\ loop' = [loop EXCEPT ![j] = Asleep(now + Poll)]
    /\ up' = [up EXCEPT ![j] = now]
    /\ UNCHANGED <<now, booked, mainVars, server, fired, runs, cancelling>>

\* The sleep ends: a timer's job is run, a calendar is asked.
Wakes(j) ==
    /\ LoopAt(j, "asleep") /\ loop[j].wake <= now
    /\ loop' = [loop EXCEPT ![j] = IF j \in Calendars THEN Asking ELSE Running({})]
    /\ UNCHANGED <<now, booked, mainVars, server, fired, runs, up, cancelling>>

\* run_job_once: the job returns or fails, its loop goes on either way.
RunEnds(j) ==
    /\ LoopAt(j, "running")
    /\ IF j \in Calendars
       THEN FireNext(j, loop[j].todo)
       ELSE loop' = [loop EXCEPT ![j] = Again(j)] /\ UNCHANGED <<fired, runs>>
    /\ UNCHANGED <<now, booked, mainVars, server, up, cancelling>>

\* CancelledError at the await the task is suspended in ends its loop.
CancelDelivered(j) ==
    /\ j \in cancelling
    /\ loop' = [loop EXCEPT ![j] = Off]
    /\ cancelling' = cancelling \ {j}
    /\ UNCHANGED <<now, booked, mainVars, server, fired, runs, up>>

-----------------------------------------------------------------------------
(* The main task                                                           *)

\* The tasks that have not ended.
Alive == {j \in Jobs : loop[j].at # "off"}

GoOn(place) == main' = [main EXCEPT !.at = place]

\* The load is over: the registry owns what was initialized, the scheduler and the
\* server are started, and the main task waits for its signal.  An app that cannot be
\* made for the server (its harness is refused) raises out of that: the scheduler is
\* stopped before its tasks took a step.
Loaded(loaded) ==
    /\ active' = active \cup loaded
    /\ held' = {}
    /\ loop' = [j \in Jobs |-> IF j \in Scheduled(loaded) THEN Again(j) ELSE Off]
    /\ up' = [j \in Calendars |-> now]
    /\ \/ /\ GoOn("serving")
          /\ server' = IF server = "wanted" THEN "up" ELSE server
          /\ UNCHANGED cancelling
       \/ /\ server = "wanted"
          /\ GoOn("stopping")
          /\ cancelling' = Scheduled(loaded)
          /\ UNCHANGED server

\* load_extensions_async goes on after extension `main.ext'.
LoadNext(loaded) ==
    IF main.ext < NumExts
    THEN /\ main' = [at |-> "loading", ext |-> main.ext + 1]
         /\ held' = loaded
         /\ UNCHANGED <<active, loop, up, server, cancelling>>
    ELSE Loaded(loaded)

\* The initialize hook returns.
Initialized ==
    /\ main.at = "loading"
    /\ ext' = [ext EXCEPT ![main.ext] = "ready"]
    /\ LoadNext(held \cup {main.ext})
    /\ UNCHANGED <<now, booked, closings, fired, runs>>

\* It raises: the shutdown hook is called, for what it is worth.
InitializeFails ==
    /\ main.at = "loading"
    /\ GoOn("discarding")
    /\ closings' = [closings EXCEPT ![main.ext] = @ + 1]
    /\ UNCHANGED <<now, booked, ext, active, held, server, loopVars, cancelling>>

\* The hook of a disabled extension ends, one way or the other.
Discarded ==
    /\ main.at = "discarding"
    /\ ext' = [ext EXCEPT ![main.ext] = "disabled"]
    /\ LoadNext(held)
    /\ UNCHANGED <<now, booked, closings, fired, runs>>

\* The finally of _run_daemon: shutdown_extensions drains the registry's list.
Release ==
    /\ held' = active
    /\ active' = {}
    /\ GoOn("releasing")

\* Ctrl-C before the signal handlers are installed cancels the main task.
Interrupted ==
    /\ main.at \in {"loading", "discarding"}
    /\ Release
    /\ UNCHANGED <<now, booked, ext, closings, server, loopVars, cancelling>>

\* SIGINT or SIGTERM sets `stop': the server is told to exit.
StopSignal ==
    /\ main.at = "serving"
    /\ GoOn("draining")
    /\ UNCHANGED <<now, booked, ext, closings, active, held, server, loopVars, cancelling>>

\* The server's task returns: when it was told to, or because its start-up failed.
ServerReturns ==
    /\ server = "up"
    /\ server' = "down"
    /\ UNCHANGED <<now, booked, mainVars, loopVars, cancelling>>

\* Or it raises (the port is no port number: OverflowError), which nobody notices until
\* the task is awaited.
ServerRaises ==
    /\ server = "up"
    /\ server' = "failed"
    /\ UNCHANGED <<now, booked, mainVars, loopVars, cancelling>>

\* Or it raises SystemExit (the port is taken), which leaves the event loop: asyncio.run
\* cancels every task, and the main task's wait for the server raises.
ServerExits ==
    /\ server = "up" /\ main.at \in {"serving", "draining"}
    /\ server' = "exited"
    /\ cancelling' = cancelling \cup Alive
    /\ Release
    /\ UNCHANGED <<now, booked, ext, closings, loopVars>>

\* Mutant of StopScheduler: only tasks in a run are cancelled, not those that sleep.
StopRunning ==
    /\ main.at = "draining" /\ server \notin {"up", "failed"}
    /\ cancelling' = cancelling \cup {j \in Alive : loop[j].at = "running"}
    /\ GoOn("stopping")
    /\ UNCHANGED <<now, booked, ext, closings, active, held, server, loopVars>>

\* scheduler.stop() cancels every task...
StopScheduler ==
    /\ main.at = "draining" /\ server \notin {"up", "failed"}
    /\ cancelling' = cancelling \cup Alive
    /\ GoOn("stopping")
    /\ UNCHANGED <<now, booked, ext, closings, active, held, server, loopVars>>

\* What the server's task raised is raised again where it is awaited: scheduler.stop()
\* is not reached, and the loops go on.
StopSkipped ==
    /\ main.at = "draining" /\ server = "failed"
    /\ Release
    /\ UNCHANGED <<now, booked, ext, closings, server, loopVars, cancelling>>

\* Mutant of StopEnds: the cancelled tasks are not awaited.
StopUnawaited ==
    /\ main.at = "stopping"
    /\ Release
    /\ UNCHANGED <<now, booked, ext, closings, server, loopVars, cancelling>>

\* ... and gathers them.
StopEnds ==
    /\ main.at = "stopping" /\ Alive = {}
    /\ Release
    /\ UNCHANGED <<now, booked, ext, closings, server, loopVars, cancelling>>

\* The hooks are called in reverse order; what one raises is logged.
CloseNext ==
    /\ main.at = "releasing" /\ held # {}
    /\ LET x == CHOOSE y \in held : \A z \in held : z <= y
       IN  /\ ext' = [ext EXCEPT ![x] = "closed"]
           /\ closings' = [closings EXCEPT ![x] = @ + 1]
           /\ held' = held \ {x}
    /\ UNCHANGED <<now, booked, main, active, server, loopVars, cancelling>>

\* The main task ends, and with it the process and whatever task is left.
Ends ==
    /\ main.at = "releasing" /\ held = {}
    /\ GoOn("ended")
    /\ loop' = [j \in Jobs |-> Off]
    /\ cancelling' = {}
    /\ UNCHANGED <<now, booked, ext, closings, active, held, server, fired, runs, up>>

-----------------------------------------------------------------------------
\* Nobody is due: no timer has run out, no answer or job is at its bound.
NobodyDue ==
    /\ cancelling = {}
    /\ \A j \in Alive :
          CASE loop[j].at = "asleep"  -> now < loop[j].wake
            [] loop[j].at = "asking"  -> now < loop[j].since + MaxPoll
            [] loop[j].at = "running" -> now < loop[j].since + MaxRun

Tick ==
    /\ main.at # "ended" /\ now < MaxTime /\ NobodyDue
    /\ now' = now + 1
    /\ UNCHANGED <<booked, mainVars, server, loopVars, cancelling>>

LoopStep(j) ==
    \/ PollAnswers(j)
    \/ PollFails(j)
    \/ Wakes(j)
    \/ RunEnds(j)
    \/ CancelDelivered(j)

MainStep ==
    \/ Initialized
    \/ InitializeFails
    \/ Discarded
    \/ StopScheduler
    \/ StopSkipped
    \/ StopEnds
    \/ CloseNext
    \/ Ends

\* The process is over, or the clock is at its bound.
Over == (main.at = "ended" \/ now = MaxTime) /\ UNCHANGED daemonVars

DaemonNext ==
    \/ \E j \in Jobs : LoopStep(j)
    \/ MainStep
    \/ Interrupted
    \/ StopSignal
    \/ ServerReturns
    \/ ServerRaises
    \/ ServerExits
    \/ Tick
    \/ Over

DaemonSpec == DaemonInit /\ [][DaemonNext]_daemonVars

\* Hooks return, calendars answer and jobs end or take their cancellation; a server
\* that was told to exit does, if it has not raised.
Fairness ==
    /\ WF_daemonVars(MainStep)
    /\ \A j \in Jobs : WF_daemonVars(LoopStep(j))
    /\ WF_daemonVars(main.at = "draining" /\ ServerReturns)

FairSpec == DaemonSpec /\ Fairness

-----------------------------------------------------------------------------
(* Properties                                                              *)

MainPlaces == {"loading", "discarding", "serving", "draining", "stopping", "releasing", "ended"}
Servers == {"none", "wanted", "up", "down", "failed", "exited"}

\* Type invariant.
DaemonTypeOK ==
    /\ now \in Times
    /\ booked \in [Events -> Times]
    /\ main \in [at : MainPlaces, ext : Exts]
    /\ ext \in [Exts -> {"new", "ready", "disabled", "closed"}]
    /\ closings \in [Exts -> Nat]
    /\ active \subseteq Exts /\ held \subseteq Exts
    /\ server \in Servers
    /\ loop \in [Jobs -> [at : {"off"} \cup Suspended, since : Times, wake : Nat,
                          todo : SUBSET Events]]
    /\ fired \in [Calendars -> SUBSET Events]
    /\ runs \in [Calendars -> [Events -> Nat]]
    /\ up \in [Calendars -> Times]
    /\ cancelling \subseteq Jobs

\* From one request of a calendar loop to the next that an event may have to wait for:
\* an answer without it, a run for each of the others, and the sleep.
Cycle == MaxPoll + (Cardinality(Events) - 1) * MaxRun + Poll

\* The loop is up, and for a whole cycle before the last answer that could list the
\* event in time, the event was in the calendar, in the lead window, and no poll failed.
Owed(j, e) ==
    /\ loop[j].at \in Suspended
    /\ Start[e] < now
    /\ \A t \in {booked[e], up[j], Start[e] - Lead} : t + Cycle + MaxPoll <= Start[e]

\* "the scheduler polls it and fires the job once per event (deduplicated on
\* event_id) when the event enters the trigger's lead_minutes window": no event is run
\* twice, and none is missed for as long as the lead is longer than a cycle, although
\* the loop is deaf while it sleeps and while it runs the jobs of earlier events.
EventsServed ==
    \A j \in Calendars, e \in Events :
        /\ runs[j][e] <= 1
        /\ Owed(j, e) => runs[j][e] = 1

\* At the end each extension that was initialized was shut down once, and a later one
\* before an earlier one, whatever failed or interrupted; an interrupted load keeps
\* none, because the registry's list is only extended at the end of it.  Meanwhile jobs
\* are left only by a server: the extensions go after the last task has ended, or been
\* told to end (the server's SystemExit), unless the server's task had raised.
ExtensionsReleased ==
    /\ \A x \in Exts :
          /\ closings[x] <= 1
          /\ ext[x] = "closed" => \A y \in Exts : y > x => ext[y] # "ready"
    /\ main.at = "ended" =>
          \/ \A x \in Exts : ext[x] \in {"closed", "disabled"} /\ closings[x] = 1
          \/ \A x \in Exts : ext[x] # "closed" /\ ext[main.ext] # "ready"
    /\ main.at = "releasing" =>
          \A j \in Alive : server = "failed" \/ (server = "exited" /\ j \in cancelling)

\* A daemon that was asked to stop, that has no app for its server, or whose server gave
\* up, ends.
DaemonEnds ==
    main.at \in {"draining", "stopping", "releasing"} ~> main.at = "ended"
=============================================================================
