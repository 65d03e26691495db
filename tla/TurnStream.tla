----------------------------- MODULE TurnStream -----------------------------
(***************************************************************************)
(* One streamed turn, from the SDK's events to what a client reads: the    *)
(* harness generator (astream_invoke of src/assistant/harnesses/sdk), its  *)
(* tracing wrapper (src/assistant/telemetry/decorators.py), the protocol   *)
(* mapper (src/assistant/transports) and the handler that serves it        *)
(* (src/assistant/a2a/task_handler.py, src/assistant/web/routes.py).       *)
(*                                                                         *)
(* The four are nested generators: each next event the client asks for     *)
(* resumes the innermost one that has something to do.  One harness event  *)
(* may make several protocol events, `pending' until the client has read   *)
(* them one by one.  The client may go at any of them, and while the       *)
(* harness awaits the SDK.                                                 *)
(***************************************************************************)
EXTENDS Naturals, Sequences

CONSTANTS
    Messages,  \* message ids
    Tools,     \* the tool calls an agent may make
    Unnamed,   \* those of them whose id the SDK leaves out of its events
    MaxSteps   \* bound: SDK events in the turn

\* No text message is open.
NoMessage == "none"

ASSUME ConstantsAssumption ==
    /\ Messages # {} /\ NoMessage \notin Messages
    /\ Unnamed \subseteq Tools
    /\ \A t \in Tools : t \notin Nat  \* the ids made up by the harness
    /\ MaxSteps \in Nat

\* APPROVAL_DENIED_ERROR_CLASSES, PENDING_APPROVAL_ERROR_CLASSES, and the rest.
ErrorClasses == {"denied", "pending", "other"}

VARIABLES
    surface,  \* the protocol served: "a2a" or "ag_ui"
    sdk,      \* the harness: "deep_agents" or "ms_agent_fw"
    run,      \* where the harness generator is suspended
    steps,    \* SDK events so far
    said,     \* history: the text chunks of each message
    calls,    \* the agent's tool calls
    orphans,  \* pending_orphan_call_ids
    minted,   \* call ids made up by the harness
    mapper,   \* _open_message_id, seen_artifacts, terminal_emitted
    pending,  \* protocol events of the current harness event not yet read
    sent,     \* protocol events the client has read
    task,     \* the A2A task: its state, and the chunks of each artifact
    outcome,  \* how the turn went
    trace,    \* the trace_llm_call of the turn
    reading   \* the client is connected

harness == <<run, steps, said, calls, orphans, minted>>
vars == <<surface, sdk, harness, mapper, pending, sent, task, outcome, trace, reading>>

AnyMessage == CHOOSE m \in Messages : TRUE

Event(kind, id, chunk) == [kind |-> kind, id |-> id, chunk |-> chunk]
\* An event of the run as a whole names no message and no call.
Signal(kind) == Event(kind, 0, 0)

Init ==
    /\ surface \in {"a2a", "ag_ui"}
    /\ sdk \in {"deep_agents", "ms_agent_fw"}
    /\ run = "new"
    /\ steps = 0
    /\ said = [m \in Messages |-> <<>>]
    /\ calls = [t \in Tools |-> "new"]
    /\ orphans = <<>>
    /\ minted = 0
    /\ mapper = [open |-> NoMessage, seen |-> {}, terminal |-> FALSE]
    /\ pending = IF surface = "a2a" THEN <<Signal("task")>> ELSE <<>>
    /\ sent = <<>>
    /\ task = [state |-> "submitted", artifacts |-> [m \in Messages |-> <<>>]]
    /\ outcome = "running"
    /\ trace = "none"
    /\ reading = TRUE

-----------------------------------------------------------------------------
(* The mappers: the protocol events of one harness event.                  *)

MapRunStarted ==
    pending' = <<Signal(IF surface = "a2a" THEN "working" ELSE "run_started")>>

\* Mutant of MapTextDelta: the open message is not closed.
MapTextDeltaUnclosed(m, chunk) ==
    /\ pending' = (IF mapper.open # m THEN <<Event("text_start", m, 0)>> ELSE <<>>)
                  \o <<Event("text_content", m, chunk)>>
    /\ mapper' = [mapper EXCEPT !.open = m]

\* An AG-UI message is opened by its first delta, and closed by a delta of
\* another; an A2A artifact is appended to once it was seen.
MapTextDelta(m, chunk) ==
    IF surface = "a2a"
    THEN /\ pending' = <<Event(IF m \in mapper.seen THEN "append" ELSE "artifact", m, chunk)>>
         /\ mapper' = [mapper EXCEPT !.seen = @ \cup {m}]
    ELSE /\ pending' =
              (IF mapper.open \in Messages \ {m}
               THEN <<Event("text_end", mapper.open, 0)>> ELSE <<>>)
              \o (IF mapper.open # m THEN <<Event("text_start", m, 0)>> ELSE <<>>)
              \o <<Event("text_content", m, chunk)>>
         /\ mapper' = [mapper EXCEPT !.open = m]

\* Tool events pass through to AG-UI and are dropped for A2A.
MapToolEvents(evts) == pending' = IF surface = "a2a" THEN <<>> ELSE evts

\* The A2A verdict on an error, by the leaf class of the exception.
A2AError(class) ==
    CASE class = "pending" -> <<Signal("suspended")>>
      [] class = "denied"  -> <<Signal("input_required"), Signal("failed")>>
      [] OTHER             -> <<Signal("failed")>>

MapRunFinished(verdict) ==
    /\ pending' =
         IF surface = "a2a"
         THEN verdict
         ELSE (IF mapper.open # NoMessage THEN <<Event("text_end", mapper.open, 0)>> ELSE <<>>)
              \o verdict
    /\ mapper' = [mapper EXCEPT !.open = NoMessage, !.terminal = TRUE]

-----------------------------------------------------------------------------
(* The client reads one event.  The handler applies it to the task first.  *)

\* Mutant of Apply: the snapshot is applied like a status update.
ApplySnapshot(e) == [task EXCEPT !.state = e.kind]

Apply(e) ==
    CASE e.kind = "artifact" ->
            [task EXCEPT !.artifacts[e.id] = <<e.chunk>>]
      [] e.kind = "append" ->
            [task EXCEPT !.artifacts[e.id] = Append(@, e.chunk)]
      [] e.kind \in {"working", "input_required", "suspended", "completed", "failed"} ->
            [task EXCEPT !.state = e.kind]
      [] OTHER -> task

Read ==
    /\ reading /\ pending # <<>>
    /\ sent' = Append(sent, Head(pending))
    /\ pending' = Tail(pending)
    /\ task' = Apply(Head(pending))
    /\ UNCHANGED <<surface, sdk, harness, mapper, outcome, trace, reading>>

\* The client wants the next event, and the harness is resumed for it.
Pulled(at) == reading /\ pending = <<>> /\ run = at

-----------------------------------------------------------------------------
(* astream_invoke                                                          *)

YieldRunStarted ==
    /\ Pulled("new")
    /\ run' = "streaming"
    /\ MapRunStarted
    /\ UNCHANGED <<surface, sdk, steps, said, calls, orphans, minted, mapper, sent, task,
                   outcome, trace, reading>>

SdkStep ==
    /\ Pulled("streaming")
    /\ steps < MaxSteps
    /\ steps' = steps + 1
    /\ UNCHANGED <<surface, sdk, run, sent, task, outcome, trace, reading>>

\* A text chunk: of any message of the graph, or of the one message of an MSAF run.
YieldText(m) ==
    /\ SdkStep
    /\ sdk = "ms_agent_fw" => m = AnyMessage
    /\ said' = [said EXCEPT ![m] = Append(@, steps + 1)]
    /\ MapTextDelta(m, steps + 1)
    /\ UNCHANGED <<calls, orphans, minted>>

\* A call starts: its id is the SDK's, or one made up; its arguments follow
\* (an MSAF item may have none).
YieldToolStart(t, arguments) ==
    /\ SdkStep
    /\ calls[t] = "new"
    /\ sdk = "deep_agents" => arguments
    /\ calls' = [calls EXCEPT ![t] = "open"]
    /\ minted' = IF t \in Unnamed THEN minted + 1 ELSE minted
    /\ orphans' = IF t \in Unnamed /\ sdk = "ms_agent_fw"
                  THEN Append(orphans, minted + 1) ELSE orphans
    /\ LET id == IF t \in Unnamed THEN minted + 1 ELSE t
       IN  MapToolEvents(<<Event("tool_start", id, 0)>>
                         \o (IF arguments THEN <<Event("tool_args", id, 0)>> ELSE <<>>))
    /\ UNCHANGED <<said, mapper>>

\* A call ends: its id is the SDK's, the oldest orphan's, or one made up.
YieldToolEnd(t) ==
    /\ SdkStep
    /\ calls[t] = "open"
    /\ calls' = [calls EXCEPT ![t] = "ended"]
    /\ \/ /\ t \notin Unnamed
          /\ MapToolEvents(<<Event("tool_end", t, 0)>>)
          /\ UNCHANGED <<orphans, minted>>
       \/ /\ t \in Unnamed /\ orphans # <<>>
          /\ MapToolEvents(<<Event("tool_end", Head(orphans), 0)>>)
          /\ orphans' = Tail(orphans)
          /\ UNCHANGED minted
       \/ /\ t \in Unnamed /\ orphans = <<>>
          /\ MapToolEvents(<<Event("tool_end", minted + 1, 0)>>)
          /\ minted' = minted + 1
          /\ UNCHANGED orphans
    /\ UNCHANGED <<said, mapper>>

\* Phase 1 of the error contract: an exception of the SDK becomes a terminal event.
YieldError(class) ==
    /\ Pulled("streaming")
    /\ run' = "errored"
    /\ outcome' = "failed"
    /\ MapRunFinished(IF surface = "a2a" THEN A2AError(class) ELSE <<Signal("run_error")>>)
    /\ UNCHANGED <<surface, sdk, steps, said, calls, orphans, minted, sent, task, trace, reading>>

\* Mutant of Raise: the handler turns every exception into a terminal event.
RaiseSynthesized ==
    /\ run' = "over"
    /\ trace' = "error"
    /\ pending' = <<Signal(IF surface = "a2a" THEN "failed" ELSE "run_error")>>
    /\ UNCHANGED <<surface, sdk, steps, said, calls, orphans, minted, mapper, sent, task, reading>>

\* An exception leaves the harness: it is traced, and absorbed by the mapper if
\* a terminal event was emitted, or else turned into one by the handler.
Raise ==
    /\ run' = "over"
    /\ trace' = "error"
    /\ pending' = IF mapper.terminal THEN <<>>
                  ELSE <<Signal(IF surface = "a2a" THEN "failed" ELSE "run_error")>>
    /\ UNCHANGED <<surface, sdk, steps, said, calls, orphans, minted, mapper, sent, task, reading>>

\* Mutant of Reraise: the exception is swallowed after phase 1.
ReraiseSwallowed ==
    /\ Pulled("errored")
    /\ run' = "over"
    /\ trace' = "ok"
    /\ UNCHANGED <<surface, sdk, steps, said, calls, orphans, minted, mapper, pending, sent,
                   task, outcome, reading>>

\* Phase 2: the exception is raised again.
Reraise ==
    /\ Pulled("errored")
    /\ Raise
    /\ UNCHANGED outcome

\* The MSAF stream is over, but closing it raises, outside the error contract.
CloseFails ==
    /\ Pulled("streaming") /\ sdk = "ms_agent_fw"
    /\ outcome' = "failed"
    /\ Raise

\* The SDK's stream is over; the turn is captured (an await) ...
Drain ==
    /\ Pulled("streaming")
    /\ run' = "capturing"
    /\ outcome' = "succeeded"
    /\ UNCHANGED <<surface, sdk, steps, said, calls, orphans, minted, mapper, pending, sent,
                   task, trace, reading>>

\* ... and then the terminal event is yielded.
YieldFinished ==
    /\ Pulled("capturing")
    /\ run' = "finished"
    /\ MapRunFinished(<<Signal(IF surface = "a2a" THEN "completed" ELSE "run_finished")>>)
    /\ UNCHANGED <<surface, sdk, steps, said, calls, orphans, minted, sent, task, outcome,
                   trace, reading>>

Return ==
    /\ Pulled("finished")
    /\ run' = "over"
    /\ trace' = "ok"
    /\ UNCHANGED <<surface, sdk, steps, said, calls, orphans, minted, mapper, pending, sent,
                   task, outcome, reading>>

\* Where the started harness can be when the client goes.  (With nothing pending,
\* the client may or may not have asked for the next event already.)
AtYield == run \in {"streaming", "errored", "finished"}
AtAwait == run \in {"streaming", "capturing"} /\ pending = <<>>
MayFailToClose == sdk = "ms_agent_fw" /\ run \in {"streaming", "errored"}

\* The client goes: GeneratorExit at a yield, CancelledError at an await.  Neither
\* is an Exception, so nothing is emitted on the way out.  A generator that has
\* not started has nothing to trace.
Disconnect ==
    /\ reading
    /\ reading' = FALSE
    /\ pending' = <<>>
    /\ run' = "over"
    /\ outcome' = IF outcome = "running" THEN "abandoned" ELSE outcome
    /\ \/ trace' = "cancelled" /\ AtYield
       \/ trace' = "error" /\ (AtAwait \/ MayFailToClose)
       \/ trace' = trace /\ run \in {"new", "over"}
    /\ UNCHANGED <<surface, sdk, steps, said, calls, orphans, minted, mapper, sent, task>>

HarnessStep ==
    \/ YieldRunStarted
    \/ \E m \in Messages : YieldText(m)
    \/ \E t \in Tools, arguments \in BOOLEAN : YieldToolStart(t, arguments)
    \/ \E t \in Tools : YieldToolEnd(t)
    \/ \E class \in ErrorClasses : YieldError(class)
    \/ Reraise
    \/ CloseFails
    \/ Drain
    \/ YieldFinished
    \/ Return

\* The stream is over, read to its end or left.
Over == run = "over" /\ pending = <<>> /\ UNCHANGED vars

Next == Read \/ HarnessStep \/ Disconnect \/ Over

Spec == Init /\ [][Next]_vars

\* A connected client reads on, and the SDK's stream goes on or ends.
FairSpec == Spec /\ WF_vars(Read) /\ WF_vars(HarnessStep)

-----------------------------------------------------------------------------
(* Properties                                                              *)

TaskStates == {"submitted", "working", "input_required", "suspended", "completed", "failed"}
Places == {"new", "streaming", "errored", "capturing", "finished", "over"}
Kinds == {"task", "working", "artifact", "append", "input_required", "suspended", "completed",
          "failed", "run_started", "text_start", "text_content", "text_end", "tool_start",
          "tool_args", "tool_end", "run_finished", "run_error"}
Events == [kind : Kinds, id : Messages \cup Tools \cup Nat, chunk : Nat]

\* Type invariant.
TypeOK ==
    /\ surface \in {"a2a", "ag_ui"} /\ sdk \in {"deep_agents", "ms_agent_fw"}
    /\ run \in Places
    /\ steps \in 0..MaxSteps
    /\ said \in [Messages -> Seq(Nat)]
    /\ calls \in [Tools -> {"new", "open", "ended"}]
    /\ orphans \in Seq(Nat) /\ minted \in Nat
    /\ mapper \in [open : Messages \cup {NoMessage}, seen : SUBSET Messages, terminal : BOOLEAN]
    /\ pending \in Seq(Events) /\ sent \in Seq(Events)
    /\ task \in [state : TaskStates, artifacts : [Messages -> Seq(Nat)]]
    /\ outcome \in {"running", "succeeded", "failed", "abandoned"}
    /\ trace \in {"none", "ok", "error", "cancelled"}
    /\ reading \in BOOLEAN

\* The messages that are open before the i-th event the client read.
OpenBefore(i) ==
    {m \in Messages : \E j \in 1..(i - 1) :
        /\ sent[j] = Event("text_start", m, 0)
        /\ \A k \in (j + 1)..(i - 1) : sent[k] # Event("text_end", m, 0)}

\* AG-UI text is bracketed however the deltas of several messages interleave: one
\* message is open at a time, content and end belong to it, and a terminal event
\* of the mapper finds none open.  ("TEXT_MESSAGE_END closes a message on
\* message-id boundary", ag-ui-emitter spec.)
MessagesBracketed ==
    \A i \in DOMAIN sent :
        /\ sent[i].kind = "text_start" => OpenBefore(i) = {}
        /\ sent[i].kind \in {"text_content", "text_end"} => OpenBefore(i) = {sent[i].id}
        /\ mapper.terminal /\ sent[i].kind \in {"run_finished", "run_error"} => OpenBefore(i) = {}

\* AG-UI tool events are paired: arguments and end follow the one start of their
\* call and no earlier end, also when the SDK leaves out the ids of parallel calls
\* that end in any order.  (LangChain events without an id are not paired.)
CallsPaired ==
    \A i \in DOMAIN sent :
        sent[i].kind \in {"tool_args", "tool_end"} /\ (sdk = "ms_agent_fw" \/ sent[i].id \in Tools) =>
            /\ \E j \in 1..(i - 1) : sent[j] = Event("tool_start", sent[i].id, 0)
            /\ \A j \in 1..(i - 1) : sent[j] # Event("tool_end", sent[i].id, 0)

\* The stored A2A task holds all the agent said, each message in an artifact of
\* its own and in order, whenever the client has read what was yielded.
ArtifactsComplete ==
    surface = "a2a" /\ reading /\ pending = <<>> => task.artifacts = said

\* What the client reads is well formed, and what it has read is all there was.
StreamWellFormed == MessagesBracketed /\ CallsPaired /\ ArtifactsComplete

HasRead(kinds) == \E i \in DOMAIN sent : sent[i].kind \in kinds

\* What the client was told of the turn.
Verdict ==
    IF HasRead({"completed", "run_finished"}) THEN "completed"
    ELSE IF HasRead({"failed", "run_error"}) THEN "failed"
    ELSE IF HasRead({"suspended"}) THEN "suspended"
    ELSE "none"

\* The one trace of the turn agrees with what its client was told: it is recorded
\* when the generators are over, as ok only if the client read a success, and for
\* a client that stayed as an error only if it read a failure.
TraceTellsStream ==
    /\ trace # "none" => run = "over"
    /\ run = "over" /\ reading => trace \in {"ok", "error"}
    /\ trace = "ok" => Verdict = "completed"
    /\ trace = "error" /\ reading /\ pending = <<>> => Verdict \in {"failed", "suspended"}
    /\ trace = "cancelled" => ~reading

Protocol ==
    INSTANCE StreamProtocol WITH events <- Len(sent), verdict <- Verdict

\* The pipeline keeps the promise of StreamProtocol: one verdict, true and last,
\* whether the error contract is kept or an exception escapes it; and a client
\* that stays is told.
KeepsProtocol == Protocol!FairSpec

=============================================================================
