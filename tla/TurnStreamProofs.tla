-------------------------- MODULE TurnStreamProofs --------------------------
(***************************************************************************)
(* Safety of TurnStream for any messages, tool calls and number of steps:  *)
(* above all that it implements StreamProtocol.                            *)
(***************************************************************************)
EXTENDS TurnStream, FiniteSetTheorems, SequenceTheorems, TLAPS

SuccessKinds == {"completed", "run_finished"}
FailureKinds == {"failed", "run_error", "suspended"}
Terminals == SuccessKinds \cup FailureKinds

\* The terminal events that tell the outcome o.
Telling(o) == IF o = "succeeded" THEN SuccessKinds
              ELSE IF o = "failed" THEN FailureKinds ELSE {}

\* A sequence of events without a verdict, and one that ends in its only verdict.
Quiet(s) == \A i \in DOMAIN s : s[i].kind \notin Terminals
Concludes(s, o) ==
    /\ Len(s) > 0
    /\ s[Len(s)].kind \in Telling(o)
    /\ \A i \in 1..(Len(s) - 1) : s[i].kind \notin Terminals

\* Where the verdict is: not made yet, about to be read, read, or never to be read.
VerdictInv ==
    /\ run \in {"new", "streaming", "capturing"} =>
          Quiet(pending) /\ Quiet(sent) /\ ~mapper.terminal
    /\ run \in {"errored", "finished", "over"} =>
          \/ Quiet(sent) /\ (reading => Concludes(pending, outcome))
          \/ pending = <<>> /\ Concludes(sent, outcome)

\* What the place of the harness says of the rest.
PlaceInv ==
    /\ run \in {"new", "streaming"} => outcome = "running"
    /\ run \in {"capturing", "finished"} => outcome = "succeeded"
    /\ run = "errored" => outcome = "failed"
    /\ run \in {"errored", "finished"} => mapper.terminal
    /\ run # "over" => trace = "none"
    /\ ~reading => run = "over" /\ pending = <<>>
    /\ run = "over" /\ reading => trace = (IF outcome = "succeeded" THEN "ok" ELSE "error")
    /\ run = "over" /\ reading => outcome \in {"succeeded", "failed"}
    /\ trace = "ok" => outcome = "succeeded" /\ Concludes(sent, outcome)
    /\ trace = "cancelled" => ~reading

IInv == TypeOK /\ VerdictInv /\ PlaceInv

-----------------------------------------------------------------------------
(* Sequences of events                                                     *)

LEMMA QuietConcat ==
    ASSUME NEW s \in Seq(Events), NEW t \in Seq(Events), Quiet(s)
    PROVE  /\ Quiet(t) => Quiet(s \o t)
           /\ \A o : Concludes(t, o) => Concludes(s \o t, o)
<1>1. /\ Len(s \o t) = Len(s) + Len(t)
      /\ \A i \in 1..Len(s) : (s \o t)[i] = s[i]
      /\ \A i \in 1..Len(t) : (s \o t)[i + Len(s)] = t[i]
      /\ \A i \in 1..(Len(s) + Len(t)) :
            (s \o t)[i] = IF i <= Len(s) THEN s[i] ELSE t[i - Len(s)]
  OBVIOUS
<1>2. Quiet(t) => Quiet(s \o t)
  BY <1>1 DEF Quiet
<1>3. ASSUME NEW o, Concludes(t, o) PROVE Concludes(s \o t, o)
  BY <1>1, <1>3 DEF Concludes, Quiet
<1> QED BY <1>2, <1>3

\* Reading moves the first pending event to the end of what was sent.
LEMMA ReadMoves ==
    ASSUME NEW s \in Seq(Events), NEW p \in Seq(Events), p # <<>>
    PROVE  /\ Quiet(s) /\ Quiet(p) => Quiet(Append(s, Head(p))) /\ Quiet(Tail(p))
           /\ \A o : Quiet(s) /\ Concludes(p, o) =>
                \/ Quiet(Append(s, Head(p))) /\ Concludes(Tail(p), o)
                \/ Tail(p) = <<>> /\ Concludes(Append(s, Head(p)), o)
<1>1. /\ Len(Append(s, Head(p))) = Len(s) + 1
      /\ Append(s, Head(p))[Len(s) + 1] = p[1]
      /\ \A i \in 1..Len(s) : Append(s, Head(p))[i] = s[i]
      /\ Len(Tail(p)) = Len(p) - 1 /\ Len(p) > 0
      /\ \A i \in 1..(Len(p) - 1) : Tail(p)[i] = p[i + 1]
      /\ Len(p) = 1 => Tail(p) = <<>>
  <2>1. Len(p) \in Nat \ {0} /\ Tail(p) \in Seq(Events) /\ Len(Tail(p)) = Len(p) - 1
    BY EmptySeq, HeadTailProperties
  <2>2. /\ \A i \in 1..(Len(p) - 1) : Tail(p)[i] = p[i + 1]
        /\ Len(p) = 1 => Tail(p) = <<>>
    BY <2>1, HeadTailProperties, EmptySeq
  <2>3. /\ Len(Append(s, Head(p))) = Len(s) + 1
        /\ Append(s, Head(p))[Len(s) + 1] = p[1]
        /\ \A i \in 1..Len(s) : Append(s, Head(p))[i] = s[i]
    BY <2>1
  <2> QED BY <2>1, <2>2, <2>3
<1>2. Quiet(s) /\ Quiet(p) => Quiet(Append(s, Head(p))) /\ Quiet(Tail(p))
  BY <1>1 DEF Quiet
<1>3. ASSUME NEW o, Quiet(s), Concludes(p, o)
      PROVE  \/ Quiet(Append(s, Head(p))) /\ Concludes(Tail(p), o)
             \/ Tail(p) = <<>> /\ Concludes(Append(s, Head(p)), o)
  <2>1. CASE Len(p) = 1
    <3>1. Concludes(Append(s, Head(p)), o)
      BY <1>1, <1>3, <2>1 DEF Concludes, Quiet
    <3> QED BY <3>1, <2>1, <1>1
  <2>2. CASE Len(p) > 1
    <3>1. p[1].kind \notin Terminals
      BY <1>3, <2>2 DEF Concludes
    <3>2. Quiet(Append(s, Head(p)))
      BY <1>1, <1>3, <3>1 DEF Quiet
    <3>3. Concludes(Tail(p), o)
      BY <1>1, <1>3, <2>2 DEF Concludes
    <3> QED BY <3>2, <3>3
  <2> QED BY <2>1, <2>2, <1>1
<1> QED BY <1>2, <1>3

\* Sequences of one and two events.
LEMMA Singles ==
    ASSUME NEW e \in Events
    PROVE  /\ <<e>> \in Seq(Events)
           /\ e.kind \notin Terminals => Quiet(<<e>>)
           /\ \A o : e.kind \in Telling(o) => Concludes(<<e>>, o)
BY DEF Quiet, Concludes

LEMMA EmptyQuiet == <<>> \in Seq(Events) /\ Quiet(<<>>)
BY DEF Quiet

LEMMA EventTyped ==
    ASSUME NEW k \in Kinds, NEW id \in Messages \cup Tools \cup Nat, NEW c \in Nat
    PROVE  Event(k, id, c) \in Events /\ Event(k, id, c).kind = k
BY DEF Event, Events

LEMMA SignalTyped ==
    ASSUME NEW k \in Kinds
    PROVE  Signal(k) \in Events /\ Signal(k).kind = k
BY EventTyped DEF Signal

-----------------------------------------------------------------------------
(* What the mappers yield                                                  *)

LEMMA MapTextDeltaQuiet ==
    ASSUME TypeOK, NEW m \in Messages, NEW chunk \in Nat, MapTextDelta(m, chunk)
    PROVE  /\ pending' \in Seq(Events) /\ Quiet(pending')
           /\ mapper' \in [open : Messages \cup {NoMessage}, seen : SUBSET Messages,
                           terminal : BOOLEAN]
           /\ mapper'.terminal = mapper.terminal
<1>1. mapper \in [open : Messages \cup {NoMessage}, seen : SUBSET Messages, terminal : BOOLEAN]
  BY DEF TypeOK
<1>2. CASE surface = "a2a"
  <2> DEFINE e == Event(IF m \in mapper.seen THEN "append" ELSE "artifact", m, chunk)
  <2>1. e \in Events /\ e.kind \notin Terminals
    BY EventTyped DEF Kinds, Terminals, SuccessKinds, FailureKinds
  <2>2. pending' = <<e>> /\ mapper' = [mapper EXCEPT !.seen = @ \cup {m}]
    BY <1>2 DEF MapTextDelta
  <2> QED BY <2>1, <2>2, <1>1, Singles
<1>3. CASE surface # "a2a"
  <2> DEFINE e1 == IF mapper.open \in Messages \ {m}
                   THEN <<Event("text_end", mapper.open, 0)>> ELSE <<>>
             e2 == IF mapper.open # m THEN <<Event("text_start", m, 0)>> ELSE <<>>
             e3 == <<Event("text_content", m, chunk)>>
  <2>1. e1 \in Seq(Events) /\ Quiet(e1)
    BY EventTyped, Singles, EmptyQuiet DEF Kinds, Terminals, SuccessKinds, FailureKinds
  <2>2. e2 \in Seq(Events) /\ Quiet(e2)
    BY EventTyped, Singles, EmptyQuiet DEF Kinds, Terminals, SuccessKinds, FailureKinds
  <2>3. e3 \in Seq(Events) /\ Quiet(e3)
    BY EventTyped, Singles, EmptyQuiet DEF Kinds, Terminals, SuccessKinds, FailureKinds
  <2>4. pending' = e1 \o e2 \o e3 /\ mapper' = [mapper EXCEPT !.open = m]
    BY <1>3 DEF MapTextDelta
  <2> HIDE DEF e1, e2, e3
  <2>5. (e1 \o e2) \in Seq(Events) /\ Quiet(e1 \o e2)
    BY <2>1, <2>2, QuietConcat, ConcatProperties
  <2>6. (e1 \o e2 \o e3) \in Seq(Events) /\ Quiet(e1 \o e2 \o e3)
    BY <2>5, <2>3, QuietConcat, ConcatProperties
  <2> QED BY <2>4, <2>6, <1>1
<1> QED BY <1>2, <1>3

LEMMA MapToolEventsQuiet ==
    ASSUME NEW evts \in Seq(Events), Quiet(evts), MapToolEvents(evts)
    PROVE  pending' \in Seq(Events) /\ Quiet(pending')
BY EmptyQuiet DEF MapToolEvents

LEMMA MapRunFinishedConcludes ==
    ASSUME TypeOK, NEW verdict \in Seq(Events), NEW o, Concludes(verdict, o),
           MapRunFinished(verdict)
    PROVE  /\ pending' \in Seq(Events) /\ Concludes(pending', o)
           /\ mapper' \in [open : Messages \cup {NoMessage}, seen : SUBSET Messages,
                           terminal : BOOLEAN]
           /\ mapper'.terminal
<1>1. mapper \in [open : Messages \cup {NoMessage}, seen : SUBSET Messages, terminal : BOOLEAN]
  BY DEF TypeOK
<1>2. mapper' = [mapper EXCEPT !.open = NoMessage, !.terminal = TRUE]
  BY DEF MapRunFinished
<1>3. CASE surface = "a2a"
  BY <1>3, <1>1, <1>2 DEF MapRunFinished
<1>4. CASE surface # "a2a"
  <2> DEFINE e1 == IF mapper.open # NoMessage
                   THEN <<Event("text_end", mapper.open, 0)>> ELSE <<>>
  <2>1. e1 \in Seq(Events) /\ Quiet(e1)
    BY <1>1, EventTyped, Singles, EmptyQuiet DEF Kinds, Terminals, SuccessKinds, FailureKinds
  <2>2. pending' = e1 \o verdict
    BY <1>4 DEF MapRunFinished
  <2> HIDE DEF e1
  <2>3. pending' \in Seq(Events) /\ Concludes(pending', o)
    BY <2>1, <2>2, QuietConcat, ConcatProperties
  <2> QED BY <2>3, <1>1, <1>2
<1> QED BY <1>3, <1>4

LEMMA A2AErrorConcludes ==
    ASSUME NEW class \in ErrorClasses
    PROVE  A2AError(class) \in Seq(Events) /\ Concludes(A2AError(class), "failed")
<1>1. ASSUME NEW k \in FailureKinds
      PROVE  <<Signal(k)>> \in Seq(Events) /\ Concludes(<<Signal(k)>>, "failed")
  <2>1. Signal(k) \in Events /\ Signal(k).kind \in Telling("failed")
    BY SignalTyped DEF Kinds, FailureKinds, Telling
  <2> QED BY <2>1, Singles
<1>2. /\ <<Signal("input_required"), Signal("failed")>> \in Seq(Events)
      /\ Concludes(<<Signal("input_required"), Signal("failed")>>, "failed")
  <2>1. /\ Signal("input_required") \in Events /\ Signal("failed") \in Events
        /\ Signal("input_required").kind = "input_required" /\ Signal("failed").kind = "failed"
    BY SignalTyped DEF Kinds
  <2> QED BY <2>1 DEF Concludes, Telling, Terminals, SuccessKinds, FailureKinds
<1> QED BY <1>1, <1>2 DEF A2AError, ErrorClasses, FailureKinds

-----------------------------------------------------------------------------
(* The invariant                                                           *)

LEMMA InitInv == Init => IInv
<1> SUFFICES ASSUME Init PROVE IInv
  OBVIOUS
<1>1. Signal("task") \in Events /\ Signal("task").kind = "task"
  BY SignalTyped DEF Kinds
<1>2. pending \in Seq(Events) /\ Quiet(pending)
  BY <1>1, Singles, EmptyQuiet DEF Init, Terminals, SuccessKinds, FailureKinds
<1>3. sent \in Seq(Events) /\ Quiet(sent)
  BY EmptyQuiet DEF Init
<1>4. TypeOK
  BY <1>2, <1>3, ConstantsAssumption DEF Init, TypeOK, Places, TaskStates
<1>5. VerdictInv /\ PlaceInv
  BY <1>2, <1>3 DEF Init, VerdictInv, PlaceInv
<1> QED BY <1>4, <1>5 DEF IInv

LEMMA ApplyTyped ==
    ASSUME TypeOK, NEW e \in Events
    PROVE  Apply(e) \in [state : TaskStates, artifacts : [Messages -> Seq(Nat)]]
<1> DEFINE T == [state : TaskStates, artifacts : [Messages -> Seq(Nat)]]
<1>1. task \in T /\ e.chunk \in Nat
  BY DEF TypeOK, Events
<1>2. [task EXCEPT !.artifacts[e.id] = <<e.chunk>>] \in T
  <2>1. <<e.chunk>> \in Seq(Nat)
    BY <1>1
  <2>2. [task.artifacts EXCEPT ![e.id] = <<e.chunk>>] \in [Messages -> Seq(Nat)]
    BY <1>1, <2>1
  <2> QED BY <1>1, <2>2
<1>3. [task EXCEPT !.artifacts[e.id] = Append(@, e.chunk)] \in T
  <2>1. \A s \in Seq(Nat) : Append(s, e.chunk) \in Seq(Nat)
    BY <1>1
  <2>2. [task.artifacts EXCEPT ![e.id] = Append(@, e.chunk)] \in [Messages -> Seq(Nat)]
    BY <1>1, <2>1
  <2> QED BY <1>1, <2>2
<1>4. e.kind \in TaskStates => [task EXCEPT !.state = e.kind] \in T
  BY <1>1
<1> QED BY <1>1, <1>2, <1>3, <1>4 DEF Apply, TaskStates

LEMMA ReadInv == IInv /\ Read => IInv'
<1> SUFFICES ASSUME IInv, Read PROVE IInv'
  OBVIOUS
<1> USE DEF IInv
<1>1. pending \in Seq(Events) /\ sent \in Seq(Events) /\ pending # <<>> /\ reading
  BY DEF TypeOK, Read
<1>2. Head(pending) \in Events /\ Tail(pending) \in Seq(Events)
  BY <1>1, HeadTailProperties
<1>3. TypeOK'
  BY <1>1, <1>2, ApplyTyped DEF TypeOK, Read, harness
<1>4. sent' = Append(sent, Head(pending)) /\ pending' = Tail(pending)
      /\ UNCHANGED <<run, mapper, outcome, trace, reading>>
  BY DEF Read, harness
<1>5. VerdictInv'
  <2>1. CASE run \in {"new", "streaming", "capturing"}
    BY <2>1, <1>1, <1>4, ReadMoves DEF VerdictInv, Quiet
  <2>2. CASE run \in {"errored", "finished", "over"}
    <3>1. Quiet(sent) /\ Concludes(pending, outcome)
      BY <2>2, <1>1 DEF VerdictInv
    <3>2. \/ Quiet(sent') /\ Concludes(pending', outcome')
          \/ pending' = <<>> /\ Concludes(sent', outcome')
      BY <3>1, <1>1, <1>4, ReadMoves
    <3> QED BY <3>2, <2>2, <1>4 DEF VerdictInv
  <2> QED BY <2>1, <2>2 DEF TypeOK, Places
<1>6. PlaceInv'
  <2>1. trace # "ok"
    <3>1. SUFFICES ASSUME trace = "ok" PROVE FALSE
      OBVIOUS
    <3>2. Concludes(sent, outcome) /\ run = "over"
      BY <3>1 DEF PlaceInv
    <3>3. ~Quiet(sent)
      BY <3>2, <1>1 DEF Concludes, Quiet, Telling, Terminals, SuccessKinds, FailureKinds
    <3> QED BY <3>2, <3>3, <1>1 DEF VerdictInv
  <2> QED BY <2>1, <1>1, <1>4 DEF PlaceInv
<1> QED BY <1>3, <1>5, <1>6

\* A step that yields the events of a harness event that is not the last.
LEMMA StreamingInv ==
    ASSUME IInv, TypeOK', run \in {"new", "streaming"}, run' = "streaming",
           Quiet(pending'), mapper'.terminal = mapper.terminal,
           UNCHANGED <<sent, outcome, trace, reading>>
    PROVE  IInv'
<1>1. VerdictInv'
  BY DEF IInv, VerdictInv, Quiet
<1>2. PlaceInv'
  BY DEF IInv, PlaceInv
<1> QED BY <1>1, <1>2 DEF IInv

LEMMA YieldRunStartedInv == IInv /\ YieldRunStarted => IInv'
<1> SUFFICES ASSUME IInv, YieldRunStarted PROVE IInv'
  OBVIOUS
<1>1. pending' \in Seq(Events) /\ Quiet(pending')
  <2>1. \A k \in {"working", "run_started"} :
          Signal(k) \in Events /\ Signal(k).kind \notin Terminals
    BY SignalTyped DEF Kinds, Terminals, SuccessKinds, FailureKinds
  <2> QED BY <2>1, Singles DEF YieldRunStarted, MapRunStarted
<1>2. TypeOK'
  BY <1>1 DEF IInv, TypeOK, YieldRunStarted, Places
<1> QED BY <1>1, <1>2, StreamingInv DEF YieldRunStarted, Pulled

LEMMA SdkStepTyped ==
    ASSUME TypeOK, SdkStep
    PROVE  steps' \in 0..MaxSteps /\ steps + 1 \in Nat
BY ConstantsAssumption DEF TypeOK, SdkStep

LEMMA YieldTextInv == \A m \in Messages : IInv /\ YieldText(m) => IInv'
<1> SUFFICES ASSUME NEW m \in Messages, IInv, YieldText(m) PROVE IInv'
  OBVIOUS
<1>1. SdkStep /\ MapTextDelta(m, steps + 1)
  BY DEF YieldText
<1>2. steps' \in 0..MaxSteps /\ steps + 1 \in Nat
  BY <1>1, SdkStepTyped DEF IInv
<1>3. /\ pending' \in Seq(Events) /\ Quiet(pending')
      /\ mapper' \in [open : Messages \cup {NoMessage}, seen : SUBSET Messages,
                      terminal : BOOLEAN]
      /\ mapper'.terminal = mapper.terminal
  BY <1>1, <1>2, MapTextDeltaQuiet DEF IInv
<1>4. said' \in [Messages -> Seq(Nat)]
  BY <1>2 DEF IInv, TypeOK, YieldText
<1>5. TypeOK'
  BY <1>2, <1>3, <1>4 DEF IInv, TypeOK, YieldText, SdkStep
<1> QED BY <1>1, <1>3, <1>5, StreamingInv DEF YieldText, SdkStep, Pulled

LEMMA YieldToolStartInv ==
    \A t \in Tools, arguments \in BOOLEAN : IInv /\ YieldToolStart(t, arguments) => IInv'
<1> SUFFICES ASSUME NEW t \in Tools, NEW arguments \in BOOLEAN, IInv,
                    YieldToolStart(t, arguments)
             PROVE  IInv'
  OBVIOUS
<1> DEFINE id == IF t \in Unnamed THEN minted + 1 ELSE t
           e1 == <<Event("tool_start", id, 0)>>
           e2 == IF arguments THEN <<Event("tool_args", id, 0)>> ELSE <<>>
<1>1. id \in Messages \cup Tools \cup Nat
  BY DEF IInv, TypeOK
<1>2. e1 \in Seq(Events) /\ Quiet(e1)
  BY <1>1, EventTyped, Singles DEF Kinds, Terminals, SuccessKinds, FailureKinds
<1>3. e2 \in Seq(Events) /\ Quiet(e2)
  BY <1>1, EventTyped, Singles, EmptyQuiet DEF Kinds, Terminals, SuccessKinds, FailureKinds
<1>4. MapToolEvents(e1 \o e2)
  BY DEF YieldToolStart
<1> HIDE DEF e1, e2
<1>5. pending' \in Seq(Events) /\ Quiet(pending')
  <2>1. e1 \o e2 \in Seq(Events) /\ Quiet(e1 \o e2)
    BY <1>2, <1>3, QuietConcat, ConcatProperties
  <2> QED BY <2>1, <1>4, MapToolEventsQuiet
<1>6. SdkStep /\ mapper' = mapper /\ said' = said
  BY DEF YieldToolStart
<1>7. calls' \in [Tools -> {"new", "open", "ended"}] /\ orphans' \in Seq(Nat) /\ minted' \in Nat
  BY DEF IInv, TypeOK, YieldToolStart
<1>8. TypeOK'
  BY <1>5, <1>6, <1>7, SdkStepTyped DEF IInv, TypeOK, SdkStep
<1> QED BY <1>5, <1>6, <1>8, StreamingInv DEF SdkStep, Pulled

LEMMA YieldToolEndInv == \A t \in Tools : IInv /\ YieldToolEnd(t) => IInv'
<1> SUFFICES ASSUME NEW t \in Tools, IInv, YieldToolEnd(t) PROVE IInv'
  OBVIOUS
<1>1. orphans \in Seq(Nat) /\ minted \in Nat
  BY DEF IInv, TypeOK
<1>2. PICK id \in Tools \cup Nat : MapToolEvents(<<Event("tool_end", id, 0)>>)
  <2>1. orphans # <<>> => Head(orphans) \in Nat
    BY <1>1, HeadTailProperties
  <2> QED BY <1>1, <2>1 DEF YieldToolEnd
<1>3. pending' \in Seq(Events) /\ Quiet(pending')
  <2>1. Event("tool_end", id, 0) \in Events /\ Event("tool_end", id, 0).kind \notin Terminals
    BY EventTyped DEF Kinds, Terminals, SuccessKinds, FailureKinds
  <2> QED BY <1>2, <2>1, Singles, MapToolEventsQuiet
<1>4. orphans' \in Seq(Nat) /\ minted' \in Nat
  <2>1. orphans # <<>> => Tail(orphans) \in Seq(Nat)
    BY <1>1, HeadTailProperties
  <2>2. /\ orphans' = orphans \/ (orphans # <<>> /\ orphans' = Tail(orphans))
        /\ minted' = minted \/ minted' = minted + 1
    BY Zenon DEF YieldToolEnd
  <2>3. orphans' \in Seq(Nat)
    BY <1>1, <2>1, <2>2
  <2>4. minted' \in Nat
    BY <1>1, <2>2
  <2> QED BY <2>3, <2>4
<1>5. SdkStep /\ mapper' = mapper /\ said' = said
  BY DEF YieldToolEnd
<1>6. TypeOK'
  BY <1>3, <1>4, <1>5, SdkStepTyped DEF IInv, TypeOK, SdkStep, YieldToolEnd
<1> QED BY <1>3, <1>5, <1>6, StreamingInv DEF SdkStep, Pulled

\* A step that yields the terminal event.
LEMMA TerminalInv ==
    ASSUME IInv, TypeOK', run \in {"streaming", "capturing"},
           run' \in {"errored", "finished"}, Concludes(pending', outcome'),
           run' = "errored" => outcome' = "failed",
           run' = "finished" => outcome' = "succeeded",
           mapper'.terminal, reading,
           UNCHANGED <<sent, trace, reading>>
    PROVE  IInv'
<1>1. VerdictInv'
  BY DEF IInv, VerdictInv, Quiet
<1>2. PlaceInv'
  BY DEF IInv, PlaceInv
<1> QED BY <1>1, <1>2 DEF IInv

LEMMA YieldErrorInv == \A class \in ErrorClasses : IInv /\ YieldError(class) => IInv'
<1> SUFFICES ASSUME NEW class \in ErrorClasses, IInv, YieldError(class) PROVE IInv'
  OBVIOUS
<1> DEFINE verdict == IF surface = "a2a" THEN A2AError(class) ELSE <<Signal("run_error")>>
<1>1. verdict \in Seq(Events) /\ Concludes(verdict, "failed")
  <2>1. Signal("run_error") \in Events /\ Signal("run_error").kind \in Telling("failed")
    BY SignalTyped DEF Kinds, Telling, FailureKinds
  <2> QED BY <2>1, Singles, A2AErrorConcludes
<1>2. MapRunFinished(verdict)
  BY DEF YieldError
<1> HIDE DEF verdict
<1>3. /\ pending' \in Seq(Events) /\ Concludes(pending', "failed")
      /\ mapper' \in [open : Messages \cup {NoMessage}, seen : SUBSET Messages,
                      terminal : BOOLEAN]
      /\ mapper'.terminal
  BY <1>1, <1>2, MapRunFinishedConcludes DEF IInv
<1>4. TypeOK'
  BY <1>3 DEF IInv, TypeOK, YieldError, Places
<1> QED BY <1>3, <1>4, TerminalInv DEF YieldError, Pulled

LEMMA YieldFinishedInv == IInv /\ YieldFinished => IInv'
<1> SUFFICES ASSUME IInv, YieldFinished PROVE IInv'
  OBVIOUS
<1> DEFINE k == IF surface = "a2a" THEN "completed" ELSE "run_finished"
<1>1. <<Signal(k)>> \in Seq(Events) /\ Concludes(<<Signal(k)>>, "succeeded")
  <2>1. Signal(k) \in Events /\ Signal(k).kind \in Telling("succeeded")
    BY SignalTyped DEF Kinds, Telling, SuccessKinds
  <2> QED BY <2>1, Singles
<1>2. MapRunFinished(<<Signal(k)>>)
  BY DEF YieldFinished
<1>3. /\ pending' \in Seq(Events) /\ Concludes(pending', "succeeded")
      /\ mapper' \in [open : Messages \cup {NoMessage}, seen : SUBSET Messages,
                      terminal : BOOLEAN]
      /\ mapper'.terminal
  BY <1>1, <1>2, MapRunFinishedConcludes DEF IInv
<1>4. outcome = "succeeded"
  BY DEF IInv, PlaceInv, YieldFinished, Pulled
<1>5. TypeOK'
  BY <1>3 DEF IInv, TypeOK, YieldFinished, Places
<1> QED BY <1>3, <1>4, <1>5, TerminalInv DEF YieldFinished, Pulled

\* An exception leaves the harness.
LEMMA RaiseInv ==
    ASSUME IInv, Raise, reading, outcome' = "failed",
           run \in {"errored", "streaming"}, pending = <<>>
    PROVE  IInv'
<1> DEFINE k == IF surface = "a2a" THEN "failed" ELSE "run_error"
<1>1. /\ <<Signal(k)>> \in Seq(Events) /\ Concludes(<<Signal(k)>>, "failed")
  <2>1. Signal(k) \in Events /\ Signal(k).kind \in Telling("failed")
    BY SignalTyped DEF Kinds, Telling, FailureKinds
  <2> QED BY <2>1, Singles
<1>2. TypeOK'
  BY <1>1, EmptyQuiet DEF IInv, TypeOK, Raise, Places
<1>3. VerdictInv'
  <2>1. CASE run = "errored"
    <3>1. mapper.terminal /\ outcome = "failed"
      BY <2>1 DEF IInv, PlaceInv
    <3>2. Concludes(sent, outcome)
      BY <2>1 DEF IInv, VerdictInv, Concludes
    <3> QED BY <3>1, <3>2 DEF Raise, VerdictInv, Concludes
  <2>2. CASE run = "streaming"
    <3>1. ~mapper.terminal /\ Quiet(sent)
      BY <2>2 DEF IInv, VerdictInv
    <3>2. pending' = <<Signal(k)>> /\ sent' = sent /\ run' = "over"
      BY <3>1 DEF Raise
    <3>3. Quiet(sent')
      BY <3>1, <3>2
    <3>4. Concludes(pending', outcome')
      BY <1>1, <3>2
    <3> QED BY <3>2, <3>3, <3>4 DEF VerdictInv
  <2> QED BY <2>1, <2>2
<1>4. PlaceInv'
  BY DEF Raise, PlaceInv
<1> QED BY <1>2, <1>3, <1>4 DEF IInv

LEMMA DrainInv == IInv /\ Drain => IInv'
<1> SUFFICES ASSUME IInv, Drain PROVE IInv'
  OBVIOUS
<1>1. TypeOK'
  BY DEF IInv, TypeOK, Drain, Places
<1>2. VerdictInv'
  BY DEF IInv, VerdictInv, Drain, Pulled, Quiet
<1>3. PlaceInv'
  BY DEF IInv, PlaceInv, Drain, Pulled
<1> QED BY <1>1, <1>2, <1>3 DEF IInv

LEMMA ReturnInv == IInv /\ Return => IInv'
<1> SUFFICES ASSUME IInv, Return PROVE IInv'
  OBVIOUS
<1>1. outcome = "succeeded" /\ Concludes(sent, outcome) /\ pending = <<>>
  BY DEF IInv, VerdictInv, PlaceInv, Return, Pulled, Concludes
<1>2. TypeOK'
  BY DEF IInv, TypeOK, Return, Places
<1>3. VerdictInv'
  BY <1>1 DEF VerdictInv, Return, Concludes
<1>4. PlaceInv'
  BY <1>1 DEF IInv, PlaceInv, Return, Pulled, Concludes
<1> QED BY <1>2, <1>3, <1>4 DEF IInv

LEMMA DisconnectInv == IInv /\ Disconnect => IInv'
<1> SUFFICES ASSUME IInv, Disconnect PROVE IInv'
  OBVIOUS
<1>1. TypeOK'
  BY EmptyQuiet DEF IInv, TypeOK, Disconnect, Places
<1>2. /\ run' = "over" /\ pending' = <<>> /\ ~reading' /\ reading /\ sent' = sent
      /\ outcome' = (IF outcome = "running" THEN "abandoned" ELSE outcome)
  BY DEF IInv, TypeOK, Disconnect
<1>3. Quiet(sent) \/ Concludes(sent, outcome)
  BY DEF IInv, TypeOK, VerdictInv, Places
<1>4. Concludes(sent, outcome) => outcome' = outcome
  BY <1>2 DEF Concludes, Telling
<1>5. VerdictInv'
  BY <1>2, <1>3, <1>4 DEF VerdictInv, Quiet, Concludes
<1>6. trace' = "ok" => trace = "ok"
  BY DEF Disconnect
<1>7. PlaceInv'
  BY <1>2, <1>4, <1>6 DEF IInv, PlaceInv, Disconnect, Concludes
<1> QED BY <1>1, <1>5, <1>7 DEF IInv

LEMMA NextInv == IInv /\ [Next]_vars => IInv'
<1> SUFFICES ASSUME IInv, [Next]_vars PROVE IInv'
  OBVIOUS
<1>1. CASE Read
  BY <1>1, ReadInv
<1>2. CASE HarnessStep
  <2>1. CASE YieldRunStarted
    BY <2>1, YieldRunStartedInv
  <2>2. ASSUME NEW m \in Messages, YieldText(m) PROVE IInv'
    BY <2>2, YieldTextInv
  <2>3. ASSUME NEW t \in Tools, NEW arguments \in BOOLEAN, YieldToolStart(t, arguments)
        PROVE  IInv'
    BY <2>3, YieldToolStartInv
  <2>4. ASSUME NEW t \in Tools, YieldToolEnd(t) PROVE IInv'
    BY <2>4, YieldToolEndInv
  <2>5. ASSUME NEW class \in ErrorClasses, YieldError(class) PROVE IInv'
    BY <2>5, YieldErrorInv
  <2>6. CASE Reraise
    <3>1. outcome' = "failed"
      BY <2>6 DEF Reraise, Pulled, IInv, PlaceInv
    <3> QED BY <2>6, <3>1, RaiseInv DEF Reraise, Pulled
  <2>7. CASE CloseFails
    BY <2>7, RaiseInv DEF CloseFails, Pulled
  <2>8. CASE Drain
    BY <2>8, DrainInv
  <2>9. CASE YieldFinished
    BY <2>9, YieldFinishedInv
  <2>10. CASE Return
    BY <2>10, ReturnInv
  <2> QED BY <1>2, <2>1, <2>2, <2>3, <2>4, <2>5, <2>6, <2>7, <2>8, <2>9, <2>10 DEF HarnessStep
<1>3. CASE Disconnect
  BY <1>3, DisconnectInv
<1>4. CASE UNCHANGED vars
  <2>1. TypeOK'
    BY <1>4 DEF IInv, TypeOK, vars, harness
  <2>2. VerdictInv' /\ PlaceInv'
    BY <1>4 DEF IInv, VerdictInv, PlaceInv, Quiet, Concludes, vars, harness
  <2> QED BY <2>1, <2>2 DEF IInv
<1> QED BY <1>1, <1>2, <1>3, <1>4 DEF Next, Over

THEOREM Invariance == Spec => []IInv
BY InitInv, NextInv, PTL DEF Spec

\* Every reachable state is well typed.
THEOREM TypeCorrect == Spec => []TypeOK
<1>1. IInv => TypeOK
  BY DEF IInv
<1> QED BY <1>1, Invariance, PTL

-----------------------------------------------------------------------------
(* What the client was told                                                *)

LEMMA QuietVerdict == Quiet(sent) => Verdict = "none"
BY DEF Quiet, Verdict, HasRead, Terminals, SuccessKinds, FailureKinds

LEMMA ConcludesVerdict ==
    ASSUME TypeOK, Concludes(sent, outcome)
    PROVE  /\ outcome = "succeeded" => Verdict = "completed"
           /\ outcome = "failed" => Verdict \in {"failed", "suspended"}
           /\ outcome \in {"succeeded", "failed"}
<1>1. sent \in Seq(Events) /\ Len(sent) \in DOMAIN sent
  BY LenProperties DEF TypeOK, Concludes
<1>2. CASE outcome = "succeeded"
  <2>1. HasRead({"completed", "run_finished"})
    BY <1>1, <1>2 DEF Concludes, Telling, SuccessKinds, HasRead
  <2> QED BY <1>2, <2>1 DEF Verdict
<1>3. CASE outcome = "failed"
  <2>1. sent[Len(sent)].kind \in FailureKinds
    BY <1>3 DEF Concludes, Telling
  <2>2. ~HasRead(SuccessKinds)
    BY <1>1, <1>3, <2>1 DEF Concludes, Terminals, SuccessKinds, FailureKinds, HasRead
  <2>3. HasRead({"failed", "run_error"}) \/ HasRead({"suspended"})
    BY <1>1, <2>1 DEF FailureKinds, HasRead
  <2> QED BY <1>3, <2>2, <2>3 DEF Verdict, SuccessKinds
<1>4. outcome \in {"succeeded", "failed"}
  BY DEF Concludes, Telling
<1> QED BY <1>2, <1>3, <1>4

LEMMA ToldOrNot ==
    ASSUME IInv
    PROVE  Quiet(sent) \/ Concludes(sent, outcome)
BY DEF IInv, TypeOK, VerdictInv, Places

\* The one trace of a turn agrees with what its client was told.
THEOREM TracesTruthful == Spec => []TraceTellsStream
<1>1. IInv => TraceTellsStream
  <2> SUFFICES ASSUME IInv PROVE TraceTellsStream
    OBVIOUS
  <2>1. trace = "ok" => Verdict = "completed"
    BY ConcludesVerdict DEF IInv, PlaceInv
  <2>2. ASSUME trace = "error", reading, pending = <<>>
        PROVE  Verdict \in {"failed", "suspended"}
    <3>1. run = "over" /\ outcome # "succeeded"
      BY <2>2 DEF IInv, PlaceInv
    <3>2. Concludes(sent, outcome)
      BY <2>2, <3>1 DEF IInv, VerdictInv, Concludes
    <3> QED BY <3>1, <3>2, ConcludesVerdict DEF IInv
  <2> QED BY <2>1, <2>2 DEF IInv, PlaceInv, TypeOK, TraceTellsStream
<1> QED BY <1>1, Invariance, PTL

LEMMA ReadStep == IInv /\ IInv' /\ Read => [Protocol!Next]_Protocol!vars
<1> SUFFICES ASSUME IInv, IInv', Read PROVE Protocol!Emit \/ Protocol!Tell
  BY DEF Protocol!Next
<1>1. pending \in Seq(Events) /\ sent \in Seq(Events) /\ pending # <<>> /\ reading
      /\ sent' = Append(sent, Head(pending)) /\ UNCHANGED <<outcome, reading>>
  BY DEF IInv, TypeOK, Read
<1>2. Len(sent') = Len(sent) + 1
  BY <1>1, HeadTailProperties
<1>3. Verdict = "none"
  BY <1>1, QuietVerdict DEF IInv, TypeOK, VerdictInv, Places
<1>4. CASE Quiet(sent')
  <2>1. Verdict' = "none"
    BY <1>4 DEF Quiet, Verdict, HasRead, Terminals, SuccessKinds, FailureKinds
  <2> QED BY <1>1, <1>2, <1>3, <2>1 DEF Protocol!Emit
<1>5. CASE Concludes(sent, outcome)'
  <2>1. (Concludes(sent, outcome) /\ TypeOK =>
            /\ outcome = "succeeded" => Verdict = "completed"
            /\ outcome = "failed" => Verdict \in {"failed", "suspended"}
            /\ outcome \in {"succeeded", "failed"})'
    BY ConcludesVerdict, PTL
  <2>2. Verdict' \in Protocol!Verdicts(outcome)
    BY <1>1, <1>5, <2>1 DEF IInv, Protocol!Verdicts
  <2> QED BY <1>1, <1>2, <1>3, <2>2 DEF Protocol!Tell
<1>6. (Quiet(sent) \/ Concludes(sent, outcome))'
  <2>1. (IInv => Quiet(sent) \/ Concludes(sent, outcome))'
    BY ToldOrNot, PTL
  <2> QED BY <2>1
<1> QED BY <1>4, <1>5, <1>6 DEF Quiet

\* A step of the pipeline that the client does not see settles the outcome at most.
LEMMA HarnessStepHidden ==
    ASSUME IInv, HarnessStep
    PROVE  /\ UNCHANGED <<sent, reading>> /\ reading
           /\ outcome' = outcome \/ (outcome = "running" /\ outcome' \in {"succeeded", "failed"})
<1>1. run = "streaming" => outcome = "running"
  BY DEF IInv, PlaceInv
<1> QED BY <1>1 DEF HarnessStep, YieldRunStarted, YieldText, SdkStep, YieldToolStart,
                    YieldToolEnd, YieldError, Reraise, CloseFails, Raise, Drain,
                    YieldFinished, Return, Pulled

LEMMA StepSimulated == IInv /\ IInv' /\ [Next]_vars => [Protocol!Next]_Protocol!vars
<1> SUFFICES ASSUME IInv, IInv', [Next]_vars PROVE [Protocol!Next]_Protocol!vars
  OBVIOUS
<1>1. CASE Read
  BY <1>1, ReadStep
<1>2. sent' = sent => Verdict' = Verdict /\ Len(sent') = Len(sent)
  BY DEF Verdict, HasRead
<1>3. CASE HarnessStep
  BY <1>2, <1>3, HarnessStepHidden DEF Protocol!Next, Protocol!Settle, Protocol!vars
<1>4. CASE Disconnect
  BY <1>2, <1>4 DEF Disconnect, Protocol!Next, Protocol!Leave
<1>5. CASE UNCHANGED vars
  BY <1>2, <1>5 DEF vars, Protocol!vars
<1> QED BY <1>1, <1>3, <1>4, <1>5 DEF Next, Over

\* The pipeline implements StreamProtocol: every stream is events and then at most
\* one verdict, true and last, whatever the SDK does and whenever the client goes.
THEOREM ProtocolKept == Spec => Protocol!Spec
<1>1. Init => Protocol!Init
  <2> SUFFICES ASSUME Init PROVE Protocol!Init
    OBVIOUS
  <2>1. Verdict = "none"
    BY DEF Init, Verdict, HasRead
  <2> QED BY <2>1 DEF Init, Protocol!Init
<1> QED BY <1>1, StepSimulated, Invariance, PTL DEF Spec, Protocol!Spec

-----------------------------------------------------------------------------
(* The stream is well formed: text is bracketed and calls are paired       *)

A2AKinds == (TaskStates \ {"submitted"}) \cup {"task", "artifact", "append"}
TextKinds == {"text_start", "text_content", "text_end"}
ToolKinds == {"tool_start", "tool_args", "tool_end"}
Finals == {"run_finished", "run_error"}

\* As OpenBefore and MessagesBracketed, of any sequence of events.
OpenIn(s, i) ==
    {m \in Messages : \E j \in 1..(i - 1) :
        /\ s[j] = Event("text_start", m, 0)
        /\ \A k \in (j + 1)..(i - 1) : s[k] # Event("text_end", m, 0)}
OpenAfter(s) == OpenIn(s, Len(s) + 1)
EventFits(open, e, terminal) ==
    /\ e.kind = "text_start" => open = {}
    /\ e.kind \in {"text_content", "text_end"} => open = {e.id}
    /\ terminal /\ e.kind \in Finals => open = {}
Bracketed(s, terminal) == \A i \in DOMAIN s : EventFits(OpenIn(s, i), s[i], terminal)

\* As CallsPaired, of any sequence of events.
Begun(s, id) == \E j \in DOMAIN s : s[j] = Event("tool_start", id, 0)
Closed(s, id) == \E j \in DOMAIN s : s[j] = Event("tool_end", id, 0)
PairedFrom(e) == e.kind \in {"tool_args", "tool_end"} /\ (sdk = "ms_agent_fw" \/ e.id \in Tools)
Paired(s) ==
    \A i \in DOMAIN s : PairedFrom(s[i]) =>
        /\ \E j \in 1..(i - 1) : s[j] = Event("tool_start", s[i].id, 0)
        /\ \A j \in 1..(i - 1) : s[j] # Event("tool_end", s[i].id, 0)

OfSurface(s) == \A i \in DOMAIN s : surface = "a2a" <=> s[i].kind \in A2AKinds
WellFormed(s, terminal) == OfSurface(s) /\ Bracketed(s, terminal) /\ Paired(s)

\* Each call of the agent is where its events are; of those without an id, each has
\* an orphan that is begun and not ended.
UnnamedOpen == {t \in Unnamed : calls[t] = "open"}
CallsFollow(s) ==
    /\ \A t \in Tools \ Unnamed :
          /\ calls[t] = "open" => Begun(s, t)
          /\ calls[t] # "ended" => ~Closed(s, t)
    /\ sdk = "ms_agent_fw" =>
          /\ \A i \in DOMAIN orphans :
                orphans[i] <= minted /\ Begun(s, orphans[i]) /\ ~Closed(s, orphans[i])
          /\ \A i, j \in DOMAIN orphans : i # j => orphans[i] # orphans[j]
          /\ \A id \in Nat : id > minted => ~Closed(s, id)
          /\ IsFiniteSet(UnnamedOpen) /\ Cardinality(UnnamedOpen) = Len(orphans)

\* The events of the turn, read or not, while there may be more.
GoesOn(s) ==
    /\ OpenAfter(s) = {mapper.open} \ {NoMessage}
    /\ surface = "ag_ui" => CallsFollow(s)
FormInv ==
    /\ WellFormed(sent \o pending, mapper.terminal)
    /\ run # "over" => GoesOn(sent \o pending)

LEMMA Appended ==
    ASSUME NEW s \in Seq(Events), NEW e \in Events
    PROVE  /\ Append(s, e) \in Seq(Events)
           /\ Len(s) \in Nat /\ DOMAIN s = 1..Len(s)
           /\ Len(Append(s, e)) = Len(s) + 1 /\ DOMAIN Append(s, e) = 1..(Len(s) + 1)
           /\ \A i \in 1..Len(s) : Append(s, e)[i] = s[i]
           /\ Append(s, e)[Len(s) + 1] = e
           /\ s \o <<e>> = Append(s, e)
BY AppendProperties, LenProperties

\* One more event that fits.
LEMMA BracketAppend ==
    ASSUME NEW s \in Seq(Events), NEW e \in Events, NEW terminal,
           Bracketed(s, terminal), EventFits(OpenAfter(s), e, terminal)
    PROVE  /\ Bracketed(Append(s, e), terminal)
           /\ e.kind \notin {"text_start", "text_end"} => OpenAfter(Append(s, e)) = OpenAfter(s)
           /\ \A m \in Messages : e = Event("text_start", m, 0) => OpenAfter(Append(s, e)) = {m}
           /\ \A m \in Messages : e = Event("text_end", m, 0) => OpenAfter(Append(s, e)) = {}
<1> DEFINE t == Append(s, e)
<1>1. /\ Len(s) \in Nat /\ DOMAIN s = 1..Len(s) /\ DOMAIN t = 1..(Len(s) + 1)
      /\ Len(t) = Len(s) + 1 /\ t[Len(s) + 1] = e
      /\ \A i \in 1..Len(s) : t[i] = s[i]
  BY Appended
<1> HIDE DEF t
<1>2. \A i \in 1..(Len(s) + 1) : OpenIn(t, i) = OpenIn(s, i)
  <2> SUFFICES ASSUME NEW i \in 1..(Len(s) + 1) PROVE OpenIn(t, i) = OpenIn(s, i)
    OBVIOUS
  <2>1. \A j \in 1..(i - 1) : t[j] = s[j]
    BY <1>1
  <2>2. \A j \in 1..(i - 1) : \A k \in (j + 1)..(i - 1) : k \in 1..(i - 1)
    BY <1>1
  <2> QED BY <2>1, <2>2 DEF OpenIn
<1>3. Bracketed(t, terminal)
  BY <1>1, <1>2 DEF Bracketed, OpenAfter
<1>4. OpenAfter(t) = {m \in Messages :
          \/ e = Event("text_start", m, 0)
          \/ m \in OpenAfter(s) /\ e # Event("text_end", m, 0)}
  <2> SUFFICES ASSUME NEW m \in Messages
               PROVE  m \in OpenAfter(t) <=>
                         \/ e = Event("text_start", m, 0)
                         \/ m \in OpenAfter(s) /\ e # Event("text_end", m, 0)
    BY DEF OpenAfter, OpenIn
  <2>1. m \in OpenAfter(t) <=> \E j \in 1..(Len(s) + 1) :
           /\ t[j] = Event("text_start", m, 0)
           /\ \A k \in (j + 1)..(Len(s) + 1) : t[k] # Event("text_end", m, 0)
    BY <1>1 DEF OpenAfter, OpenIn
  <2>2. m \in OpenAfter(s) <=> \E j \in 1..Len(s) :
           /\ s[j] = Event("text_start", m, 0)
           /\ \A k \in (j + 1)..Len(s) : s[k] # Event("text_end", m, 0)
    BY <1>1 DEF OpenAfter, OpenIn
  <2>3. ASSUME e = Event("text_start", m, 0) PROVE m \in OpenAfter(t)
    BY <1>1, <2>1, <2>3
  <2>4. ASSUME m \in OpenAfter(s), e # Event("text_end", m, 0) PROVE m \in OpenAfter(t)
    BY <1>1, <2>1, <2>2, <2>4
  <2>5. ASSUME m \in OpenAfter(t), e # Event("text_start", m, 0)
        PROVE  m \in OpenAfter(s) /\ e # Event("text_end", m, 0)
    <3>1. PICK j \in 1..(Len(s) + 1) :
             /\ t[j] = Event("text_start", m, 0)
             /\ \A k \in (j + 1)..(Len(s) + 1) : t[k] # Event("text_end", m, 0)
      BY <2>1, <2>5
    <3>2. j \in 1..Len(s)
      BY <1>1, <2>5, <3>1
    <3>3. s[j] = Event("text_start", m, 0)
      BY <1>1, <3>1, <3>2
    <3>4. \A k \in (j + 1)..Len(s) : s[k] # Event("text_end", m, 0)
      BY <1>1, <3>1, <3>2
    <3>5. e # Event("text_end", m, 0)
      BY <1>1, <3>1, <3>2
    <3> QED BY <2>2, <3>2, <3>3, <3>4, <3>5
  <2> QED BY <2>3, <2>4, <2>5
<1>5. OpenAfter(s) \subseteq Messages
  BY DEF OpenAfter, OpenIn
<1>6. e.kind \notin {"text_start", "text_end"} => OpenAfter(t) = OpenAfter(s)
  BY <1>4, <1>5 DEF Event
<1>7. ASSUME NEW m \in Messages, e = Event("text_start", m, 0) PROVE OpenAfter(t) = {m}
  BY <1>4, <1>7 DEF EventFits, Event
<1>8. ASSUME NEW m \in Messages, e = Event("text_end", m, 0) PROVE OpenAfter(t) = {}
  BY <1>4, <1>8 DEF EventFits, Event
<1> QED BY <1>3, <1>6, <1>7, <1>8 DEF t

LEMMA PairAppend ==
    ASSUME NEW s \in Seq(Events), NEW e \in Events, Paired(s),
           PairedFrom(e) => Begun(s, e.id) /\ ~Closed(s, e.id)
    PROVE  /\ Paired(Append(s, e))
           /\ \A id : Begun(Append(s, e), id) <=> Begun(s, id) \/ e = Event("tool_start", id, 0)
           /\ \A id : Closed(Append(s, e), id) <=> Closed(s, id) \/ e = Event("tool_end", id, 0)
<1> DEFINE t == Append(s, e)
<1>1. /\ Len(s) \in Nat /\ DOMAIN s = 1..Len(s) /\ DOMAIN t = 1..(Len(s) + 1)
      /\ t[Len(s) + 1] = e /\ \A i \in 1..Len(s) : t[i] = s[i]
  BY Appended
<1> HIDE DEF t
<1>2. Paired(t)
  <2> SUFFICES ASSUME NEW i \in 1..(Len(s) + 1), PairedFrom(t[i])
               PROVE  /\ \E j \in 1..(i - 1) : t[j] = Event("tool_start", t[i].id, 0)
                      /\ \A j \in 1..(i - 1) : t[j] # Event("tool_end", t[i].id, 0)
    BY <1>1 DEF Paired
  <2>1. \A j \in 1..(i - 1) : t[j] = s[j]
    BY <1>1
  <2>2. CASE i = Len(s) + 1
    BY <1>1, <2>1, <2>2 DEF Begun, Closed
  <2>3. CASE i \in 1..Len(s)
    BY <1>1, <2>1, <2>3 DEF Paired
  <2> QED BY <1>1, <2>2, <2>3
<1>3. \A id : Begun(t, id) <=> Begun(s, id) \/ e = Event("tool_start", id, 0)
  BY <1>1 DEF Begun
<1>4. \A id : Closed(t, id) <=> Closed(s, id) \/ e = Event("tool_end", id, 0)
  BY <1>1 DEF Closed
<1> QED BY <1>2, <1>3, <1>4 DEF t

LEMMA SurfaceAppend ==
    ASSUME NEW s \in Seq(Events), NEW e \in Events, OfSurface(s),
           surface = "a2a" <=> e.kind \in A2AKinds
    PROVE  OfSurface(Append(s, e))
BY Appended DEF OfSurface

\* What was well formed is so up to any of its events.
LEMMA Prefix ==
    ASSUME NEW s \in Seq(Events), NEW t \in Seq(Events), NEW terminal, WellFormed(s \o t, terminal)
    PROVE  WellFormed(s, terminal)
<1> DEFINE u == s \o t
<1>1. /\ Len(s) \in Nat /\ DOMAIN s = 1..Len(s) /\ DOMAIN s \subseteq DOMAIN u
      /\ \A i \in 1..Len(s) : u[i] = s[i]
  BY ConcatProperties, LenProperties
<1> HIDE DEF u
<1>2. \A i \in 1..Len(s) : OpenIn(u, i) = OpenIn(s, i)
  <2> SUFFICES ASSUME NEW i \in 1..Len(s) PROVE OpenIn(u, i) = OpenIn(s, i)
    OBVIOUS
  <2>1. \A j \in 1..(i - 1) : u[j] = s[j]
    BY <1>1
  <2>2. \A j \in 1..(i - 1) : \A k \in (j + 1)..(i - 1) : k \in 1..(i - 1)
    BY <1>1
  <2> QED BY <2>1, <2>2 DEF OpenIn
<1>3. OfSurface(s) /\ Bracketed(s, terminal)
  BY <1>1, <1>2 DEF u, WellFormed, OfSurface, Bracketed
<1>4. Paired(s)
  <2> SUFFICES ASSUME NEW i \in 1..Len(s), PairedFrom(s[i])
               PROVE  /\ \E j \in 1..(i - 1) : s[j] = Event("tool_start", s[i].id, 0)
                      /\ \A j \in 1..(i - 1) : s[j] # Event("tool_end", s[i].id, 0)
    BY <1>1 DEF Paired
  <2>1. \A j \in 1..(i - 1) : u[j] = s[j]
    BY <1>1
  <2> QED BY <1>1, <2>1 DEF u, WellFormed, Paired
<1> QED BY <1>3, <1>4 DEF WellFormed

LEMMA CallsKept ==
    ASSUME NEW s, NEW t, CallsFollow(s),
           \A id : Begun(s, id) => Begun(t, id), \A id : Closed(t, id) => Closed(s, id)
    PROVE  CallsFollow(t)
BY DEF CallsFollow

\* One more event of the stream.
LEMMA OneMore ==
    ASSUME NEW s \in Seq(Events), NEW e \in Events, NEW terminal, WellFormed(s, terminal),
           surface = "a2a" <=> e.kind \in A2AKinds,
           EventFits(OpenAfter(s), e, terminal),
           PairedFrom(e) => Begun(s, e.id) /\ ~Closed(s, e.id)
    PROVE  /\ Append(s, e) \in Seq(Events) /\ WellFormed(Append(s, e), terminal)
           /\ e.kind \notin {"text_start", "text_end"} => OpenAfter(Append(s, e)) = OpenAfter(s)
           /\ \A m \in Messages : e = Event("text_start", m, 0) => OpenAfter(Append(s, e)) = {m}
           /\ \A m \in Messages : e = Event("text_end", m, 0) => OpenAfter(Append(s, e)) = {}
           /\ \A id : Begun(Append(s, e), id) <=> Begun(s, id) \/ e = Event("tool_start", id, 0)
           /\ \A id : Closed(Append(s, e), id) <=> Closed(s, id) \/ e = Event("tool_end", id, 0)
<1>1. OfSurface(s) /\ Bracketed(s, terminal) /\ Paired(s)
  BY DEF WellFormed
<1>2. OfSurface(Append(s, e)) /\ Append(s, e) \in Seq(Events)
  BY <1>1, SurfaceAppend, Appended
<1>3. /\ Bracketed(Append(s, e), terminal)
      /\ e.kind \notin {"text_start", "text_end"} => OpenAfter(Append(s, e)) = OpenAfter(s)
      /\ \A m \in Messages : e = Event("text_start", m, 0) => OpenAfter(Append(s, e)) = {m}
      /\ \A m \in Messages : e = Event("text_end", m, 0) => OpenAfter(Append(s, e)) = {}
  BY <1>1, BracketAppend
<1>4. /\ Paired(Append(s, e))
      /\ \A id : Begun(Append(s, e), id) <=> Begun(s, id) \/ e = Event("tool_start", id, 0)
      /\ \A id : Closed(Append(s, e), id) <=> Closed(s, id) \/ e = Event("tool_end", id, 0)
  BY <1>1, PairAppend
<1> QED BY <1>2, <1>3, <1>4 DEF WellFormed

\* ... that is no tool event.
LEMMA NoToolMore ==
    ASSUME NEW s \in Seq(Events), NEW e \in Events, NEW terminal, WellFormed(s, terminal),
           surface = "a2a" <=> e.kind \in A2AKinds,
           EventFits(OpenAfter(s), e, terminal), e.kind \notin ToolKinds
    PROVE  /\ Append(s, e) \in Seq(Events) /\ WellFormed(Append(s, e), terminal)
           /\ e.kind \notin {"text_start", "text_end"} => OpenAfter(Append(s, e)) = OpenAfter(s)
           /\ \A m \in Messages : e = Event("text_start", m, 0) => OpenAfter(Append(s, e)) = {m}
           /\ \A m \in Messages : e = Event("text_end", m, 0) => OpenAfter(Append(s, e)) = {}
           /\ CallsFollow(s) => CallsFollow(Append(s, e))
<1>1. ~PairedFrom(e)
  BY DEF PairedFrom, ToolKinds
<1>2. \A id : e # Event("tool_start", id, 0) /\ e # Event("tool_end", id, 0)
  BY DEF Event, ToolKinds
<1>3. /\ Append(s, e) \in Seq(Events) /\ WellFormed(Append(s, e), terminal)
      /\ e.kind \notin {"text_start", "text_end"} => OpenAfter(Append(s, e)) = OpenAfter(s)
      /\ \A m \in Messages : e = Event("text_start", m, 0) => OpenAfter(Append(s, e)) = {m}
      /\ \A m \in Messages : e = Event("text_end", m, 0) => OpenAfter(Append(s, e)) = {}
      /\ \A id : Begun(Append(s, e), id) <=> Begun(s, id)
      /\ \A id : Closed(Append(s, e), id) <=> Closed(s, id)
  BY <1>1, <1>2, OneMore
<1> QED BY <1>3, CallsKept

\* ... that is an event of the whole run.
LEMMA SignalMore ==
    ASSUME NEW s \in Seq(Events), NEW k \in Kinds, NEW terminal, WellFormed(s, terminal),
           surface = "a2a" <=> k \in A2AKinds, k \notin TextKinds \cup ToolKinds,
           terminal /\ k \in Finals => OpenAfter(s) = {}
    PROVE  /\ Append(s, Signal(k)) \in Seq(Events) /\ WellFormed(Append(s, Signal(k)), terminal)
           /\ OpenAfter(Append(s, Signal(k))) = OpenAfter(s)
           /\ CallsFollow(s) => CallsFollow(Append(s, Signal(k)))
<1>1. Signal(k) \in Events /\ Signal(k).kind = k
  BY SignalTyped
<1>2. EventFits(OpenAfter(s), Signal(k), terminal)
  BY <1>1 DEF EventFits, TextKinds
<1> QED BY <1>1, <1>2, NoToolMore DEF TextKinds

-----------------------------------------------------------------------------
(* ... step by step                                                        *)

LEMMA EmptyForm ==
    /\ <<>> \in Seq(Events) /\ \A terminal : WellFormed(<<>>, terminal)
    /\ OpenAfter(<<>>) = {} /\ \A id : ~Begun(<<>>, id) /\ ~Closed(<<>>, id)
<1>1. DOMAIN <<>> = {} /\ Len(<<>>) = 0
  OBVIOUS
<1> QED BY <1>1 DEF WellFormed, OfSurface, Bracketed, Paired, OpenAfter, OpenIn, Begun, Closed

LEMMA InitForm == Init => FormInv
<1> SUFFICES ASSUME Init PROVE FormInv
  OBVIOUS
<1>1. CallsFollow(<<>>)
  <2>1. UnnamedOpen = {} /\ Len(<<>>) = 0 /\ DOMAIN <<>> = {}
    BY ConstantsAssumption DEF Init, UnnamedOpen
  <2>2. IsFiniteSet(UnnamedOpen) /\ Cardinality(UnnamedOpen) = Len(orphans)
    BY <2>1, FS_EmptySet DEF Init
  <2> QED BY <2>1, <2>2, EmptyForm DEF Init, CallsFollow
<1>2. {mapper.open} \ {NoMessage} = {} /\ mapper.terminal = FALSE
  BY DEF Init
<1>3. CASE surface = "a2a"
  <2>1. "task" \in Kinds /\ "task" \in A2AKinds /\ "task" \notin TextKinds \cup ToolKinds \cup Finals
    BY DEF Kinds, A2AKinds, TextKinds, ToolKinds, Finals
  <2>2. sent \o pending = Append(<<>>, Signal("task"))
    BY <1>3 DEF Init
  <2>3. /\ WellFormed(Append(<<>>, Signal("task")), mapper.terminal)
        /\ OpenAfter(Append(<<>>, Signal("task"))) = {}
    BY <1>3, <2>1, EmptyForm, SignalMore
  <2> QED BY <1>2, <1>3, <2>2, <2>3 DEF FormInv, GoesOn
<1>4. CASE surface = "ag_ui"
  <2>1. sent \o pending = <<>>
    BY <1>4 DEF Init
  <2> QED BY <1>1, <1>2, <2>1, EmptyForm DEF FormInv, GoesOn
<1> QED BY <1>3, <1>4 DEF Init

\* The stream after a step of the harness.
LEMMA FormStep ==
    ASSUME NEW u, u = sent \o pending', UNCHANGED <<surface, sdk, sent>>,
           WellFormed(u, mapper'.terminal),
           run' # "over" => OpenAfter(u) = {mapper'.open} \ {NoMessage},
           run' # "over" /\ surface = "ag_ui" => CallsFollow(u)'
    PROVE  FormInv'
<1>1. PICK v : v = mapper'.terminal
  OBVIOUS
<1>2. WellFormed(u, v)'
  BY <1>1 DEF WellFormed, OfSurface, Paired, PairedFrom
<1>3. WellFormed(sent \o pending, mapper.terminal)'
  BY <1>1, <1>2
<1>4. run' # "over" => GoesOn(sent \o pending)'
  BY DEF GoesOn
<1> QED BY <1>3, <1>4 DEF FormInv

\* What the harness goes on from.
LEMMA Before ==
    ASSUME IInv, FormInv, pending = <<>>, run # "over"
    PROVE  /\ sent \in Seq(Events) /\ WellFormed(sent, mapper.terminal)
           /\ OpenAfter(sent) = {mapper.open} \ {NoMessage}
           /\ surface = "ag_ui" => CallsFollow(sent)
           /\ surface \in {"a2a", "ag_ui"}
           /\ mapper \in [open : Messages \cup {NoMessage}, seen : SUBSET Messages, terminal : BOOLEAN]
<1>1. sent \in Seq(Events)
  BY DEF IInv, TypeOK
<1>2. sent \o pending = sent
  BY <1>1
<1> QED BY <1>1, <1>2 DEF FormInv, GoesOn, IInv, TypeOK

\* The client reads: an event moves, and the stream is the same.
LEMMA ReadForm == IInv /\ FormInv /\ Read => FormInv'
<1> SUFFICES ASSUME IInv, FormInv, Read PROVE FormInv'
  OBVIOUS
<1>1. sent \in Seq(Events) /\ pending \in Seq(Events) /\ pending # <<>>
  BY DEF IInv, TypeOK, Read
<1>2. sent' \o pending' = sent \o pending
  <2>1. ASSUME NEW s \in Seq(Events), NEW q \in Seq(Events), q # <<>>
        PROVE  Append(s, Head(q)) \o Tail(q) = s \o q
    <3>1. q = <<Head(q)>> \o Tail(q) /\ Head(q) \in Events /\ Tail(q) \in Seq(Events)
      BY <2>1, HeadTailProperties
    <3>2. Append(s, Head(q)) = s \o <<Head(q)>>
      BY <3>1, Appended
    <3> QED BY <3>1, <3>2, ConcatAssociative
  <2> QED BY <1>1, <2>1 DEF Read
<1>3. UNCHANGED <<surface, sdk, run, mapper, calls, orphans, minted>>
  BY DEF Read, harness
<1> QED BY <1>2, <1>3 DEF FormInv, GoesOn, WellFormed, OfSurface, Paired, PairedFrom, CallsFollow,
                          UnnamedOpen

\* The client goes: what is pending is never read.
LEMMA DisconnectForm == IInv /\ FormInv /\ Disconnect => FormInv'
<1> SUFFICES ASSUME IInv, FormInv, Disconnect PROVE FormInv'
  OBVIOUS
<1>1. sent \in Seq(Events) /\ pending \in Seq(Events)
  BY DEF IInv, TypeOK
<1>2. WellFormed(sent, mapper.terminal)
  BY <1>1, Prefix DEF FormInv
<1>3. PICK u : u = sent \o pending'
  OBVIOUS
<1>4. u = sent
  BY <1>1, <1>3 DEF Disconnect
<1> QED BY <1>2, <1>3, <1>4, FormStep DEF Disconnect

\* A step that yields nothing.
LEMMA SilentForm ==
    ASSUME IInv, FormInv, pending = <<>>, pending' = <<>>, run # "over",
           UNCHANGED <<surface, sdk, sent, mapper, calls, orphans, minted>>
    PROVE  FormInv'
<1>1. PICK u : u = sent \o pending'
  OBVIOUS
<1>2. u = sent
  BY <1>1, Before
<1>3. CallsFollow(u) => CallsFollow(u)'
  BY DEF CallsFollow, UnnamedOpen
<1> QED BY <1>1, <1>2, <1>3, Before, FormStep

\* A step that yields an event of the whole run.
LEMMA SignalForm ==
    ASSUME IInv, FormInv, NEW k \in Kinds, pending = <<>>, pending' = <<Signal(k)>>, run # "over",
           surface = "a2a" <=> k \in A2AKinds, k \notin TextKinds \cup ToolKinds,
           k \notin Finals \/ ~mapper.terminal,
           UNCHANGED <<surface, sdk, sent, mapper, calls, orphans, minted>>
    PROVE  FormInv'
<1>1. PICK u : u = sent \o pending'
  OBVIOUS
<1>2. u = Append(sent, Signal(k))
  BY <1>1, Before, Appended, SignalTyped
<1>3. /\ WellFormed(u, mapper.terminal) /\ OpenAfter(u) = OpenAfter(sent)
      /\ CallsFollow(sent) => CallsFollow(u)
  BY <1>2, Before, SignalMore
<1>4. CallsFollow(u) => CallsFollow(u)'
  BY DEF CallsFollow, UnnamedOpen
<1> QED BY <1>1, <1>3, <1>4, Before, FormStep

\* A step that yields the verdict: what it ends is quiet, and every message is closed.
LEMMA FinishForm ==
    ASSUME IInv, FormInv, pending = <<>>, run \in {"streaming", "capturing"},
           NEW verdict, MapRunFinished(verdict),
           surface = "a2a" => \E k \in A2AKinds : \/ verdict = <<Signal(k)>>
                                                 \/ verdict = <<Signal("input_required"), Signal(k)>>,
           surface = "ag_ui" => \E k \in Finals : verdict = <<Signal(k)>>,
           UNCHANGED <<surface, sdk, sent, calls, orphans, minted>>
    PROVE  FormInv'
<1>1. PICK u : u = sent \o pending'
  OBVIOUS
<1>2. mapper'.terminal = TRUE /\ mapper'.open = NoMessage
  BY Before DEF MapRunFinished
<1>3. WellFormed(sent, TRUE)
  <2>1. Quiet(sent)
    BY DEF IInv, VerdictInv
  <2>2. \A i \in DOMAIN sent : sent[i].kind \notin Finals
    BY <2>1 DEF Quiet, Finals, Terminals, SuccessKinds, FailureKinds
  <2> QED BY <2>2, Before DEF WellFormed, Bracketed, EventFits
<1>4. /\ WellFormed(u, TRUE) /\ OpenAfter(u) = {}
      /\ surface = "ag_ui" => CallsFollow(u)
  <2>1. CASE surface = "a2a"
    <3>1. PICK k \in A2AKinds : \/ verdict = <<Signal(k)>>
                               \/ verdict = <<Signal("input_required"), Signal(k)>>
      BY <2>1
    <3>2. /\ "input_required" \in A2AKinds /\ A2AKinds \subseteq Kinds
          /\ A2AKinds \cap (TextKinds \cup ToolKinds \cup Finals) = {}
      BY DEF A2AKinds, TaskStates, Kinds, TextKinds, ToolKinds, Finals
    <3>3. pending' = verdict
      BY <2>1 DEF MapRunFinished
    <3>4. OpenAfter(sent) = {}
      <4> SUFFICES ASSUME NEW m \in OpenAfter(sent) PROVE FALSE
        OBVIOUS
      <4>1. PICK j \in 1..Len(sent) : sent[j] = Event("text_start", m, 0)
        BY Before, LenProperties DEF OpenAfter, OpenIn
      <4>2. j \in DOMAIN sent /\ sent[j].kind = "text_start"
        BY <4>1, Before, LenProperties DEF Event
      <4> QED BY <2>1, <3>2, <4>2, Before DEF WellFormed, OfSurface, TextKinds
    <3>5. CASE verdict = <<Signal(k)>>
      <4>1. u = Append(sent, Signal(k))
        BY <1>1, <3>2, <3>3, <3>5, Before, Appended, SignalTyped
      <4> QED BY <1>3, <2>1, <3>2, <3>4, <4>1, Before, SignalMore
    <3>6. CASE verdict = <<Signal("input_required"), Signal(k)>>
      <4> DEFINE s == Append(sent, Signal("input_required"))
      <4>1. s \in Seq(Events) /\ WellFormed(s, TRUE) /\ OpenAfter(s) = {}
        BY <1>3, <2>1, <3>2, <3>4, Before, SignalMore
      <4>2. u = Append(s, Signal(k))
        <5>1. \A q \in Seq(Events), d \in Events, e \in Events : q \o <<d, e>> = Append(Append(q, d), e)
          OBVIOUS
        <5> QED BY <1>1, <3>2, <3>3, <3>6, <5>1, Before, SignalTyped
      <4> HIDE DEF s
      <4> QED BY <2>1, <3>2, <4>1, <4>2, SignalMore
    <3> QED BY <3>1, <3>5, <3>6
  <2>2. CASE surface = "ag_ui"
    <3>1. PICK k \in Finals : verdict = <<Signal(k)>>
      BY <2>2
    <3>2. k \in Kinds /\ k \notin A2AKinds \cup TextKinds \cup ToolKinds /\ Signal(k) \in Events
      BY SignalTyped DEF A2AKinds, TaskStates, Kinds, TextKinds, ToolKinds, Finals
    <3>3. CASE mapper.open = NoMessage
      <4>1. u = Append(sent, Signal(k))
        BY <1>1, <2>2, <3>1, <3>2, <3>3, Before, Appended DEF MapRunFinished
      <4> QED BY <1>3, <2>2, <3>2, <3>3, <4>1, Before, SignalMore
    <3>4. CASE mapper.open # NoMessage
      <4> DEFINE e == Event("text_end", mapper.open, 0)
                 s == Append(sent, e)
      <4>1. mapper.open \in Messages /\ OpenAfter(sent) = {mapper.open}
        BY <3>4, Before
      <4>2. e \in Events /\ e.kind = "text_end" /\ e.id = mapper.open
        BY <4>1, EventTyped DEF Kinds, Event
      <4>3. EventFits(OpenAfter(sent), e, TRUE) /\ e.kind \notin A2AKinds \cup ToolKinds
        BY <4>1, <4>2 DEF EventFits, Finals, A2AKinds, TaskStates, ToolKinds
      <4>4. /\ s \in Seq(Events) /\ WellFormed(s, TRUE) /\ OpenAfter(s) = {}
            /\ CallsFollow(s)
        BY <1>3, <2>2, <4>1, <4>2, <4>3, Before, NoToolMore
      <4>5. u = Append(s, Signal(k))
        <5>1. \A q \in Seq(Events), d \in Events, f \in Events : q \o (<<d>> \o <<f>>) = Append(Append(q, d), f)
          OBVIOUS
        <5> QED BY <1>1, <2>2, <3>1, <3>2, <3>4, <4>2, <5>1, Before DEF MapRunFinished
      <4> HIDE DEF s
      <4> QED BY <2>2, <3>2, <4>4, <4>5, SignalMore
    <3> QED BY <3>3, <3>4
  <2> QED BY <2>1, <2>2, Before
<1>5. CallsFollow(u) => CallsFollow(u)'
  BY DEF CallsFollow, UnnamedOpen
<1>6. {mapper'.open} \ {NoMessage} = {}
  BY <1>2
<1> QED BY <1>1, <1>2, <1>4, <1>5, <1>6, FormStep

LEMMA TextForm == \A m \in Messages : IInv /\ FormInv /\ YieldText(m) => FormInv'
<1> SUFFICES ASSUME NEW m \in Messages, IInv, FormInv, YieldText(m) PROVE FormInv'
  OBVIOUS
<1>1. /\ pending = <<>> /\ run = "streaming" /\ run' = run
      /\ UNCHANGED <<surface, sdk, sent, calls, orphans, minted>>
  BY DEF YieldText, SdkStep, Pulled
<1>2. PICK c \in Nat : MapTextDelta(m, c)
  BY SdkStepTyped DEF YieldText, IInv
<1>3. PICK u : u = sent \o pending'
  OBVIOUS
<1>4. m # NoMessage /\ ~mapper.terminal
  BY <1>1, ConstantsAssumption DEF IInv, VerdictInv
<1> DEFINE content == Event("text_content", m, c)
<1>5. content \in Events /\ content.kind = "text_content" /\ content.id = m
  BY EventTyped DEF Kinds, Event
<1>6. ASSUME NEW s \in Seq(Events), WellFormed(s, FALSE), OpenAfter(s) = {m}, surface = "ag_ui"
      PROVE  /\ WellFormed(Append(s, content), FALSE) /\ OpenAfter(Append(s, content)) = {m}
             /\ CallsFollow(s) => CallsFollow(Append(s, content))
  <2>1. EventFits(OpenAfter(s), content, FALSE) /\ content.kind \notin A2AKinds \cup ToolKinds
    BY <1>5, <1>6 DEF EventFits, A2AKinds, TaskStates, ToolKinds
  <2> QED BY <1>5, <1>6, <2>1, NoToolMore
<1> DEFINE start == Event("text_start", m, 0)
<1>7. start \in Events /\ start.kind = "text_start"
  BY EventTyped DEF Kinds, Event
<1>8. ASSUME NEW s \in Seq(Events), WellFormed(s, FALSE), OpenAfter(s) = {}, surface = "ag_ui"
      PROVE  /\ Append(s, start) \in Seq(Events)
             /\ WellFormed(Append(s, start), FALSE) /\ OpenAfter(Append(s, start)) = {m}
             /\ CallsFollow(s) => CallsFollow(Append(s, start))
  <2>1. EventFits(OpenAfter(s), start, FALSE) /\ start.kind \notin A2AKinds \cup ToolKinds
    BY <1>7, <1>8 DEF EventFits, A2AKinds, TaskStates, ToolKinds
  <2> QED BY <1>7, <1>8, <2>1, NoToolMore
<1> HIDE DEF content, start
<1>9. /\ WellFormed(u, FALSE) /\ OpenAfter(u) = {mapper'.open} \ {NoMessage}
      /\ surface = "ag_ui" => CallsFollow(u)
  <2>1. CASE surface = "a2a"
    <3>1. PICK k \in {"append", "artifact"} : pending' = <<Event(k, m, c)>>
      BY <1>2, <2>1 DEF MapTextDelta
    <3>2. Event(k, m, c) \in Events /\ Event(k, m, c).kind = k
      BY EventTyped DEF Kinds
    <3>3. /\ k \in A2AKinds /\ k \notin ToolKinds \cup {"text_start", "text_end"}
          /\ EventFits(OpenAfter(sent), Event(k, m, c), FALSE)
      BY <3>2 DEF A2AKinds, ToolKinds, EventFits
    <3>4. u = Append(sent, Event(k, m, c))
      BY <1>1, <1>3, <3>1, <3>2, Before, Appended
    <3>5. mapper'.open = mapper.open
      BY <1>1, <1>2, <2>1, Before DEF MapTextDelta
    <3>6. WellFormed(sent, FALSE) /\ sent \in Seq(Events)
      BY <1>1, <1>4, Before
    <3>7. WellFormed(u, FALSE) /\ OpenAfter(u) = OpenAfter(sent)
      BY <2>1, <3>2, <3>3, <3>4, <3>6, NoToolMore
    <3> QED BY <1>1, <2>1, <3>5, <3>7, Before
  <2>2. CASE surface = "ag_ui"
    <3>1. /\ mapper'.open = m /\ {m} \ {NoMessage} = {m}
          /\ pending' = (IF mapper.open \in Messages \ {m}
                         THEN <<Event("text_end", mapper.open, 0)>> ELSE <<>>)
                        \o (IF mapper.open # m THEN <<start>> ELSE <<>>)
                        \o <<content>>
      BY <1>1, <1>2, <1>4, <2>2, Before DEF MapTextDelta, start, content
    <3>2. sent \in Seq(Events) /\ WellFormed(sent, FALSE) /\ CallsFollow(sent)
          /\ OpenAfter(sent) = {mapper.open} \ {NoMessage}
      BY <1>1, <1>4, <2>2, Before
    <3>3. CASE mapper.open = m
      <4>1. u = Append(sent, content)
        <5>1. pending' = <<>> \o <<>> \o <<content>>
          BY <3>1, <3>3
        <5>2. \A q \in Seq(Events), e \in Events : q \o (<<>> \o <<>> \o <<e>>) = Append(q, e)
          OBVIOUS
        <5> QED BY <1>3, <1>5, <3>2, <5>1, <5>2
      <4> QED BY <1>4, <1>6, <2>2, <3>1, <3>2, <3>3, <4>1
    <3>4. CASE mapper.open = NoMessage
      <4>1. u = Append(Append(sent, start), content)
        <5>1. pending' = <<>> \o <<start>> \o <<content>>
          BY <1>4, <3>1, <3>4, ConstantsAssumption
        <5>2. \A q \in Seq(Events), d \in Events, e \in Events :
                 q \o (<<>> \o <<d>> \o <<e>>) = Append(Append(q, d), e)
          OBVIOUS
        <5> QED BY <1>3, <1>5, <1>7, <3>2, <5>1, <5>2
      <4> QED BY <1>6, <1>8, <2>2, <3>1, <3>2, <3>4, <4>1
    <3>5. CASE mapper.open \in Messages \ {m}
      <4> DEFINE end == Event("text_end", mapper.open, 0)
      <4>1. end \in Events /\ end.kind = "text_end" /\ end.id = mapper.open
        BY <3>5, EventTyped DEF Kinds, Event
      <4>2. OpenAfter(sent) = {mapper.open}
        BY <3>2, <3>5, ConstantsAssumption
      <4>3. /\ Append(sent, end) \in Seq(Events) /\ WellFormed(Append(sent, end), FALSE)
            /\ OpenAfter(Append(sent, end)) = {} /\ CallsFollow(Append(sent, end))
        <5>1. EventFits(OpenAfter(sent), end, FALSE) /\ end.kind \notin A2AKinds \cup ToolKinds
          BY <4>1, <4>2 DEF EventFits, A2AKinds, TaskStates, ToolKinds
        <5> QED BY <2>2, <3>2, <3>5, <4>1, <5>1, NoToolMore
      <4>4. u = Append(Append(Append(sent, end), start), content)
        <5>1. pending' = <<end>> \o <<start>> \o <<content>>
          BY <3>1, <3>5
        <5>2. \A q \in Seq(Events), d \in Events, e \in Events, f \in Events :
                 q \o (<<d>> \o <<e>> \o <<f>>) = Append(Append(Append(q, d), e), f)
          OBVIOUS
        <5>h. HIDE DEF end
        <5> QED BY <1>3, <1>5, <1>7, <3>2, <4>1, <5>1, <5>2
      <4> HIDE DEF end
      <4> QED BY <1>6, <1>8, <2>2, <3>1, <4>3, <4>4
    <3> QED BY <1>1, <3>3, <3>4, <3>5, Before
  <2> QED BY <1>1, <2>1, <2>2, Before
<1>10. CallsFollow(u) => CallsFollow(u)'
  BY <1>1 DEF CallsFollow, UnnamedOpen
<1>11. mapper'.terminal = FALSE
  BY <1>1, <1>2, <1>4, Before DEF MapTextDelta
<1> QED BY <1>1, <1>3, <1>9, <1>10, <1>11, FormStep

\* A call starts: its start is not ended, and an id made up is a new one.
LEMMA ToolStartForm ==
    \A t \in Tools, arguments \in BOOLEAN :
        IInv /\ FormInv /\ YieldToolStart(t, arguments) => FormInv'
<1> SUFFICES ASSUME NEW t \in Tools, NEW arguments \in BOOLEAN, IInv, FormInv,
                    YieldToolStart(t, arguments)
             PROVE  FormInv'
  OBVIOUS
<1>1. /\ pending = <<>> /\ run = "streaming" /\ run' = run /\ calls[t] = "new"
      /\ UNCHANGED <<surface, sdk, sent, mapper>>
  BY DEF YieldToolStart, SdkStep, Pulled
<1>2. PICK id : id = IF t \in Unnamed THEN minted + 1 ELSE t
  OBVIOUS
<1>3. /\ minted \in Nat /\ orphans \in Seq(Nat) /\ calls \in [Tools -> {"new", "open", "ended"}]
      /\ sdk \in {"deep_agents", "ms_agent_fw"} /\ id \in Tools \cup Nat
      /\ t \in Unnamed => id \in Nat /\ id \notin Tools
  <2>1. /\ minted \in Nat /\ orphans \in Seq(Nat) /\ calls \in [Tools -> {"new", "open", "ended"}]
        /\ sdk \in {"deep_agents", "ms_agent_fw"}
    BY DEF IInv, TypeOK
  <2>2. minted + 1 \in Nat /\ \A x \in Tools : x \notin Nat
    BY <2>1, ConstantsAssumption
  <2> QED BY <1>2, <2>1, <2>2
<1>4. PICK u : u = sent \o pending'
  OBVIOUS
<1> DEFINE start == Event("tool_start", id, 0)
           args == Event("tool_args", id, 0)
<1>5. /\ start \in Events /\ start.kind = "tool_start" /\ start.id = id
      /\ args \in Events /\ args.kind = "tool_args" /\ args.id = id
      /\ \A x : start = Event("tool_start", x, 0) <=> x = id
      /\ \A x : start # Event("tool_end", x, 0)
      /\ \A x : args # Event("tool_end", x, 0) /\ args # Event("tool_start", x, 0)
  BY <1>3, EventTyped DEF Kinds, Event
<1>6. MapToolEvents(<<start>> \o (IF arguments THEN <<args>> ELSE <<>>))
  BY <1>2 DEF YieldToolStart
<1> HIDE DEF start, args
<1>7. /\ sent \in Seq(Events) /\ WellFormed(sent, mapper.terminal)
      /\ OpenAfter(sent) = {mapper.open} \ {NoMessage}
      /\ surface = "ag_ui" => CallsFollow(sent)
      /\ surface \in {"a2a", "ag_ui"}
  BY <1>1, Before
<1>8. CASE surface = "a2a"
  <2>1. u = sent
    BY <1>4, <1>6, <1>7, <1>8 DEF MapToolEvents
  <2> QED BY <1>1, <1>4, <1>7, <1>8, <2>1, FormStep
<1>9. CASE surface = "ag_ui"
  <2>0. CallsFollow(sent)
    BY <1>7, <1>9
  <2>1. \A open, terminal : EventFits(open, start, terminal) /\ EventFits(open, args, terminal)
    BY <1>5 DEF EventFits, Finals
  <2>2. ~(surface = "a2a") /\ start.kind \notin A2AKinds /\ args.kind \notin A2AKinds
    BY <1>5, <1>9 DEF A2AKinds, TaskStates
  <2> DEFINE s == Append(sent, start)
  <2>3. /\ s \in Seq(Events) /\ WellFormed(s, mapper.terminal) /\ OpenAfter(s) = OpenAfter(sent)
        /\ \A x : Begun(s, x) <=> Begun(sent, x) \/ x = id
        /\ \A x : Closed(s, x) <=> Closed(sent, x)
    <3>1. ~PairedFrom(start)
      BY <1>5 DEF PairedFrom
    <3> QED BY <1>5, <1>7, <2>1, <2>2, <3>1, OneMore
  <2>4. sdk = "ms_agent_fw" \/ id \in Tools => ~Closed(sent, id)
    <3>1. CASE t \in Unnamed
      BY <1>2, <1>3, <2>0, <3>1 DEF CallsFollow
    <3>2. CASE t \notin Unnamed
      BY <1>1, <1>2, <2>0, <3>2 DEF CallsFollow
    <3> QED BY <3>1, <3>2
  <2>5. /\ WellFormed(u, mapper.terminal) /\ OpenAfter(u) = OpenAfter(sent)
        /\ \A x : Begun(u, x) <=> Begun(sent, x) \/ x = id
        /\ \A x : Closed(u, x) <=> Closed(sent, x)
    <3>1. CASE arguments
      <4>1. u = Append(s, args)
        <5>1. pending' = <<start>> \o <<args>>
          BY <1>6, <1>9, <3>1 DEF MapToolEvents
        <5>2. \A q \in Seq(Events), d \in Events, e \in Events :
                 q \o (<<d>> \o <<e>>) = Append(Append(q, d), e)
          OBVIOUS
        <5> QED BY <1>4, <1>5, <1>7, <5>1, <5>2
      <4>2. PairedFrom(args) => Begun(s, args.id) /\ ~Closed(s, args.id)
        BY <1>5, <2>3, <2>4 DEF PairedFrom
      <4> HIDE DEF s
      <4>3. EventFits(OpenAfter(s), args, mapper.terminal)
        BY <2>1
      <4> QED BY <1>5, <2>2, <2>3, <4>1, <4>2, <4>3, OneMore
    <3>2. CASE ~arguments
      <4>1. u = s
        <5>1. pending' = <<start>> \o <<>>
          BY <1>6, <1>9, <3>2 DEF MapToolEvents
        <5>2. \A q \in Seq(Events), d \in Events : q \o (<<d>> \o <<>>) = Append(q, d)
          OBVIOUS
        <5> QED BY <1>4, <1>5, <1>7, <5>1, <5>2
      <4> QED BY <2>3, <4>1
    <3> QED BY <3>1, <3>2
  <2>6. calls' = [calls EXCEPT ![t] = "open"]
    BY DEF YieldToolStart
  <2>7. \A v \in Tools \ Unnamed :
          /\ calls'[v] = "open" => Begun(u, v)
          /\ calls'[v] # "ended" => ~Closed(u, v)
    BY <1>1, <1>2, <1>3, <2>0, <2>4, <2>5, <2>6 DEF CallsFollow
  <2>8. ASSUME sdk = "ms_agent_fw"
        PROVE  /\ \A i \in DOMAIN orphans' :
                     orphans'[i] <= minted' /\ Begun(u, orphans'[i]) /\ ~Closed(u, orphans'[i])
               /\ \A i, j \in DOMAIN orphans' : i # j => orphans'[i] # orphans'[j]
               /\ \A x \in Nat : x > minted' => ~Closed(u, x)
               /\ IsFiniteSet(UnnamedOpen') /\ Cardinality(UnnamedOpen') = Len(orphans')
    <3>0. /\ \A i \in DOMAIN orphans :
                orphans[i] <= minted /\ Begun(sent, orphans[i]) /\ ~Closed(sent, orphans[i])
          /\ \A i, j \in DOMAIN orphans : i # j => orphans[i] # orphans[j]
          /\ \A x \in Nat : x > minted => ~Closed(sent, x)
          /\ IsFiniteSet(UnnamedOpen) /\ Cardinality(UnnamedOpen) = Len(orphans)
      BY <2>0, <2>8 DEF CallsFollow
    <3>1. CASE t \in Unnamed
      <4>1. minted' = minted + 1 /\ orphans' = Append(orphans, minted + 1) /\ id = minted + 1
        BY <1>2, <2>8, <3>1 DEF YieldToolStart
      <4>2. /\ Len(orphans) \in Nat /\ DOMAIN orphans = 1..Len(orphans)
            /\ DOMAIN orphans' = 1..(Len(orphans) + 1) /\ Len(orphans') = Len(orphans) + 1
            /\ orphans'[Len(orphans) + 1] = minted + 1
            /\ \A i \in 1..Len(orphans) : orphans'[i] = orphans[i] /\ orphans[i] \in Nat
        BY <1>3, <4>1
      <4>3. UnnamedOpen' = UnnamedOpen \cup {t} /\ t \notin UnnamedOpen
        BY <1>1, <1>3, <2>6, <3>1, ConstantsAssumption DEF UnnamedOpen
      <4>4. IsFiniteSet(UnnamedOpen') /\ Cardinality(UnnamedOpen') = Len(orphans')
        BY <3>0, <4>2, <4>3, FS_AddElement
      <4>5. \A i \in 1..Len(orphans) : orphans[i] <= minted + 1 /\ orphans[i] # minted + 1
        BY <1>3, <3>0, <4>2
      <4>6. \A i \in DOMAIN orphans' :
               orphans'[i] <= minted' /\ Begun(u, orphans'[i]) /\ ~Closed(u, orphans'[i])
        <5> SUFFICES ASSUME NEW i \in 1..(Len(orphans) + 1)
                     PROVE  orphans'[i] <= minted' /\ Begun(u, orphans'[i]) /\ ~Closed(u, orphans'[i])
          BY <4>2
        <5>1. CASE i = Len(orphans) + 1
          BY <1>3, <2>4, <2>5, <2>8, <4>1, <4>2, <5>1
        <5>2. CASE i \in 1..Len(orphans)
          BY <2>5, <3>0, <4>1, <4>2, <4>5, <5>2
        <5> QED BY <4>2, <5>1, <5>2
      <4>7. \A i, j \in DOMAIN orphans' : i # j => orphans'[i] # orphans'[j]
        <5> SUFFICES ASSUME NEW i \in 1..(Len(orphans) + 1), NEW j \in 1..(Len(orphans) + 1), i # j
                     PROVE  orphans'[i] # orphans'[j]
          BY <4>2
        <5>1. i \in 1..Len(orphans) \/ i = Len(orphans) + 1
          BY <4>2
        <5>2. j \in 1..Len(orphans) \/ j = Len(orphans) + 1
          BY <4>2
        <5> QED BY <3>0, <4>2, <4>5, <5>1, <5>2
      <4>8. \A x \in Nat : x > minted' => ~Closed(u, x)
        BY <1>3, <2>5, <3>0, <4>1
      <4> QED BY <4>4, <4>6, <4>7, <4>8
    <3>2. CASE t \notin Unnamed
      <4>1. minted' = minted /\ orphans' = orphans
        BY <3>2 DEF YieldToolStart
      <4>2. UnnamedOpen' = UnnamedOpen
        BY <1>3, <2>6, <3>2, ConstantsAssumption DEF UnnamedOpen
      <4> QED BY <2>5, <3>0, <4>1, <4>2
    <3> QED BY <3>1, <3>2
  <2>9. CallsFollow(u)'
    BY <1>1, <2>7, <2>8 DEF CallsFollow
  <2> QED BY <1>1, <1>4, <1>7, <2>5, <2>9, FormStep
<1> QED BY <1>7, <1>8, <1>9

\* A call ends: what it ends was begun, because every call without an id has an orphan.
LEMMA ToolEndForm == \A t \in Tools : IInv /\ FormInv /\ YieldToolEnd(t) => FormInv'
<1> SUFFICES ASSUME NEW t \in Tools, IInv, FormInv, YieldToolEnd(t) PROVE FormInv'
  OBVIOUS
<1>1. /\ pending = <<>> /\ run = "streaming" /\ run' = run /\ calls[t] = "open"
      /\ calls' = [calls EXCEPT ![t] = "ended"]
      /\ UNCHANGED <<surface, sdk, sent, mapper>>
  BY DEF YieldToolEnd, SdkStep, Pulled
<1>2. PICK id :
        /\ MapToolEvents(<<Event("tool_end", id, 0)>>)
        /\ \/ t \notin Unnamed /\ id = t /\ orphans' = orphans /\ minted' = minted
           \/ t \in Unnamed /\ orphans # <<>> /\ id = Head(orphans)
                /\ orphans' = Tail(orphans) /\ minted' = minted
           \/ t \in Unnamed /\ orphans = <<>> /\ id = minted + 1
                /\ orphans' = orphans /\ minted' = minted + 1
  BY DEF YieldToolEnd
<1>3. /\ minted \in Nat /\ orphans \in Seq(Nat) /\ calls \in [Tools -> {"new", "open", "ended"}]
      /\ sdk \in {"deep_agents", "ms_agent_fw"}
  BY DEF IInv, TypeOK
<1>4. /\ id \in Tools \cup Nat
      /\ t \in Unnamed => id \in Nat /\ id \notin Tools
      /\ Len(orphans) \in Nat /\ DOMAIN orphans = 1..Len(orphans)
      /\ \A i \in 1..Len(orphans) : orphans[i] \in Nat /\ orphans[i] \notin Tools
  <2>1. minted + 1 \in Nat /\ (orphans # <<>> => Head(orphans) \in Nat)
    BY <1>3, HeadTailProperties
  <2>2. \A x \in Tools : x \notin Nat
    BY ConstantsAssumption
  <2>3. /\ Len(orphans) \in Nat /\ DOMAIN orphans = 1..Len(orphans)
        /\ \A i \in 1..Len(orphans) : orphans[i] \in Nat
    BY <1>3, LenProperties
  <2> QED BY <1>2, <2>1, <2>2, <2>3
<1>5. PICK u : u = sent \o pending'
  OBVIOUS
<1> DEFINE end == Event("tool_end", id, 0)
<1>6. /\ end \in Events /\ end.kind = "tool_end" /\ end.id = id
      /\ \A x : end = Event("tool_end", x, 0) <=> x = id
      /\ \A x : end # Event("tool_start", x, 0)
  BY <1>4, EventTyped DEF Kinds, Event
<1>7. MapToolEvents(<<end>>)
  BY <1>2
<1> HIDE DEF end
<1>8. /\ sent \in Seq(Events) /\ WellFormed(sent, mapper.terminal)
      /\ OpenAfter(sent) = {mapper.open} \ {NoMessage}
      /\ surface = "ag_ui" => CallsFollow(sent)
      /\ surface \in {"a2a", "ag_ui"}
  BY <1>1, Before
<1>9. CASE surface = "a2a"
  <2>1. u = sent
    BY <1>5, <1>7, <1>8, <1>9 DEF MapToolEvents
  <2> QED BY <1>1, <1>5, <1>8, <1>9, <2>1, FormStep
<1>10. CASE surface = "ag_ui"
  <2>1. CallsFollow(sent)
    BY <1>8, <1>10
  <2>2. ASSUME sdk = "ms_agent_fw"
        PROVE  /\ \A i \in 1..Len(orphans) :
                     orphans[i] <= minted /\ Begun(sent, orphans[i]) /\ ~Closed(sent, orphans[i])
               /\ \A i, j \in 1..Len(orphans) : i # j => orphans[i] # orphans[j]
               /\ \A x \in Nat : x > minted => ~Closed(sent, x)
               /\ IsFiniteSet(UnnamedOpen) /\ Cardinality(UnnamedOpen) = Len(orphans)
    BY <1>4, <2>1, <2>2 DEF CallsFollow
  <2>3. sdk = "ms_agent_fw" /\ t \in Unnamed => orphans # <<>>
    <3> SUFFICES ASSUME sdk = "ms_agent_fw", t \in Unnamed, orphans = <<>> PROVE FALSE
      OBVIOUS
    <3>1. IsFiniteSet(UnnamedOpen) /\ Cardinality(UnnamedOpen) = 0
      BY <2>2
    <3>2. t \in UnnamedOpen
      BY <1>1 DEF UnnamedOpen
    <3> QED BY <3>1, <3>2, FS_EmptySet
  <2>4. PairedFrom(end) => Begun(sent, id) /\ ~Closed(sent, id)
    <3>1. CASE t \notin Unnamed
      BY <1>1, <1>2, <2>1, <3>1 DEF CallsFollow
    <3>2. CASE t \in Unnamed
      <4>1. PairedFrom(end) => sdk = "ms_agent_fw"
        BY <1>4, <1>6, <3>2 DEF PairedFrom
      <4>2. orphans # <<>> => Head(orphans) = orphans[1] /\ 1 \in 1..Len(orphans)
        BY <1>3, <1>4, HeadTailProperties, EmptySeq
      <4> QED BY <1>2, <2>2, <2>3, <3>2, <4>1, <4>2
    <3> QED BY <3>1, <3>2
  <2>5. u = Append(sent, end)
    BY <1>5, <1>6, <1>7, <1>8, <1>10, Appended DEF MapToolEvents
  <2>6. /\ WellFormed(u, mapper.terminal) /\ OpenAfter(u) = OpenAfter(sent)
        /\ \A x : Begun(u, x) <=> Begun(sent, x)
        /\ \A x : Closed(u, x) <=> Closed(sent, x) \/ x = id
    <3>1. EventFits(OpenAfter(sent), end, mapper.terminal) /\ end.kind \notin A2AKinds
      BY <1>6 DEF EventFits, Finals, A2AKinds, TaskStates
    <3> QED BY <1>6, <1>8, <1>10, <2>4, <2>5, <3>1, OneMore
  <2>7. \A v \in Tools \ Unnamed :
          /\ calls'[v] = "open" => Begun(u, v)
          /\ calls'[v] # "ended" => ~Closed(u, v)
    BY <1>1, <1>2, <1>3, <1>4, <2>1, <2>6 DEF CallsFollow
  <2>8. ASSUME sdk = "ms_agent_fw"
        PROVE  /\ \A i \in DOMAIN orphans' :
                     orphans'[i] <= minted' /\ Begun(u, orphans'[i]) /\ ~Closed(u, orphans'[i])
               /\ \A i, j \in DOMAIN orphans' : i # j => orphans'[i] # orphans'[j]
               /\ \A x \in Nat : x > minted' => ~Closed(u, x)
               /\ IsFiniteSet(UnnamedOpen') /\ Cardinality(UnnamedOpen') = Len(orphans')
    <3>1. CASE t \notin Unnamed
      <4>1. id = t /\ orphans' = orphans /\ minted' = minted
        BY <1>2, <3>1
      <4>2. UnnamedOpen' = UnnamedOpen
        BY <1>1, <1>3, <3>1, ConstantsAssumption DEF UnnamedOpen
      <4>3. t \notin Nat
        BY ConstantsAssumption
      <4> QED BY <1>4, <2>2, <2>6, <2>8, <4>1, <4>2, <4>3
    <3>2. CASE t \in Unnamed
      <4>1. orphans # <<>> /\ id = Head(orphans) /\ orphans' = Tail(orphans) /\ minted' = minted
        BY <1>2, <2>3, <2>8, <3>2
      <4>2. /\ id = orphans[1] /\ 1 \in 1..Len(orphans)
            /\ Len(orphans') = Len(orphans) - 1 /\ DOMAIN orphans' = 1..(Len(orphans) - 1)
            /\ \A i \in 1..(Len(orphans) - 1) : orphans'[i] = orphans[i + 1]
        <5>1. Tail(orphans) \in Seq(Nat) /\ Len(Tail(orphans)) = Len(orphans) - 1
              /\ Head(orphans) = orphans[1]
          BY <1>3, <4>1, HeadTailProperties
        <5>2. 1 \in 1..Len(orphans)
          BY <1>3, <1>4, <4>1, EmptySeq
        <5>3. DOMAIN Tail(orphans) = 1..(Len(orphans) - 1)
          BY <5>1, LenProperties
        <5>4. \A i \in 1..(Len(orphans) - 1) : Tail(orphans)[i] = orphans[i + 1]
          BY <1>3, <4>1, <5>1, HeadTailProperties
        <5> QED BY <4>1, <5>1, <5>2, <5>3, <5>4
      <4>3. UnnamedOpen' = UnnamedOpen \ {t} /\ t \in UnnamedOpen
        BY <1>1, <1>3, <3>2, ConstantsAssumption DEF UnnamedOpen
      <4>4. IsFiniteSet(UnnamedOpen') /\ Cardinality(UnnamedOpen') = Len(orphans')
        BY <2>2, <2>8, <4>2, <4>3, FS_RemoveElement
      <4>5. \A i \in 1..(Len(orphans) - 1) : i + 1 \in 1..Len(orphans) /\ i + 1 # 1
        BY <1>4
      <4>6. \A i \in DOMAIN orphans' :
               orphans'[i] <= minted' /\ Begun(u, orphans'[i]) /\ ~Closed(u, orphans'[i])
        BY <2>2, <2>6, <2>8, <4>1, <4>2, <4>5
      <4>7. \A i, j \in DOMAIN orphans' : i # j => orphans'[i] # orphans'[j]
        BY <1>4, <2>2, <2>8, <4>2, <4>5
      <4>8. \A x \in Nat : x > minted' => ~Closed(u, x)
        <5>1. id \in Nat /\ id <= minted
          BY <1>4, <2>2, <2>8, <4>2
        <5> QED BY <1>3, <2>2, <2>6, <2>8, <4>1, <5>1
      <4> QED BY <4>4, <4>6, <4>7, <4>8
    <3> QED BY <3>1, <3>2
  <2>9. CallsFollow(u)'
    BY <1>1, <2>7, <2>8 DEF CallsFollow
  <2> QED BY <1>1, <1>5, <1>8, <2>6, <2>9, FormStep
<1> QED BY <1>8, <1>9, <1>10

LEMMA NextForm == IInv /\ FormInv /\ [Next]_vars => FormInv'
<1> SUFFICES ASSUME IInv, FormInv, [Next]_vars PROVE FormInv'
  OBVIOUS
<1>0. /\ {"working", "run_started", "failed", "run_error", "suspended", "completed", "run_finished"}
             \subseteq Kinds \ (TextKinds \cup ToolKinds)
      /\ {"working", "failed", "suspended", "completed", "input_required"} \subseteq A2AKinds
      /\ "run_started" \notin A2AKinds /\ "run_error" \notin A2AKinds
      /\ {"run_finished", "run_error"} = Finals /\ "working" \notin Finals /\ "run_started" \notin Finals
  BY DEF Kinds, TextKinds, ToolKinds, A2AKinds, TaskStates, Finals
<1>s. surface \in {"a2a", "ag_ui"}
  BY DEF IInv, TypeOK
<1>1. CASE Read
  BY <1>1, ReadForm
<1>2. CASE HarnessStep
  <2>1. CASE YieldRunStarted
    <3>1. PICK k : k = IF surface = "a2a" THEN "working" ELSE "run_started"
      OBVIOUS
    <3>2. /\ pending = <<>> /\ pending' = <<Signal(k)>> /\ run # "over"
          /\ UNCHANGED <<surface, sdk, sent, mapper, calls, orphans, minted>>
      BY <2>1, <3>1 DEF YieldRunStarted, MapRunStarted, Pulled
    <3> QED BY <1>0, <1>s, <3>1, <3>2, SignalForm
  <2>2. ASSUME NEW m \in Messages, YieldText(m) PROVE FormInv'
    BY <2>2, TextForm
  <2>3. ASSUME NEW t \in Tools, NEW arguments \in BOOLEAN, YieldToolStart(t, arguments)
        PROVE  FormInv'
    BY <2>3, ToolStartForm
  <2>4. ASSUME NEW t \in Tools, YieldToolEnd(t) PROVE FormInv'
    BY <2>4, ToolEndForm
  <2>5. ASSUME NEW class \in ErrorClasses, YieldError(class) PROVE FormInv'
    <3>1. PICK verdict : verdict = IF surface = "a2a" THEN A2AError(class) ELSE <<Signal("run_error")>>
      OBVIOUS
    <3>2. /\ pending = <<>> /\ run = "streaming" /\ MapRunFinished(verdict)
          /\ UNCHANGED <<surface, sdk, sent, calls, orphans, minted>>
      BY <2>5, <3>1 DEF YieldError, Pulled
    <3>3. surface = "a2a" => \E k \in A2AKinds : \/ verdict = <<Signal(k)>>
                                                \/ verdict = <<Signal("input_required"), Signal(k)>>
      BY <1>0, <3>1 DEF A2AError
    <3> QED BY <1>0, <3>1, <3>2, <3>3, FinishForm
  <2>6. CASE Reraise \/ CloseFails
    <3>1. /\ pending = <<>> /\ run # "over" /\ Raise
          /\ UNCHANGED <<surface, sdk, sent, mapper, calls, orphans, minted>>
      BY <2>6 DEF Reraise, CloseFails, Raise, Pulled
    <3>2. CASE mapper.terminal
      BY <3>1, <3>2, SilentForm DEF Raise
    <3>3. CASE ~mapper.terminal
      <4>1. PICK k : k = IF surface = "a2a" THEN "failed" ELSE "run_error"
        OBVIOUS
      <4>2. pending' = <<Signal(k)>>
        BY <3>1, <3>3, <4>1 DEF Raise
      <4> QED BY <1>0, <1>s, <3>1, <3>3, <4>1, <4>2, SignalForm
    <3> QED BY <3>2, <3>3
  <2>7. CASE Drain \/ Return
    <3>1. /\ pending = <<>> /\ pending' = <<>> /\ run # "over"
          /\ UNCHANGED <<surface, sdk, sent, mapper, calls, orphans, minted>>
      BY <2>7 DEF Drain, Return, Pulled
    <3> QED BY <3>1, SilentForm
  <2>8. CASE YieldFinished
    <3>1. PICK verdict : verdict = <<Signal(IF surface = "a2a" THEN "completed" ELSE "run_finished")>>
      OBVIOUS
    <3>2. /\ pending = <<>> /\ run = "capturing" /\ MapRunFinished(verdict)
          /\ UNCHANGED <<surface, sdk, sent, calls, orphans, minted>>
      BY <2>8, <3>1 DEF YieldFinished, Pulled
    <3> QED BY <1>0, <3>1, <3>2, FinishForm
  <2> QED BY <1>2, <2>1, <2>2, <2>3, <2>4, <2>5, <2>6, <2>7, <2>8 DEF HarnessStep
<1>3. CASE Disconnect
  BY <1>3, DisconnectForm
<1>4. CASE UNCHANGED vars
  BY <1>4 DEF vars, harness, FormInv, GoesOn, WellFormed, OfSurface, Paired, PairedFrom, CallsFollow,
              UnnamedOpen
<1> QED BY <1>1, <1>2, <1>3, <1>4 DEF Next, Over

-----------------------------------------------------------------------------
(* The stored task is complete                                             *)

ArtifactKinds == {"artifact", "append"}

\* The task holds all that was said, or all but the one chunk that is pending.
Stored ==
    task.artifacts = said /\ \A i \in DOMAIN pending : pending[i].kind \notin ArtifactKinds
Storing ==
    \E m \in Messages, c \in Nat, k \in ArtifactKinds :
        /\ pending = <<Event(k, m, c)>>
        /\ said = [task.artifacts EXCEPT ![m] = Append(@, c)]
        /\ k = "artifact" => task.artifacts[m] = <<>>
StoreInv ==
    surface = "a2a" /\ reading =>
        /\ Stored \/ Storing
        /\ \A m \in Messages \ mapper.seen : said[m] = <<>>

LEMMA InitStore == Init => StoreInv
BY SignalTyped DEF Init, StoreInv, Stored, ArtifactKinds, Kinds

LEMMA ReadStore == IInv /\ StoreInv /\ Read => StoreInv'
<1> SUFFICES ASSUME IInv, StoreInv, Read, surface = "a2a"
             PROVE  (Stored \/ Storing)' /\ \A m \in Messages \ mapper'.seen : said'[m] = <<>>
  BY DEF StoreInv, Read
<1>1. /\ pending \in Seq(Events) /\ pending # <<>>
      /\ pending' = Tail(pending) /\ task' = Apply(Head(pending))
      /\ UNCHANGED <<mapper, said>> /\ reading
      /\ task \in [state : TaskStates, artifacts : [Messages -> Seq(Nat)]]
  BY DEF IInv, TypeOK, Read, harness
<1>2. CASE Stored
  <2>1. Head(pending).kind \notin ArtifactKinds
    <3>1. 1 \in DOMAIN pending /\ Head(pending) = pending[1]
      BY <1>1, HeadTailProperties, EmptySeq, LenProperties
    <3> QED BY <1>2, <3>1 DEF Stored
  <2>2. task'.artifacts = task.artifacts
    BY <1>1, <2>1 DEF Apply, ArtifactKinds
  <2>3. \A i \in DOMAIN Tail(pending) : Tail(pending)[i].kind \notin ArtifactKinds
    <3>1. /\ Len(pending) \in Nat /\ DOMAIN pending = 1..Len(pending)
          /\ DOMAIN Tail(pending) = 1..(Len(pending) - 1)
          /\ \A i \in 1..(Len(pending) - 1) : Tail(pending)[i] = pending[i + 1]
      <4>1. Tail(pending) \in Seq(Events) /\ Len(Tail(pending)) = Len(pending) - 1
        BY <1>1, HeadTailProperties
      <4> QED BY <1>1, <4>1, HeadTailProperties, LenProperties
    <3> QED BY <1>2, <3>1 DEF Stored
  <2> QED BY <1>1, <1>2, <2>2, <2>3 DEF Stored, StoreInv
<1>3. CASE Storing
  <2>1. PICK m \in Messages, c \in Nat, k \in ArtifactKinds :
           /\ pending = <<Event(k, m, c)>>
           /\ said = [task.artifacts EXCEPT ![m] = Append(@, c)]
           /\ k = "artifact" => task.artifacts[m] = <<>>
    BY <1>3 DEF Storing
  <2>2. /\ Head(pending) = Event(k, m, c) /\ Tail(pending) = <<>>
        /\ Event(k, m, c).kind = k /\ Event(k, m, c).id = m /\ Event(k, m, c).chunk = c
    BY <2>1 DEF Event
  <2>3. CASE k = "artifact"
    <3>1. task' = [task EXCEPT !.artifacts[m] = <<c>>]
      BY <1>1, <2>2, <2>3 DEF Apply
    <3>2. <<c>> = Append(<<>>, c)
      OBVIOUS
    <3>3. task'.artifacts = [task.artifacts EXCEPT ![m] = <<c>>]
      BY <1>1, <3>1
    <3>4. task'.artifacts = said
      BY <1>1, <2>1, <2>3, <3>2, <3>3
    <3> QED BY <1>1, <2>2, <3>4 DEF Stored, StoreInv
  <2>4. CASE k = "append"
    <3>1. task' = [task EXCEPT !.artifacts[m] = Append(@, c)]
      BY <1>1, <2>2, <2>4 DEF Apply
    <3>2. task'.artifacts = said
      BY <1>1, <2>1, <3>1
    <3> QED BY <1>1, <2>2, <3>2 DEF Stored, StoreInv
  <2> QED BY <2>3, <2>4 DEF ArtifactKinds
<1> QED BY <1>1, <1>2, <1>3 DEF StoreInv

\* A step of the harness that yields no text.
LEMMA OtherStore ==
    ASSUME IInv, StoreInv, pending = <<>>,
           surface = "a2a" => \A i \in DOMAIN pending' : pending'[i].kind \notin ArtifactKinds,
           UNCHANGED <<surface, reading, task, said>>, mapper'.seen = mapper.seen
    PROVE  StoreInv'
<1>1. ~Storing
  BY DEF Storing
<1> QED BY <1>1 DEF StoreInv, Stored

LEMMA TextStore == \A m \in Messages : IInv /\ StoreInv /\ YieldText(m) => StoreInv'
<1> SUFFICES ASSUME NEW m \in Messages, IInv, StoreInv, YieldText(m), surface = "a2a"
             PROVE  Storing' /\ \A x \in Messages \ mapper'.seen : said'[x] = <<>>
  BY DEF StoreInv, YieldText, SdkStep
<1>1. /\ pending = <<>> /\ reading /\ task' = task
      /\ said' = [said EXCEPT ![m] = Append(@, steps + 1)]
      /\ MapTextDelta(m, steps + 1) /\ steps + 1 \in Nat
      /\ mapper \in [open : Messages \cup {NoMessage}, seen : SUBSET Messages, terminal : BOOLEAN]
      /\ said \in [Messages -> Seq(Nat)]
  BY SdkStepTyped DEF YieldText, SdkStep, Pulled, IInv, TypeOK
<1>2. task.artifacts = said /\ \A x \in Messages \ mapper.seen : said[x] = <<>>
  <2>1. ~Storing
    BY <1>1 DEF Storing
  <2> QED BY <1>1, <2>1 DEF StoreInv, Stored
<1>3. PICK k \in ArtifactKinds :
         /\ pending' = <<Event(k, m, steps + 1)>>
         /\ k = "artifact" => m \notin mapper.seen
  BY <1>1 DEF MapTextDelta, ArtifactKinds
<1>4. mapper'.seen = mapper.seen \cup {m}
  BY <1>1 DEF MapTextDelta
<1>5. Storing'
  BY <1>1, <1>2, <1>3 DEF Storing
<1> QED BY <1>1, <1>2, <1>4, <1>5

LEMMA NextStore == IInv /\ StoreInv /\ [Next]_vars => StoreInv'
<1> SUFFICES ASSUME IInv, StoreInv, [Next]_vars PROVE StoreInv'
  OBVIOUS
<1>0. mapper \in [open : Messages \cup {NoMessage}, seen : SUBSET Messages, terminal : BOOLEAN]
  BY DEF IInv, TypeOK
<1>k. \A k \in Kinds \ ArtifactKinds : \A i \in DOMAIN <<Signal(k)>> :
          <<Signal(k)>>[i].kind \notin ArtifactKinds
  BY SignalTyped
<1>1. CASE Read
  BY <1>1, ReadStore
<1>2. ASSUME NEW m \in Messages, YieldText(m) PROVE StoreInv'
  BY <1>2, TextStore
<1>3. ASSUME HarnessStep, \A m \in Messages : ~YieldText(m) PROVE StoreInv'
  <2>1. pending = <<>> /\ UNCHANGED <<surface, reading, task, said>>
    BY <1>3 DEF HarnessStep, YieldRunStarted, SdkStep, YieldToolStart, YieldToolEnd, YieldError,
                Reraise, CloseFails, Raise, Drain, YieldFinished, Return, Pulled
  <2>2. mapper'.seen = mapper.seen
    BY <1>0, <1>3 DEF HarnessStep, YieldRunStarted, SdkStep, YieldToolStart, YieldToolEnd,
                YieldError, MapRunFinished, Reraise, CloseFails, Raise, Drain, YieldFinished, Return
  <2>3. ASSUME surface = "a2a"
        PROVE  \A i \in DOMAIN pending' : pending'[i].kind \notin ArtifactKinds
    <3>0. {"working", "failed", "suspended", "completed", "input_required"} \subseteq Kinds \ ArtifactKinds
      BY DEF Kinds, ArtifactKinds
    <3>1. \/ pending' = <<>>
          \/ \E k \in {"working", "failed", "suspended", "completed"} : pending' = <<Signal(k)>>
          \/ pending' = <<Signal("input_required"), Signal("failed")>>
      <4>1. CASE YieldRunStarted
        BY <2>3, <4>1 DEF YieldRunStarted, MapRunStarted
      <4>2. ASSUME NEW t \in Tools, NEW arguments \in BOOLEAN, YieldToolStart(t, arguments)
            PROVE  pending' = <<>>
        BY <2>3, <4>2 DEF YieldToolStart, MapToolEvents
      <4>3. ASSUME NEW t \in Tools, YieldToolEnd(t) PROVE pending' = <<>>
        BY <2>3, <4>3 DEF YieldToolEnd, MapToolEvents
      <4>4. ASSUME NEW class \in ErrorClasses, YieldError(class) PROVE pending' = A2AError(class)
        BY <2>3, <4>4 DEF YieldError, MapRunFinished
      <4>5. ASSUME NEW class \in ErrorClasses
            PROVE  \/ \E k \in {"failed", "suspended"} : A2AError(class) = <<Signal(k)>>
                   \/ A2AError(class) = <<Signal("input_required"), Signal("failed")>>
        BY <4>5 DEF A2AError
      <4>6. CASE Reraise \/ CloseFails
        BY <2>3, <4>6 DEF Reraise, CloseFails, Raise
      <4>7. CASE Drain \/ Return
        BY <2>1, <4>7 DEF Drain, Return
      <4>8. CASE YieldFinished
        BY <2>3, <4>8 DEF YieldFinished, MapRunFinished
      <4> QED BY <1>3, <4>1, <4>2, <4>3, <4>4, <4>5, <4>6, <4>7, <4>8 DEF HarnessStep
    <3>2. CASE pending' = <<>>
      BY <3>2
    <3>3. ASSUME NEW k \in {"working", "failed", "suspended", "completed"}, pending' = <<Signal(k)>>
          PROVE  \A i \in DOMAIN pending' : pending'[i].kind \notin ArtifactKinds
      BY <1>k, <3>0, <3>3
    <3>4. CASE pending' = <<Signal("input_required"), Signal("failed")>>
      BY <3>0, <3>4, SignalTyped
    <3> QED BY <3>1, <3>2, <3>3, <3>4
  <2> QED BY <2>1, <2>2, <2>3, OtherStore
<1>4. CASE Disconnect
  BY <1>4 DEF Disconnect, StoreInv
<1>5. CASE UNCHANGED vars
  BY <1>5 DEF vars, harness, StoreInv, Stored, Storing
<1> QED BY <1>1, <1>2, <1>3, <1>4, <1>5 DEF Next, Over

\* What the client reads is well formed for any messages, calls and interleaving of
\* their events: text in brackets that never overlap, the events of a call after its
\* start and before its end, and in the stored task every chunk, once and in order.
THEOREM StreamsWellFormed == Spec => []StreamWellFormed
<1>1. IInv /\ FormInv => MessagesBracketed /\ CallsPaired
  <2> SUFFICES ASSUME IInv, FormInv PROVE MessagesBracketed /\ CallsPaired
    OBVIOUS
  <2>1. WellFormed(sent, mapper.terminal)
    BY Prefix DEF IInv, TypeOK, FormInv
  <2>2. MessagesBracketed
    BY <2>1 DEF WellFormed, Bracketed, EventFits, OpenIn, Finals, MessagesBracketed, OpenBefore
  <2>3. CallsPaired
    BY <2>1 DEF WellFormed, Paired, PairedFrom, CallsPaired
  <2> QED BY <2>2, <2>3
<1>2. StoreInv => ArtifactsComplete
  BY DEF StoreInv, Stored, Storing, ArtifactsComplete
<1>3. IInv /\ FormInv /\ StoreInv => StreamWellFormed
  BY <1>1, <1>2 DEF StreamWellFormed
<1>4. Spec => []FormInv
  BY InitForm, NextForm, Invariance, PTL DEF Spec
<1>5. Spec => []StoreInv
  BY InitStore, NextStore, Invariance, PTL DEF Spec
<1> QED BY <1>3, <1>4, <1>5, Invariance, PTL

=============================================================================
