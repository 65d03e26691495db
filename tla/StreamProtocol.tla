--------------------------- MODULE StreamProtocol ---------------------------
(***************************************************************************)
(* What the stream of one turn promises its reader, whatever the protocol: *)
(* events while the turn runs, then one verdict, which is true and is the  *)
(* last event; a reader that stays is told.  (The terminal guarantee of    *)
(* src/assistant/a2a/task_handler.py and of src/assistant/web/routes.py.)  *)
(***************************************************************************)
EXTENDS Naturals

VARIABLES
    outcome,  \* how the turn went, "running" until that is settled
    events,   \* how many events the reader received
    verdict,  \* what the reader was told about the turn, "none" until then
    reading   \* the reader is still there

vars == <<outcome, events, verdict, reading>>

Verdicts(o) == CASE o = "succeeded" -> {"completed"}
                 [] o = "failed"    -> {"failed", "suspended"}
                 [] OTHER           -> {}

Init ==
    /\ outcome = "running"
    /\ events = 0
    /\ verdict = "none"
    /\ reading = TRUE

Settle ==
    /\ outcome = "running" /\ reading
    /\ outcome' \in {"succeeded", "failed"}
    /\ UNCHANGED <<events, verdict, reading>>

Emit ==
    /\ verdict = "none" /\ reading
    /\ events' = events + 1
    /\ UNCHANGED <<outcome, verdict, reading>>

Tell ==
    /\ verdict = "none" /\ reading
    /\ verdict' \in Verdicts(outcome)
    /\ events' = events + 1
    /\ UNCHANGED <<outcome, reading>>

\* The reader goes; a turn still running ends unheard.
Leave ==
    /\ reading
    /\ reading' = FALSE
    /\ outcome' \in {outcome, "abandoned"}
    /\ outcome # "running" => outcome' = outcome
    /\ UNCHANGED <<events, verdict>>

Next == Settle \/ Emit \/ Tell \/ Leave

Spec == Init /\ [][Next]_vars

FairSpec == Spec /\ WF_vars(Settle) /\ WF_vars(Tell)

=============================================================================
