------------------------------ MODULE LoadRun ------------------------------
(***************************************************************************)
(* What a load run promises about its batches, whatever goroutines and     *)
(* channels it is made of: a batch is queued, exported and counted at most *)
(* once, in this order; only an interrupted run loses the result of an     *)
(* export; and the verdict of the run agrees with what was counted.        *)
(***************************************************************************)
CONSTANT Batches

VARIABLES
    life,     \* how far each batch has come
    verdict   \* "running", then the error Run returned, "none" if it is nil

vars == <<life, verdict>>

InFlight == {"exporting", "ok", "failed"}
Lives    == InFlight \cup {"none", "queued", "countedOk", "countedFailed", "lost"}

Init == life = [b \in Batches |-> "none"] /\ verdict = "running"

Move(b, from, to) ==
    /\ verdict = "running"
    /\ life[b] = from
    /\ life' = [life EXCEPT ![b] = to]
    /\ UNCHANGED verdict

Queue(b)  == Move(b, "none", "queued")
Export(b) == Move(b, "queued", "exporting")
Answer(b) == Move(b, "exporting", "ok") \/ Move(b, "exporting", "failed")
Tally(b)  == Move(b, "ok", "countedOk") \/ Move(b, "failed", "countedFailed")
Drop(b)   == Move(b, "ok", "lost") \/ Move(b, "failed", "lost")

\* no verdict while an export is under way; a nil error means that every queued
\* batch was exported and counted as a success, an export error that a failure
\* was counted, and a counted failure that the error is not nil
End(err) ==
    /\ verdict = "running"
    /\ \A b \in Batches : life[b] \notin InFlight
    /\ err = "none" => \A b \in Batches : life[b] \in {"none", "countedOk"}
    /\ err = "export" => \E b \in Batches : life[b] = "countedFailed"
    /\ verdict' = err
    /\ UNCHANGED life

Next ==
    \/ \E b \in Batches : Queue(b) \/ Export(b) \/ Answer(b) \/ Tally(b) \/ Drop(b)
    \/ \E err \in {"none", "canceled", "stage", "init", "export"} : End(err)

Spec == Init /\ [][Next]_vars
=============================================================================
