--------------------------- MODULE EventLifecycle ---------------------------
(***************************************************************************)
(* What the event detector of one axis promises, whatever its registers    *)
(* look like: an event is recorded, then either dropped as too short or     *)
(* followed by exactly Post samples and written to one file.  A recording  *)
(* that exceeds Capacity is lost, and the detector with it.  EventDetector *)
(* implements this specification.                                          *)
(***************************************************************************)
EXTENDS Naturals

CONSTANTS
    Post,      \* samples a file holds after the event
    Capacity   \* samples of an event that can be held

VARIABLES
    phase,  \* what the detector is doing
    event,  \* samples of the current event
    post    \* samples taken after it

lvars == <<phase, event, post>>

Phases == {"warmup", "listening", "recording", "closing", "pending", "lost"}

Init == phase = "warmup" /\ event = 0 /\ post = 0

(* The long-term window has been filled for the first time.                 *)
WarmedUp == phase = "warmup" /\ phase' = "listening" /\ UNCHANGED <<event, post>>

Begin == phase = "listening" /\ phase' = "recording" /\ event' = 1 /\ UNCHANGED post

Extend ==
    /\ phase = "recording"
    /\ event < Capacity
    /\ event' = event + 1
    /\ UNCHANGED <<phase, post>>

TooShort == phase = "recording" /\ phase' = "listening" /\ event' = 0 /\ UNCHANGED post

Over == phase = "recording" /\ phase' = "closing" /\ UNCHANGED <<event, post>>

Lose ==
    /\ phase = "recording"
    /\ event = Capacity
    /\ phase' = "lost"
    /\ UNCHANGED <<event, post>>

Follow ==
    /\ phase = "closing"
    /\ post < Post
    /\ post' = post + 1
    /\ UNCHANGED <<phase, event>>

Complete ==
    /\ phase = "closing"
    /\ post = Post
    /\ phase' = "pending"
    /\ UNCHANGED <<event, post>>

Write == phase = "pending" /\ phase' = "listening" /\ event' = 0 /\ post' = 0

Next ==
    \/ WarmedUp \/ Begin \/ Extend \/ TooShort \/ Over \/ Lose
    \/ Follow \/ Complete \/ Write

(* The end of the warm-up and the steps from an event's end to its file do *)
(* not wait for anything but further samples; the beginning and the end of *)
(* an event are up to the ground.                                          *)
Fairness ==
    /\ WF_lvars(WarmedUp)
    /\ WF_lvars(Follow)
    /\ WF_lvars(Complete)
    /\ WF_lvars(Write)

Safety == Init /\ [][Next]_lvars
Spec == Safety /\ Fairness

=============================================================================
