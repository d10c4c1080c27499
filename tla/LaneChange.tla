----------------------------- MODULE LaneChange -----------------------------
(***************************************************************************)
(* What the driver may rely on in a lane change, whatever the model, the   *)
(* blind spot monitor and the settings do: it is signalled before it       *)
(* begins, it moves to one side only, it lasts long enough for the model   *)
(* to see it and it ends within TimeMaxFrames.                             *)
(***************************************************************************)
EXTENDS Naturals

CONSTANTS StartFrames, TimeMaxFrames

VARIABLES
  phase,   \* "idle", "signalled" or "moving"
  side,    \* the side signalled or moved to, "none" when idle
  age      \* frames since the change began

vars == << phase, side, age >>

Idle == phase = "idle" /\ side = "none" /\ age = 0

Init == Idle

Signal ==
  /\ phase \in { "idle", "signalled" }
  /\ phase' = "signalled" /\ side' \in { "left", "right" } /\ age' = 0

Begin ==
  /\ phase = "signalled"
  /\ phase' = "moving" /\ side' \in { "left", "right" } /\ age' = 0

Move ==
  /\ phase = "moving" /\ age < TimeMaxFrames
  /\ phase' = "moving" /\ side' = side /\ age' = age + 1

\* Done, with the blinker still on.
Finish ==
  /\ phase = "moving" /\ StartFrames <= age + 1
  /\ phase' = "signalled" /\ side' \in { "left", "right" } /\ age' = 0

\* Done with the blinker off, given up, or cut short by the steering.
Stop == Idle'

Next == Signal \/ Begin \/ Move \/ Finish \/ Stop

Spec == Init /\ [][Next]_vars
=============================================================================
