----------------------------- MODULE Engagement -----------------------------
(***************************************************************************)
(* What the driver may rely on, whatever the events, the car and MADS do:  *)
(* cruise engagement moves through these modes only.  It ends with an      *)
(* alert to the driver in the same frame, or after a soft disable that     *)
(* alerted the driver in each of SoftDisableFrames frames, or because of   *)
(* events that MADS hushes: it takes them out of the frame before the      *)
(* alerts are made.                                                        *)
(***************************************************************************)
EXTENDS Naturals

CONSTANT SoftDisableFrames

VARIABLES
  mode,    \* the engagement state
  grace,   \* frames left of a soft disable, 0 when there is none
  told,    \* an alert for a disengagement is made in the frame
  hushed   \* MADS has hushed all that asks for one

vars == << mode, grace, told, hushed >>

Init == mode = "disabled" /\ grace = 0 /\ told = FALSE /\ hushed = FALSE

Engage ==
  /\ mode = "disabled"
  /\ mode' \in { "preEnabled", "enabled", "overriding" }
  /\ grace' = 0

\* Waiting for the brake to be released, driving, or being overridden.
Drive ==
  /\ \/ mode = "preEnabled" /\ mode' \in { "preEnabled", "enabled" }
     \/ mode \in { "enabled", "overriding" } /\ mode' \in { "enabled", "overriding" }
  /\ grace' = 0

BeginSoftDisable ==
  /\ mode \in { "enabled", "overriding" }
  /\ mode' = "softDisabling"
  /\ grace' = SoftDisableFrames
  /\ told' = TRUE

CountDown ==
  /\ mode = "softDisabling" /\ mode' = "softDisabling"
  /\ grace > 1 /\ grace' = grace - 1
  /\ told' = TRUE

Recover ==
  /\ mode = "softDisabling" /\ mode' = "enabled"
  /\ grace' = 0

Expire ==
  /\ mode = "softDisabling" /\ mode' = "disabled"
  /\ grace = 1 /\ grace' = 0

Disengage ==
  /\ mode # "disabled" /\ mode' = "disabled"
  /\ grace' = 0
  /\ told' \/ hushed'

Idle ==
  /\ mode = "disabled" /\ mode' = "disabled"
  /\ grace' = 0

Next ==
  /\ told' \in BOOLEAN /\ hushed' \in BOOLEAN
  /\ \/ Engage \/ Drive \/ BeginSoftDisable \/ CountDown
     \/ Recover \/ Expire \/ Disengage \/ Idle

Spec == Init /\ [][Next]_vars
=============================================================================
