------------------------------- MODULE MCPedals -------------------------------
(***************************************************************************)
(* The driver's hands and feet, in two parts of one run; a behaviour       *)
(* belongs to one:                                                         *)
(*   pedals: the frames of selfdrived for a car that engages cruise        *)
(*           itself, with every combination of the engagement settings;    *)
(*   speed:  the set speed, between card and the planner.                  *)
(* The part that rests starts in one state.                                *)
(***************************************************************************)
EXTENDS MCSelfdriveD, Cruise

VARIABLE part

\* a fixed offset of one: the car may go faster than the limit says
OffsetByOne == [l \in Limits |-> IF l > 0 THEN l + 1 ELSE 0]

MCInit ==
    /\ Init /\ SetSpeedInit /\ part \in { "pedals", "speed" }
    /\ part = "pedals" => pcm
    /\ part = "speed" => steering_mode_on_brake = "pause" /\ ~unified_engagement_mode
                         /\ main_enabled_toggle

MCNext ==
    /\ UNCHANGED part
    /\ \/ part = "pedals" /\ Next /\ UNCHANGED setSpeedVars
       \/ part = "speed" /\ SetSpeedNext /\ UNCHANGED vars

MCSpec == MCInit /\ [][MCNext]_<<vars, setSpeedVars, part>>
===============================================================================
