-------------------------------- MODULE Cruise --------------------------------
(***************************************************************************)
(* The set speed: card (100 Hz) and plannerd (20 Hz) with the messages     *)
(* between them.  carState carries the set speed and the buttons to        *)
(* selfdrived, which engages and passes the releases on to the planner as  *)
(* bits that flip; carControl.enabled comes back before the next frame of  *)
(* card.  A plan arrives some time after the frame of the planner that     *)
(* made it, with one of card's at most between them, and card runs any     *)
(* number of frames, but one at least, between two of the planner.         *)
(***************************************************************************)
EXTENDS VCruise, SpeedLimitAssist

CONSTANTS
    Limits,       \* the speed limits of the road; 0: none is known
    GasSpeeds     \* the speeds of the car that matter while its driver presses the accelerator

ASSUME RoadAssumption ==
    /\ Limits \subseteq Nat /\ 0 \in Limits /\ GasSpeeds \subseteq Nat
    /\ Final \in [Limits -> Nat] /\ Final[0] = 0 /\ \A l \in Limits : l > 0 => Final[l] > 0

Finals == { Final[l] : l \in Limits }

VARIABLES
    button_prev,  \* CS_prev.buttonEvents of card
    enabled,      \* carControl.enabled
    enabled_seen, \* CC_prev.enabled of card
    flipped,      \* buttonsReleaseToggle against what the planner saw last
    plan,         \* longitudinalPlanSP as card has it
    ticked,       \* auxiliary: card has run since the frame of the planner
    untouched     \* auxiliary: frames of the planner since a button was held, up to Recent + 1

linkVars == <<button_prev, enabled, enabled_seen, flipped, plan, ticked, untouched>>
setSpeedVars == <<cruiseVars, slaVars, linkVars>>

\* How old a press may be that confirms: it is held for HoldFrames, and then the plan has to
\* come to card.
Recent == HoldFrames + 2

SetSpeedTypeOK ==
    /\ CruiseTypeOK /\ SlaTypeOK
    /\ plan \in [state : SlaStates, limit : Finals] /\ flipped \subseteq Buttons
    /\ enabled \in BOOLEAN /\ enabled_seen \in BOOLEAN /\ untouched \in 0 .. Recent + 1

SetSpeedInit ==
    /\ CruiseInit /\ SlaInit
    /\ button_prev = "none" /\ enabled = FALSE /\ enabled_seen = FALSE /\ flipped = {}
    /\ plan = [state |-> "disabled", limit |-> 0] /\ ticked = FALSE /\ untouched = Recent + 1

-----------------------------------------------------------------------------
\* A button is pressed when none is held, and released when it is.
MayHappen(e) ==
    \/ e = NoEvent
    \/ e.pressed /\ \A b \in Buttons : button_timers[b] = 0
    \/ Released(e) /\ button_timers[e.button] > 0

\* The plan of the planner's last frame has come to card.
Arrived == plan = [state |-> sla, limit |-> limit_last]

\* state_update of card, and the answer of selfdrived and controlsd: a button engages (the
\* car itself, if it keeps the speed), once the planner has seen that it is not engaged, and
\* anything may disengage.
CardFrame(e, available, standstill, gas, speed, wants) ==
    /\ Arrived \/ ~ticked
    /\ IF pcm THEN e = NoEvent ELSE MayHappen(e)
    /\ UpdateVCruise([event |-> e, available |-> available, standstill |-> standstill,
                      gas_speed |-> gas, speed |-> speed, v_ego |-> speed],
                     button_prev, enabled, enabled_seen, plan)
    /\ enabled_seen' = enabled /\ button_prev' = e.button
    /\ enabled' = (available /\ wants)
    /\ ~enabled /\ enabled' => ~long_enabled_prev /\ (e # NoEvent \/ pcm)
    /\ flipped' = IF ~Released(e) THEN flipped
                  ELSE (flipped \cup {e.button}) \ (flipped \cap {e.button})
    /\ untouched' = IF e # NoEvent \/ \E b \in Buttons : button_timers[b] > 0 THEN 0 ELSE untouched
    /\ ticked' = TRUE
    /\ UNCHANGED <<slaVars, plan>>

\* A frame of the planner, on what the messages say at its beginning.
PlannerFrame(limit, fast) ==
    /\ Arrived /\ ticked /\ ticked' = FALSE
    /\ SlaFrame([long_enabled |-> enabled, cluster |-> IF v_cruise > VMax THEN VMax ELSE v_cruise,
                 flipped |-> flipped, limit |-> limit, fast |-> fast], pcm)
    /\ flipped' = {}
    /\ untouched' = IF untouched > Recent THEN untouched ELSE untouched + 1
    /\ UNCHANGED <<cruiseVars, button_prev, enabled, enabled_seen, plan>>

\* The plan reaches card.
PlanArrives ==
    /\ ~Arrived
    /\ plan' = [state |-> sla, limit |-> limit_last]
    /\ UNCHANGED <<cruiseVars, slaVars, button_prev, enabled, enabled_seen, flipped, ticked, untouched>>

Card ==
    \E e \in ButtonEvents, a, w \in BOOLEAN :
        \E s \in IF e.button = "accel" THEN BOOLEAN ELSE {FALSE},
           g \in IF e.button = "decel" THEN GasSpeeds ELSE {0},
           v \in IF pcm \/ (enabled /\ ~enabled_seen) THEN VMin .. VMax ELSE {VMin} : CardFrame(e, a, s, g, v, w)
Planner == \E l \in Limits, f \in BOOLEAN : PlannerFrame(l, f)

SetSpeedNext == Card \/ Planner \/ PlanArrives

SetSpeedSpec == SetSpeedInit /\ [][SetSpeedNext]_setSpeedVars

-----------------------------------------------------------------------------
(* The set speed moves by itself, without a press in this frame and without  *)
(* engaging, only to the limit in force, and only when the driver has just   *)
(* had a button in hand or both the old and the new speed are above the      *)
(* threshold; whatever comes between a press and the plan that answers it.   *)
MovesAlone ==
    /\ ~pcm /\ v_cruise \in VMin .. VMax /\ v_cruise' \in VMin .. VMax /\ v_cruise' # v_cruise
    /\ button_prev' = "none" /\ \A b \in Buttons : button_timers[b] = 0
    /\ enabled_seen
NothingMovesAlone ==
    [][MovesAlone => /\ v_cruise' = Clip(plan.limit)
                     /\ untouched <= Recent \/ (v_cruise >= Threshold /\ plan.limit >= Threshold)]_setSpeedVars

(* The set speed of a car that is engaged and lets openpilot keep it is one  *)
(* that was set: a frame of card may see enabled before, with or after the   *)
(* change of it.  And nothing moves it but the driver and what he agreed to. *)
EngagedSpeedIsSet == ~pcm /\ enabled /\ enabled_seen => v_cruise \in VMin .. VMax
SetSpeedIsTheDrivers == [](SetSpeedTypeOK /\ EngagedSpeedIsSet) /\ NothingMovesAlone
===============================================================================
