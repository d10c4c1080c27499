------------------------------- MODULE VCruise -------------------------------
(***************************************************************************)
(* VCruiseHelper (selfdrive/car/cruise.py with sunnypilot's cruise_ext.py) *)
(* in card: the set speed that the buttons move when openpilot keeps it    *)
(* itself, in whole km/h.  A frame has one button event at most.           *)
(***************************************************************************)
EXTENDS Integers

CONSTANTS
    VMin, VMax,      \* V_CRUISE_MIN, V_CRUISE_MAX
    VInitial,        \* V_CRUISE_INITIAL, and the setting InitialCruiseSpeedKph
    LongPress,       \* CRUISE_LONG_PRESS, in frames
    LongStep         \* what a long press adds: 5 km/h

ASSUME CruiseAssumption ==
    /\ VMin \in Nat /\ VMax \in Nat /\ VInitial \in VMin .. VMax
    /\ LongPress \in Nat \ {0} /\ LongStep \in Nat \ {0}

VARIABLES
    pcm,             \* CP.pcmCruise: the car keeps the set speed
    v_cruise,        \* v_cruise_kph and v_cruise_cluster_kph
    button_timers,   \* frames each button has been held; 0 if it is not
    button_change,   \* button_change_states: the buttons that were pressed while engaged,
                     \* accel also not at a standstill
    prev_sla, prev_limit   \* state and limit of the plan that moved the speed last

cruiseVars == <<pcm, v_cruise, button_timers, button_change, prev_sla, prev_limit>>

Unset == VMax + 1                     \* V_CRUISE_UNSET
Buttons == {"accel", "decel"}
NoEvent == [button |-> "none", pressed |-> FALSE]
ButtonEvents == {NoEvent} \cup [button : Buttons, pressed : BOOLEAN]
SlaActive == {"active", "adapting"}   \* ACTIVE_STATES

Clip(v) == IF v < VMin THEN VMin ELSE IF v > VMax THEN VMax ELSE v
AtLeast(v, w) == IF v < w THEN w ELSE v

CruiseTypeOK ==
    /\ pcm \in BOOLEAN /\ v_cruise \in VMin .. Unset
    /\ button_timers \in [Buttons -> 0 .. 2 * LongPress]
    /\ button_change \subseteq Buttons

CruiseInit ==
    /\ pcm \in BOOLEAN /\ v_cruise = Unset
    /\ button_timers = [b \in Buttons |-> 0] /\ button_change = {}
    /\ prev_sla = "disabled" /\ prev_limit = 0

-----------------------------------------------------------------------------
(* _update_v_cruise_non_pcm.  A release ends a short press; without one, a   *)
(* button that is held counts each time LongPress frames are over.           *)
Released(e) == e # NoEvent /\ ~e.pressed
Short(b, e) == Released(e) /\ e.button = b /\ button_timers[b] <= LongPress
Long(b, e) == ~Released(e) /\ button_timers[b] > 0 /\ button_timers[b] % LongPress = 0

\* A press while the speed limit waits for it, in its direction, confirms the limit.
PreActiveConfirmed(b, plan) ==
    /\ "preActive" \in {plan.state, prev_sla}
    /\ IF b = "accel" THEN v_cruise < plan.limit ELSE v_cruise > plan.limit

\* The press moves the speed: not the one that resumes from standstill, nor the one that
\* engaged, nor the one that confirms.
Counts(b, cs, plan) ==
    /\ b \in button_change /\ ~(b = "accel" /\ cs.standstill)
    /\ ~PreActiveConfirmed(b, plan)

\* One step, or to the next multiple of LongStep.
Stepped(b, long) ==
    LET step == IF long THEN LongStep ELSE 1
        sign == IF b = "accel" THEN 1 ELSE -1
    IN  IF long /\ v_cruise % step # 0
        THEN (v_cruise \div step + (IF b = "accel" THEN 1 ELSE 0)) * step
        ELSE v_cruise + step * sign

\* A press of set while the driver is on the accelerator does not go below his speed.
Pressed(b, cs) ==
    LET v == Stepped(b, Long(b, cs.event))
    IN  Clip(IF b = "decel" THEN AtLeast(v, cs.gas_speed) ELSE v)

AfterButtons(cs, enabled, plan) ==
    IF enabled /\ \E b \in Buttons : (Short(b, cs.event) \/ Long(b, cs.event)) /\ Counts(b, cs, plan)
    THEN Pressed(CHOOSE b \in Buttons : Short(b, cs.event) \/ Long(b, cs.event), cs)
    ELSE v_cruise

-----------------------------------------------------------------------------
\* mutant: the limit takes over while it waits to be confirmed
TakesOverUnconfirmed(plan) ==
    plan.state # "disabled"
        /\ (prev_sla \notin SlaActive \/ (plan.limit > 0 /\ plan.limit # prev_limit))

\* update_speed_limit_assist_v_cruise_non_pcm: a limit that has become active, or is
\* active and another one, is the set speed.
LimitTakesOver(plan) ==
    plan.state \in SlaActive
        /\ (prev_sla \notin SlaActive \/ (plan.limit > 0 /\ plan.limit # prev_limit))
AfterLimit(v, plan) == IF LimitTakesOver(plan) THEN Clip(plan.limit) ELSE v

\* initialize_v_cruise, in the frame after the one that engaged, on that one's buttons and
\* speed: resume finds the speed that was set before this frame.
Initialized(v, button_prev, v_ego) ==
    IF button_prev = "accel" /\ v # Unset THEN v_cruise
    ELSE Clip(AtLeast(v_ego, VInitial))

HeldLonger(t) == IF t = 2 * LongPress THEN LongPress + 1 ELSE t + 1   \* counts on in the code

\* update_button_timers; what a button keeps after its release is not read any more
UpdateTimers(cs, enabled) ==
    /\ button_timers' = [b \in Buttons |->
           IF cs.event.button = b THEN (IF cs.event.pressed THEN 1 ELSE 0)
           ELSE IF button_timers[b] > 0 THEN HeldLonger(button_timers[b]) ELSE 0]
    /\ button_change' =
           IF cs.event.pressed /\ enabled /\ ~(cs.event.button = "accel" /\ cs.standstill)
           THEN button_change \cup {cs.event.button}
           ELSE button_change \ {cs.event.button}

\* state_update of card: the set speed of a frame
UpdateVCruise(cs, button_prev, enabled, enabled_prev, plan) ==
    LET v == IF ~cs.available THEN Unset
             ELSE IF pcm THEN cs.speed
             ELSE AfterLimit(AfterButtons(cs, enabled, plan), plan)
    IN  /\ UNCHANGED pcm
        /\ v_cruise' = IF ~pcm /\ enabled /\ ~enabled_prev THEN Initialized(v, button_prev, cs.v_ego) ELSE v
        /\ IF ~pcm /\ cs.available THEN prev_sla' = plan.state /\ prev_limit' = plan.limit
           ELSE UNCHANGED <<prev_sla, prev_limit>>
        /\ IF pcm THEN UNCHANGED <<button_timers, button_change>> ELSE UpdateTimers(cs, enabled)
=============================================================================
