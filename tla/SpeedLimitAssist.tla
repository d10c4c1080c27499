--------------------------- MODULE SpeedLimitAssist ---------------------------
(***************************************************************************)
(* SpeedLimitAssist in plannerd, with what SpeedLimitResolver makes of a   *)
(* limit: whether a new limit takes over the set speed at once, after the  *)
(* driver confirms it, or not at all.  Speeds are those of the display.    *)
(***************************************************************************)
EXTENDS Integers

CONSTANTS
    GuardFrames,      \* DISABLED_GUARD_PERIOD, in frames of the planner
    PreActiveFrames,  \* PRE_ACTIVE_GUARD_PERIOD
    HoldFrames,       \* CRUISE_BUTTON_CONFIRM_HOLD
    Threshold,        \* CONFIRM_SPEED_THRESHOLD
    PcmLow, PcmHigh,  \* PCM_LONG_REQUIRED_MAX_SET_SPEED
    Final             \* speed_limit_final of a limit: with the offset the driver has chosen

ASSUME SlaAssumption ==
    {GuardFrames, PreActiveFrames, HoldFrames, Threshold, PcmLow, PcmHigh} \subseteq Nat \ {0}

VARIABLES
    sla,                 \* state
    long_engaged_timer, pre_active_timer,
    long_enabled_prev, cluster_prev,
    speed_limit_prev,    \* the limit of the frame before; 0: none
    limit_last,          \* speed_limit_final_last: the last known limit, with its offset
    holds                \* _plus_hold and _minus_hold: frames in which a release still counts

slaVars == <<sla, long_engaged_timer, pre_active_timer, long_enabled_prev, cluster_prev,
             speed_limit_prev, limit_last, holds>>

SlaStates == {"disabled", "inactive", "preActive", "pending", "adapting", "active"}
Signs == {"accel", "decel"}

SlaTypeOK ==
    /\ sla \in SlaStates /\ holds \in [Signs -> 0 .. HoldFrames]
    /\ long_engaged_timer \in 0 .. GuardFrames /\ pre_active_timer \in 0 .. PreActiveFrames

SlaInit ==
    /\ sla = "disabled" /\ long_engaged_timer = 0 /\ pre_active_timer = 0
    /\ long_enabled_prev = FALSE /\ cluster_prev = 0 /\ speed_limit_prev = 0 /\ limit_last = 0
    /\ holds = [b \in Signs |-> 0]

-----------------------------------------------------------------------------
(* What a frame finds.  in is what the messages say: long_enabled, cluster,  *)
(* flipped, limit, and whether the car is faster than the limit.             *)
\* update_speed_limit_states of the resolver, has_speed_limit, speed_limit_changed (which
\* compares the limits as the road has them, without the offset), v_cruise_cluster_changed
Last(in) == IF in.limit > 0 THEN Final[in.limit] ELSE limit_last
HasLimit(in) == Last(in) > 0
LimitChanged(in) == HasLimit(in) /\ in.limit # speed_limit_prev
ClusterChanged(in) == in.cluster # cluster_prev

\* target_set_speed_confirmed
Confirmed(in, pcmLong) ==
    in.cluster = IF ~pcmLong THEN Last(in)
                 ELSE IF HasLimit(in) /\ Last(in) < Threshold THEN PcmLow ELSE PcmHigh

\* apply_confirm_speed_threshold: only from one limit above to another does it go by itself
NeedsConfirmation(in) == in.cluster < Threshold \/ Last(in) < Threshold

\* update_buttons: a bit that differs from the frame before (in.flipped) is a release; two
\* releases between two frames are none.
Hold(in) == [b \in Signs |->
    IF b \in in.flipped THEN HoldFrames
    ELSE IF holds[b] > 0 THEN holds[b] - 1 ELSE 0]

\* _get_button_release: the release that asks for the limit
Asking(in) == {b \in Signs : Hold(in)[b] > 0 /\ IF b = "accel" THEN in.cluster < Last(in) ELSE in.cluster > Last(in)}

Down(t) == IF t > 0 THEN t - 1 ELSE 0

-----------------------------------------------------------------------------
(* The two state machines; the next state, from a state other than disabled. *)
ConfirmedState(in) ==      \* _update_confirmed_state
    IF ~HasLimit(in) THEN "pending" ELSE IF in.fast THEN "adapting" ELSE "active"

PcmNext(in) ==
    IF sla \in {"active", "adapting"} THEN
        IF ClusterChanged(in) THEN "inactive"
        ELSE IF LimitChanged(in) /\ NeedsConfirmation(in) THEN "preActive"
        ELSE IF sla = "active" THEN (IF HasLimit(in) /\ in.fast THEN "adapting" ELSE "active")
        ELSE IF in.fast THEN "adapting" ELSE "active"
    ELSE IF sla \in {"pending", "preActive"} /\ Confirmed(in, TRUE) THEN ConfirmedState(in)
    ELSE IF sla = "pending" /\ LimitChanged(in) THEN "preActive"
    ELSE IF sla = "preActive" /\ Down(pre_active_timer) = 0 THEN "inactive"
    ELSE sla

NonPcmNext(in) ==
    IF sla = "active" THEN
        IF ClusterChanged(in) THEN "inactive"
        ELSE IF LimitChanged(in) /\ NeedsConfirmation(in) THEN "preActive"
        ELSE "active"
    ELSE IF sla = "inactive" /\ LimitChanged(in) THEN "preActive"
    ELSE IF Confirmed(in, FALSE) THEN "active"
    ELSE IF sla = "preActive" /\ Asking(in) # {} THEN "active"
    ELSE IF sla = "preActive" /\ Down(pre_active_timer) = 0 THEN "inactive"
    ELSE sla

\* From disabled, a while after the last change of the set speed.
Guarded(in) == ~long_enabled_prev \/ ClusterChanged(in)
FromDisabled(in, pcmLong) ==
    IF Guarded(in) \/ Down(long_engaged_timer) > 0 THEN "disabled"
    ELSE IF Confirmed(in, pcmLong) THEN (IF pcmLong THEN ConfirmedState(in) ELSE "active")
    ELSE IF HasLimit(in) THEN "preActive"
    ELSE IF pcmLong THEN "pending" ELSE "inactive"

NextSla(in, pcmLong) ==
    IF ~in.long_enabled THEN "disabled"
    ELSE IF sla = "disabled" THEN FromDisabled(in, pcmLong)
    ELSE IF pcmLong THEN PcmNext(in) ELSE NonPcmNext(in)

\* A release is used up when it confirms.
UsesRelease(in, pcmLong) ==
    ~pcmLong /\ in.long_enabled /\ sla = "preActive" /\ ~Confirmed(in, FALSE) /\ Asking(in) # {}

PreActiveTimer(in, pcmLong) ==
    IF sla # "preActive" /\ NextSla(in, pcmLong) = "preActive" THEN PreActiveFrames
    ELSE Down(pre_active_timer)

\* update_buttons and update, in a frame of the planner
SlaFrame(in, pcmLong) ==
    /\ sla' = NextSla(in, pcmLong)
    /\ pre_active_timer' = PreActiveTimer(in, pcmLong)
    /\ long_engaged_timer' = IF sla = "disabled" /\ in.long_enabled /\ Guarded(in) THEN GuardFrames
                             ELSE Down(long_engaged_timer)
    /\ holds' = [b \in Signs |-> IF UsesRelease(in, pcmLong) /\ b \in Asking(in) THEN 0 ELSE Hold(in)[b]]
    /\ limit_last' = Last(in) /\ speed_limit_prev' = in.limit
    /\ cluster_prev' = in.cluster /\ long_enabled_prev' = in.long_enabled
===============================================================================
