-------------------------------- MODULE Mads --------------------------------
(***************************************************************************)
(* The Modular Assistive Driving System: steering that stays on without    *)
(* cruise control (sunnypilot/mads/mads.py and state.py).                  *)
(*                                                                         *)
(* MADS runs inside selfdrived's frame, after selfdrived's own state       *)
(* machine, on the same Events object, the same soft-disable timer and the *)
(* same list of alert types.  Its actions here take what selfdrived has    *)
(* computed so far in the frame as arguments.                              *)
(***************************************************************************)
EXTENDS SelfdriveState

CONSTANTS
  MismatchLimit,    \* samples of disagreement with the panda, 200 in the code
  AllowAlways,      \* allow_always: the LKAS button works without main cruise
  NoMainCruise      \* no_main_cruise: the brand has no main cruise button

ASSUME MismatchLimitAssumption == MismatchLimit \in Nat \ {0}
ASSUME MadsFlagsAssumption == AllowAlways \in BOOLEAN /\ NoMainCruise \in BOOLEAN

VARIABLES
  \* --- shared with selfdrived ---
  soft_disable_timer,        \* ss_state_machine.soft_disable_timer
  current_alert_types,       \* ss_state_machine.current_alert_types
  events,                    \* selfdrive.events, as published
  events_sp,                 \* selfdrive.events_sp, as published
  CS_prev,                   \* selfdrive.CS_prev
  \* --- of MADS ---
  mads_state,                \* StateMachine.state of mads/state.py
  enabled_prev,              \* selfdrive.enabled_prev
  lateral_mismatch_counter,
  hushed,                    \* history: MADS took all out of the frame that asks to
                             \* disable
  \* --- parameters: the last two are refreshed while driving ---
  enabled_toggle,            \* Mads
  steering_mode_on_brake,    \* MadsSteeringMode
  mads_disengage_on_accelerator, \* MADS' own copy, read once
  main_enabled_toggle,       \* MadsMainCruiseAllowed
  unified_engagement_mode    \* MadsUnifiedEngagementMode

MadsStates        == { "disabled", "paused", "enabled", "softDisabling", "overriding" }
MadsActiveStates  == { "enabled", "softDisabling", "overriding" }
MadsEnabledStates == { "paused" } \union MadsActiveStates
SteeringModes     == { "remainActive", "pause", "disengage" }

\* mads.enabled and mads.active are recomputed with every state.
MadsEnabled == mads_state \in MadsEnabledStates
MadsActive  == mads_state \in MadsActiveStates

\* Events that MADS turns into a silent one of its own while it steers alone.
SilentOf == [ wrongGear   |-> "silentWrongGear",   reverseGear |-> "silentReverseGear",
              brakeHold   |-> "silentBrakeHold",   parkBrake   |-> "silentParkBrake",
              doorOpen    |-> "silentDoorOpen",
              seatbeltNotLatched |-> "silentSeatbeltNotLatched" ]
GEARS_ALLOW_PAUSED        == DOMAIN SilentOf
GEARS_ALLOW_PAUSED_SILENT == { SilentOf[e] : e \in DOMAIN SilentOf }
-----------------------------------------------------------------------------
\* mutant: any accelerator hides the brake, not only a new press
PedalPressedNoGas(CS, E) ==
  "pedalPressed" \in E /\ ~(CS.gasPressed /\ mads_disengage_on_accelerator)
\* Accelerator presses are not a reason for MADS to let go of the wheel.
PedalPressedNonGas(CS, E) ==
  /\ "pedalPressed" \in E
  /\ ~(CS.gasPressed /\ ~CS_prev.gasPressed /\ mads_disengage_on_accelerator)

\* MADS steers alone: the conditions that stop cruise control but not steering
\* are handled by MADS itself.
SteersAlone(engaged) == ~engaged /\ MadsEnabled

\* The events of E that pause MADS instead of disabling it.
Pausing(CS, E) ==
  { e \in E \intersect GEARS_ALLOW_PAUSED :
      /\ e \in { "doorOpen", "seatbeltNotLatched" } => CS.standstill
      /\ e = "wrongGear" => CS.slow \/ CS.gear = "reverse" }

BrakePauses(CS, E) == steering_mode_on_brake = "pause" /\ PedalPressedNonGas(CS, E)

\* The longitudinal-only conditions MADS ignores while it steers alone.
IgnoredAlone == { "preEnableStandstill", "belowEngageSpeed", "speedTooLow",
                  "cruiseDisabled", "manualRestart", "espActive" }

BlockWithoutPrevious(engaged) ==        \* mutant: also in the frame that engages
  ~unified_engagement_mode \/ MadsEnabled \/ engaged
BlockWithoutToggle(engaged) ==          \* mutant: the parameter is not looked at
  MadsEnabled \/ (engaged /\ enabled_prev)
BlockUnifiedEngagement(engaged) ==
  \/ ~unified_engagement_mode
  \/ MadsEnabled
  \/ engaged /\ enabled_prev

EnableRequests == { "pcmEnable", "buttonEnable" }

LkasPressed(CS) == CS.button = "lkas" /\ (CS.available \/ AllowAlways)

\* What concerns cruise control only and never reaches the steering.
OnlyCruise == { "wrongCarMode", "pcmDisable", "buttonCancel", "pedalPressed",
                "wrongCruiseMode" }

\* What update_events takes out of selfdrived's events.
Removed(CS, E, engaged) ==
  (IF SteersAlone(engaged) THEN Pausing(CS, E) \union IgnoredAlone ELSE {})
    \union (IF BlockUnifiedEngagement(engaged) THEN EnableRequests ELSE {})
    \union (IF ~CS.available /\ ~NoMainCruise THEN { "buttonEnable" } ELSE {})
    \union OnlyCruise

\* All that asks to disable is removed: update_alerts, which runs after MADS, finds
\* nothing to make an alert of.
Hushes(CS, E, engaged) ==
  LET asking == E \intersect (EventsOfType.userDisable \union EventsOfType.immediateDisable)
  IN asking # {} /\ asking \subseteq Removed(CS, E, engaged)

\* What it adds to the events of MADS, before the brake and the pause are looked
\* at.  Its events that only warn (wrongCarModeAlertOnly, pedalPressedAlertOnly,
\* manualLongitudinalRequired) are left out.
Requested(CS, E, engaged) ==
  LET pausing == IF SteersAlone(engaged) THEN Pausing(CS, E) ELSE {}
      pauses  == SteersAlone(engaged) /\ (pausing # {} \/ BrakePauses(CS, E))
      cruise  == E \intersect EnableRequests # {}
      main    == CS.available /\ ~CS_prev.available
  IN { SilentOf[e] : e \in pausing }
     \union (IF pauses /\ mads_state # "paused" THEN { "silentLkasDisable" } ELSE {})
     \union (IF ~cruise /\ main_enabled_toggle /\ main THEN { "lkasEnable" } ELSE {})
     \union (IF LkasPressed(CS)
               THEN { CASE MadsEnabled /\ engaged  -> "manualSteeringRequired"
                        [] MadsEnabled /\ ~engaged -> "lkasDisable"
                        [] OTHER                   -> "lkasEnable" }
               ELSE {})
     \union (IF ~CS.available /\ ~NoMainCruise /\ CS_prev.available
               THEN { "lkasDisable" } ELSE {})

\* The brake in the mode that disengages steering.  The branch that should take
\* a requested lkasEnable back asks events_sp.contains(), which compares event
\* TYPES, for an event NAME: it is never taken.
BrakeDisengages(CS, E) ==
  IF /\ steering_mode_on_brake = "disengage"
     /\ PedalPressedNonGas(CS, E)
     /\ MadsEnabled
    THEN { "lkasDisable" } ELSE {}

ResumesNotInPauseMode(CS, E, requested) ==   \* mutant: the mode alone blocks
  /\ mads_state = "paused"
  /\ steering_mode_on_brake # "pause"
  /\ requested \intersect GEARS_ALLOW_PAUSED_SILENT = {}
\* MADS comes back from a pause once nothing that pauses it is left.
Resumes(CS, E, requested) ==
  /\ mads_state = "paused"
  /\ ~(steering_mode_on_brake = "pause" /\ (CS.brakePressed \/ PedalPressedNonGas(CS, E)))
  /\ requested \intersect GEARS_ALLOW_PAUSED_SILENT = {}

LateralMismatchLate(count) ==                \* mutant: off by one
  IF count > MismatchLimit THEN { "controlsMismatchLateral" } ELSE {}
LateralMismatch(count) ==
  IF count >= MismatchLimit THEN { "controlsMismatchLateral" } ELSE {}

\* events_sp after update_events, when the mismatch counter has come to count.
MadsEvents(CS, E, engaged, count) ==
  LET requested == Requested(CS, E, engaged) IN
    requested \union BrakeDisengages(CS, E)
      \union (IF Resumes(CS, E, requested) THEN { "silentLkasEnable" } ELSE {})
      \union LateralMismatch(count)
-----------------------------------------------------------------------------
(* The state machine of mads/state.py on the types T of both event lists.   *)

EnterActive(T) == IF "overrideLateral" \in T THEN "overriding" ELSE "enabled"

\* USER_DISABLE comes first; with silentLkasDisable it only pauses.
AfterUserDisable(ESP) == IF "silentLkasDisable" \in ESP THEN "paused" ELSE "disabled"

SoftDisabling(t, T) ==
  IF "softDisable" \notin T THEN "enabled"
  ELSE IF t > 0 THEN "softDisabling" ELSE "disabled"

\* Something that only pauses keeps MADS from being enabled.
CheckContainsInList(E) ==
  E \intersect (GEARS_ALLOW_PAUSED \union GEARS_ALLOW_PAUSED_SILENT) # {}

NextMadsState(s, t, T, E, ESP) ==
  CASE s = "disabled" ->
         IF Entering(T) THEN EnterActive(T)
         ELSE IF "enable" \in T /\ CheckContainsInList(E \union ESP) THEN "paused"
         ELSE "disabled"
    [] s # "disabled" /\ "userDisable" \in T -> AfterUserDisable(ESP)
    [] s # "disabled" /\ "userDisable" \notin T /\ "immediateDisable" \in T -> "disabled"
    [] s = "paused" /\ ~Disabling(T) -> IF Entering(T) THEN EnterActive(T) ELSE "paused"
    [] s = "softDisabling" /\ ~Disabling(T) -> SoftDisabling(t, T)
    [] OTHER -> \* enabled or overriding
         IF "softDisable" \in T THEN "softDisabling" ELSE EnterActive(T)

NextMadsTimerAlways(s, n, t, engaged) ==     \* mutant: also while selfdrived counts
  IF s # "softDisabling" /\ n = "softDisabling" THEN SoftDisableFrames ELSE t
NextMadsTimerNotFromOverriding(s, n, t, engaged) ==  \* mutant: one entrance forgotten
  IF s = "enabled" /\ n = "softDisabling" /\ ~engaged THEN SoftDisableFrames ELSE t
\* MADS restarts the shared timer only where selfdrived does not use it.
NextMadsTimer(s, n, t, engaged) ==
  IF s # "softDisabling" /\ n = "softDisabling" /\ ~engaged THEN SoftDisableFrames ELSE t

MadsAlertTypesQuiet(s, n, T, engaged) ==     \* mutant: only enabling is announced
  { a \in { "enable" } : ~engaged /\ s \in { "disabled", "paused" } /\ n \in MadsActiveStates }
\* The alert types MADS appends, most of them only while selfdrived is off.
MadsAlertTypes(s, n, T, engaged) ==
  { a \in EventTypes :
      \/ a = "userDisable" /\ s # "disabled" /\ a \in T
      \/ a = "overrideLateral" /\ s = "overriding" /\ n = "overriding"
      \/ /\ ~engaged
         /\ \/ a = "immediateDisable" /\ s # "disabled" /\ a \in T /\ "userDisable" \notin T
            \/ a = "softDisable" /\ n = "softDisabling"
            \/ a = "overrideLateral" /\ s = "enabled" /\ n = "overriding"
            \/ a = "noEntry" /\ s \in { "disabled", "paused" }
                 /\ { "enable", "noEntry" } \subseteq T
                 /\ (s = "paused" => ~Disabling(T))
            \/ a = "enable" /\ s \in { "disabled", "paused" } /\ n \in MadsActiveStates
            \/ a = "warning" /\ n \in MadsActiveStates }

\* data_sample: steering alone against the will of the panda.
NextLateralMismatch(engaged, allowed) ==
  IF ~MadsActive \/ engaged THEN 0
  ELSE IF allowed THEN lateral_mismatch_counter ELSE lateral_mismatch_counter + 1

\* ModularAssistiveDrivingSystem.update(CS) on what selfdrived's part of the
\* frame left: events E, engagement, timer t and alert types A.
MadsUpdate(CS, E, engaged, t, A, initialized, allowed) ==
  LET count == NextLateralMismatch(engaged, allowed)
      E2    == E \ Removed(CS, E, engaged)
      ESP   == MadsEvents(CS, E, engaged, count)
      T     == TypesIn(E2 \union ESP)
      n     == IF initialized THEN NextMadsState(mads_state, t, T, E2, ESP) ELSE mads_state
  IN \/ /\ ~enabled_toggle
        /\ events' = E /\ events_sp' = {}
        /\ soft_disable_timer' = t /\ current_alert_types' = A
        /\ hushed' = FALSE
        /\ UNCHANGED << mads_state, enabled_prev, lateral_mismatch_counter >>
     \/ /\ enabled_toggle
        /\ events' = E2 /\ events_sp' = ESP
        /\ hushed' = Hushes(CS, E, engaged)
        /\ mads_state' = n
        /\ soft_disable_timer' = IF initialized THEN NextMadsTimer(mads_state, n, t, engaged) ELSE t
        /\ current_alert_types' =
             IF initialized THEN A \union MadsAlertTypes(mads_state, n, T, engaged) ELSE A
        /\ lateral_mismatch_counter' = count
        /\ enabled_prev' = engaged
=============================================================================
