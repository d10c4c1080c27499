----------------------------- MODULE SelfdriveD -----------------------------
(***************************************************************************)
(* One control frame of selfdrived (selfdrive/selfdrived/selfdrived.py,    *)
(* SelfdriveD.step): sample the car and the panda, collect the events of   *)
(* the frame, run selfdrived's state machine on them, then MADS.           *)
(*                                                                         *)
(* Two threads: the 100 Hz loop runs Frame, params_thread refreshes three  *)
(* attributes one by one.  A frame reads each of them once, so a frame is  *)
(* one step and a refresh is another.                                      *)
(*                                                                         *)
(* The car (carState, through card), the panda and the health of the rest  *)
(* of the system are the environment: any value of the constants below in  *)
(* any frame.                                                              *)
(***************************************************************************)
EXTENDS Mads

CONSTANTS
  CarStates,      \* the carState messages that may arrive
  SystemEvents,   \* the sets of events the rest of the system may contribute
  PandaStates,    \* the answers of the pandas, [long, lat : BOOLEAN]
  PcmCruise,      \* CP.pcmCruise: cruise is engaged by the car, not by buttons
  Honda,          \* CP.brand = 'honda': events of its own instead of pcmDisable
  CancelDisables, \* allow_button_cancel: not on hyundai
  DrivableGears,  \* the gears that are as good as drive: CI.DRIVABLE_GEARS and drive
  Params          \* the values the user may give the parameters

\* create_common_events: the events that are a field of carState.
CarFlags ==
  { "doorOpen", "seatbeltNotLatched", "espDisabled", "espActive", "stockAeb", "stockLkas",
    "speedTooHigh", "wrongCruiseMode", "brakeHold", "parkBrake", "accFaulted",
    "carNotReady", "steerDisengage", "vehicleSensorsInvalid", "invalidLkasSetting",
    "steerTempUnavailable", "steerUnavailable" }

\* The branches of CarEvents.update for one brand each.  The last two disable at once
\* and carry no NO_ENTRY.
BrandFlags == { "belowEngageSpeed", "speedTooLow", "cruiseDisabled" }

\* update_events: what the other processes, the device and the pandas contribute.
SystemEventName ==
  { "bigModelLoading", "bigModelFailed", "startupNoControl", "resumeBlocked",
    "tooDistracted", "overheat", "outOfSpace", "lowMemory", "calibrationIncomplete",
    "calibrationRecalibrating", "calibrationInvalid", "excessiveActuation",
    "controlsMismatch", "relayMalfunction", "processNotRunning", "cameraMalfunction",
    "cameraFrameRate", "selfdrivedLagging", "canError", "radarTempUnavailable",
    "radarFault", "commIssue", "commIssueAvgFreq", "posenetInvalid",
    "locationdTemporaryError", "paramsdTemporaryError", "sensorDataInvalid",
    "modeldLagging" }

Gears == { "drive", "sport", "park", "reverse" }

CarStateType ==
  [ can             : { "valid", "invalid", "timeout" },  \* canValid, canTimeout
    available       : BOOLEAN,   \* cruiseState.available
    cruiseEnabled   : BOOLEAN,   \* cruiseState.enabled
    buttonEnable    : BOOLEAN,
    brakePressed    : BOOLEAN,
    gasPressed      : BOOLEAN,
    steeringPressed : BOOLEAN,
    standstill      : BOOLEAN,
    slow            : BOOLEAN,   \* vEgo < 2.5
    gear            : Gears,
    blockPcmEnable  : BOOLEAN,
    button          : { "none", "lkas", "cancel" },
    flags           : SUBSET (CarFlags \union BrandFlags) ]

ParamType == [ disengage_on_accelerator : BOOLEAN, enabled_toggle : BOOLEAN,
               main_enabled_toggle : BOOLEAN, unified_engagement_mode : BOOLEAN,
               steering_mode_on_brake : SteeringModes ]

PandaType == [ long : BOOLEAN, lat : BOOLEAN ]

\* speedTooLow comes with belowEngageSpeed (toyota, volkswagen); speedTooLow and
\* cruiseDisabled come where the cruise control of the car is off (honda, where no
\* button engages: opendbc sets buttonEnable for cars without pcmCruise only).
BrandFlagsType(CS) ==
  CS.flags \intersect { "speedTooLow", "cruiseDisabled" } # {}
    => \/ "belowEngageSpeed" \in CS.flags
       \/ PcmCruise /\ ~CS.cruiseEnabled /\ ~CS.buttonEnable

ASSUME EnvironmentAssumption ==
  /\ CarStates \subseteq CarStateType
  /\ \A CS \in CarStates : BrandFlagsType(CS)
  /\ SystemEvents \subseteq SUBSET SystemEventName
  /\ PandaStates \subseteq PandaType
  /\ PcmCruise \in BOOLEAN /\ Honda \in BOOLEAN /\ CancelDisables \in BOOLEAN
  /\ "drive" \in DrivableGears /\ DrivableGears \subseteq { "drive", "sport" }
  /\ Params \subseteq ParamType

\* CS_prev before the first message: car.CarState.new_message()
NoCarState ==
  [ can |-> "invalid", available |-> FALSE, cruiseEnabled |-> FALSE,
    buttonEnable |-> FALSE, brakePressed |-> FALSE, gasPressed |-> FALSE,
    steeringPressed |-> FALSE, standstill |-> FALSE, slow |-> TRUE,
    gear |-> "park", blockPcmEnable |-> FALSE, button |-> "none", flags |-> {} ]

VARIABLES
  state,                     \* state_machine.state
  initialized,
  mismatch_counter,
  disengage_on_accelerator   \* DisengageOnAccelerator, refreshed while driving

settings  == << enabled_toggle, steering_mode_on_brake, mads_disengage_on_accelerator >>
refreshed == << disengage_on_accelerator, main_enabled_toggle, unified_engagement_mode >>
driving   == << state, soft_disable_timer, current_alert_types, events, events_sp, CS_prev,
                mads_state, enabled_prev, lateral_mismatch_counter, hushed, initialized,
                mismatch_counter >>
vars == << driving, settings, refreshed >>

Enabled == state \in EnabledStates
Active  == state \in ActiveStates
-----------------------------------------------------------------------------
Init ==
  /\ state = "disabled" /\ mads_state = "disabled"
  /\ soft_disable_timer = 0
  /\ current_alert_types = { "permanent" }
  /\ events = {} /\ events_sp = {}
  /\ CS_prev = NoCarState
  /\ enabled_prev = FALSE
  /\ initialized = FALSE /\ hushed = FALSE
  /\ mismatch_counter = 0 /\ lateral_mismatch_counter = 0
  /\ \E p \in Params :
       /\ enabled_toggle = p.enabled_toggle
       /\ steering_mode_on_brake = p.steering_mode_on_brake
       /\ mads_disengage_on_accelerator = p.disengage_on_accelerator
       /\ disengage_on_accelerator = p.disengage_on_accelerator
       /\ main_enabled_toggle = p.main_enabled_toggle
       /\ unified_engagement_mode = p.unified_engagement_mode

\* CarEvents.create_common_events, and the pcmEnable of honda in update
CarEvents(CS) ==
  CS.flags
    \union (IF CS.gear \in DrivableGears THEN {} ELSE { "wrongGear" })
    \union (IF CS.gear = "reverse" THEN { "reverseGear" } ELSE {})
    \union (IF CS.available THEN {} ELSE { "wrongCarMode" })
    \union (IF CS.steeringPressed THEN { "steerOverride" } ELSE {})
    \union (IF CS.brakePressed /\ CS.standstill THEN { "preEnableStandstill" } ELSE {})
    \union (IF CS.gasPressed THEN { "gasPressedOverride" } ELSE {})
    \union (IF CS.buttonEnable THEN { "buttonEnable" } ELSE {})
    \union (IF CS.button = "cancel" /\ (CancelDisables \/ ~PcmCruise) THEN { "buttonCancel" } ELSE {})
    \union (IF /\ PcmCruise /\ CS.cruiseEnabled /\ ~CS_prev.cruiseEnabled
               /\ Honda \/ ~CS.blockPcmEnable
              THEN { "pcmEnable" } ELSE {})
    \union (IF PcmCruise /\ ~Honda /\ ~CS.cruiseEnabled THEN { "pcmDisable" } ELSE {})

\* "Disable on rising edge of accelerator or brake. Also disable on brake when
\* speed > 0"
PedalPressed(CS) ==
  \/ CS.gasPressed /\ ~CS_prev.gasPressed /\ disengage_on_accelerator
  \/ CS.brakePressed /\ (~CS_prev.brakePressed \/ ~CS.standstill)

\* canBusMissing is muted in park while MADS is engaged.
CanEvents(CS) ==
  CASE CS.can = "valid"   -> {}
    [] CS.can = "invalid" -> { "canError" }
    [] CS.can = "timeout" ->
         IF CS.gear = "park" /\ MadsEnabled THEN {} ELSE { "canBusMissing" }

ControlsMismatchLate(count) ==           \* mutant: off by one
  IF count > MismatchLimit THEN { "controlsMismatch" } ELSE {}
ControlsMismatch(count) ==
  IF count >= MismatchLimit THEN { "controlsMismatch" } ELSE {}

\* update_events: car events only count when the CAN bus is sound.
FrameEvents(CS, sys, ready, mismatch) ==
  IF ~ready THEN { "selfdriveInitializing" }
  ELSE sys
       \union CanEvents(CS)
       \union (IF CS.can = "valid" THEN CarEvents(CS) ELSE {})
       \union (IF CS.can = "valid" /\ PedalPressed(CS) THEN { "pedalPressed" } ELSE {})
       \union ControlsMismatch(mismatch)

\* data_sample: engaged against the will of the panda.
NextMismatch(allowed) ==
  IF ~Enabled THEN 0
  ELSE IF allowed THEN mismatch_counter ELSE mismatch_counter + 1

\* SelfdriveD.step
Frame(CS, sys, panda, ready) ==
  LET mismatch == NextMismatch(panda.long)
      E == FrameEvents(CS, sys, ready, mismatch)
      T == TypesIn(E)
      s == IF ready THEN NextState(state, soft_disable_timer, T) ELSE state
      t == IF ready THEN NextTimer(state, soft_disable_timer, T) ELSE soft_disable_timer
      A == IF ready THEN AlertTypes(state, soft_disable_timer, T) ELSE current_alert_types
  IN /\ initialized => ready
     /\ initialized' = ready
     /\ mismatch_counter' = mismatch
     /\ state' = s
     /\ MadsUpdate(CS, E, s \in EnabledStates, t, A, ready, panda.lat)
     /\ CS_prev' = CS
     /\ UNCHANGED << settings, refreshed >>

Step == \E CS \in CarStates, sys \in SystemEvents, panda \in PandaStates, ready \in BOOLEAN :
          Frame(CS, sys, panda, ready)

\* params_thread: whatever the user has set by now.
ReadDisengageOnAccelerator ==
  /\ \E p \in Params : disengage_on_accelerator' = p.disengage_on_accelerator
  /\ UNCHANGED << driving, settings, main_enabled_toggle, unified_engagement_mode >>

ReadMainEnabledToggle ==
  /\ \E p \in Params : main_enabled_toggle' = p.main_enabled_toggle
  /\ UNCHANGED << driving, settings, disengage_on_accelerator, unified_engagement_mode >>

ReadUnifiedEngagementMode ==
  /\ \E p \in Params : unified_engagement_mode' = p.unified_engagement_mode
  /\ UNCHANGED << driving, settings, disengage_on_accelerator, main_enabled_toggle >>

Next == \/ Step
        \/ ReadDisengageOnAccelerator
        \/ ReadMainEnabledToggle
        \/ ReadUnifiedEngagementMode

Spec == Init /\ [][Next]_vars

-----------------------------------------------------------------------------
TypeOK ==
  /\ state \in States /\ mads_state \in MadsStates
  /\ soft_disable_timer \in 0..SoftDisableFrames
  /\ current_alert_types \subseteq EventTypes
  /\ events \subseteq EventName /\ events_sp \subseteq EventName
  /\ CS_prev \in CarStateType
  /\ enabled_prev \in BOOLEAN /\ initialized \in BOOLEAN /\ hushed \in BOOLEAN
  /\ mismatch_counter \in 0..MismatchLimit
  /\ lateral_mismatch_counter \in 0..MismatchLimit
  /\ enabled_toggle \in BOOLEAN /\ steering_mode_on_brake \in SteeringModes
  /\ mads_disengage_on_accelerator \in BOOLEAN /\ disengage_on_accelerator \in BOOLEAN
  /\ main_enabled_toggle \in BOOLEAN /\ unified_engagement_mode \in BOOLEAN
-----------------------------------------------------------------------------
(* Properties.  A frame is the step that leaves the refreshed attributes    *)
(* alone; its carState is CS_prev'.                                         *)

FrameStep == initialized' /\ UNCHANGED refreshed

\* update_alerts: the types of which an alert is made, of the events that MADS has
\* left.  The mute ones show nothing and make no sound.
AlertsMade == current_alert_types \intersect TypesIn((events \union events_sp) \ Mute)

\* Sharing the timer, the events and the alert types with MADS does not disturb
\* cruise control: selfdrived keeps the contract of Engagement.  It does not end
\* without an alert, unless MADS has hushed the frame: what ended it concerns cruise
\* control alone, or only pauses the steering.
EngagementContract ==
  INSTANCE Engagement WITH
    mode  <- state,
    grace <- IF state = "softDisabling" THEN soft_disable_timer ELSE 0,
    told  <- AlertsMade \intersect { "immediateDisable", "userDisable", "softDisable" } # {}

ImplementsEngagement == EngagementContract!Spec

\* Neither cruise control nor steering outlives MismatchLimit samples of
\* disagreement with the panda.
PandaHasTheLastWord ==
  /\ mismatch_counter = MismatchLimit => ~Enabled
  /\ lateral_mismatch_counter = MismatchLimit => ~MadsActive

\* In the modes that let go of the wheel on the brake, a frame with the brake
\* (pressed now, or held while moving) never leaves MADS steering that steered
\* before it, however cruise control was engaged.  A new press of the
\* accelerator hides the brake from MADS (mads.py:66).
BrakeStopsSteering ==
  [][ (/\ FrameStep
       /\ steering_mode_on_brake \in { "pause", "disengage" }
       /\ MadsActive
       /\ CS_prev'.can = "valid" /\ CS_prev'.brakePressed
       /\ ~CS_prev.brakePressed \/ ~CS_prev'.standstill
       /\ ~(CS_prev'.gasPressed /\ ~CS_prev.gasPressed /\ mads_disengage_on_accelerator)
       /\ enabled_toggle)
      => ~MadsActive' ]_vars

\* In the mode that remains active, pedals alone never take the steering away:
\* it survives the end of cruise control they cause.
SteeringSurvivesBrake ==
  [][ (/\ FrameStep
       /\ steering_mode_on_brake = "remainActive"
       /\ MadsActive
       /\ CS_prev.available
       /\ [ CS_prev' EXCEPT !.brakePressed = FALSE, !.gasPressed = FALSE,
                            !.standstill = FALSE, !.slow = FALSE,
                            !.cruiseEnabled = FALSE, !.steeringPressed = FALSE ]
            = [ NoCarState EXCEPT !.can = "valid", !.available = TRUE,
                                  !.gear = "drive", !.slow = FALSE ]
       /\ events' \intersect (SoftAndNoEntry \union ImmediateAndNoEntry
                                \union { "bigModelFailed" }) = {}
       /\ "controlsMismatchLateral" \notin events_sp')
      => MadsActive' ]_vars

\* With unified engagement, cruise control never engages without the steering.
UnifiedEngagement ==
  [][ (/\ FrameStep /\ enabled_toggle /\ unified_engagement_mode
       /\ ~Enabled /\ Enabled' /\ ~MadsEnabled)
      => MadsEnabled' ]_vars

\* Steering is only taken up from disabled on the driver's demand: the LKAS
\* button, main cruise switched on, or cruise engaged in unified mode.
SteeringOnDemand ==
  [][ (FrameStep /\ ~MadsEnabled /\ MadsEnabled')
      => ( \/ CS_prev'.button = "lkas"
           \/ main_enabled_toggle /\ CS_prev'.available /\ ~CS_prev.available
           \/ unified_engagement_mode /\ CS_prev'.buttonEnable
           \/ unified_engagement_mode /\ CS_prev'.cruiseEnabled /\ ~CS_prev.cruiseEnabled ) ]_vars

\* Steering is taken up when the driver asks for it, and kept through the pedals when
\* the driver has chosen so.
SteeringFollowsTheDriver == SteeringOnDemand /\ SteeringSurvivesBrake

\* Steering that ends for good (a pause is another matter) has told the driver: an
\* alert is made in the frame, or was made for a soft disable in the frame before.
\* Only a soft disable that MADS has entered while cruise control was engaged and did
\* not count down itself may find no time on the timer: in preEnabled, and where the
\* frame hushes the end of a cruise control that was engaged with the fault there.
SteeringEndsTold ==
  [][ (/\ MadsEnabled /\ ~MadsEnabled'
       /\ AlertsMade' \intersect { "immediateDisable", "userDisable" } = {}
       /\ "softDisable" \notin AlertsMade)
      => /\ mads_state = "softDisabling"
         /\ (\/ state = "preEnabled"
             \/ state \in { "enabled", "overriding" } /\ hushed') ]_vars

\* What the driver does that pauses the steering; the pause itself is mute.
PausedByDriver(CS) ==
  /\ CS.can = "valid"
  /\ \/ CS.gear \notin DrivableGears
     \/ CS.flags \intersect { "doorOpen", "seatbeltNotLatched", "brakeHold", "parkBrake" } # {}
     \/ steering_mode_on_brake = "pause" /\ (CS.brakePressed \/ CS.gasPressed)

\* Steering that stops without an end is paused by what the driver does in the frame.
SteeringPausesRightly ==
  [][ MadsActive /\ mads_state' = "paused" => PausedByDriver(CS_prev') ]_vars

\* Where no car answers, nothing goes on but in park, where the event is muted
\* (selfdrived.py:519) if MADS is engaged.
LostCanEndsAll ==
  [][ FrameStep /\ CS_prev'.can = "timeout" /\ CS_prev'.gear # "park"
        => ~MadsActive' /\ ~Enabled' ]_vars

\* The driver knows why the steering stops: of an end he is told, a pause is his own
\* doing, and one of the two comes when the car is lost.
SteeringStopsKnowingly == SteeringEndsTold /\ SteeringPausesRightly /\ LostCanEndsAll

\* While MADS counts down a soft disable the shared timer runs and its alert is made,
\* no matter which of the two machines started it, when selfdrived is off or counts
\* down as well.  (preEnabled looks at no soft disable, and the frame that leaves it
\* or engages is not announced.)
SteeringSoftDisableRuns ==
  mads_state = "softDisabling" /\ state \in { "disabled", "softDisabling" }
    => soft_disable_timer >= 1 /\ "softDisable" \in AlertsMade

Undisturbed(CS) ==
  CS = [ NoCarState EXCEPT !.can = "valid", !.available = TRUE, !.gear = "drive",
                           !.slow = FALSE ]

\* A pause of the steering ends by itself once the car drives undisturbed.
PauseEnds ==
  <>[](Undisturbed(CS_prev) /\ events \intersect EventsOfType.noEntry = {})
    => <>[](mads_state # "paused")

\* A fault that calls for a soft disable and stays takes the steering away, while
\* the driver holds the brake in preEnabled too.
PersistentFaultEndsSteering ==
  <>[]("commIssue" \in events) => <>[](~MadsActive)
=============================================================================
