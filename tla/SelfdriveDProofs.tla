-------------------------- MODULE SelfdriveDProofs --------------------------
(***************************************************************************)
(* Theorems about a frame of selfdrived with MADS inside it, for every     *)
(* environment: any carState messages, any events of the rest of the       *)
(* system, any answers of the pandas, any parameters.                      *)
(***************************************************************************)
EXTENDS SelfdriveD, SelfdriveStateLemmas

\* The inductive invariant.  The counters stay at or below their limit because
\* the frame in which one reaches it disengages, which takes a frame that is
\* initialized; the state machines are not run before.
IInv ==
  /\ TypeOK
  /\ PandaHasTheLastWord
  /\ state = "softDisabling" => soft_disable_timer >= 1
  /\ ~initialized => state = "disabled" /\ mads_state = "disabled"
  /\ ~enabled_toggle => mads_state = "disabled"
  /\ enabled_toggle => enabled_prev = (state \in EnabledStates)

LEMMA NoCarStateType == NoCarState \in CarStateType
  BY DEF NoCarState, CarStateType, Gears

LEMMA InitInvariant == Init => IInv
<1> SUFFICES ASSUME Init PROVE IInv
  OBVIOUS
<1>1. PICK p \in Params :
        /\ enabled_toggle = p.enabled_toggle
        /\ steering_mode_on_brake = p.steering_mode_on_brake
        /\ mads_disengage_on_accelerator = p.disengage_on_accelerator
        /\ disengage_on_accelerator = p.disengage_on_accelerator
        /\ main_enabled_toggle = p.main_enabled_toggle
        /\ unified_engagement_mode = p.unified_engagement_mode
  BY DEF Init
<1>2. p \in ParamType
  BY EnvironmentAssumption
<1>3. /\ enabled_toggle \in BOOLEAN /\ steering_mode_on_brake \in SteeringModes
      /\ mads_disengage_on_accelerator \in BOOLEAN /\ disengage_on_accelerator \in BOOLEAN
      /\ main_enabled_toggle \in BOOLEAN /\ unified_engagement_mode \in BOOLEAN
  BY <1>1, <1>2 DEF ParamType
<1>4. TypeOK
  <2>1. /\ state \in States /\ mads_state \in MadsStates
        /\ current_alert_types \subseteq EventTypes
        /\ events \subseteq EventName /\ events_sp \subseteq EventName
    BY DEF Init, States, MadsStates, EventTypes
  <2>2. /\ soft_disable_timer \in 0..SoftDisableFrames
        /\ mismatch_counter \in 0..MismatchLimit
        /\ lateral_mismatch_counter \in 0..MismatchLimit
    BY SoftDisableFramesAssumption, MismatchLimitAssumption DEF Init
  <2>3. /\ CS_prev \in CarStateType /\ enabled_prev \in BOOLEAN /\ initialized \in BOOLEAN
        /\ hushed \in BOOLEAN
    BY NoCarStateType DEF Init
  <2> QED BY <1>3, <2>1, <2>2, <2>3, Zenon DEF TypeOK
<1>5. PandaHasTheLastWord
  BY MismatchLimitAssumption DEF Init, PandaHasTheLastWord
<1>6. state = "disabled" /\ mads_state = "disabled" /\ enabled_prev = FALSE
  BY DEF Init
<1>7. enabled_prev = (state \in EnabledStates)
  <2>1. (state \in EnabledStates) = FALSE
    BY <1>6 DEF EnabledStates, ActiveStates
  <2> QED BY <1>6, <2>1, Zenon
<1> QED BY <1>4, <1>5, <1>6, <1>7 DEF IInv

-----------------------------------------------------------------------------
(* The events of a frame.                                                   *)

\* A mismatch at its limit is an event that disables immediately.
LEMMA MismatchDisables ==
  ASSUME NEW E, "controlsMismatch" \in E \/ "controlsMismatchLateral" \in E
  PROVE  "immediateDisable" \in TypesIn(E)
<1>1. { "controlsMismatch", "controlsMismatchLateral" } \subseteq EventsOfType["immediateDisable"]
  BY DEF EventsOfType, ImmediateAndNoEntry
<1> QED BY <1>1, TypeNames, TypesInEvents

LEMMA KnownEvents ==
  { "selfdriveInitializing", "canError", "canBusMissing", "wrongGear", "reverseGear",
    "wrongCarMode", "steerOverride", "preEnableStandstill", "gasPressedOverride",
    "buttonEnable", "buttonCancel", "pcmEnable", "pcmDisable", "pedalPressed",
    "controlsMismatch", "controlsMismatchLateral", "silentLkasDisable", "silentLkasEnable",
    "lkasEnable", "lkasDisable", "manualSteeringRequired" } \union GEARS_ALLOW_PAUSED_SILENT
    \subseteq EventName
<1>1. GEARS_ALLOW_PAUSED_SILENT \subseteq OnlyNoEntry
  BY DEF GEARS_ALLOW_PAUSED_SILENT, SilentOf, OnlyNoEntry
<1>2. /\ EventsOfType["noEntry"] \subseteq EventName
      /\ EventsOfType["enable"] \subseteq EventName
      /\ EventsOfType["preEnable"] \subseteq EventName
      /\ EventsOfType["overrideLateral"] \subseteq EventName
      /\ EventsOfType["overrideLongitudinal"] \subseteq EventName
      /\ EventsOfType["userDisable"] \subseteq EventName
  BY TypeNames DEF EventName
<1>3. /\ EventsOfType["noEntry"] = SoftAndNoEntry \union ImmediateAndNoEntry
                               \union UserAndNoEntry \union OnlyNoEntry
      /\ EventsOfType["enable"] = { "pcmEnable", "buttonEnable",
                               "lkasEnable", "silentLkasEnable" }
      /\ EventsOfType["preEnable"] = { "preEnableStandstill" }
      /\ EventsOfType["overrideLateral"] = { "steerOverride" }
      /\ EventsOfType["overrideLongitudinal"] = { "gasPressedOverride" }
      /\ EventsOfType["userDisable"] = UserAndNoEntry
                               \union { "pcmDisable", "lkasDisable",
                                        "manualSteeringRequired", "silentLkasDisable" }
  BY DEF EventsOfType
<1> QED
  BY <1>1, <1>2, <1>3
     DEF SoftAndNoEntry, ImmediateAndNoEntry, UserAndNoEntry, OnlyNoEntry

\* What the environment contributes is in the tables.
LEMMA EnvironmentEvents ==
  CarFlags \subseteq EventName /\ BrandFlags \subseteq EventName
    /\ SystemEventName \subseteq EventName
<1>1. /\ EventsOfType["noEntry"] \subseteq EventName
      /\ EventsOfType["softDisable"] \subseteq EventName
      /\ EventsOfType["immediateDisable"] \subseteq EventName
  BY TypeNames DEF EventName
<1>6. "brakeHold" \in EventName
  BY DEF EventName
<1>2. /\ EventsOfType["noEntry"] = SoftAndNoEntry \union ImmediateAndNoEntry
                               \union UserAndNoEntry \union OnlyNoEntry
      /\ EventsOfType["softDisable"] = SoftAndNoEntry \union { "bigModelFailed" }
      /\ EventsOfType["immediateDisable"] = ImmediateAndNoEntry
                               \union { "cruiseDisabled", "speedTooLow" }
  BY DEF EventsOfType
<1>3. CarFlags \subseteq EventName
  BY <1>1, <1>2, <1>6
     DEF CarFlags, SoftAndNoEntry, ImmediateAndNoEntry, UserAndNoEntry, OnlyNoEntry
<1>4. BrandFlags \subseteq EventName
  BY <1>1, <1>2 DEF BrandFlags, OnlyNoEntry
<1>5. SystemEventName \subseteq EventName
  BY <1>1, <1>2
     DEF SystemEventName, SoftAndNoEntry, ImmediateAndNoEntry, OnlyNoEntry
<1> QED BY <1>3, <1>4, <1>5

LEMMA FrameEventsType ==
  ASSUME NEW CS \in CarStates, NEW sys \in SystemEvents, NEW ready \in BOOLEAN, NEW count
  PROVE  FrameEvents(CS, sys, ready, count) \subseteq EventName
<1>1. CS \in CarStateType /\ sys \subseteq EventName
  BY EnvironmentAssumption, EnvironmentEvents
<1>2. CS.flags \subseteq EventName /\ CS.can \in { "valid", "invalid", "timeout" }
  BY <1>1, EnvironmentEvents DEF CarStateType
<1>3. CarEvents(CS) \subseteq EventName
  BY <1>2, KnownEvents DEF CarEvents
<1>4. CanEvents(CS) \subseteq EventName
  BY <1>2, KnownEvents DEF CanEvents
<1>5. ControlsMismatch(count) \subseteq EventName
  BY KnownEvents DEF ControlsMismatch
<1> QED BY <1>1, <1>3, <1>4, <1>5, KnownEvents DEF FrameEvents

LEMMA MadsEventsType ==
  ASSUME NEW CS, NEW E, NEW engaged, NEW count
  PROVE  MadsEvents(CS, E, engaged, count) \subseteq EventName
<1>1. ASSUME NEW e \in Pausing(CS, E) PROVE SilentOf[e] \in EventName
  BY <1>1, KnownEvents DEF Pausing, GEARS_ALLOW_PAUSED, GEARS_ALLOW_PAUSED_SILENT
<1>2. Requested(CS, E, engaged) \subseteq EventName
  <2>1. ASSUME NEW e \in Requested(CS, E, engaged),
               e \notin { "silentLkasDisable", "lkasEnable", "manualSteeringRequired",
                          "lkasDisable" }
        PROVE  \E x \in Pausing(CS, E) : e = SilentOf[x]
    BY <2>1 DEF Requested
  <2> QED BY <1>1, <2>1, KnownEvents
<1>3. BrakeDisengages(CS, E) \subseteq EventName /\ LateralMismatch(count) \subseteq EventName
  BY KnownEvents DEF BrakeDisengages, LateralMismatch
<1> QED BY <1>2, <1>3, KnownEvents DEF MadsEvents

-----------------------------------------------------------------------------
(* The state machines of a frame.                                           *)

LEMMA NextMadsStateType ==
  ASSUME NEW s \in MadsStates, NEW t, NEW T, NEW E, NEW ESP
  PROVE  NextMadsState(s, t, T, E, ESP) \in MadsStates
  BY DEF NextMadsState, MadsStates, EnterActive, AfterUserDisable, SoftDisabling

\* An immediate disable never leaves MADS active, though it may leave it paused.
LEMMA ImmediateDisableStopsMads ==
  ASSUME NEW s \in MadsActiveStates, NEW t, NEW T, NEW E, NEW ESP,
         "immediateDisable" \in T
  PROVE  NextMadsState(s, t, T, E, ESP) \notin MadsActiveStates
<1>1. CASE "userDisable" \in T
  <2>1. NextMadsState(s, t, T, E, ESP) = AfterUserDisable(ESP)
    BY <1>1 DEF NextMadsState, MadsActiveStates, Disabling
  <2> QED BY <2>1 DEF AfterUserDisable, MadsActiveStates
<1>2. CASE "userDisable" \notin T
  <2>1. NextMadsState(s, t, T, E, ESP) = "disabled"
    BY <1>2 DEF NextMadsState, MadsActiveStates, Disabling
  <2> QED BY <2>1 DEF MadsActiveStates
<1> QED BY <1>1, <1>2

-----------------------------------------------------------------------------
(* A frame: what selfdrived's own part of it computes, and hands to MADS.   *)

OwnEvents(CS, sys, panda, ready) == FrameEvents(CS, sys, ready, NextMismatch(panda.long))

OwnTypes(CS, sys, panda, ready) == TypesIn(OwnEvents(CS, sys, panda, ready))

OwnTimer(CS, sys, panda, ready) ==
  IF ready THEN NextTimer(state, soft_disable_timer, OwnTypes(CS, sys, panda, ready))
  ELSE soft_disable_timer

OwnAlerts(CS, sys, panda, ready) ==
  IF ready THEN AlertTypes(state, soft_disable_timer, OwnTypes(CS, sys, panda, ready))
  ELSE current_alert_types

\* What MADS leaves of it: a timer that selfdrived uses is not touched, and alert
\* types are only added.
LEMMA MadsLeavesSelfdrived ==
  ASSUME IInv, NEW CS \in CarStates, NEW sys \in SystemEvents, NEW panda \in PandaStates,
         NEW ready \in BOOLEAN, Frame(CS, sys, panda, ready)
  PROVE  /\ soft_disable_timer' \in 0..SoftDisableFrames
         /\ state' \in EnabledStates => soft_disable_timer' = OwnTimer(CS, sys, panda, ready)
         /\ OwnAlerts(CS, sys, panda, ready) \subseteq current_alert_types'
         /\ current_alert_types' \subseteq EventTypes
         /\ ~ready => UNCHANGED << current_alert_types, soft_disable_timer >>
<1> DEFINE t == OwnTimer(CS, sys, panda, ready)
           A == OwnAlerts(CS, sys, panda, ready)
<1>1. /\ state \in States /\ soft_disable_timer \in 0..SoftDisableFrames
      /\ current_alert_types \in SUBSET EventTypes
  BY DEF IInv, TypeOK
<1>2. /\ t \in 0..SoftDisableFrames /\ A \in SUBSET EventTypes
      /\ ~ready => t = soft_disable_timer /\ A = current_alert_types
  BY <1>1, NextTimerType, AlertsTell DEF OwnTimer, OwnAlerts
<1>3. CASE ~enabled_toggle
  <2>1. soft_disable_timer' = t /\ current_alert_types' = A
    BY <1>3 DEF Frame, MadsUpdate, OwnTimer, OwnAlerts, OwnTypes, OwnEvents
  <2> QED BY <1>2, <2>1
<1>4. CASE enabled_toggle
  <2> DEFINE E       == OwnEvents(CS, sys, panda, ready)
             engaged == state' \in EnabledStates
             ESP     == MadsEvents(CS, E, engaged, NextLateralMismatch(engaged, panda.lat))
             T       == TypesIn((E \ Removed(CS, E, engaged)) \union ESP)
             n       == mads_state'
  <2>1. /\ soft_disable_timer' =
             IF ready THEN NextMadsTimer(mads_state, n, t, engaged) ELSE t
        /\ current_alert_types' =
             IF ready THEN A \union MadsAlertTypes(mads_state, n, T, engaged) ELSE A
    BY <1>4, Zenon DEF Frame, MadsUpdate, OwnTimer, OwnAlerts, OwnTypes, OwnEvents
  <2> HIDE DEF T, n
  <2>2. /\ soft_disable_timer' \in 0..SoftDisableFrames
        /\ state' \in EnabledStates => soft_disable_timer' = t
        /\ ~ready => soft_disable_timer' = soft_disable_timer
    BY <1>2, <2>1, SoftDisableFramesAssumption DEF NextMadsTimer
  <2>3. MadsAlertTypes(mads_state, n, T, engaged) \subseteq EventTypes
    BY DEF MadsAlertTypes
  <2>4. /\ A \subseteq current_alert_types' /\ current_alert_types' \subseteq EventTypes
        /\ ~ready => current_alert_types' = current_alert_types
    BY <1>2, <2>1, <2>3
  <2> QED BY <2>2, <2>4
<1> QED BY <1>3, <1>4

\* What MADS makes of its own state.
LEMMA MadsKeepsType ==
  ASSUME IInv, NEW CS \in CarStates, NEW sys \in SystemEvents, NEW panda \in PandaStates,
         NEW ready \in BOOLEAN, Frame(CS, sys, panda, ready)
  PROVE  /\ mads_state' \in MadsStates
         /\ events' \subseteq EventName /\ events_sp' \subseteq EventName
         /\ enabled_prev' \in BOOLEAN /\ hushed' \in BOOLEAN
         /\ lateral_mismatch_counter' \in 0..MismatchLimit
         /\ lateral_mismatch_counter' = MismatchLimit => mads_state' \notin MadsActiveStates
         /\ ~ready => mads_state' = "disabled"
         /\ ~enabled_toggle => mads_state' = "disabled"
         /\ enabled_toggle => enabled_prev' = (state' \in EnabledStates)
<1> USE DEF IInv
<1> DEFINE E == OwnEvents(CS, sys, panda, ready)
<1>1. E \subseteq EventName
  BY FrameEventsType DEF OwnEvents
<1>2. panda.lat \in BOOLEAN /\ (initialized => ready)
  BY EnvironmentAssumption DEF PandaType, Frame
<1>3. CASE ~enabled_toggle
  <2>1. /\ mads_state' = "disabled" /\ events' = E /\ events_sp' = {}
        /\ hushed' = FALSE
        /\ UNCHANGED << enabled_prev, lateral_mismatch_counter >>
    BY <1>3 DEF Frame, MadsUpdate, OwnEvents
  <2> QED BY <1>1, <1>3, <2>1 DEF TypeOK, MadsStates, MadsActiveStates
<1>4. CASE enabled_toggle
  <2> DEFINE engaged == state' \in EnabledStates
             count == NextLateralMismatch(engaged, panda.lat)
             E2    == E \ Removed(CS, E, engaged)
             ESP   == MadsEvents(CS, E, engaged, count)
             T     == TypesIn(E2 \union ESP)
             t     == OwnTimer(CS, sys, panda, ready)
  <2>1. /\ mads_state' = IF ready THEN NextMadsState(mads_state, t, T, E2, ESP) ELSE mads_state
        /\ events' = E2 /\ events_sp' = ESP
        /\ enabled_prev' = engaged /\ lateral_mismatch_counter' = count
        /\ hushed' = Hushes(CS, E, engaged)
    BY <1>4, Zenon DEF Frame, MadsUpdate, OwnTimer, OwnTypes, OwnEvents
  <2>2. mads_state' \in MadsStates
    BY <2>1, NextMadsStateType DEF TypeOK
  <2>3. events' \subseteq EventName /\ events_sp' \subseteq EventName
    BY <1>1, <2>1, MadsEventsType
  <2>4. count \in 0..MismatchLimit
    BY <1>2, MismatchLimitAssumption DEF NextLateralMismatch, TypeOK, PandaHasTheLastWord
  <2>5. ~ready => mads_state' = "disabled"
    BY <1>2, <2>1
  <2>6. ASSUME count = MismatchLimit PROVE mads_state' \notin MadsActiveStates
    <3>1. CASE ~ready
      BY <2>5, <3>1 DEF MadsActiveStates
    <3>2. CASE ready
      <4>1. mads_state \in MadsActiveStates
        BY <2>6, MismatchLimitAssumption DEF NextLateralMismatch, MadsActive
      <4>2. "controlsMismatchLateral" \in ESP
        BY <2>6, MismatchLimitAssumption DEF MadsEvents, LateralMismatch
      <4>3. "immediateDisable" \in T
        BY <4>2, MismatchDisables
      <4> QED BY <2>1, <3>2, <4>1, <4>3, ImmediateDisableStopsMads
    <3> QED BY <3>1, <3>2
  <2>7. enabled_prev' \in BOOLEAN /\ hushed' \in BOOLEAN
    BY <2>1 DEF Hushes
  <2> HIDE DEF count
  <2> QED BY <1>4, <2>1, <2>2, <2>3, <2>4, <2>5, <2>6, <2>7
<1> QED BY <1>3, <1>4

\* What selfdrived's own part of a frame does with the state and the timer.
LEMMA SelfdrivedKeepsType ==
  ASSUME IInv, NEW CS \in CarStates, NEW sys \in SystemEvents, NEW panda \in PandaStates,
         NEW ready \in BOOLEAN, Frame(CS, sys, panda, ready)
  PROVE  /\ state' \in States
         /\ mismatch_counter' \in 0..MismatchLimit
         /\ mismatch_counter' = MismatchLimit => state' \notin EnabledStates
         /\ ~ready => state' = "disabled"
<1> DEFINE count == NextMismatch(panda.long)
           E     == FrameEvents(CS, sys, ready, count)
           T     == TypesIn(E)
<1> USE DEF IInv
<1>1. /\ state' = IF ready THEN NextState(state, soft_disable_timer, T) ELSE state
      /\ mismatch_counter' = count
      /\ initialized => ready
  BY DEF Frame
<1>2. panda.long \in BOOLEAN
  BY EnvironmentAssumption DEF PandaType
<1>3. state' \in States
  BY <1>1, NextStateType DEF TypeOK
<1>4. count \in 0..MismatchLimit
  BY MismatchLimitAssumption DEF NextMismatch, TypeOK, PandaHasTheLastWord
<1>5. ~ready => state' = "disabled"
  BY <1>1
<1>6. ASSUME count = MismatchLimit PROVE state' \notin EnabledStates
  <2>1. CASE ~ready
    BY <1>5, <2>1 DEF EnabledStates, ActiveStates
  <2>2. CASE ready
    <3>1. state \in States \ { "disabled" }
      BY <1>6, MismatchLimitAssumption
         DEF NextMismatch, Enabled, EnabledStates, ActiveStates, States
    <3>2. "controlsMismatch" \in E
      BY <1>6, <2>2, MismatchLimitAssumption DEF FrameEvents, ControlsMismatch
    <3>3. Disabling(T)
      BY <3>2, MismatchDisables DEF Disabling
    <3>4. state' = "disabled"
      BY <1>1, <2>2, <3>1, <3>3, DisablingDisables
    <3> QED BY <3>4 DEF EnabledStates, ActiveStates
  <2> QED BY <2>1, <2>2
<1> QED BY <1>1, <1>3, <1>4, <1>5, <1>6

LEMMA FrameInvariant ==
  ASSUME IInv, NEW CS \in CarStates, NEW sys \in SystemEvents, NEW panda \in PandaStates,
         NEW ready \in BOOLEAN, Frame(CS, sys, panda, ready)
  PROVE  IInv'
<1> DEFINE T == OwnTypes(CS, sys, panda, ready)
<1>1. /\ initialized => ready
      /\ initialized' = ready
      /\ state' = IF ready THEN NextState(state, soft_disable_timer, T) ELSE state
      /\ CS_prev' = CS
      /\ UNCHANGED << settings, refreshed >>
  BY DEF Frame, OwnTypes, OwnEvents
<1>2. /\ soft_disable_timer' \in 0..SoftDisableFrames
      /\ state' \in EnabledStates => soft_disable_timer' = OwnTimer(CS, sys, panda, ready)
      /\ current_alert_types' \subseteq EventTypes
  BY MadsLeavesSelfdrived
<1>3. /\ mads_state' \in MadsStates
      /\ events' \subseteq EventName /\ events_sp' \subseteq EventName
      /\ enabled_prev' \in BOOLEAN /\ hushed' \in BOOLEAN
      /\ lateral_mismatch_counter' \in 0..MismatchLimit
      /\ lateral_mismatch_counter' = MismatchLimit => mads_state' \notin MadsActiveStates
      /\ ~ready => mads_state' = "disabled"
      /\ ~enabled_toggle => mads_state' = "disabled"
      /\ enabled_toggle => enabled_prev' = (state' \in EnabledStates)
  BY MadsKeepsType
<1>4. /\ state' \in States
      /\ mismatch_counter' \in 0..MismatchLimit
      /\ mismatch_counter' = MismatchLimit => state' \notin EnabledStates
      /\ ~ready => state' = "disabled"
  BY SelfdrivedKeepsType
<1>5. ASSUME state' = "softDisabling" PROVE soft_disable_timer' >= 1
  <2>1. ready
    BY <1>4, <1>5
  <2>2. soft_disable_timer' = NextTimer(state, soft_disable_timer, T)
    BY <1>2, <1>5, <2>1 DEF OwnTimer, EnabledStates, ActiveStates
  <2>3. NextState(state, soft_disable_timer, T) = "softDisabling"
    BY <1>1, <1>5, <2>1
  <2>4. NextTimer(state, soft_disable_timer, T) \in 1..SoftDisableFrames
    BY <2>3, SoftDisablingHasTime DEF IInv, TypeOK
  <2> HIDE DEF T
  <2> QED BY <2>2, <2>4
<1>6. CS_prev' \in CarStateType /\ initialized' \in BOOLEAN
  BY <1>1, EnvironmentAssumption
<1>7. /\ enabled_toggle' \in BOOLEAN /\ steering_mode_on_brake' \in SteeringModes
      /\ mads_disengage_on_accelerator' \in BOOLEAN /\ disengage_on_accelerator' \in BOOLEAN
      /\ main_enabled_toggle' \in BOOLEAN /\ unified_engagement_mode' \in BOOLEAN
      /\ enabled_toggle' = enabled_toggle
  BY <1>1 DEF settings, refreshed, IInv, TypeOK
<1>8. TypeOK'
  BY <1>2, <1>3, <1>4, <1>6, <1>7, Zenon DEF TypeOK
<1>9. PandaHasTheLastWord'
  BY <1>3, <1>4 DEF PandaHasTheLastWord, Enabled, MadsActive
<1> QED BY <1>1, <1>3, <1>4, <1>5, <1>7, <1>8, <1>9 DEF IInv

\* A refresh by params_thread touches nothing the invariant speaks of but a type.
LEMMA RefreshInvariant ==
  ASSUME IInv,
         \/ ReadDisengageOnAccelerator \/ ReadMainEnabledToggle \/ ReadUnifiedEngagementMode
  PROVE  IInv' /\ UNCHANGED driving
<1>1. /\ UNCHANGED << driving, settings >>
      /\ disengage_on_accelerator' \in BOOLEAN /\ main_enabled_toggle' \in BOOLEAN
      /\ unified_engagement_mode' \in BOOLEAN
  BY EnvironmentAssumption
     DEF ReadDisengageOnAccelerator, ReadMainEnabledToggle, ReadUnifiedEngagementMode,
         ParamType, IInv, TypeOK
<1>2. TypeOK'
  BY <1>1 DEF driving, settings, IInv, TypeOK
<1> QED
  BY <1>1, <1>2
     DEF driving, settings, IInv, PandaHasTheLastWord, Enabled, MadsActive

LEMMA StepInvariant == IInv /\ [Next]_vars => IInv'
<1> SUFFICES ASSUME IInv, [Next]_vars PROVE IInv'
  OBVIOUS
<1>1. CASE Step
  BY <1>1, FrameInvariant DEF Step
<1>2. CASE \/ ReadDisengageOnAccelerator \/ ReadMainEnabledToggle
            \/ ReadUnifiedEngagementMode
  BY <1>2, RefreshInvariant
<1>3. CASE UNCHANGED vars
  BY <1>3 DEF vars, driving, settings, refreshed, IInv, TypeOK, PandaHasTheLastWord,
              Enabled, MadsActive
<1> QED BY <1>1, <1>2, <1>3 DEF Next

\* Everything a frame keeps has its type; the mismatch counters never pass their
\* limit.
THEOREM TypeCorrect == Spec => []TypeOK
<1>1. IInv => TypeOK
  BY DEF IInv
<1> QED BY <1>1, InitInvariant, StepInvariant, PTL DEF Spec

\* Neither cruise control nor steering outlives MismatchLimit samples of
\* disagreement with the panda.
THEOREM PandaAlwaysHasTheLastWord == Spec => []PandaHasTheLastWord
<1>1. IInv => PandaHasTheLastWord
  BY DEF IInv
<1> QED BY <1>1, InitInvariant, StepInvariant, PTL DEF Spec

-----------------------------------------------------------------------------
(* The alerts of a frame.                                                   *)

\* selfdrived has no mute event of its own.
LEMMA OwnEventsSound ==
  ASSUME NEW CS \in CarStates, NEW sys \in SystemEvents, NEW panda \in PandaStates,
         NEW ready \in BOOLEAN
  PROVE  OwnEvents(CS, sys, panda, ready) \intersect Mute = {}
<1>1. /\ CS.flags \subseteq CarFlags \union BrandFlags /\ sys \subseteq SystemEventName
      /\ CS.can \in { "valid", "invalid", "timeout" }
  BY EnvironmentAssumption DEF CarStateType
<1>2. CS.flags \intersect Mute = {} /\ sys \intersect Mute = {}
  BY <1>1 DEF CarFlags, BrandFlags, SystemEventName, Mute
<1>3. CarEvents(CS) \intersect Mute = {}
  BY <1>2 DEF CarEvents, Mute
<1>4. CanEvents(CS) \intersect Mute = {}
  BY <1>1 DEF CanEvents, Mute
<1> QED BY <1>2, <1>3, <1>4 DEF OwnEvents, FrameEvents, ControlsMismatch, Mute

\* An event that MADS has left, of a type that is asked for, makes an alert.
LEMMA EventMakesAlert ==
  ASSUME NEW et \in DOMAIN EventsOfType, NEW e \in EventsOfType[et],
         e \in events' \union events_sp', e \notin Mute, et \in current_alert_types'
  PROVE  et \in AlertsMade'
<1> DEFINE left == (events' \union events_sp') \ Mute
<1>1. left \intersect EventsOfType[et] # {}
  OBVIOUS
<1> HIDE DEF left
<1>2. et \in TypesIn(left)
  BY <1>1, TypesInEvents
<1> QED BY <1>2 DEF AlertsMade, left

\* A type of the events left makes its alert, where no mute event has the type.
LEMMA TypeMakesAlert ==
  ASSUME NEW et \in DOMAIN EventsOfType, et \in TypesIn(events' \union events_sp'),
         (events' \union events_sp') \intersect EventsOfType[et] \intersect Mute = {},
         et \in current_alert_types'
  PROVE  et \in AlertsMade'
<1>1. PICK e \in events' \union events_sp' : e \in EventsOfType[et]
  BY TypesInEvents
<1> QED BY <1>1, EventMakesAlert

\* The types that no mute event has; of the rest one is in question.
LEMMA SoundTypes ==
  /\ { "softDisable", "immediateDisable", "userDisable" } \subseteq DOMAIN EventsOfType
  /\ EventsOfType["softDisable"] \intersect Mute = {}
  /\ EventsOfType["immediateDisable"] \intersect Mute = {}
  /\ EventsOfType["userDisable"] \intersect Mute = { "silentLkasDisable" }
<1>1. { "softDisable", "immediateDisable", "userDisable" } \subseteq DOMAIN EventsOfType
  BY TypeNames
<1>2. EventsOfType["softDisable"] \intersect Mute = {}
  BY DEF EventsOfType, SoftAndNoEntry, Mute
<1>3. EventsOfType["immediateDisable"] \intersect Mute = {}
  BY DEF EventsOfType, ImmediateAndNoEntry, Mute
<1>4. EventsOfType["userDisable"] \intersect Mute = { "silentLkasDisable" }
  BY DEF EventsOfType, UserAndNoEntry, Mute
<1> QED BY <1>1, <1>2, <1>3, <1>4

\* What MADS leaves of selfdrived's events.  A frame that is not hushed keeps one of
\* those that ask to disable.
LEMMA MadsLeavesEvents ==
  ASSUME NEW CS, NEW sys, NEW panda, NEW ready, Frame(CS, sys, panda, ready)
  PROVE  LET E       == OwnEvents(CS, sys, panda, ready)
             engaged == state' \in EnabledStates
             asking  == E \intersect (EventsOfType.userDisable \union EventsOfType.immediateDisable)
         IN  /\ E \ Removed(CS, E, engaged) \subseteq events'
             /\ asking # {} /\ ~hushed' => asking \intersect events' # {}
<1> DEFINE E       == OwnEvents(CS, sys, panda, ready)
           engaged == state' \in EnabledStates
<1>1. CASE ~enabled_toggle
  <2>1. events' = E
    BY <1>1 DEF Frame, MadsUpdate, OwnEvents
  <2> HIDE DEF E
  <2> QED BY <2>1 DEF E
<1>2. CASE enabled_toggle
  <2>1. events' = E \ Removed(CS, E, engaged) /\ hushed' = Hushes(CS, E, engaged)
    BY <1>2, Zenon DEF Frame, MadsUpdate, OwnEvents
  <2> HIDE DEF E, engaged
  <2> QED BY <2>1 DEF E, engaged, Hushes
<1> QED BY <1>1, <1>2

\* While cruise control is engaged, or MADS does not steer alone, MADS removes requests
\* to enable and what concerns cruise control only.
LEMMA RemovedWhileEngaged ==
  ASSUME NEW CS, NEW E, NEW engaged, ~SteersAlone(engaged)
  PROVE  /\ Removed(CS, E, engaged) \intersect EventsOfType["softDisable"] = {}
         /\ Removed(CS, E, engaged) \intersect EventsOfType["immediateDisable"] = {}
<1>1. Removed(CS, E, engaged) \subseteq EnableRequests \union OnlyCruise
  BY DEF Removed, EnableRequests
<1> QED
  BY <1>1 DEF EnableRequests, OnlyCruise, EventsOfType, SoftAndNoEntry, ImmediateAndNoEntry

\* A soft disable of cruise control makes its alert.
LEMMA SoftDisableIsTold ==
  ASSUME IInv, NEW CS \in CarStates, NEW sys \in SystemEvents, NEW panda \in PandaStates,
         Frame(CS, sys, panda, TRUE), state' = "softDisabling"
  PROVE  "softDisable" \in AlertsMade'
<1> DEFINE E == OwnEvents(CS, sys, panda, TRUE)
<1>1. /\ state \in States /\ soft_disable_timer \in 0..SoftDisableFrames
      /\ state' = NextState(state, soft_disable_timer, TypesIn(E))
  BY DEF IInv, TypeOK, Frame, OwnEvents
<1>2. "softDisable" \in TypesIn(E)
  <2> HIDE DEF E
  <2> QED BY <1>1 DEF NextState, States
<1>3. PICK e \in E : e \in EventsOfType["softDisable"]
  <2> HIDE DEF E
  <2> QED BY <1>2, TypeNames, TypesInEvents
<1>4. e \in events'
  <2>1. ~SteersAlone(state' \in EnabledStates)
    BY DEF SteersAlone, EnabledStates, ActiveStates
  <2>2. e \notin Removed(CS, E, state' \in EnabledStates)
    <3> HIDE DEF E
    <3> QED BY <1>3, <2>1, RemovedWhileEngaged
  <2>3. E \ Removed(CS, E, state' \in EnabledStates) \subseteq events'
    BY MadsLeavesEvents, Zenon
  <2> HIDE DEF E
  <2> QED BY <1>3, <2>2, <2>3
<1>5. e \notin Mute
  BY <1>3, OwnEventsSound
<1>6. "softDisable" \in current_alert_types'
  <2>1. "softDisable" \in AlertTypes(state, soft_disable_timer, TypesIn(E))
    BY <1>1, AlertsTell
  <2>2. OwnAlerts(CS, sys, panda, TRUE) \subseteq current_alert_types'
    BY MadsLeavesSelfdrived
  <2> QED BY <2>1, <2>2 DEF OwnAlerts, OwnTypes
<1> HIDE DEF E
<1> QED BY <1>3, <1>4, <1>5, <1>6, TypeNames, EventMakesAlert

\* What MADS does with the shared timer and the shared alert types in a frame of an
\* initialized selfdrived.
LEMMA MadsFrameTells ==
  ASSUME enabled_toggle, NEW CS, NEW sys, NEW panda, Frame(CS, sys, panda, TRUE)
  PROVE  LET E       == OwnEvents(CS, sys, panda, TRUE)
             engaged == state' \in EnabledStates
             E2      == E \ Removed(CS, E, engaged)
             ESP     == MadsEvents(CS, E, engaged, NextLateralMismatch(engaged, panda.lat))
             T       == TypesIn(E2 \union ESP)
         IN  /\ soft_disable_timer' =
                  NextMadsTimer(mads_state, mads_state', OwnTimer(CS, sys, panda, TRUE), engaged)
             /\ MadsAlertTypes(mads_state, mads_state', T, engaged) \subseteq current_alert_types'
<1> DEFINE E       == OwnEvents(CS, sys, panda, TRUE)
           engaged == state' \in EnabledStates
           E2      == E \ Removed(CS, E, engaged)
           ESP     == MadsEvents(CS, E, engaged, NextLateralMismatch(engaged, panda.lat))
           T       == TypesIn(E2 \union ESP)
<1>1. /\ soft_disable_timer' =
           NextMadsTimer(mads_state, mads_state', OwnTimer(CS, sys, panda, TRUE), engaged)
      /\ current_alert_types' =
           OwnAlerts(CS, sys, panda, TRUE)
             \union MadsAlertTypes(mads_state, mads_state', T, engaged)
  BY Zenon DEF Frame, MadsUpdate, OwnTimer, OwnAlerts, OwnTypes, OwnEvents
<1>2. MadsAlertTypes(mads_state, mads_state', T, engaged) \subseteq current_alert_types'
  <2> HIDE DEF T
  <2> QED BY <1>1
<1> QED BY <1>1, <1>2, Zenon

\* The end of cruise control makes an alert, or is hushed.  Where MADS leaves nothing
\* of the type selfdrived asks for, it steers and asks for the type of what it leaves.
LEMMA EndIsTold ==
  ASSUME IInv, NEW CS \in CarStates, NEW sys \in SystemEvents, NEW panda \in PandaStates,
         Frame(CS, sys, panda, TRUE), state # "disabled", ~hushed',
         Disabling(OwnTypes(CS, sys, panda, TRUE))
  PROVE  AlertsMade' \intersect { "immediateDisable", "userDisable" } # {}
<1> DEFINE E       == OwnEvents(CS, sys, panda, TRUE)
           engaged == state' \in EnabledStates
           ESP     == MadsEvents(CS, E, engaged, NextLateralMismatch(engaged, panda.lat))
           T       == TypesIn((E \ Removed(CS, E, engaged)) \union ESP)
<1>1. Disabling(TypesIn(E)) /\ E \intersect Mute = {}
  BY OwnEventsSound DEF OwnTypes
<1>2. OwnAlerts(CS, sys, panda, TRUE) \subseteq current_alert_types'
  BY MadsLeavesSelfdrived
<1>3. /\ "immediateDisable" \in TypesIn(E) => "immediateDisable" \in current_alert_types'
      /\ "immediateDisable" \notin TypesIn(E) => "userDisable" \in current_alert_types'
  <2> HIDE DEF E
  <2> QED BY <1>1, <1>2 DEF OwnAlerts, OwnTypes, AlertTypes, EventTypes, Disabling, E
<1>4. PICK e \in E : /\ e \in EventsOfType.userDisable \union EventsOfType.immediateDisable
                     /\ e \in events'
  <2> DEFINE asking == E \intersect (EventsOfType.userDisable \union EventsOfType.immediateDisable)
  <2>1. asking # {}
    <3> HIDE DEF E
    <3>1. \/ E \intersect EventsOfType["userDisable"] # {}
          \/ E \intersect EventsOfType["immediateDisable"] # {}
      BY <1>1, TypeNames, TypesInEvents DEF Disabling
    <3> QED BY <3>1
  <2>2. asking # {} /\ ~hushed' => asking \intersect events' # {}
    BY MadsLeavesEvents, Zenon
  <2> HIDE DEF E
  <2> QED BY <2>1, <2>2
<1>5. CASE e \in EventsOfType["immediateDisable"]
  <2> HIDE DEF E
  <2>1. "immediateDisable" \in TypesIn(E)
    BY <1>4, <1>5, TypeNames, TypesInEvents
  <2> QED BY <1>1, <1>3, <1>4, <1>5, <2>1, TypeNames, EventMakesAlert
<1>6. CASE e \in EventsOfType["userDisable"] /\ MadsEnabled
  <2>1. enabled_toggle /\ mads_state # "disabled"
    BY <1>6 DEF IInv, MadsEnabled, MadsEnabledStates, MadsActiveStates
  <2>2. /\ events' = E \ Removed(CS, E, engaged)
        /\ MadsAlertTypes(mads_state, mads_state', T, engaged) \subseteq current_alert_types'
    <3>1. events' = E \ Removed(CS, E, engaged)
      BY <2>1, Zenon DEF Frame, MadsUpdate, OwnEvents
    <3> QED BY <2>1, <3>1, MadsFrameTells, Zenon
  <2> HIDE DEF E, ESP, engaged
  <2>3. "userDisable" \in T
    <3>1. ((E \ Removed(CS, E, engaged)) \union ESP) \intersect EventsOfType["userDisable"] # {}
      BY <1>4, <1>6, <2>2
    <3> QED BY <3>1, TypeNames, TypesInEvents
  <2> HIDE DEF T
  <2>4. "userDisable" \in MadsAlertTypes(mads_state, mads_state', T, engaged)
    BY <2>1, <2>3 DEF MadsAlertTypes, EventTypes
  <2> QED BY <1>1, <1>4, <1>6, <2>2, <2>4, TypeNames, EventMakesAlert
<1>7. CASE e \in EventsOfType["userDisable"] /\ ~MadsEnabled
  <2>1. CASE "immediateDisable" \notin TypesIn(E)
    <3> HIDE DEF E
    <3> QED BY <1>1, <1>3, <1>4, <1>7, <2>1, TypeNames, EventMakesAlert
  <2>2. CASE "immediateDisable" \in TypesIn(E)
    <3>1. PICK x \in E : x \in EventsOfType["immediateDisable"]
      <4> HIDE DEF E
      <4> QED BY <2>2, TypeNames, TypesInEvents
    <3>2. x \notin Removed(CS, E, engaged)
      <4>1. ~SteersAlone(engaged)
        BY <1>7 DEF SteersAlone
      <4> HIDE DEF E, engaged
      <4> QED BY <3>1, <4>1, RemovedWhileEngaged
    <3>3. E \ Removed(CS, E, engaged) \subseteq events'
      BY MadsLeavesEvents, Zenon
    <3> HIDE DEF E, engaged
    <3>4. x \in events'
      BY <3>1, <3>2, <3>3
    <3> QED BY <1>1, <1>3, <2>2, <3>1, <3>4, TypeNames, EventMakesAlert
  <2> QED BY <2>1, <2>2
<1> QED BY <1>4, <1>5, <1>6, <1>7

-----------------------------------------------------------------------------
(* Refinement.                                                              *)

LEMMA FrameKeepsContract ==
  ASSUME IInv, NEW CS \in CarStates, NEW sys \in SystemEvents, NEW panda \in PandaStates,
         NEW ready \in BOOLEAN, Frame(CS, sys, panda, ready)
  PROVE  [EngagementContract!Next]_EngagementContract!vars
<1> DEFINE T == OwnTypes(CS, sys, panda, ready)
           told == AlertsMade
                     \intersect { "immediateDisable", "userDisable", "softDisable" } # {}
<1>1. state' = IF ready THEN NextState(state, soft_disable_timer, T) ELSE state
  BY DEF Frame, OwnTypes, OwnEvents
<1>2. /\ state \in States /\ soft_disable_timer \in 0..SoftDisableFrames
      /\ state = "softDisabling" => soft_disable_timer >= 1
  BY DEF IInv, TypeOK
<1>3. /\ state' \in EnabledStates => soft_disable_timer' = OwnTimer(CS, sys, panda, ready)
      /\ hushed' \in BOOLEAN
  BY MadsLeavesSelfdrived, MadsKeepsType
<1>4. CASE ready = TRUE
  <2>1. state' = NextState(state, soft_disable_timer, T)
    BY <1>1, <1>4
  <2>2. state' = "softDisabling" => told'
    BY <1>4, SoftDisableIsTold
  <2>3. state # "disabled" /\ Disabling(T) => told' \/ hushed'
    <3> SUFFICES ASSUME state # "disabled", Disabling(T), ~hushed' PROVE told'
      OBVIOUS
    <3>1. AlertsMade' \intersect { "immediateDisable", "userDisable" } # {}
      BY <1>4, EndIsTold
    <3> QED BY <3>1
  <2>4. Grace(state', soft_disable_timer')
          = Grace(state', NextTimer(state, soft_disable_timer, T))
    BY <1>3, <1>4 DEF Grace, EnabledStates, ActiveStates, OwnTimer
  <2>5. told' \in BOOLEAN
    OBVIOUS
  <2> HIDE DEF T, told
  <2>6. ContractAllows(state, Grace(state, soft_disable_timer),
                       state', Grace(state', soft_disable_timer'), told', hushed')
    BY <1>2, <2>1, <2>2, <2>3, <2>4, StepKeepsContract
  <2> QED
    BY <1>3, <2>5, <2>6 DEF ContractAllows, Grace, told, EngagementContract!Next,
       EngagementContract!Engage, EngagementContract!Drive,
       EngagementContract!BeginSoftDisable, EngagementContract!CountDown,
       EngagementContract!Recover, EngagementContract!Expire,
       EngagementContract!Disengage, EngagementContract!Idle
<1>5. CASE ready = FALSE
  <2>1. state = "disabled" /\ state' = "disabled"
    BY <1>1, <1>5 DEF Frame, IInv
  <2>2. told' \in BOOLEAN
    OBVIOUS
  <2> HIDE DEF told
  <2> QED
    BY <1>3, <2>1, <2>2 DEF told, EngagementContract!Next, EngagementContract!Idle
<1> QED BY <1>4, <1>5

\* selfdrived with MADS inside its frame implements the contract of Engagement: the
\* shared timer and the shared alert types disturb nothing, and an end makes an alert
\* or is hushed by MADS.
THEOREM KeepsEngagementContract == Spec => ImplementsEngagement
<1>1. Init => EngagementContract!Init
  <2> SUFFICES ASSUME Init PROVE EngagementContract!Init
    OBVIOUS
  <2>1. TypesIn((events \union events_sp) \ Mute) = {}
    BY DEF Init, TypesIn
  <2> QED BY <2>1 DEF Init, AlertsMade, EngagementContract!Init
<1>2. IInv /\ [Next]_vars => [EngagementContract!Next]_EngagementContract!vars
  <2> SUFFICES ASSUME IInv, [Next]_vars
               PROVE  [EngagementContract!Next]_EngagementContract!vars
    OBVIOUS
  <2>1. CASE Step
    BY <2>1, FrameKeepsContract DEF Step
  <2>2. CASE \/ ReadDisengageOnAccelerator \/ ReadMainEnabledToggle
              \/ ReadUnifiedEngagementMode
    <3>1. UNCHANGED driving
      BY <2>2, RefreshInvariant
    <3> QED BY <3>1 DEF driving, AlertsMade, EngagementContract!vars
  <2>3. CASE UNCHANGED vars
    BY <2>3 DEF vars, driving, AlertsMade, EngagementContract!vars
  <2> QED BY <2>1, <2>2, <2>3 DEF Next
<1> QED
  BY <1>1, <1>2, InitInvariant, StepInvariant, PTL
     DEF Spec, ImplementsEngagement, EngagementContract!Spec

-----------------------------------------------------------------------------
(* What a frame never does.                                                 *)

\* A step that shows in vars and leaves the refreshed attributes alone is a frame
\* of an initialized selfdrived, or changes nothing that drives.
LEMMA FrameStepIsFrame ==
  ASSUME Next, FrameStep, ~UNCHANGED vars
  PROVE  \E CS \in CarStates, sys \in SystemEvents, panda \in PandaStates :
           Frame(CS, sys, panda, TRUE)
<1>1. Step
  <2>1. ASSUME \/ ReadDisengageOnAccelerator \/ ReadMainEnabledToggle
               \/ ReadUnifiedEngagementMode
        PROVE  FALSE
    BY <2>1 DEF ReadDisengageOnAccelerator, ReadMainEnabledToggle,
       ReadUnifiedEngagementMode, FrameStep, vars, settings, refreshed, driving
  <2> QED BY <2>1 DEF Next
<1>2. PICK CS \in CarStates, sys \in SystemEvents, panda \in PandaStates, ready \in BOOLEAN :
        Frame(CS, sys, panda, ready)
  BY <1>1 DEF Step
<1>3. ready = TRUE
  BY <1>2 DEF Frame, FrameStep
<1> QED BY <1>2, <1>3

\* MADS' part of a frame of an initialized selfdrived.
LEMMA MadsFrame ==
  ASSUME enabled_toggle, NEW CS, NEW sys, NEW panda, Frame(CS, sys, panda, TRUE)
  PROVE  LET E       == OwnEvents(CS, sys, panda, TRUE)
             engaged == state' \in EnabledStates
             E2      == E \ Removed(CS, E, engaged)
             ESP     == MadsEvents(CS, E, engaged, NextLateralMismatch(engaged, panda.lat))
         IN  /\ state' = NextState(state, soft_disable_timer, TypesIn(E))
             /\ CS_prev' = CS
             /\ mads_state' = NextMadsState(mads_state, OwnTimer(CS, sys, panda, TRUE),
                                            TypesIn(E2 \union ESP), E2, ESP)
  BY Zenon DEF Frame, MadsUpdate, OwnTimer, OwnTypes, OwnEvents

LEMMA MadsFrameEvents ==
  ASSUME enabled_toggle, NEW CS, NEW sys, NEW panda, Frame(CS, sys, panda, TRUE)
  PROVE  LET E       == OwnEvents(CS, sys, panda, TRUE)
             engaged == state' \in EnabledStates
         IN  /\ events' = E \ Removed(CS, E, engaged)
             /\ events_sp' = MadsEvents(CS, E, engaged, NextLateralMismatch(engaged, panda.lat))
  BY Zenon DEF Frame, MadsUpdate, OwnEvents

LEMMA UserDisableStopsMads ==
  ASSUME NEW s \in MadsActiveStates, NEW t, NEW T, NEW E, NEW ESP,
         "userDisable" \in T
  PROVE  NextMadsState(s, t, T, E, ESP) \notin MadsActiveStates
<1>1. NextMadsState(s, t, T, E, ESP) = AfterUserDisable(ESP)
  BY DEF NextMadsState, MadsActiveStates, Disabling
<1> QED BY <1>1 DEF AfterUserDisable, MadsActiveStates

\* The brake takes the steering away in the modes that say so.
LEMMA BrakeFrame ==
  ASSUME IInv, NEW CS \in CarStates, NEW sys \in SystemEvents, NEW panda \in PandaStates,
         Frame(CS, sys, panda, TRUE),
         steering_mode_on_brake \in { "pause", "disengage" },
         MadsActive, enabled_toggle,
         CS.can = "valid", CS.brakePressed,
         ~CS_prev.brakePressed \/ ~CS.standstill,
         ~(CS.gasPressed /\ ~CS_prev.gasPressed /\ mads_disengage_on_accelerator)
  PROVE  ~MadsActive'
<1> DEFINE E       == OwnEvents(CS, sys, panda, TRUE)
           engaged == state' \in EnabledStates
           E2      == E \ Removed(CS, E, engaged)
           ESP     == MadsEvents(CS, E, engaged, NextLateralMismatch(engaged, panda.lat))
           T       == TypesIn(E2 \union ESP)
           t       == OwnTimer(CS, sys, panda, TRUE)
<1>1. /\ state' = NextState(state, soft_disable_timer, TypesIn(E))
      /\ mads_state' = NextMadsState(mads_state, t, T, E2, ESP)
  BY MadsFrame, Zenon
<1>2. "pedalPressed" \in E
  BY DEF OwnEvents, FrameEvents, PedalPressed
<1>3. PedalPressedNonGas(CS, E)
  BY <1>2 DEF PedalPressedNonGas
<1>4. ~engaged
  <2>1. { "pedalPressed" } \subseteq EventsOfType["userDisable"]
    BY DEF EventsOfType, UserAndNoEntry
  <2>2. "userDisable" \in TypesIn(E)
    BY <1>2, <2>1, TypeNames, TypesInEvents
  <2>3. \/ state = "disabled" /\ state' = "disabled"
        \/ state \in States \ { "disabled" } /\ state' = "disabled"
    <3>1. CASE state = "disabled"
      <4>1. "pedalPressed" \in EventsOfType["noEntry"]
        BY DEF EventsOfType, UserAndNoEntry
      <4>2. "noEntry" \in TypesIn(E)
        BY <1>2, <4>1, TypeNames, TypesInEvents
      <4> QED BY <1>1, <3>1, <4>2 DEF NextState, Entering
    <3>2. CASE state # "disabled"
      BY <1>1, <2>2, <3>2, DisablingDisables DEF IInv, TypeOK, Disabling
    <3> QED BY <3>1, <3>2
  <2> QED BY <2>3 DEF EnabledStates, ActiveStates
<1>5. mads_state \in MadsActiveStates
  BY DEF MadsActive
<1>6. ESP \intersect { "lkasDisable", "silentLkasDisable" } # {}
  <2>1. CASE steering_mode_on_brake = "disengage"
    <3>1. BrakeDisengages(CS, E) = { "lkasDisable" }
      BY <1>3, <1>5, <2>1 DEF BrakeDisengages, MadsEnabled, MadsEnabledStates
    <3> QED BY <3>1 DEF MadsEvents
  <2>2. CASE steering_mode_on_brake = "pause"
    <3>1. SteersAlone(engaged) /\ BrakePauses(CS, E) /\ mads_state # "paused"
      BY <1>3, <1>4, <1>5, <2>2
         DEF SteersAlone, BrakePauses, MadsEnabled, MadsEnabledStates, MadsActiveStates
    <3>2. "silentLkasDisable" \in Requested(CS, E, engaged)
      BY <3>1 DEF Requested
    <3> QED BY <3>2 DEF MadsEvents
  <2> QED BY <2>1, <2>2
<1>7. "userDisable" \in T
  <2>1. { "lkasDisable", "silentLkasDisable" } \subseteq EventsOfType["userDisable"]
    BY DEF EventsOfType
  <2> QED BY <1>6, <2>1, TypeNames, TypesInEvents
<1> HIDE DEF T, E2, ESP, t
<1> QED BY <1>1, <1>5, <1>7, UserDisableStopsMads DEF MadsActive

\* In the modes that let go of the wheel on the brake, no frame with the brake
\* leaves MADS steering that steered before it.
THEOREM BrakeAlwaysStopsSteering == Spec => BrakeStopsSteering
<1>1. ASSUME IInv, [Next]_vars,
             ~UNCHANGED vars,
             FrameStep,
             steering_mode_on_brake \in { "pause", "disengage" },
             MadsActive, enabled_toggle,
             CS_prev'.can = "valid", CS_prev'.brakePressed,
             ~CS_prev.brakePressed \/ ~CS_prev'.standstill,
             ~(CS_prev'.gasPressed /\ ~CS_prev.gasPressed /\ mads_disengage_on_accelerator)
      PROVE  ~MadsActive'
  <2>1. PICK CS \in CarStates, sys \in SystemEvents, panda \in PandaStates :
          Frame(CS, sys, panda, TRUE)
    BY <1>1, FrameStepIsFrame
  <2>2. CS_prev' = CS
    BY <2>1 DEF Frame
  <2> QED BY <1>1, <2>1, <2>2, BrakeFrame
<1>2. IInv /\ [Next]_vars =>
        [ (/\ FrameStep
           /\ steering_mode_on_brake \in { "pause", "disengage" }
           /\ MadsActive
           /\ CS_prev'.can = "valid" /\ CS_prev'.brakePressed
           /\ ~CS_prev.brakePressed \/ ~CS_prev'.standstill
           /\ ~(CS_prev'.gasPressed /\ ~CS_prev.gasPressed /\ mads_disengage_on_accelerator)
           /\ enabled_toggle)
          => ~MadsActive' ]_vars
  BY <1>1
<1> QED BY <1>2, InitInvariant, StepInvariant, PTL DEF Spec, BrakeStopsSteering

-----------------------------------------------------------------------------
\* A frame without main cruise, or without a sound CAN bus, holds a NO_ENTRY.
LEMMA NoEntryWithoutMainCruise ==
  ASSUME IInv, NEW CS \in CarStates, NEW sys \in SystemEvents, NEW panda \in PandaStates,
         ~MadsEnabled, ~CS.available
  PROVE  "noEntry" \in TypesIn(OwnEvents(CS, sys, panda, TRUE))
<1> DEFINE E == OwnEvents(CS, sys, panda, TRUE)
<1>1. CS.can \in { "valid", "invalid", "timeout" }
  BY EnvironmentAssumption DEF CarStateType
<1>2. E \intersect { "wrongCarMode", "canError", "canBusMissing" } # {}
  <2>1. CASE CS.can = "valid"
    BY <2>1 DEF OwnEvents, FrameEvents, CarEvents
  <2>2. CASE CS.can = "invalid"
    BY <2>2 DEF OwnEvents, FrameEvents, CanEvents
  <2>3. CASE CS.can = "timeout"
    BY <2>3 DEF OwnEvents, FrameEvents, CanEvents
  <2> QED BY <1>1, <2>1, <2>2, <2>3
<1>3. { "wrongCarMode", "canError", "canBusMissing" } \subseteq EventsOfType["noEntry"]
  BY DEF EventsOfType, ImmediateAndNoEntry, UserAndNoEntry
<1>4. "noEntry" \in TypesIn(E)
  <2> HIDE DEF E
  <2> QED BY <1>2, <1>3, TypeNames, TypesInEvents
<1> QED BY <1>4

\* What lets cruise control engage lets MADS engage in the same frame.
LEMMA EngagingFrame ==
  ASSUME IInv, NEW CS \in CarStates, NEW sys \in SystemEvents, NEW panda \in PandaStates,
         Frame(CS, sys, panda, TRUE),
         enabled_toggle, unified_engagement_mode,
         ~Enabled, Enabled', ~MadsEnabled
  PROVE  MadsEnabled'
<1> DEFINE E       == OwnEvents(CS, sys, panda, TRUE)
           engaged == state' \in EnabledStates
           E2      == E \ Removed(CS, E, engaged)
           count   == NextLateralMismatch(engaged, panda.lat)
           ESP     == MadsEvents(CS, E, engaged, count)
           T       == TypesIn(E2 \union ESP)
           t       == OwnTimer(CS, sys, panda, TRUE)
<1>1. /\ state' = NextState(state, soft_disable_timer, TypesIn(E))
      /\ mads_state' = NextMadsState(mads_state, t, T, E2, ESP)
  BY MadsFrame, Zenon
<1>2. state = "disabled" /\ mads_state = "disabled"
  BY DEF IInv, TypeOK, Enabled, EnabledStates, ActiveStates, States,
         MadsEnabled, MadsEnabledStates, MadsActiveStates, MadsStates
<1>3. engaged /\ ~SteersAlone(engaged) /\ enabled_prev = FALSE
  <2>1. engaged /\ ~SteersAlone(engaged)
    BY DEF Enabled, SteersAlone
  <2>2. (state \in EnabledStates) = FALSE
    BY <1>2 DEF EnabledStates, ActiveStates
  <2>3. enabled_prev = (state \in EnabledStates)
    BY DEF IInv
  <2> QED BY <2>1, <2>2, <2>3, Zenon
<1>4. "enable" \in TypesIn(E) /\ "noEntry" \notin TypesIn(E)
  BY <1>1, <1>2, <1>3 DEF NextState, Entering, EnabledStates, ActiveStates
<1>5. CS.available
  BY <1>4, NoEntryWithoutMainCruise
<1>6. EventsOfType["enable"] \intersect Removed(CS, E, engaged) = {}
  <2>1. ~BlockUnifiedEngagement(engaged)
    BY <1>3 DEF BlockUnifiedEngagement
  <2>2. Removed(CS, E, engaged) = OnlyCruise
    BY <1>3, <1>5, <2>1 DEF Removed
  <2> QED BY <2>2 DEF OnlyCruise, EventsOfType
<1>7. "enable" \in T
  <2>1. E \intersect EventsOfType["enable"] # {}
    BY <1>4, TypeNames, TypesInEvents
  <2>2. (E2 \union ESP) \intersect EventsOfType["enable"] # {}
    BY <1>6, <2>1
  <2> HIDE DEF E2, ESP
  <2> QED BY <2>2, TypeNames, TypesInEvents
<1>8. ESP \subseteq { "lkasEnable", "lkasDisable" }
  <2>1. Requested(CS, E, engaged) \subseteq { "lkasEnable", "lkasDisable" }
    BY <1>3 DEF Requested
  <2>2. BrakeDisengages(CS, E) = {} /\ ~Resumes(CS, E, Requested(CS, E, engaged))
    BY <1>2 DEF BrakeDisengages, Resumes
  <2>3. LateralMismatch(count) = {}
    <3>1. count = 0
      BY <1>2 DEF NextLateralMismatch, MadsActive, MadsActiveStates
    <3> QED BY <3>1, MismatchLimitAssumption DEF LateralMismatch
  <2> QED BY <2>1, <2>2, <2>3 DEF MadsEvents
<1>9. "noEntry" \notin T
  <2>1. E \intersect EventsOfType["noEntry"] = {}
    BY <1>4, TypeNames, TypesInEvents
  <2>2. { "lkasEnable", "lkasDisable" } \intersect EventsOfType["noEntry"] = {}
    BY DEF EventsOfType, SoftAndNoEntry, ImmediateAndNoEntry, UserAndNoEntry, OnlyNoEntry
  <2>3. (E2 \union ESP) \intersect EventsOfType["noEntry"] = {}
    BY <1>8, <2>1, <2>2
  <2> HIDE DEF E2, ESP
  <2> QED BY <2>3, TypeNames, TypesInEvents
<1>10. mads_state' = EnterActive(T)
  <2> HIDE DEF T, E2, ESP, t
  <2> QED BY <1>1, <1>2, <1>7, <1>9 DEF NextMadsState, Entering
<1> HIDE DEF T
<1> QED BY <1>10 DEF EnterActive, MadsEnabled, MadsEnabledStates, MadsActiveStates

\* With unified engagement cruise control never engages without the steering.
THEOREM EngagementIsUnified == Spec => UnifiedEngagement
<1>1. ASSUME IInv, [Next]_vars,
             ~UNCHANGED vars,
             FrameStep, enabled_toggle, unified_engagement_mode,
             ~Enabled, Enabled', ~MadsEnabled
      PROVE  MadsEnabled'
  <2>1. PICK CS \in CarStates, sys \in SystemEvents, panda \in PandaStates :
          Frame(CS, sys, panda, TRUE)
    BY <1>1, FrameStepIsFrame
  <2> QED BY <1>1, <2>1, EngagingFrame
<1>2. IInv /\ [Next]_vars =>
        [ (/\ FrameStep /\ enabled_toggle /\ unified_engagement_mode
           /\ ~Enabled /\ Enabled' /\ ~MadsEnabled)
          => MadsEnabled' ]_vars
  BY <1>1
<1> QED BY <1>2, InitInvariant, StepInvariant, PTL DEF Spec, UnifiedEngagement

-----------------------------------------------------------------------------
(* Soft disables of the steering.                                           *)

\* MADS is softDisabling after a step only with time left on the timer it was given.
LEMMA MadsSoftDisablingHasTime ==
  ASSUME NEW s \in MadsStates, NEW t \in 0..SoftDisableFrames, NEW T, NEW E, NEW ESP,
         NextMadsState(s, t, T, E, ESP) = "softDisabling"
  PROVE  NextMadsTimer(s, "softDisabling", t, FALSE) >= 1
<1>1. CASE s # "softDisabling"
  BY <1>1, SoftDisableFramesAssumption DEF NextMadsTimer
<1>2. CASE s = "softDisabling"
  <2>1. SoftDisabling(t, T) = "softDisabling"
    BY <1>2 DEF NextMadsState, AfterUserDisable, Disabling
  <2>2. t > 0
    BY <2>1 DEF SoftDisabling
  <2> QED BY <1>2, <2>2 DEF NextMadsTimer
<1> QED BY <1>1, <1>2

\* ... and only while an event asks for it.
LEMMA SoftDisablingIsAsked ==
  ASSUME NEW s \in MadsStates, NEW t, NEW T, NEW E, NEW ESP,
         NextMadsState(s, t, T, E, ESP) = "softDisabling"
  PROVE  "softDisable" \in T
  BY DEF NextMadsState, MadsStates, EnterActive, AfterUserDisable, SoftDisabling, Disabling

LEMMA SoftDisableFrame ==
  ASSUME IInv, NEW CS \in CarStates, NEW sys \in SystemEvents, NEW panda \in PandaStates,
         NEW ready \in BOOLEAN, Frame(CS, sys, panda, ready),
         mads_state' = "softDisabling", state' \in { "disabled", "softDisabling" }
  PROVE  soft_disable_timer' >= 1 /\ "softDisable" \in AlertsMade'
<1>1. ready = TRUE /\ enabled_toggle
  BY MadsKeepsType DEF IInv, TypeOK
<1>2. /\ state \in States /\ soft_disable_timer \in 0..SoftDisableFrames
      /\ mads_state \in MadsStates
  BY DEF IInv, TypeOK
<1>3. CASE state' = "softDisabling"
  <2> DEFINE T == OwnTypes(CS, sys, panda, ready)
  <2>1. NextState(state, soft_disable_timer, T) = "softDisabling"
    BY <1>1, <1>3 DEF Frame, OwnTypes, OwnEvents
  <2>2. soft_disable_timer' = NextTimer(state, soft_disable_timer, T)
    BY <1>1, <1>3, MadsLeavesSelfdrived DEF OwnTimer, EnabledStates, ActiveStates
  <2>3. NextTimer(state, soft_disable_timer, T) \in 1..SoftDisableFrames
    BY <1>2, <2>1, SoftDisablingHasTime
  <2>4. "softDisable" \in AlertsMade'
    BY <1>1, <1>3, SoftDisableIsTold
  <2> HIDE DEF T
  <2> QED BY <2>2, <2>3, <2>4
<1>4. CASE state' = "disabled"
  <2> DEFINE E       == OwnEvents(CS, sys, panda, TRUE)
             engaged == state' \in EnabledStates
             E2      == E \ Removed(CS, E, engaged)
             ESP     == MadsEvents(CS, E, engaged, NextLateralMismatch(engaged, panda.lat))
             T       == TypesIn(E2 \union ESP)
             t       == OwnTimer(CS, sys, panda, TRUE)
  <2>1. /\ mads_state' = NextMadsState(mads_state, t, T, E2, ESP)
        /\ soft_disable_timer' = NextMadsTimer(mads_state, mads_state', t, engaged)
        /\ MadsAlertTypes(mads_state, mads_state', T, engaged) \subseteq current_alert_types'
    BY <1>1, MadsFrame, MadsFrameTells, Zenon
  <2>2. engaged = FALSE
    BY <1>4 DEF EnabledStates, ActiveStates
  <2>3. t \in 0..SoftDisableFrames
    BY <1>2, NextTimerType DEF OwnTimer
  <2> HIDE DEF T, E2, ESP, t, engaged
  <2>4. NextMadsTimer(mads_state, "softDisabling", t, FALSE) >= 1
    BY <1>2, <2>1, <2>3, MadsSoftDisablingHasTime
  <2>5. "softDisable" \in MadsAlertTypes(mads_state, mads_state', T, engaged)
    BY <2>2 DEF MadsAlertTypes, EventTypes
  <2>6. "softDisable" \in T
    BY <1>2, <2>1, SoftDisablingIsAsked
  <2>7. events' = E2 /\ events_sp' = ESP
    BY <1>1, MadsFrameEvents, Zenon DEF E2, ESP, engaged
  <2>8. "softDisable" \in AlertsMade'
    BY <2>1, <2>5, <2>6, <2>7, SoundTypes, TypeMakesAlert DEF T
  <2> QED BY <2>1, <2>2, <2>4, <2>8
<1> QED BY <1>3, <1>4

LEMMA SoftDisableStep == IInv /\ SteeringSoftDisableRuns /\ [Next]_vars => SteeringSoftDisableRuns'
<1> SUFFICES ASSUME IInv, SteeringSoftDisableRuns, [Next]_vars
             PROVE  SteeringSoftDisableRuns'
  OBVIOUS
<1>1. CASE Step
  BY <1>1, SoftDisableFrame DEF Step, SteeringSoftDisableRuns, AlertsMade
<1>2. CASE \/ ReadDisengageOnAccelerator \/ ReadMainEnabledToggle
            \/ ReadUnifiedEngagementMode
  <2>1. UNCHANGED driving
    BY <1>2, RefreshInvariant
  <2> QED BY <2>1 DEF driving, SteeringSoftDisableRuns, AlertsMade
<1>3. CASE UNCHANGED vars
  BY <1>3 DEF vars, driving, SteeringSoftDisableRuns, AlertsMade
<1> QED BY <1>1, <1>2, <1>3 DEF Next

\* While MADS counts down a soft disable the shared timer runs and its alert is made,
\* no matter which of the two machines started it, as long as selfdrived is off
\* or counts down as well.
THEOREM SteeringSoftDisableAlwaysRuns == Spec => []SteeringSoftDisableRuns
<1>1. Init => SteeringSoftDisableRuns
  BY DEF Init, SteeringSoftDisableRuns
<1> QED BY <1>1, InitInvariant, StepInvariant, SoftDisableStep, PTL DEF Spec

-----------------------------------------------------------------------------
(* The steering stops knowingly.                                            *)

\* MADS' own events: what a request of MADS can be, whatever the frame.
LEMMA RequestedEvents ==
  ASSUME NEW CS, NEW E, NEW engaged
  PROVE  Requested(CS, E, engaged) \subseteq
           GEARS_ALLOW_PAUSED_SILENT
             \union { "silentLkasDisable", "lkasEnable", "manualSteeringRequired",
                      "lkasDisable" }
<1>1. ASSUME NEW e \in Pausing(CS, E) PROVE SilentOf[e] \in GEARS_ALLOW_PAUSED_SILENT
  BY <1>1 DEF Pausing, GEARS_ALLOW_PAUSED, GEARS_ALLOW_PAUSED_SILENT
<1>2. ASSUME NEW e \in Requested(CS, E, engaged),
             e \notin { "silentLkasDisable", "lkasEnable", "manualSteeringRequired",
                        "lkasDisable" }
      PROVE  \E x \in Pausing(CS, E) : e = SilentOf[x]
  BY <1>2 DEF Requested
<1> QED BY <1>1, <1>2

\* ... so that a soft disable is always one of selfdrived's events, and an immediate
\* disable too while cruise control is engaged.
LEMMA FaultsAreOfSelfdrived ==
  ASSUME NEW CS, NEW E, NEW engaged, NEW count
  PROVE  LET E2  == E \ Removed(CS, E, engaged)
             ESP == MadsEvents(CS, E, engaged, count)
         IN  /\ "softDisable" \in TypesIn(E2 \union ESP) => "softDisable" \in TypesIn(E)
             /\ "immediateDisable" \in TypesIn(E2 \union ESP) /\ LateralMismatch(count) = {}
                  => "immediateDisable" \in TypesIn(E)
<1> DEFINE E2  == E \ Removed(CS, E, engaged)
           ESP == MadsEvents(CS, E, engaged, count)
           own == GEARS_ALLOW_PAUSED_SILENT
                    \union { "silentLkasDisable", "lkasEnable", "manualSteeringRequired",
                             "lkasDisable", "silentLkasEnable" }
<1>1. ESP \subseteq own \union LateralMismatch(count)
  BY RequestedEvents DEF MadsEvents, BrakeDisengages
<1>2. LateralMismatch(count) \subseteq { "controlsMismatchLateral" }
  BY DEF LateralMismatch
<1>3. /\ own \intersect EventsOfType["softDisable"] = {}
      /\ own \intersect EventsOfType["immediateDisable"] = {}
      /\ "controlsMismatchLateral" \notin EventsOfType["softDisable"]
  BY DEF GEARS_ALLOW_PAUSED_SILENT, SilentOf, EventsOfType, SoftAndNoEntry, ImmediateAndNoEntry
<1>4. ASSUME NEW et \in { "softDisable", "immediateDisable" },
             et \in TypesIn(E2 \union ESP),
             ESP \intersect EventsOfType[et] = {}
      PROVE  et \in TypesIn(E)
  <2> HIDE DEF ESP
  <2>1. (E2 \union ESP) \intersect EventsOfType[et] # {}
    BY <1>4, TypeNames, TypesInEvents
  <2>2. E \intersect EventsOfType[et] # {}
    BY <1>4, <2>1
  <2> QED BY <2>2, TypeNames, TypesInEvents
<1>5. ESP \intersect EventsOfType["softDisable"] = {}
  BY <1>1, <1>2, <1>3
<1>6. LateralMismatch(count) = {} => ESP \intersect EventsOfType["immediateDisable"] = {}
  BY <1>1, <1>3
<1>7. /\ "softDisable" \in TypesIn(E2 \union ESP) => "softDisable" \in TypesIn(E)
      /\ "immediateDisable" \in TypesIn(E2 \union ESP) /\ LateralMismatch(count) = {}
           => "immediateDisable" \in TypesIn(E)
  <2> HIDE DEF E2, ESP
  <2> QED BY <1>4, <1>5, <1>6
<1> QED BY <1>7, Zenon

\* No event that disables at once lets cruise control engage in its frame.
LEMMA NoEntryWithImmediateDisable ==
  ASSUME NEW CS \in CarStates, NEW sys \in SystemEvents, NEW panda \in PandaStates,
         "immediateDisable" \in TypesIn(OwnEvents(CS, sys, panda, TRUE))
  PROVE  ~Entering(TypesIn(OwnEvents(CS, sys, panda, TRUE)))
<1> DEFINE E == OwnEvents(CS, sys, panda, TRUE)
<1>1. CS \in CarStateType /\ BrandFlagsType(CS) /\ sys \subseteq SystemEventName
  BY EnvironmentAssumption
<1>2. CS.flags \subseteq CarFlags \union BrandFlags
  BY <1>1 DEF CarStateType
<1>3. E \intersect EventsOfType["immediateDisable"] # {}
  <2> HIDE DEF E
  <2> QED BY TypeNames, TypesInEvents DEF E
<1>4. EventsOfType["immediateDisable"] \ EventsOfType["noEntry"]
        \subseteq { "cruiseDisabled", "speedTooLow" }
  BY DEF EventsOfType
<1>5. CASE E \intersect EventsOfType["noEntry"] # {}
  <2> HIDE DEF E
  <2>1. "noEntry" \in TypesIn(E)
    BY <1>5, TypeNames, TypesInEvents
  <2> QED BY <2>1 DEF Entering, E
<1>6. CASE E \intersect EventsOfType["noEntry"] = {}
  <2>1. PICK e \in { "cruiseDisabled", "speedTooLow" } : e \in E
    <3> HIDE DEF E
    <3> QED BY <1>3, <1>4, <1>6
  <2>2. e \in CS.flags /\ CS.can = "valid"
    <3>1. e \notin sys
      BY <1>1 DEF SystemEventName
    <3>2. CanEvents(CS) \subseteq { "canError", "canBusMissing" }
      <4>1. CS.can \in { "valid", "invalid", "timeout" }
        BY <1>1 DEF CarStateType
      <4> QED BY <4>1 DEF CanEvents
    <3>3. CS.can = "valid" /\ e \in CarEvents(CS)
      BY <2>1, <3>1, <3>2 DEF OwnEvents, FrameEvents, ControlsMismatch
    <3> QED BY <3>3 DEF CarEvents
  <2>3. "belowEngageSpeed" \notin CS.flags
    <3>1. "belowEngageSpeed" \in EventsOfType["noEntry"]
      BY DEF EventsOfType, OnlyNoEntry
    <3>2. CS.flags \subseteq E
      BY <2>2 DEF OwnEvents, FrameEvents, CarEvents
    <3> QED BY <1>6, <3>1, <3>2
  <2>4. PcmCruise /\ ~CS.cruiseEnabled /\ ~CS.buttonEnable
    BY <1>1, <2>2, <2>3 DEF BrandFlagsType
  <2>5. E \intersect EventsOfType["enable"] = {}
    <3>1. /\ CS.flags \intersect EventsOfType["enable"] = {}
          /\ sys \intersect EventsOfType["enable"] = {}
      BY <1>1, <1>2 DEF EventsOfType, CarFlags, BrandFlags, SystemEventName
    <3>2. /\ CarEvents(CS) \intersect EventsOfType["enable"] = {}
          /\ CanEvents(CS) \intersect EventsOfType["enable"] = {}
      BY <2>2, <2>4, <3>1 DEF CarEvents, CanEvents, EventsOfType
    <3> QED BY <3>1, <3>2 DEF OwnEvents, FrameEvents, ControlsMismatch, EventsOfType
  <2> HIDE DEF E
  <2>6. "enable" \notin TypesIn(E)
    BY <2>5, TypeNames, TypesInEvents
  <2> QED BY <2>6 DEF Entering, E
<1> QED BY <1>5, <1>6

\* A frame that ends the steering makes an alert of it, or ends a soft disable that was
\* announced, or one that selfdrived did not count down itself.
LEMMA EndFrame ==
  ASSUME IInv, SteeringSoftDisableRuns,
         NEW CS \in CarStates, NEW sys \in SystemEvents, NEW panda \in PandaStates,
         NEW ready \in BOOLEAN, Frame(CS, sys, panda, ready),
         MadsEnabled, ~MadsEnabled',
         AlertsMade' \intersect { "immediateDisable", "userDisable" } = {},
         "softDisable" \notin AlertsMade
  PROVE  /\ mads_state = "softDisabling"
         /\ (\/ state = "preEnabled"
             \/ state \in { "enabled", "overriding" } /\ hushed')
<1> DEFINE E       == OwnEvents(CS, sys, panda, TRUE)
           engaged == state' \in EnabledStates
           count   == NextLateralMismatch(engaged, panda.lat)
           E2      == E \ Removed(CS, E, engaged)
           ESP     == MadsEvents(CS, E, engaged, count)
           T       == TypesIn(E2 \union ESP)
           t       == OwnTimer(CS, sys, panda, TRUE)
<1>1. mads_state \in MadsEnabledStates /\ mads_state' \notin MadsEnabledStates
  BY DEF MadsEnabled
<1>2. mads_state # "disabled" /\ mads_state \in MadsStates
  BY <1>1 DEF MadsEnabledStates, MadsActiveStates, IInv, TypeOK
<1>3. enabled_toggle /\ ready = TRUE
  BY <1>2 DEF IInv, Frame
<1>4. state \in States /\ soft_disable_timer \in 0..SoftDisableFrames
  BY DEF IInv, TypeOK
<1>5. /\ state' = NextState(state, soft_disable_timer, TypesIn(E))
      /\ mads_state' = NextMadsState(mads_state, t, T, E2, ESP)
      /\ MadsAlertTypes(mads_state, mads_state', T, engaged) \subseteq current_alert_types'
      /\ events' = E2 /\ events_sp' = ESP
  BY <1>3, MadsFrame, MadsFrameTells, MadsFrameEvents, Zenon
<1>6. ~(state # "disabled" /\ Disabling(TypesIn(E)) /\ ~hushed')
  BY <1>3, EndIsTold DEF OwnTypes
<1>7. /\ "softDisable" \in T => "softDisable" \in TypesIn(E)
      /\ "immediateDisable" \in T /\ LateralMismatch(count) = {}
           => "immediateDisable" \in TypesIn(E)
  BY FaultsAreOfSelfdrived, Zenon
<1>8. E \intersect Mute = {}
  BY OwnEventsSound
<1>9. "userDisable" \notin T
  <2> SUFFICES ASSUME "userDisable" \in T PROVE FALSE
    OBVIOUS
  <2> HIDE DEF E, ESP, t, engaged
  <2>1. "silentLkasDisable" \notin ESP
    <3> HIDE DEF T, E2
    <3>1. mads_state' = AfterUserDisable(ESP)
      BY <1>2, <1>5 DEF NextMadsState, Disabling
    <3> QED BY <1>1, <3>1 DEF AfterUserDisable, MadsEnabledStates
  <2>2. (E2 \union ESP) \intersect EventsOfType["userDisable"] \intersect Mute = {}
    BY <1>8, <2>1, SoundTypes
  <2>3. "userDisable" \in MadsAlertTypes(mads_state, mads_state', T, engaged)
    <3> HIDE DEF T
    <3> QED BY <1>2 DEF MadsAlertTypes, EventTypes
  <2>4. "userDisable" \in AlertsMade'
    <3> HIDE DEF E2
    <3> QED BY <1>5, <2>2, <2>3, SoundTypes, TypeMakesAlert
  <2> QED BY <2>4
<1>10. "immediateDisable" \notin T
  <2> SUFFICES ASSUME "immediateDisable" \in T PROVE FALSE
    OBVIOUS
  <2>1. CASE ~engaged
    <3> HIDE DEF E, E2, ESP, t, engaged
    <3>1. "immediateDisable" \in MadsAlertTypes(mads_state, mads_state', T, engaged)
      <4> HIDE DEF T
      <4> QED BY <1>2, <1>9, <2>1 DEF MadsAlertTypes, EventTypes
    <3>2. (E2 \union ESP) \intersect EventsOfType["immediateDisable"] \intersect Mute = {}
      BY SoundTypes
    <3>3. "immediateDisable" \in AlertsMade'
      BY <1>5, <3>1, <3>2, SoundTypes, TypeMakesAlert
    <3> QED BY <3>3
  <2>2. CASE engaged
    <3>1. LateralMismatch(count) = {}
      BY <2>2, MismatchLimitAssumption DEF NextLateralMismatch, LateralMismatch
    <3>2. "immediateDisable" \in TypesIn(E)
      BY <1>7, <3>1
    <3>3. CASE state = "disabled"
      <4>1. ~Entering(TypesIn(E))
        BY <3>2, NoEntryWithImmediateDisable
      <4>2. state' = "disabled"
        BY <1>5, <3>3, <4>1 DEF NextState
      <4> QED BY <2>2, <4>2 DEF EnabledStates, ActiveStates
    <3>4. CASE state # "disabled"
      <4>1. state' = "disabled"
        <5> HIDE DEF E
        <5> QED BY <1>4, <1>5, <3>2, <3>4, DisablingDisables DEF Disabling
      <4> QED BY <2>2, <4>1 DEF EnabledStates, ActiveStates
    <3> QED BY <3>3, <3>4
  <2> QED BY <2>1, <2>2
<1>11. mads_state = "softDisabling" /\ "softDisable" \in T /\ ~(t > 0)
  <2> HIDE DEF T, E2, ESP, t
  <2>1. ~Disabling(T)
    BY <1>9, <1>10 DEF Disabling
  <2>2. mads_state = "softDisabling"
    <3>1. mads_state # "softDisabling" => mads_state' \in MadsEnabledStates
      BY <1>2, <1>5, <1>9, <1>10, <2>1
         DEF NextMadsState, EnterActive, MadsStates, MadsEnabledStates, MadsActiveStates
    <3> QED BY <1>1, <3>1
  <2>3. mads_state' = SoftDisabling(t, T)
    BY <1>5, <1>9, <1>10, <2>1, <2>2 DEF NextMadsState
  <2> QED BY <1>1, <2>2, <2>3 DEF SoftDisabling, MadsEnabledStates, MadsActiveStates
<1>12. state \notin { "disabled", "softDisabling" }
  BY <1>11 DEF SteeringSoftDisableRuns
<1>13. ASSUME state \in { "enabled", "overriding" } PROVE hushed'
  <2> SUFFICES ASSUME ~hushed' PROVE FALSE
    OBVIOUS
  <2>1. "softDisable" \in TypesIn(E) /\ ~Disabling(TypesIn(E))
    BY <1>6, <1>7, <1>11, <1>13
  <2>2. NextState(state, soft_disable_timer, TypesIn(E)) = "softDisabling"
    <3> HIDE DEF E
    <3> QED BY <1>13, <2>1 DEF NextState
  <2>3. t = SoftDisableFrames
    BY <1>13, <2>2 DEF OwnTimer, OwnTypes, NextTimer
  <2> HIDE DEF t, T
  <2> QED BY <1>11, <2>3, SoftDisableFramesAssumption
<1> QED BY <1>4, <1>11, <1>12, <1>13 DEF States

\* The events that pause the steering are of the car.
LEMMA PauseIsOfCar ==
  ASSUME NEW CS \in CarStates, NEW sys \in SystemEvents, NEW panda \in PandaStates,
         NEW e \in OwnEvents(CS, sys, panda, TRUE),
         e \in GEARS_ALLOW_PAUSED \union { "pedalPressed" }
  PROVE  /\ CS.can = "valid"
         /\ e = "pedalPressed" => CS.gasPressed \/ CS.brakePressed
         /\ e \in { "wrongGear", "reverseGear" } => CS.gear \notin DrivableGears
         /\ e \in { "brakeHold", "parkBrake", "doorOpen", "seatbeltNotLatched" } => e \in CS.flags
<1>1. /\ CS.flags \subseteq CarFlags \union BrandFlags /\ sys \subseteq SystemEventName
      /\ CS.can \in { "valid", "invalid", "timeout" }
  BY EnvironmentAssumption DEF CarStateType
<1>2. e \in { "wrongGear", "reverseGear", "brakeHold", "parkBrake", "doorOpen",
              "seatbeltNotLatched", "pedalPressed" }
  BY DEF GEARS_ALLOW_PAUSED, SilentOf
<1>3. e \notin sys /\ e \notin CanEvents(CS)
  BY <1>1, <1>2 DEF SystemEventName, CanEvents
<1>4. /\ CS.can = "valid"
      /\ e \in CarEvents(CS) \/ (e = "pedalPressed" /\ PedalPressed(CS))
  BY <1>2, <1>3 DEF OwnEvents, FrameEvents, ControlsMismatch
<1>5. "reverse" \notin DrivableGears
  BY EnvironmentAssumption
<1>6. e \in { "wrongGear", "reverseGear" } => CS.gear \notin DrivableGears
  BY <1>1, <1>4, <1>5 DEF CarEvents, CarFlags, BrandFlags
<1>7. e \in { "brakeHold", "parkBrake", "doorOpen", "seatbeltNotLatched" } => e \in CS.flags
  BY <1>4 DEF CarEvents
<1>8. e = "pedalPressed" => CS.gasPressed \/ CS.brakePressed
  <2>1. "pedalPressed" \notin CarEvents(CS)
    BY <1>1 DEF CarEvents, CarFlags, BrandFlags
  <2> QED BY <1>4, <2>1 DEF PedalPressed
<1> QED BY <1>4, <1>6, <1>7, <1>8

\* A frame that pauses the steering holds what the driver has done.
LEMMA PauseFrame ==
  ASSUME IInv, NEW CS \in CarStates, NEW sys \in SystemEvents, NEW panda \in PandaStates,
         NEW ready \in BOOLEAN, Frame(CS, sys, panda, ready),
         MadsActive, mads_state' = "paused"
  PROVE  PausedByDriver(CS)
<1> DEFINE E       == OwnEvents(CS, sys, panda, TRUE)
           engaged == state' \in EnabledStates
           count   == NextLateralMismatch(engaged, panda.lat)
           E2      == E \ Removed(CS, E, engaged)
           ESP     == MadsEvents(CS, E, engaged, count)
           T       == TypesIn(E2 \union ESP)
           t       == OwnTimer(CS, sys, panda, TRUE)
<1>1. mads_state \in MadsActiveStates
  BY DEF MadsActive
<1>2. enabled_toggle /\ ready = TRUE
  BY <1>1 DEF IInv, Frame, MadsActiveStates
<1>3. mads_state' = NextMadsState(mads_state, t, T, E2, ESP)
  BY <1>2, MadsFrame, Zenon
<1>4. "silentLkasDisable" \in ESP
  <2> HIDE DEF T, E2, ESP, t
  <2> QED BY <1>1, <1>3
        DEF NextMadsState, MadsActiveStates, EnterActive, AfterUserDisable, SoftDisabling, Disabling
<1>5. "silentLkasDisable" \in Requested(CS, E, engaged)
  BY <1>4 DEF MadsEvents, BrakeDisengages, LateralMismatch
<1>6. "silentLkasDisable" \notin { SilentOf[e] : e \in Pausing(CS, E) }
  <2>1. ASSUME NEW e \in Pausing(CS, E) PROVE SilentOf[e] # "silentLkasDisable"
    BY <2>1 DEF Pausing, GEARS_ALLOW_PAUSED, SilentOf
  <2> QED BY <2>1
<1>7. Pausing(CS, E) # {} \/ BrakePauses(CS, E)
  <2> HIDE DEF E, engaged
  <2> QED BY <1>5, <1>6 DEF Requested
<1>8. CASE Pausing(CS, E) # {}
  <2>1. PICK e \in E : e \in GEARS_ALLOW_PAUSED
    <3> HIDE DEF E
    <3> QED BY <1>8 DEF Pausing
  <2>2. e \in { "wrongGear", "reverseGear", "brakeHold", "parkBrake", "doorOpen",
                "seatbeltNotLatched" }
    BY <2>1 DEF GEARS_ALLOW_PAUSED, SilentOf
  <2> QED BY <2>1, <2>2, PauseIsOfCar DEF PausedByDriver
<1>9. CASE BrakePauses(CS, E)
  <2>1. steering_mode_on_brake = "pause" /\ "pedalPressed" \in E
    BY <1>9 DEF BrakePauses, PedalPressedNonGas
  <2> QED BY <2>1, PauseIsOfCar DEF PausedByDriver
<1> QED BY <1>7, <1>8, <1>9

\* A frame without an answer of the car ends everything, but in park.
LEMMA LostCanFrame ==
  ASSUME IInv, NEW CS \in CarStates, NEW sys \in SystemEvents, NEW panda \in PandaStates,
         Frame(CS, sys, panda, TRUE), CS.can = "timeout", CS.gear # "park"
  PROVE  ~MadsActive' /\ ~Enabled'
<1> DEFINE E       == OwnEvents(CS, sys, panda, TRUE)
           engaged == state' \in EnabledStates
           E2      == E \ Removed(CS, E, engaged)
           ESP     == MadsEvents(CS, E, engaged, NextLateralMismatch(engaged, panda.lat))
           T       == TypesIn(E2 \union ESP)
           t       == OwnTimer(CS, sys, panda, TRUE)
<1>1. "canBusMissing" \in E
  BY DEF OwnEvents, FrameEvents, CanEvents
<1>2. /\ "canBusMissing" \in EventsOfType["immediateDisable"]
      /\ "canBusMissing" \in EventsOfType["noEntry"]
  BY DEF EventsOfType, ImmediateAndNoEntry
<1>3. state' = "disabled"
  <2>1. /\ state' = NextState(state, soft_disable_timer, TypesIn(E))
        /\ state \in States
    BY DEF Frame, OwnEvents, IInv, TypeOK
  <2> HIDE DEF E
  <2>2. "immediateDisable" \in TypesIn(E) /\ "noEntry" \in TypesIn(E)
    BY <1>1, <1>2, TypeNames, TypesInEvents
  <2> QED BY <2>1, <2>2 DEF NextState, States, Entering, Disabling
<1>4. CASE ~enabled_toggle
  <2>1. mads_state' = "disabled"
    BY <1>4, MadsKeepsType
  <2> QED BY <1>3, <2>1 DEF MadsActive, MadsActiveStates, Enabled, EnabledStates, ActiveStates
<1>5. CASE enabled_toggle
  <2>1. mads_state' = NextMadsState(mads_state, t, T, E2, ESP) /\ mads_state \in MadsStates
    BY <1>5, MadsFrame, Zenon DEF IInv, TypeOK
  <2>2. "canBusMissing" \in E2
    <3>1. "canBusMissing" \notin Removed(CS, E, engaged)
      BY DEF Removed, Pausing, GEARS_ALLOW_PAUSED, SilentOf, IgnoredAlone, EnableRequests,
             OnlyCruise
    <3> HIDE DEF E, engaged
    <3> QED BY <1>1, <3>1
  <2> HIDE DEF E, E2, ESP, t, engaged
  <2>3. "immediateDisable" \in T /\ "noEntry" \in T
    <3>1. "canBusMissing" \in E2 \union ESP
      BY <2>2
    <3> QED BY <1>2, <3>1, TypeNames, TypesInEvents
  <2> HIDE DEF T
  <2>4. mads_state' \notin MadsActiveStates
    BY <2>1, <2>3
       DEF NextMadsState, MadsStates, MadsActiveStates, Entering, Disabling, AfterUserDisable
  <2> QED BY <1>3, <2>4 DEF MadsActive, Enabled, EnabledStates, ActiveStates
<1> QED BY <1>4, <1>5

\* Steering that ends has told the driver, steering that pauses was paused by him, and
\* one of the two comes when the car is lost.
THEOREM SteeringAlwaysStopsKnowingly == Spec => SteeringStopsKnowingly
<1>1. IInv /\ SteeringSoftDisableRuns /\ [Next]_vars
        => [ (/\ MadsEnabled /\ ~MadsEnabled'
              /\ AlertsMade' \intersect { "immediateDisable", "userDisable" } = {}
              /\ "softDisable" \notin AlertsMade)
             => /\ mads_state = "softDisabling"
                /\ (\/ state = "preEnabled"
                    \/ state \in { "enabled", "overriding" } /\ hushed') ]_vars
  <2> SUFFICES ASSUME IInv, SteeringSoftDisableRuns, Next,
                      MadsEnabled, ~MadsEnabled',
                      AlertsMade' \intersect { "immediateDisable", "userDisable" } = {},
                      "softDisable" \notin AlertsMade
               PROVE  /\ mads_state = "softDisabling"
                      /\ (\/ state = "preEnabled"
                          \/ state \in { "enabled", "overriding" } /\ hushed')
    OBVIOUS
  <2>1. CASE Step
    BY <2>1, EndFrame DEF Step
  <2>2. CASE \/ ReadDisengageOnAccelerator \/ ReadMainEnabledToggle
              \/ ReadUnifiedEngagementMode
    <3>1. UNCHANGED driving
      BY <2>2, RefreshInvariant
    <3> QED BY <3>1 DEF driving, MadsEnabled
  <2> QED BY <2>1, <2>2 DEF Next
<1>2. IInv /\ [Next]_vars
        => [ MadsActive /\ mads_state' = "paused" => PausedByDriver(CS_prev') ]_vars
  <2> SUFFICES ASSUME IInv, Next, MadsActive, mads_state' = "paused"
               PROVE  PausedByDriver(CS_prev')
    OBVIOUS
  <2>1. CASE Step
    <3>1. PICK CS \in CarStates, sys \in SystemEvents, panda \in PandaStates, ready \in BOOLEAN :
            Frame(CS, sys, panda, ready)
      BY <2>1 DEF Step
    <3>2. CS_prev' = CS
      BY <3>1 DEF Frame
    <3>3. PausedByDriver(CS)
      BY <3>1, PauseFrame
    <3> QED BY <3>2, <3>3
  <2>2. CASE \/ ReadDisengageOnAccelerator \/ ReadMainEnabledToggle
              \/ ReadUnifiedEngagementMode
    <3>1. UNCHANGED driving
      BY <2>2, RefreshInvariant
    <3> QED BY <3>1 DEF driving, MadsActive, MadsActiveStates
  <2> QED BY <2>1, <2>2 DEF Next
<1>3. IInv /\ [Next]_vars
        => [ FrameStep /\ CS_prev'.can = "timeout" /\ CS_prev'.gear # "park"
               => ~MadsActive' /\ ~Enabled' ]_vars
  <2> SUFFICES ASSUME IInv, Next, ~UNCHANGED vars, FrameStep,
                      CS_prev'.can = "timeout", CS_prev'.gear # "park"
               PROVE  ~MadsActive' /\ ~Enabled'
    OBVIOUS
  <2>1. PICK CS \in CarStates, sys \in SystemEvents, panda \in PandaStates :
          Frame(CS, sys, panda, TRUE)
    BY FrameStepIsFrame
  <2>2. CS_prev' = CS
    BY <2>1 DEF Frame
  <2> QED BY <2>1, <2>2, LostCanFrame
<1> QED
  BY <1>1, <1>2, <1>3, InitInvariant, StepInvariant, SteeringSoftDisableAlwaysRuns, PTL
     DEF Spec, SteeringStopsKnowingly, SteeringEndsTold, SteeringPausesRightly, LostCanEndsAll

-----------------------------------------------------------------------------
(* The steering follows the driver.                                         *)

\* The requests to enable among selfdrived's events are those of the car: cruise
\* control of the car that comes on, or the button that enables it.
LEMMA EnableRequestsOfCar ==
  ASSUME NEW CS \in CarStates, NEW sys \in SystemEvents, NEW panda \in PandaStates,
         NEW e \in OwnEvents(CS, sys, panda, TRUE), e \in EventsOfType["enable"]
  PROVE  \/ e = "buttonEnable" /\ CS.buttonEnable
         \/ e = "pcmEnable" /\ CS.cruiseEnabled /\ ~CS_prev.cruiseEnabled
<1>1. /\ CS.flags \subseteq CarFlags \union BrandFlags /\ sys \subseteq SystemEventName
      /\ CS.can \in { "valid", "invalid", "timeout" }
  BY EnvironmentAssumption DEF CarStateType
<1>2. e \notin CS.flags /\ e \notin sys
  BY <1>1 DEF EventsOfType, CarFlags, BrandFlags, SystemEventName
<1>3. e \notin CanEvents(CS)
  BY <1>1 DEF CanEvents, EventsOfType
<1>4. e \in CarEvents(CS)
  BY <1>2, <1>3 DEF OwnEvents, FrameEvents, ControlsMismatch, EventsOfType
<1> QED BY <1>2, <1>4 DEF CarEvents, EventsOfType

\* What the driver asked for when MADS comes on in a frame.
LEMMA DemandFrame ==
  ASSUME IInv, NEW CS \in CarStates, NEW sys \in SystemEvents, NEW panda \in PandaStates,
         Frame(CS, sys, panda, TRUE), ~MadsEnabled, MadsEnabled'
  PROVE  \/ CS.button = "lkas"
         \/ main_enabled_toggle /\ CS.available /\ ~CS_prev.available
         \/ unified_engagement_mode /\ CS.buttonEnable
         \/ unified_engagement_mode /\ CS.cruiseEnabled /\ ~CS_prev.cruiseEnabled
<1> DEFINE E       == OwnEvents(CS, sys, panda, TRUE)
           engaged == state' \in EnabledStates
           E2      == E \ Removed(CS, E, engaged)
           count   == NextLateralMismatch(engaged, panda.lat)
           ESP     == MadsEvents(CS, E, engaged, count)
           T       == TypesIn(E2 \union ESP)
           t       == OwnTimer(CS, sys, panda, TRUE)
<1>1. mads_state = "disabled" /\ mads_state' # "disabled"
  BY DEF IInv, TypeOK, MadsEnabled, MadsEnabledStates, MadsActiveStates, MadsStates
<1>2. enabled_toggle
  BY <1>1, MadsKeepsType
<1>3. mads_state' = NextMadsState(mads_state, t, T, E2, ESP)
  BY <1>2, MadsFrame, Zenon
<1>4. "enable" \in T
  <2> HIDE DEF T, E2, ESP, t
  <2> QED BY <1>1, <1>3 DEF NextMadsState, Entering
<1>5. (E2 \union ESP) \intersect EventsOfType["enable"] # {}
  <2> HIDE DEF E2, ESP
  <2> QED BY <1>4, TypeNames, TypesInEvents
<1>6. ASSUME ESP \intersect EventsOfType["enable"] # {}
      PROVE  \/ CS.button = "lkas"
             \/ main_enabled_toggle /\ CS.available /\ ~CS_prev.available
  <2>1. ~Resumes(CS, E, Requested(CS, E, engaged))
    BY <1>1 DEF Resumes
  <2>2. PICK e \in ESP : e \in { "lkasEnable", "silentLkasEnable", "pcmEnable", "buttonEnable" }
    <3> HIDE DEF ESP
    <3> QED BY <1>6 DEF EventsOfType
  <2>3. e \in Requested(CS, E, engaged)
    BY <2>1, <2>2 DEF MadsEvents, BrakeDisengages, LateralMismatch
  <2>4. e = "lkasEnable"
    <3>1. Requested(CS, E, engaged) \subseteq
            GEARS_ALLOW_PAUSED_SILENT
              \union { "silentLkasDisable", "lkasEnable", "manualSteeringRequired",
                       "lkasDisable" }
      BY RequestedEvents
    <3>2. { "silentLkasEnable", "pcmEnable", "buttonEnable" }
            \intersect GEARS_ALLOW_PAUSED_SILENT = {}
      BY DEF GEARS_ALLOW_PAUSED_SILENT, SilentOf
    <3> QED BY <2>2, <2>3, <3>1, <3>2
  <2>5. ~SteersAlone(engaged)
    BY DEF SteersAlone
  <2> QED BY <2>3, <2>4, <2>5 DEF Requested, LkasPressed
<1>7. ASSUME E2 \intersect EventsOfType["enable"] # {}
      PROVE  \/ unified_engagement_mode /\ CS.buttonEnable
             \/ unified_engagement_mode /\ CS.cruiseEnabled /\ ~CS_prev.cruiseEnabled
  <2>1. PICK e \in E : e \in EventsOfType["enable"] /\ e \notin Removed(CS, E, engaged)
    <3> HIDE DEF E
    <3> QED BY <1>7
  <2>2. \/ e = "buttonEnable" /\ CS.buttonEnable
        \/ e = "pcmEnable" /\ CS.cruiseEnabled /\ ~CS_prev.cruiseEnabled
    BY <2>1, EnableRequestsOfCar
  <2>3. unified_engagement_mode
    <3>1. e \in EnableRequests
      BY <2>2 DEF EnableRequests
    <3> HIDE DEF E
    <3> QED BY <2>1, <3>1 DEF Removed, BlockUnifiedEngagement
  <2> QED BY <2>2, <2>3
<1> HIDE DEF E2, ESP
<1> QED BY <1>5, <1>6, <1>7

\* Only the pedals are pressed: what is left of selfdrived's events for MADS, and of
\* what MADS adds.
LEMMA PedalEvents ==
  ASSUME IInv, NEW CS \in CarStates, NEW sys \in SystemEvents, NEW panda \in PandaStates,
         NEW engaged, NEW count,
         steering_mode_on_brake = "remainActive", CS_prev.available,
         CS.available, CS.gear = "drive", CS.can = "valid", CS.button = "none", CS.flags = {}
  PROVE  LET E   == OwnEvents(CS, sys, panda, TRUE)
             E2  == E \ Removed(CS, E, engaged)
             ESP == MadsEvents(CS, E, engaged, count)
         IN  /\ E2 \intersect EventsOfType["userDisable"] = {}
             /\ E2 \intersect { "cruiseDisabled", "speedTooLow" } = {}
             /\ ESP \subseteq { "silentLkasEnable", "controlsMismatchLateral" }
<1> DEFINE E   == OwnEvents(CS, sys, panda, TRUE)
           E2  == E \ Removed(CS, E, engaged)
           ESP == MadsEvents(CS, E, engaged, count)
<1>1. sys \subseteq SystemEventName
  BY EnvironmentAssumption
<1>2. E \subseteq SystemEventName
         \union { "steerOverride", "preEnableStandstill", "gasPressedOverride", "buttonEnable",
                  "pcmEnable", "pcmDisable", "pedalPressed", "controlsMismatch" }
  <2>1. CarEvents(CS) \subseteq { "steerOverride", "preEnableStandstill", "gasPressedOverride",
                                 "buttonEnable", "pcmEnable", "pcmDisable" }
    BY EnvironmentAssumption DEF CarEvents
  <2>2. CanEvents(CS) = {}
    BY DEF CanEvents
  <2> QED BY <1>1, <2>1, <2>2 DEF OwnEvents, FrameEvents, ControlsMismatch
<1>3. E2 \intersect EventsOfType["userDisable"] = {}
  <2>1. SystemEventName \intersect EventsOfType["userDisable"] = {}
    BY DEF SystemEventName, EventsOfType, UserAndNoEntry
  <2>2. { "steerOverride", "preEnableStandstill", "gasPressedOverride", "buttonEnable",
          "pcmEnable", "controlsMismatch" } \intersect EventsOfType["userDisable"] = {}
    BY DEF EventsOfType, UserAndNoEntry
  <2>3. E2 \intersect { "pcmDisable", "pedalPressed" } = {}
    BY DEF Removed, OnlyCruise
  <2> HIDE DEF E
  <2> QED BY <1>2, <2>1, <2>2, <2>3
<1>4. E2 \intersect { "cruiseDisabled", "speedTooLow" } = {}
  <2> HIDE DEF E
  <2> QED BY <1>2 DEF SystemEventName
<1>5. ESP \subseteq { "silentLkasEnable", "controlsMismatchLateral" }
  <2>1. Pausing(CS, E) = {}
    <3> HIDE DEF E
    <3> QED BY <1>2 DEF Pausing, GEARS_ALLOW_PAUSED, SilentOf, SystemEventName
  <2>2. ~BrakePauses(CS, E) /\ BrakeDisengages(CS, E) = {}
    BY DEF BrakePauses, BrakeDisengages
  <2>3. ~LkasPressed(CS)
    BY DEF LkasPressed
  <2> HIDE DEF E
  <2>4. Requested(CS, E, engaged) = {}
    BY <2>1, <2>2, <2>3 DEF Requested
  <2> QED BY <2>2, <2>4 DEF MadsEvents, LateralMismatch
<1> QED BY <1>3, <1>4, <1>5, Zenon

\* In the mode that remains active the pedals alone never take the steering away.
LEMMA PedalFrame ==
  ASSUME IInv, NEW CS \in CarStates, NEW sys \in SystemEvents, NEW panda \in PandaStates,
         Frame(CS, sys, panda, TRUE),
         steering_mode_on_brake = "remainActive", MadsActive, CS_prev.available,
         CS.available, CS.gear = "drive", CS.can = "valid", CS.button = "none", CS.flags = {},
         events' \intersect (SoftAndNoEntry \union ImmediateAndNoEntry
                                \union { "bigModelFailed" }) = {},
         "controlsMismatchLateral" \notin events_sp'
  PROVE  MadsActive'
<1> DEFINE E       == OwnEvents(CS, sys, panda, TRUE)
           engaged == state' \in EnabledStates
           E2      == E \ Removed(CS, E, engaged)
           ESP     == MadsEvents(CS, E, engaged, NextLateralMismatch(engaged, panda.lat))
           T       == TypesIn(E2 \union ESP)
           t       == OwnTimer(CS, sys, panda, TRUE)
<1>1. mads_state \in MadsActiveStates
  BY DEF MadsActive
<1>2. enabled_toggle
  BY <1>1 DEF IInv, MadsActiveStates
<1>3. /\ mads_state' = NextMadsState(mads_state, t, T, E2, ESP)
      /\ events' = E2 /\ events_sp' = ESP
  <2>1. events' = E2 /\ events_sp' = ESP
    BY <1>2, Zenon DEF Frame, MadsUpdate, OwnTimer, OwnTypes, OwnEvents
  <2> QED BY <1>2, <2>1, MadsFrame, Zenon
<1>4. /\ E2 \intersect EventsOfType["userDisable"] = {}
      /\ E2 \intersect { "cruiseDisabled", "speedTooLow" } = {}
      /\ ESP \subseteq { "silentLkasEnable", "controlsMismatchLateral" }
  BY PedalEvents, Zenon
<1> HIDE DEF T, E2, ESP, t
<1>5. ESP \subseteq { "silentLkasEnable" }
  BY <1>3, <1>4
<1>6. ASSUME NEW et \in { "userDisable", "immediateDisable", "softDisable" }
      PROVE  (E2 \union ESP) \intersect EventsOfType[et] = {}
  <2>1. "silentLkasEnable" \notin EventsOfType[et]
    BY <1>6 DEF EventsOfType, UserAndNoEntry, ImmediateAndNoEntry, SoftAndNoEntry
  <2>2. E2 \intersect EventsOfType[et] = {}
    <3>1. /\ EventsOfType["immediateDisable"] =
                ImmediateAndNoEntry \union { "cruiseDisabled", "speedTooLow" }
          /\ EventsOfType["softDisable"] = SoftAndNoEntry \union { "bigModelFailed" }
      BY DEF EventsOfType
    <3> QED BY <1>3, <1>4, <1>6, <3>1
  <2> QED BY <1>5, <2>1, <2>2
<1>7. T \intersect { "userDisable", "immediateDisable", "softDisable" } = {}
  <2>1. ASSUME NEW et \in { "userDisable", "immediateDisable", "softDisable" }, et \in T
        PROVE  FALSE
    BY <1>6, <2>1, TypeNames, TypesInEvents DEF T
  <2> QED BY <2>1
<1>8. mads_state' \in MadsActiveStates
  <2>1. CASE mads_state = "softDisabling"
    BY <1>3, <1>7, <2>1 DEF NextMadsState, SoftDisabling, Disabling, MadsActiveStates
  <2>2. CASE mads_state # "softDisabling"
    <3>1. mads_state' = EnterActive(T)
      BY <1>1, <1>3, <1>7, <2>2 DEF NextMadsState, Disabling, MadsActiveStates
    <3> QED BY <3>1 DEF EnterActive, MadsActiveStates
  <2> QED BY <2>1, <2>2
<1> QED BY <1>8 DEF MadsActive

\* Steering is only taken up on the driver's demand, and in the mode that remains
\* active the pedals alone never take it away.
THEOREM SteeringAlwaysFollowsTheDriver == Spec => SteeringFollowsTheDriver
<1>1. IInv /\ [Next]_vars =>
        [ (FrameStep /\ ~MadsEnabled /\ MadsEnabled')
          => ( \/ CS_prev'.button = "lkas"
               \/ main_enabled_toggle /\ CS_prev'.available /\ ~CS_prev.available
               \/ unified_engagement_mode /\ CS_prev'.buttonEnable
               \/ unified_engagement_mode /\ CS_prev'.cruiseEnabled
                    /\ ~CS_prev.cruiseEnabled ) ]_vars
  <2> SUFFICES ASSUME IInv, Next, ~UNCHANGED vars, FrameStep, ~MadsEnabled, MadsEnabled'
               PROVE  \/ CS_prev'.button = "lkas"
                      \/ main_enabled_toggle /\ CS_prev'.available /\ ~CS_prev.available
                      \/ unified_engagement_mode /\ CS_prev'.buttonEnable
                      \/ unified_engagement_mode /\ CS_prev'.cruiseEnabled
                           /\ ~CS_prev.cruiseEnabled
    OBVIOUS
  <2>1. PICK CS \in CarStates, sys \in SystemEvents, panda \in PandaStates :
          Frame(CS, sys, panda, TRUE)
    BY FrameStepIsFrame
  <2>2. CS_prev' = CS
    BY <2>1 DEF Frame
  <2> QED BY <2>1, <2>2, DemandFrame
<1>2. ASSUME IInv, Next, ~UNCHANGED vars, FrameStep,
             steering_mode_on_brake = "remainActive", MadsActive, CS_prev.available,
             [ CS_prev' EXCEPT !.brakePressed = FALSE, !.gasPressed = FALSE,
                               !.standstill = FALSE, !.slow = FALSE,
                               !.cruiseEnabled = FALSE, !.steeringPressed = FALSE ]
               = [ NoCarState EXCEPT !.can = "valid", !.available = TRUE,
                                     !.gear = "drive", !.slow = FALSE ],
             events' \intersect (SoftAndNoEntry \union ImmediateAndNoEntry
                                    \union { "bigModelFailed" }) = {},
             "controlsMismatchLateral" \notin events_sp'
      PROVE  MadsActive'
  <2>1. PICK CS \in CarStates, sys \in SystemEvents, panda \in PandaStates :
          Frame(CS, sys, panda, TRUE)
    BY <1>2, FrameStepIsFrame
  <2>2. CS_prev' = CS
    BY <2>1 DEF Frame
  <2>3. CS \in CarStateType
    BY EnvironmentAssumption
  <2>4. /\ CS.available /\ CS.gear = "drive" /\ CS.can = "valid" /\ CS.button = "none"
        /\ CS.flags = {}
    <3> DEFINE pedalsUp == [ CS EXCEPT !.brakePressed = FALSE, !.gasPressed = FALSE,
                                       !.standstill = FALSE, !.slow = FALSE,
                                       !.cruiseEnabled = FALSE, !.steeringPressed = FALSE ]
               cruising == [ NoCarState EXCEPT !.can = "valid", !.available = TRUE,
                                               !.gear = "drive", !.slow = FALSE ]
    <3>1. pedalsUp = cruising
      BY <1>2, <2>2, Zenon
    <3>2. /\ pedalsUp.available = CS.available /\ pedalsUp.gear = CS.gear
          /\ pedalsUp.can = CS.can /\ pedalsUp.button = CS.button
          /\ pedalsUp.flags = CS.flags
      BY <2>3 DEF CarStateType
    <3>3. /\ cruising.available = TRUE /\ cruising.gear = "drive"
          /\ cruising.can = "valid" /\ cruising.button = "none"
          /\ cruising.flags = {}
      BY DEF NoCarState
    <3> HIDE DEF pedalsUp, cruising
    <3> QED BY <3>1, <3>2, <3>3
  <2> QED BY <1>2, <2>1, <2>4, PedalFrame
<1>3. IInv /\ [Next]_vars =>
        [ (/\ FrameStep
           /\ steering_mode_on_brake = "remainActive"
           /\ MadsActive
           /\ CS_prev.available
           /\ [ CS_prev' EXCEPT !.brakePressed = FALSE, !.gasPressed = FALSE,
                                !.standstill = FALSE, !.slow = FALSE,
                                !.cruiseEnabled = FALSE, !.steeringPressed = FALSE ]
                = [ NoCarState EXCEPT !.can = "valid", !.available = TRUE,
                                      !.gear = "drive", !.slow = FALSE ]
           /\ events' \intersect (SoftAndNoEntry \union ImmediateAndNoEntry
                                    \union { "bigModelFailed" }) = {}
           /\ "controlsMismatchLateral" \notin events_sp')
          => MadsActive' ]_vars
  BY <1>2
<1> QED
  BY <1>1, <1>3, InitInvariant, StepInvariant, PTL
     DEF Spec, SteeringFollowsTheDriver, SteeringOnDemand, SteeringSurvivesBrake
=============================================================================
