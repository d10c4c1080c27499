---------------------------- MODULE OnroadEvents ----------------------------
(***************************************************************************)
(* The event tables of selfdrived: EVENTS (selfdrive/selfdrived/events.py) *)
(* and EVENTS_SP (sunnypilot/selfdrive/selfdrived/events.py), transposed:  *)
(* for each event type that a state machine asks for, the events that      *)
(* carry it.  WARNING and PERMANENT only choose texts to display and are   *)
(* left out of the tables.                                                 *)
(*                                                                         *)
(* An Events object is a sorted list in the code.  Every question the      *)
(* state machines ask of it is a membership question, so it is a set here. *)
(***************************************************************************)

\* The event types of class ET.
EventTypes ==
  { "enable", "preEnable", "overrideLateral", "overrideLongitudinal", "noEntry",
    "warning", "userDisable", "softDisable", "immediateDisable", "permanent" }

\* Events of EVENTS that soft-disable, all but bigModelFailed with NO_ENTRY too.
SoftAndNoEntry ==
  { "cameraMalfunction", "cameraFrameRate", "locationdTemporaryError",
    "paramsdTemporaryError", "steerTempUnavailable", "steerTimeLimit",
    "sensorDataInvalid", "excessiveActuation", "overheat", "wrongGear",
    "calibrationInvalid", "calibrationIncomplete", "calibrationRecalibrating",
    "doorOpen", "seatbeltNotLatched", "espDisabled", "commIssue",
    "commIssueAvgFreq", "selfdrivedLagging", "processNotRunning", "radarFault",
    "radarTempUnavailable", "modeldLagging", "posenetInvalid", "lowMemory",
    "espActive" }

\* Events of EVENTS and EVENTS_SP with IMMEDIATE_DISABLE and NO_ENTRY.
ImmediateAndNoEntry ==
  { "locationdPermanentError", "paramsdPermanentError", "accFaulted",
    "controlsMismatch", "canError", "canBusMissing", "steerUnavailable",
    "relayMalfunction", "vehicleSensorsInvalid", "controlsMismatchLateral" }

\* Events of EVENTS with USER_DISABLE and NO_ENTRY.
UserAndNoEntry ==
  { "buttonCancel", "parkBrake", "pedalPressed", "steerDisengage", "wrongCarMode",
    "wrongCruiseMode", "reverseGear" }

OnlyNoEntry ==
  { "bigModelLoading", "selfdriveInitializing", "startupNoControl",
    "invalidLkasSetting", "aeb", "stockAeb", "stockLkas", "resumeBlocked",
    "carNotReady", "outOfSpace", "belowEngageSpeed", "tooDistracted", "speedTooHigh",
    "silentBrakeHold", "silentWrongGear", "silentReverseGear", "silentDoorOpen",
    "silentSeatbeltNotLatched", "silentParkBrake" }

\* The events that carry each type, over both tables.
EventsOfType ==
  [ enable               |-> { "pcmEnable", "buttonEnable",
                               "lkasEnable", "silentLkasEnable" },
    preEnable            |-> { "preEnableStandstill" },
    overrideLateral      |-> { "steerOverride" },
    overrideLongitudinal |-> { "gasPressedOverride" },
    noEntry              |-> SoftAndNoEntry \union ImmediateAndNoEntry
                               \union UserAndNoEntry \union OnlyNoEntry,
    userDisable          |-> UserAndNoEntry
                               \union { "pcmDisable", "lkasDisable",
                                        "manualSteeringRequired", "silentLkasDisable" },
    softDisable          |-> SoftAndNoEntry \union { "bigModelFailed" },
    immediateDisable     |-> ImmediateAndNoEntry
                               \union { "cruiseDisabled", "speedTooLow" } ]

\* ... and brakeHold, which only warns but pauses the steering.
EventName ==
  (UNION { EventsOfType[et] : et \in DOMAIN EventsOfType }) \union { "brakeHold" }

TypesOf == [ e \in EventName |->
               { et \in DOMAIN EventsOfType : e \in EventsOfType[et] } ]

\* The events whose alert for an end or a start of the steering is empty and makes no
\* sound: EngagementAlert(AudibleAlert.none).
Mute == { "silentLkasDisable", "silentLkasEnable" }

\* The types E contains: EventsBase.contains(et) is et \in TypesIn(E).  An event
\* outside the tables (one that only warns) contributes none.
TypesIn(E) == UNION { TypesOf[e] : e \in E \intersect EventName }
=============================================================================
