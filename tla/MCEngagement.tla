---------------------------- MODULE MCEngagement ----------------------------
(***************************************************************************)
(* What must eventually happen, and the state machine of cruise control    *)
(* for every set of events, in two parts of one run; a behaviour belongs   *)
(* to one:                                                                 *)
(*   frames:  the frames of selfdrived with a few cars, over and over;     *)
(*   machine: the StateMachine object on its own, with one event for every *)
(*            combination of types it can tell apart.                      *)
(* The 100 Hz loop of run() never stops turning, also when one frame is    *)
(* like the one before it: frame_parity makes such a frame a step that     *)
(* fairness can ask for.  params_thread may be as slow as it likes.        *)
(***************************************************************************)
EXTENDS MCSelfdriveD

CONSTANT MachineFrames   \* SOFT_DISABLE_TIME of the machine that runs alone

VARIABLES
  part,
  frame_parity,   \* sm.frame % 2
  \* --- the StateMachine object that runs alone ---
  machine_state,
  machine_timer,
  machine_alert_types,
  machine_events

machineVars == << machine_state, machine_timer, machine_alert_types, machine_events >>

\* One event for every combination of types.
MCEventPool ==
  { "pcmEnable",            \* enable
    "preEnableStandstill",  \* preEnable
    "steerOverride",        \* overrideLateral
    "tooDistracted",        \* noEntry
    "pcmDisable",           \* userDisable
    "cruiseDisabled",       \* immediateDisable
    "commIssue",            \* softDisable and noEntry
    "bigModelFailed" }      \* softDisable alone

Machine ==
  INSTANCE SelfdriveStateMachine WITH
    SoftDisableFrames   <- MachineFrames,
    EventPool           <- MCEventPool,
    state               <- machine_state,
    soft_disable_timer  <- machine_timer,
    current_alert_types <- machine_alert_types,
    events              <- machine_events

LiveCarStates ==
  { Cruising,
    [ Cruising EXCEPT !.button = "lkas" ],
    [ Cruising EXCEPT !.brakePressed = TRUE ],
    [ Cruising EXCEPT !.brakePressed = TRUE, !.standstill = TRUE, !.slow = TRUE ],
    [ Cruising EXCEPT !.brakePressed = TRUE, !.standstill = TRUE, !.slow = TRUE,
                      !.buttonEnable = TRUE ],
    [ Cruising EXCEPT !.flags = { "doorOpen" }, !.standstill = TRUE, !.slow = TRUE ] }
LiveParams == SomeParams({ "pause", "remainActive" }, { TRUE }, { FALSE })
-----------------------------------------------------------------------------
MCInit ==
  /\ Init /\ Machine!Init
  /\ part \in { "frames", "machine" } /\ frame_parity = 0
  /\ part = "machine" => steering_mode_on_brake = "pause" /\ main_enabled_toggle

Turn ==
  /\ frame_parity' = 1 - frame_parity /\ UNCHANGED part
  /\ \/ part = "frames" /\ Step /\ UNCHANGED machineVars
     \/ part = "machine" /\ Machine!Next /\ UNCHANGED vars

Refresh ==
  /\ part = "frames" /\ UNCHANGED << part, frame_parity, machineVars >>
  /\ ReadDisengageOnAccelerator \/ ReadMainEnabledToggle \/ ReadUnifiedEngagementMode

MCSpec == /\ MCInit
          /\ [][Turn \/ Refresh]_<< vars, machineVars, part, frame_parity >>
          /\ WF_frame_parity(frame_parity' = 1 - frame_parity)
-----------------------------------------------------------------------------
(* The properties of SelfdriveStateMachine, of the machine that runs alone. *)

\* The machine keeps the contract of Engagement, whatever events it is fed.
MachineKeepsContract == Machine!ImplementsEngagement

\* A condition that calls for a soft disable and stays ends the engagement and the
\* steering, and a pause of the steering ends once nothing asks for it.
FaultsAndPausesEnd ==
  /\ Machine!PersistentFaultDisengages
  /\ PersistentFaultEndsSteering
  /\ PauseEnds
=============================================================================
