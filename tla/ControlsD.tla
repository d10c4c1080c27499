------------------------------ MODULE ControlsD ------------------------------
(***************************************************************************)
(* controlsd (selfdrive/controls/controlsd.py): what the car is allowed to *)
(* do in a control frame, and the blinker pause of the steering            *)
(* (sunnypilot/selfdrive/controls/lib/blinker_pause_lateral.py).           *)
(*                                                                         *)
(* messages stands for sm, which holds the latest messages.  They come     *)
(* from several processes, and selfdrived sends selfdriveState before      *)
(* onroadEvents and selfdriveStateSP, so a frame may see any mixture of    *)
(* old and new ones: any value of Messages.  The curvature and             *)
(* acceleration controllers are left out.                                  *)
(***************************************************************************)
EXTENDS Integers

CONSTANTS
  Messages,            \* what a frame may find in sm
  PauseSettings,       \* what the user may have set for the blinker pause
  PcmCruise,           \* CP.pcmCruise
  LongitudinalControl  \* CP.openpilotLongitudinalControl or not CP_SP.pcmCruiseSpeed

Blinkers == { "left", "right" }

MessageType ==
  [ enabled      : BOOLEAN,           \* selfdriveState
    active       : BOOLEAN,
    softDisabling: BOOLEAN,
    madsAvailable: BOOLEAN,           \* selfdriveStateSP
    madsActive   : BOOLEAN,
    overriding   : BOOLEAN,           \* an overrideLongitudinal in onroadEvents
    blinkers     : SUBSET Blinkers,   \* carState
    vEgo         : Nat,
    steerable    : BOOLEAN,           \* no steer fault, and not at a standstill on a
                                      \* car that cannot steer there
    stockEnabled : BOOLEAN,           \* cruiseState.enabled
    stockWaits   : BOOLEAN,           \* cruiseState.standstill
    shouldStop   : BOOLEAN,           \* longitudinalPlan
    laneChange   : Blinkers \union { "none" },  \* modelV2.meta
    noResponse   : BOOLEAN ]          \* driverMonitoringState.noResponseForceDecel

\* reengage_delay counts control frames here (DT_CTRL), seconds in the code.
PauseSettingType == [ enabled : BOOLEAN, min_speed : Nat, reengage_delay : Nat ]

CarControlType ==
  [ enabled : BOOLEAN, latActive : BOOLEAN, longActive : BOOLEAN, blinkers : SUBSET Blinkers,
    override : BOOLEAN, cancel : BOOLEAN, resume : BOOLEAN, escalation : BOOLEAN ]

ASSUME MessagesAssumption == Messages \subseteq MessageType
ASSUME PauseSettingsAssumption == PauseSettings \subseteq PauseSettingType
ASSUME CarAssumption == PcmCruise \in BOOLEAN /\ LongitudinalControl \in BOOLEAN

VARIABLES
  messages,                 \* the messages of the last frame
  CC,                       \* the carControl it sent
  blinker_pause,            \* BlinkerPauseLateral: enabled, min_speed, reengage_delay
  blinker_off_timer,
  steer_limit_looked_at     \* publish compared the steering with the car's output

controlsVars == << messages, CC, blinker_pause, blinker_off_timer, steer_limit_looked_at >>

NoControl == [ enabled |-> FALSE, latActive |-> FALSE, longActive |-> FALSE, blinkers |-> {},
               override |-> FALSE, cancel |-> FALSE, resume |-> FALSE, escalation |-> FALSE ]

ControlsInit ==
  /\ messages \in Messages /\ CC = NoControl
  /\ \E set \in PauseSettings :
       blinker_pause = [ enabled |-> set.enabled, min_speed |-> 0, reengage_delay |-> 0 ]
  /\ blinker_off_timer = 0
  /\ steer_limit_looked_at = FALSE
-----------------------------------------------------------------------------
\* A turn signal, and slow enough to pause the steering for it.
Signalling(m) == m.blinkers \in { { "left" }, { "right" } } /\ m.vEgo < blinker_pause.min_speed

OffTimerFrozen(m, t) ==         \* mutant: it does not count down
  IF blinker_pause.enabled /\ Signalling(m) THEN blinker_pause.reengage_delay ELSE t
\* BlinkerPauseLateral.update: the timer it leaves when it finds t ...
OffTimer(m, t) ==
  IF ~blinker_pause.enabled THEN t
  ELSE IF Signalling(m) THEN blinker_pause.reengage_delay
  ELSE IF t > 0 THEN t - 1 ELSE t

PausesWithoutBlinker(m, t) ==   \* mutant: the timer alone pauses
  blinker_pause.enabled /\ t > 0
\* ... and whether it pauses the steering when it leaves t.
Pauses(m, t) == blinker_pause.enabled /\ (Signalling(m) \/ t > 0)

\* get_lat_active when the blinker pause leaves t.
LatActive(m, t) ==
  /\ ~Pauses(m, t)
  /\ IF m.madsAvailable THEN m.madsActive ELSE m.active

\* state_control and publish: get_lat_active runs in each of them, and each call
\* counts the blinker timer down.
Frame(m) ==
  LET first  == OffTimer(m, blinker_off_timer)
      second == OffTimer(m, first)
      long   == m.enabled /\ ~m.overriding /\ LongitudinalControl
  IN /\ messages' = m
     /\ CC' = [ enabled    |-> m.enabled,
                latActive  |-> LatActive(m, first) /\ m.steerable,
                longActive |-> long,
                blinkers   |-> IF m.laneChange = "none" THEN {} ELSE { m.laneChange },
                override   |-> m.enabled /\ ~long /\ LongitudinalControl,
                cancel     |-> m.stockEnabled /\ (~m.enabled \/ ~PcmCruise),
                resume     |-> m.enabled /\ m.stockWaits /\ ~m.shouldStop,
                escalation |-> m.noResponse \/ m.softDisabling ]
     /\ blinker_off_timer' = second
     /\ steer_limit_looked_at' = LatActive(m, second)

\* get_params_sp, once in PARAMS_UPDATE_PERIOD, at the end of a frame.
ReadParams == blinker_pause' \in PauseSettings

ControlsFrame == (\E m \in Messages : Frame(m)) /\ UNCHANGED blinker_pause

ControlsFrameReadingParams == (\E m \in Messages : Frame(m)) /\ ReadParams

ControlsNext == ControlsFrame \/ ControlsFrameReadingParams

ControlsSpec == ControlsInit /\ [][ControlsNext]_controlsVars
-----------------------------------------------------------------------------
ControlsTypeOK ==
  /\ messages \in MessageType /\ CC \in CarControlType
  /\ blinker_pause \in PauseSettingType
  /\ blinker_off_timer \in Nat
  /\ steer_limit_looked_at \in BOOLEAN

\* No frame steers while the driver signals a turn below the speed set for the
\* pause, as the settings were in that frame, and whatever is left of the delay
\* of an earlier turn (the delay may be zero).
TurnIsTheDrivers ==
  [][ (/\ blinker_pause.enabled
       /\ messages'.blinkers \in { { "left" }, { "right" } }
       /\ messages'.vEgo < blinker_pause.min_speed)
      => ~CC'.latActive ]_controlsVars

\* The steering comes back: after the last blinker it cannot stay paused while
\* selfdrived wants to steer, unless the user keeps changing the settings.
SteeringComesBack ==
  <>[](/\ messages.blinkers = {} /\ messages.steerable
       /\ messages.madsAvailable /\ messages.madsActive)
    => <>[](CC.latActive)
=============================================================================
