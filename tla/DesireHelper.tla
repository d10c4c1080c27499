---------------------------- MODULE DesireHelper ----------------------------
(***************************************************************************)
(* Lane changes and turns: DesireHelper.update of                          *)
(* selfdrive/controls/lib/desire_helper.py with the AutoLaneChangeController *)
(* and the LaneTurnController it owns, called by modeld once per model     *)
(* frame (20 Hz).                                                          *)
(*                                                                         *)
(* Times are counted in frames.  The code adds DT_MDL to floats: a constant *)
(* here is the number of additions after which its comparison turns true.  *)
(***************************************************************************)
EXTENDS Integers

CONSTANTS
  StartFrames,    \* frames to lane_change_timer >= LANE_CHANGE_START_TIME, 11
  TimeMaxFrames,  \* frames to lane_change_timer > LANE_CHANGE_TIME_MAX, 200
  WaitFrames,     \* frames to lane_change_wait_timer > AUTO_LANE_CHANGE_TIMER, per mode
  WaitCap,        \* bound of the model: the wait timer is not counted any further
  SecondFrames,   \* frames of ONE_SECOND_DELAY, 20
  Inputs,         \* what a frame may bring
  Settings        \* what the user may have set

AutoModes == { "NUDGELESS", "HALF_SECOND", "ONE_SECOND", "TWO_SECONDS", "THREE_SECONDS" }
AutoLaneChangeMode == { "OFF", "NUDGE" } \union AutoModes

Sides == { "left", "right" }

InputType ==
  [ blinkers       : SUBSET Sides,
    speed          : { "turn", "slow", "fast" },  \* below lane_turn_value, below or
                                                  \* above LANE_CHANGE_SPEED_MIN
    torque         : Sides \union { "none" },     \* steeringPressed and its direction
    brakePressed   : BOOLEAN,
    blindspot      : SUBSET Sides,
    edge           : SUBSET Sides,                \* from RoadEdgeLaneChangeController
    lateral_active : BOOLEAN,                     \* carControl.latActive
    done           : BOOLEAN ]                    \* lane_change_prob < 0.02

SettingType == [ set_timer : AutoLaneChangeMode, bsm_delay : BOOLEAN, turn : BOOLEAN ]

ASSUME FramesAssumption ==
  /\ StartFrames \in Nat \ {0} /\ TimeMaxFrames \in Nat /\ StartFrames < TimeMaxFrames
  /\ SecondFrames \in Nat /\ WaitCap \in Nat
  /\ WaitFrames \in [ AutoModes -> 1..WaitCap ]

ASSUME InputsAssumption == Inputs \subseteq InputType /\ Settings \subseteq SettingType

VARIABLES
  sm,                      \* the messages of the frame
  settings,                \* the parameters as last read
  \* --- DesireHelper ---
  lane_change_state,
  lane_change_direction,
  lane_change_timer,
  prev_one_blinker,
  desire,
  \* --- AutoLaneChangeController ---
  lane_change_wait_timer,
  prev_brake_pressed,
  prev_lane_change

helper == << lane_change_state, lane_change_direction, lane_change_timer,
             prev_one_blinker, desire >>
auto   == << lane_change_wait_timer, prev_brake_pressed, prev_lane_change >>
vars   == << sm, settings, helper, auto >>

LaneChangeStates == { "off", "preLaneChange", "laneChangeStarting" }

TypeOK ==
  /\ sm \in InputType /\ settings \in SettingType
  /\ lane_change_state \in LaneChangeStates
  /\ lane_change_direction \in Sides \union { "none" }
  /\ lane_change_timer \in 0..TimeMaxFrames
  /\ prev_one_blinker \in BOOLEAN
  /\ desire \in { "none", "laneChangeLeft", "laneChangeRight", "turnLeft", "turnRight" }
  /\ lane_change_wait_timer \in (-SecondFrames)..WaitCap
  /\ prev_brake_pressed \in BOOLEAN /\ prev_lane_change \in BOOLEAN

NoInput == [ blinkers |-> {}, speed |-> "turn", torque |-> "none", brakePressed |-> FALSE,
             blindspot |-> {}, edge |-> {}, lateral_active |-> FALSE, done |-> TRUE ]

Init ==
  /\ sm = NoInput
  /\ settings \in Settings
  /\ lane_change_state = "off" /\ lane_change_direction = "none" /\ lane_change_timer = 0
  /\ prev_one_blinker = FALSE
  /\ desire = "none"
  /\ lane_change_wait_timer = 0 /\ prev_brake_pressed = FALSE /\ prev_lane_change = FALSE
-----------------------------------------------------------------------------
OneBlinker(in) == in.blinkers \in { { "left" }, { "right" } }

\* get_lane_change_direction
SignalledSide(in) == IF "left" \in in.blinkers THEN "left" ELSE "right"

\* blindspot_detected, on the side the driver signals
Obstructed(in) == SignalledSide(in) \in in.blindspot \union in.edge

Nudged(in) == in.torque = SignalledSide(in)

BelowLaneChangeSpeed(in) == in.speed # "fast"

\* The steering is off, the change took too long, or the user wants no changes.
Cancelled(in, set) ==
  \/ ~in.lateral_active
  \/ lane_change_timer >= TimeMaxFrames
  \/ set.set_timer = "OFF"

-----------------------------------------------------------------------------
(* AutoLaneChangeController.update_lane_change                              *)

BrakeForgotten(in) == in.brakePressed                    \* mutant: no latch
BrakeLatched(in) == prev_brake_pressed \/ in.brakePressed

\* update_lane_change_timers: one frame more, or a second to go after the last
\* frame with a car in the blind spot.
Waited(in, set) ==
  IF set.bsm_delay /\ Obstructed(in) /\ set.set_timer \in AutoModes
    THEN IF set.set_timer = "NUDGELESS" THEN -SecondFrames
         ELSE WaitFrames[set.set_timer] - SecondFrames
  ELSE IF lane_change_wait_timer < WaitCap THEN lane_change_wait_timer + 1
  ELSE WaitCap

AllowedAgain(in, set) ==                                 \* mutant: change after change
  /\ set.set_timer \in AutoModes
  /\ ~BrakeLatched(in)
  /\ Waited(in, set) >= WaitFrames[set.set_timer]
\* update_allowed
AutoLaneChangeAllowed(in, set) ==
  /\ set.set_timer \in AutoModes
  /\ ~BrakeLatched(in)
  /\ ~prev_lane_change
  /\ Waited(in, set) >= WaitFrames[set.set_timer]
-----------------------------------------------------------------------------
(* DesireHelper.update: the next << state, direction, timer >>.             *)

Off == << "off", "none", 0 >>

FromOff(in) ==
  IF OneBlinker(in) /\ ~prev_one_blinker /\ ~BelowLaneChangeSpeed(in)
    THEN << "preLaneChange", SignalledSide(in), 0 >>
    ELSE << "off", lane_change_direction, lane_change_timer >>

FromPreUnseen(in, set) ==                                \* mutant: the obstacle is not seen
  IF ~OneBlinker(in) \/ BelowLaneChangeSpeed(in) THEN Off
  ELSE << IF Nudged(in) \/ AutoLaneChangeAllowed(in, set)
            THEN "laneChangeStarting" ELSE "preLaneChange", SignalledSide(in), 0 >>
FromPre(in, set) ==
  IF ~OneBlinker(in) \/ BelowLaneChangeSpeed(in) THEN Off
  ELSE IF (Nudged(in) \/ AutoLaneChangeAllowed(in, set)) /\ ~Obstructed(in)
    THEN << "laneChangeStarting", SignalledSide(in), 0 >>
    ELSE << "preLaneChange", SignalledSide(in), lane_change_timer >>

FromStartingFollowing(in) ==                             \* mutant: the side is not kept
  IF in.done /\ lane_change_timer + 1 >= StartFrames
    THEN IF OneBlinker(in) THEN << "preLaneChange", SignalledSide(in), 0 >> ELSE Off
    ELSE << "laneChangeStarting", SignalledSide(in), lane_change_timer + 1 >>
FromStarting(in) ==
  IF in.done /\ lane_change_timer + 1 >= StartFrames
    THEN IF OneBlinker(in) THEN << "preLaneChange", SignalledSide(in), 0 >> ELSE Off
    ELSE << "laneChangeStarting", lane_change_direction, lane_change_timer + 1 >>

NextLaneChange(in, set) ==
  CASE Cancelled(in, set) -> Off
    [] ~Cancelled(in, set) /\ lane_change_state = "off" -> FromOff(in)
    [] ~Cancelled(in, set) /\ lane_change_state = "preLaneChange" -> FromPre(in, set)
    [] OTHER -> FromStarting(in)

\* LaneTurnController.update_lane_turn
TurnDirection(in, set) ==
  IF set.turn /\ OneBlinker(in) /\ in.speed = "turn" /\ SignalledSide(in) \notin in.blindspot
    THEN SignalledSide(in) ELSE "none"

NextDesire(in, set, change) ==
  CASE TurnDirection(in, set) = "left"  -> "turnLeft"
    [] TurnDirection(in, set) = "right" -> "turnRight"
    [] OTHER ->
         IF change[1] # "laneChangeStarting" THEN "none"
         ELSE IF change[2] = "left" THEN "laneChangeLeft" ELSE "laneChangeRight"

\* AutoLaneChangeController.reset applies.
IsOff(change) == change[1] = "off" /\ change[2] = "none"

NextAutoKeptAfterTimeout(waits, in, set, change) ==      \* mutant: a reset is forgotten
  /\ lane_change_wait_timer' = IF waits THEN Waited(in, set) ELSE lane_change_wait_timer
  /\ prev_brake_pressed' = IF waits THEN BrakeLatched(in) ELSE prev_brake_pressed
  /\ prev_lane_change' = (prev_lane_change \/ change[1] = "laneChangeStarting")
\* update_lane_change in a frame that waits for the change, then update_state:
\* the controller starts over whenever the lane change is off.
NextAuto(waits, in, set, change) ==
  /\ lane_change_wait_timer' = IF IsOff(change) THEN 0
                               ELSE IF waits THEN Waited(in, set) ELSE lane_change_wait_timer
  /\ prev_brake_pressed' = /\ ~IsOff(change)
                           /\ IF waits THEN BrakeLatched(in) ELSE prev_brake_pressed
  /\ prev_lane_change' = /\ ~IsOff(change)
                         /\ prev_lane_change \/ change[1] = "laneChangeStarting"

\* DesireHelper.update on the messages in; the parameters are read again in one
\* frame out of fifty, any frame here.
Update(in, set) ==
  LET change == NextLaneChange(in, set)
      waits  == ~Cancelled(in, set) /\ lane_change_state = "preLaneChange"
  IN /\ sm' = in
     /\ settings' = set
     /\ lane_change_state' = change[1]
     /\ lane_change_direction' = change[2]
     /\ lane_change_timer' = change[3]
     /\ prev_one_blinker' = (OneBlinker(in) /\ in.lateral_active)
     /\ desire' = NextDesire(in, set, change)
     /\ NextAuto(waits, in, set, change)

ModelFrame == \E in \in Inputs : Update(in, settings)

ModelFrameReadingParams == \E in \in Inputs, set \in Settings : Update(in, set)

Next == ModelFrame \/ ModelFrameReadingParams

Spec == Init /\ [][Next]_vars

-----------------------------------------------------------------------------
(* Properties.  sm' is what a frame saw.                                    *)

Starts == lane_change_state # "laneChangeStarting"
            /\ lane_change_state' = "laneChangeStarting"

\* Starts with nobody's hand on the wheel.
StartsAlone == Starts /\ sm'.torque # lane_change_direction'

\* Nothing of a lane change is left behind when it is off: neither a side, nor a
\* timer, nor what the automatic change remembers of the brake and of the last
\* change (desire_helper.py resets three fields, auto_lane_change.py three more).
OffIsClean ==
  IF lane_change_state = "off"
    THEN /\ lane_change_direction = "none" /\ lane_change_timer = 0
         /\ lane_change_wait_timer = 0 /\ ~prev_brake_pressed /\ ~prev_lane_change
    ELSE lane_change_direction \in Sides

\* A change begins towards a side that was signalled in the frame before and
\* still is, alone, while steering is active, fast enough, and with neither a car
\* nor the road's edge on that side, whoever asked for it.
ChangeIsSignalledAndClear ==
  [][ Starts =>
        /\ lane_change_state = "preLaneChange" /\ prev_one_blinker
        /\ sm'.blinkers = { lane_change_direction' }
        /\ sm'.lateral_active /\ sm'.speed = "fast"
        /\ lane_change_direction' \notin sm'.blindspot \union sm'.edge ]_vars

\* The state machine keeps the contract of LaneChange.
LaneChangeContract ==
  INSTANCE LaneChange WITH
    phase <- CASE lane_change_state = "off"           -> "idle"
               [] lane_change_state = "preLaneChange" -> "signalled"
               [] OTHER                               -> "moving",
    side  <- lane_change_direction,
    age   <- lane_change_timer

ImplementsLaneChange == LaneChangeContract!Spec

\* Every change ends, also when the model never says that it is done.
ChangeEnds == []<>(lane_change_state # "laneChangeStarting")
=============================================================================
