---------------------------- MODULE DrivingProofs ----------------------------
(***************************************************************************)
(* The safety properties of the lane change (DesireHelper) with the        *)
(* history that MCLateral keeps of it, for every choice of the times, the  *)
(* settings and the inputs; of controlsd, for every car, every setting and *)
(* every mixture of messages; and of the set speed, which card and planner *)
(* move together, for every course of messages between them.               *)
(*                                                                         *)
(* The inductive invariant of DesireHelper is the type with OffIsClean,    *)
(* and with what the step from waiting needs of the frame before: a change *)
(* is only waited for after a frame with one blinker and active steering,  *)
(* and its timer has not started.  ChangeInv ties the history of a signal  *)
(* to what the code keeps (its brake latch, its waits) or to a helper that *)
(* is off until the signal ends; SetSpeedInv says of each plan that card   *)
(* may still take over why the driver has agreed to it.                    *)
(***************************************************************************)
EXTENDS MCLateral, Cruise, TLAPS

WaitingIsSignalled ==
  lane_change_state = "preLaneChange" => prev_one_blinker /\ lane_change_timer = 0

IInv == TypeOK /\ OffIsClean /\ WaitingIsSignalled

-----------------------------------------------------------------------------
\* The triple << state, direction, timer >> that update computes: what it can be
\* for any input, in each of the three states.
Changes ==
  { Off } \union { << "preLaneChange", d, 0 >> : d \in Sides }
          \union { << "laneChangeStarting", d, n >> : d \in Sides, n \in 0..TimeMaxFrames }

\* update yields a triple of Changes: the timer of a change stays within
\* TimeMaxFrames, and an idle helper has no side and no timer.
LEMMA ChangeType ==
  ASSUME IInv, NEW in \in InputType, NEW set \in SettingType
  PROVE  NextLaneChange(in, set) \in Changes
<1> DEFINE change == NextLaneChange(in, set)
<1> SignalledSide(in) \in Sides
  BY DEF SignalledSide, Sides
<1> TimeMaxFrames \in Nat /\ lane_change_timer \in 0..TimeMaxFrames
  BY FramesAssumption DEF IInv, TypeOK
<1>1. CASE Cancelled(in, set)
  BY <1>1 DEF NextLaneChange, Changes
<1>2. CASE ~Cancelled(in, set) /\ lane_change_state = "off"
  <2>1. change = FromOff(in)
    BY <1>2 DEF NextLaneChange
  <2>2. lane_change_direction = "none" /\ lane_change_timer = 0
    BY <1>2 DEF IInv, OffIsClean
  <2> QED BY <2>1, <2>2 DEF FromOff, Off, Changes
<1>3. CASE ~Cancelled(in, set) /\ lane_change_state = "preLaneChange"
  <2>1. change = FromPre(in, set)
    BY <1>3 DEF NextLaneChange
  <2>2. lane_change_timer = 0
    BY <1>3 DEF IInv, WaitingIsSignalled
  <2> QED BY <2>1, <2>2 DEF FromPre, Off, Changes
<1>4. CASE ~Cancelled(in, set) /\ lane_change_state = "laneChangeStarting"
  <2>1. change = FromStarting(in)
    BY <1>4 DEF NextLaneChange
  <2>2. lane_change_timer + 1 \in 0..TimeMaxFrames /\ lane_change_direction \in Sides
    BY <1>4 DEF Cancelled, IInv, OffIsClean
  <2> QED BY <2>1, <2>2 DEF FromStarting, Off, Changes
<1> QED BY <1>1, <1>2, <1>3, <1>4 DEF IInv, TypeOK, LaneChangeStates

\* A frame's inputs and settings are of their types.
LEMMA Frames ==
  ASSUME Next
  PROVE  \E in \in Inputs : \E set \in Settings \union { settings } : Update(in, set)
<1>1. CASE ModelFrame
  BY <1>1 DEF ModelFrame
<1>2. CASE ModelFrameReadingParams
  BY <1>2 DEF ModelFrameReadingParams
<1> QED BY <1>1, <1>2 DEF Next

\* The automatic controller's timer stays between the second it owes to a blind
\* spot and the cap.
LEMMA WaitedType ==
  ASSUME IInv, NEW in \in InputType, NEW set \in SettingType
  PROVE  Waited(in, set) \in (-SecondFrames)..WaitCap
<1> SecondFrames \in Nat /\ WaitCap \in Nat
  BY FramesAssumption
<1> lane_change_wait_timer \in (-SecondFrames)..WaitCap
  BY DEF IInv, TypeOK
<1>1. set.set_timer \in AutoModes => WaitFrames[set.set_timer] \in 1..WaitCap
  BY FramesAssumption
<1> QED BY <1>1 DEF Waited

LEMMA InitInvariant == Init => IInv
<1> SUFFICES ASSUME Init PROVE IInv
  OBVIOUS
<1>1. NoInput \in InputType
  BY DEF NoInput, InputType, Sides
<1>2. TypeOK
  <2>1. sm \in InputType /\ settings \in SettingType
    BY <1>1, InputsAssumption DEF Init
  <2>2. lane_change_timer \in 0..TimeMaxFrames
        /\ lane_change_wait_timer \in (-SecondFrames)..WaitCap
    BY FramesAssumption DEF Init
  <2>3. prev_one_blinker \in BOOLEAN /\ prev_brake_pressed \in BOOLEAN
        /\ prev_lane_change \in BOOLEAN
    BY DEF Init
  <2>4. /\ lane_change_state \in LaneChangeStates
        /\ lane_change_direction \in Sides \union { "none" }
        /\ desire \in { "none", "laneChangeLeft", "laneChangeRight", "turnLeft", "turnRight" }
    BY DEF Init, LaneChangeStates
  <2> QED BY <2>1, <2>2, <2>3, <2>4 DEF TypeOK
<1>3. OffIsClean /\ WaitingIsSignalled
  BY DEF Init, OffIsClean, WaitingIsSignalled
<1> QED BY <1>2, <1>3 DEF IInv

LEMMA UpdateInvariant ==
  ASSUME IInv, NEW in \in InputType, NEW set \in SettingType, Update(in, set)
  PROVE  IInv'
<1> DEFINE change == NextLaneChange(in, set)
           waits == ~Cancelled(in, set) /\ lane_change_state = "preLaneChange"
<1>1. change \in Changes
  BY ChangeType
<1>2. /\ sm' = in /\ settings' = set
      /\ lane_change_state' = change[1] /\ lane_change_direction' = change[2]
      /\ lane_change_timer' = change[3]
      /\ prev_one_blinker' = (OneBlinker(in) /\ in.lateral_active)
      /\ desire' = NextDesire(in, set, change)
      /\ NextAuto(waits, in, set, change)
  BY DEF Update
<1>3. change = << change[1], change[2], change[3] >>
      /\ \/ change = Off
         \/ change[1] = "preLaneChange" /\ change[2] \in Sides /\ change[3] = 0
         \/ change[1] = "laneChangeStarting" /\ change[2] \in Sides
              /\ change[3] \in 0..TimeMaxFrames
  BY <1>1 DEF Changes, Off
<1>4. IsOff(change) <=> change = Off
  BY <1>3 DEF IsOff, Off
<1> HIDE DEF change, waits
<1>5. TypeOK'
  <2>1. lane_change_state' \in LaneChangeStates
        /\ lane_change_direction' \in Sides \union { "none" }
        /\ lane_change_timer' \in 0..TimeMaxFrames
    BY <1>2, <1>3, FramesAssumption DEF Off, LaneChangeStates
  <2>2. prev_one_blinker' \in BOOLEAN
    BY <1>2, Zenon
  <2>3. desire' \in { "none", "laneChangeLeft", "laneChangeRight", "turnLeft", "turnRight" }
    BY <1>2 DEF NextDesire
  <2>4. lane_change_wait_timer' \in (-SecondFrames)..WaitCap
    <3>1. Waited(in, set) \in (-SecondFrames)..WaitCap
      BY WaitedType
    <3>2. lane_change_wait_timer \in (-SecondFrames)..WaitCap
      BY DEF IInv, TypeOK
    <3>3. 0 \in (-SecondFrames)..WaitCap
      BY FramesAssumption
    <3> QED BY <1>2, <3>1, <3>2, <3>3 DEF NextAuto
  <2>5. prev_brake_pressed' \in BOOLEAN /\ prev_lane_change' \in BOOLEAN
    BY <1>2, Zenon DEF NextAuto
  <2> QED BY <1>2, <2>1, <2>2, <2>3, <2>4, <2>5 DEF TypeOK
<1>6. OffIsClean'
  <2>1. CASE change = Off
    <3>1. /\ lane_change_wait_timer' = 0
          /\ prev_brake_pressed' = FALSE /\ prev_lane_change' = FALSE
      BY <1>2, <1>4, <2>1 DEF NextAuto
    <3>2. lane_change_direction' = "none" /\ lane_change_timer' = 0
      BY <1>2, <2>1 DEF Off
    <3>3. lane_change_state' = "off"
      BY <1>2, <2>1 DEF Off
    <3> QED BY <3>1, <3>2, <3>3 DEF OffIsClean
  <2>2. CASE change # Off
    <3>1. lane_change_state' # "off" /\ lane_change_direction' \in Sides
      BY <1>2, <1>3, <2>2
    <3> QED BY <3>1 DEF OffIsClean
  <2> QED BY <2>1, <2>2
<1>7. WaitingIsSignalled'
  <2> SUFFICES ASSUME lane_change_state' = "preLaneChange"
               PROVE  prev_one_blinker' /\ lane_change_timer' = 0
    BY DEF WaitingIsSignalled
  <2>1. change[1] = "preLaneChange" /\ change # Off /\ change[3] = 0
    BY <1>2, <1>3 DEF Off
  <2>2. OneBlinker(in) /\ in.lateral_active
    BY <2>1 DEF change, NextLaneChange, FromOff, FromPre, FromStarting, Cancelled, Off
  <2> QED BY <1>2, <2>1, <2>2
<1> QED BY <1>5, <1>6, <1>7 DEF IInv

LEMMA StepInvariant == IInv /\ [Next]_vars => IInv'
<1> SUFFICES ASSUME IInv, [Next]_vars PROVE IInv'
  OBVIOUS
<1>1. CASE Next
  <2>1. PICK in \in Inputs, set \in Settings \union { settings } : Update(in, set)
    BY <1>1, Frames
  <2>2. in \in InputType /\ set \in SettingType
    BY <2>1, InputsAssumption DEF IInv, TypeOK
  <2> QED BY <2>1, <2>2, UpdateInvariant
<1>2. CASE UNCHANGED vars
  BY <1>2 DEF vars, helper, auto, IInv, TypeOK, OffIsClean, WaitingIsSignalled
<1> QED BY <1>1, <1>2

LEMMA Invariant == Spec => []IInv
BY InitInvariant, StepInvariant, PTL DEF Spec

-----------------------------------------------------------------------------
\* A lane change is never left in a state the code has no name for, and its timer
\* never exceeds LANE_CHANGE_TIME_MAX, whatever modeld reports.
THEOREM TypeCorrect == Spec => []TypeOK
<1>1. IInv => TypeOK
  BY DEF IInv
<1> QED BY Invariant, <1>1, PTL

\* What the two controllers remember of a lane change is gone when it is off.
THEOREM OffIsAlwaysClean == Spec => []OffIsClean
<1>1. IInv => OffIsClean
  BY DEF IInv
<1> QED BY Invariant, <1>1, PTL

-----------------------------------------------------------------------------
\* A frame that starts a change waited for it in the frame before, and now sees one
\* blinker, active steering, speed and no obstacle.
LEMMA StartIsClear ==
  ASSUME IInv, NEW in \in InputType, NEW set \in SettingType, Update(in, set), Starts
  PROVE  /\ lane_change_state = "preLaneChange"
         /\ ~Cancelled(in, set) /\ OneBlinker(in) /\ ~BelowLaneChangeSpeed(in)
         /\ ~Obstructed(in) /\ lane_change_direction' = SignalledSide(in)
<1> DEFINE change == NextLaneChange(in, set)
<1>1. change[1] = "laneChangeStarting" /\ lane_change_direction' = change[2]
  BY DEF Update, Starts
<1>2. lane_change_state \in { "off", "preLaneChange" }
  BY DEF Starts, IInv, TypeOK, LaneChangeStates
<1>3. ~Cancelled(in, set)
  BY <1>1 DEF NextLaneChange, Off
<1>4. lane_change_state = "preLaneChange"
  BY <1>1, <1>2, <1>3 DEF NextLaneChange, FromOff, Off
<1>5. change = FromPre(in, set)
  BY <1>3, <1>4 DEF NextLaneChange
<1>6. OneBlinker(in) /\ ~BelowLaneChangeSpeed(in)
  BY <1>1, <1>5 DEF FromPre, Off
<1>7. ~Obstructed(in) /\ change[2] = SignalledSide(in)
  BY <1>1, <1>5, <1>6 DEF FromPre
<1> QED BY <1>1, <1>3, <1>4, <1>6, <1>7

\* No change towards a side that was not signalled, or that is not clear.
THEOREM ChangesAreSignalledAndClear == Spec => ChangeIsSignalledAndClear
<1> DEFINE Signalled == Starts =>
        /\ lane_change_state = "preLaneChange" /\ prev_one_blinker
        /\ sm'.blinkers = { lane_change_direction' }
        /\ sm'.lateral_active /\ sm'.speed = "fast"
        /\ lane_change_direction' \notin sm'.blindspot \union sm'.edge
<1>1. IInv /\ [Next]_vars => [Signalled]_vars
  <2> SUFFICES ASSUME IInv, Next, Starts
               PROVE  /\ lane_change_state = "preLaneChange" /\ prev_one_blinker
                      /\ sm'.blinkers = { lane_change_direction' }
                      /\ sm'.lateral_active /\ sm'.speed = "fast"
                      /\ lane_change_direction' \notin sm'.blindspot \union sm'.edge
    OBVIOUS
  <2>1. PICK in \in Inputs, set \in Settings \union { settings } : Update(in, set)
    BY Frames
  <2>2. in \in InputType /\ set \in SettingType
    BY <2>1, InputsAssumption DEF IInv, TypeOK
  <2>3. /\ lane_change_state = "preLaneChange"
        /\ ~Cancelled(in, set) /\ OneBlinker(in) /\ ~BelowLaneChangeSpeed(in)
        /\ ~Obstructed(in) /\ lane_change_direction' = SignalledSide(in)
    BY <2>1, <2>2, StartIsClear
  <2>4. sm' = in
    BY <2>1 DEF Update
  <2>5. prev_one_blinker
    BY <2>3 DEF IInv, WaitingIsSignalled
  <2>6. sm'.blinkers = { lane_change_direction' }
    BY <2>3, <2>4 DEF OneBlinker, SignalledSide
  <2>7. sm'.lateral_active /\ sm'.speed = "fast"
    BY <2>3, <2>4 DEF Cancelled, BelowLaneChangeSpeed
  <2>8. lane_change_direction' \notin sm'.blindspot \union sm'.edge
    BY <2>3, <2>4 DEF Obstructed
  <2> QED BY <2>3, <2>5, <2>6, <2>7, <2>8
<1> QED BY <1>1, Invariant, PTL DEF Spec, ChangeIsSignalledAndClear

-----------------------------------------------------------------------------
(* The refinement: each step of DesireHelper is a step of LaneChange.       *)

\* Every frame is one of the actions of LaneChange.
LEMMA UpdateRefines ==
  ASSUME IInv, NEW in \in InputType, NEW set \in SettingType, Update(in, set)
  PROVE  LaneChangeContract!Next
<1> DEFINE change == NextLaneChange(in, set)
<1>1. /\ lane_change_state' = change[1] /\ lane_change_direction' = change[2]
      /\ lane_change_timer' = change[3]
  BY DEF Update
<1>2. SignalledSide(in) \in { "left", "right" }
  BY DEF SignalledSide
<1>3. ASSUME change = Off PROVE LaneChangeContract!Stop
  BY <1>1, <1>3 DEF Off, LaneChangeContract!Stop, LaneChangeContract!Idle
<1>4. CASE Cancelled(in, set)
  BY <1>3, <1>4 DEF NextLaneChange, LaneChangeContract!Next
<1>5. CASE ~Cancelled(in, set) /\ lane_change_state = "off"
  <2>1. change = FromOff(in)
    BY <1>5 DEF NextLaneChange
  <2>2. change = Off \/ change = << "preLaneChange", SignalledSide(in), 0 >>
    BY <1>5, <2>1 DEF FromOff, Off, IInv, OffIsClean
  <2>3. ASSUME change = << "preLaneChange", SignalledSide(in), 0 >>
        PROVE  LaneChangeContract!Signal
    BY <1>1, <1>2, <1>5, <2>3 DEF LaneChangeContract!Signal
  <2> QED BY <1>3, <2>2, <2>3 DEF LaneChangeContract!Next
<1>6. CASE ~Cancelled(in, set) /\ lane_change_state = "preLaneChange"
  <2>1. change = FromPre(in, set)
    BY <1>6 DEF NextLaneChange
  <2>2. \/ change = Off
        \/ change = << "laneChangeStarting", SignalledSide(in), 0 >>
        \/ change = << "preLaneChange", SignalledSide(in), 0 >>
    BY <1>6, <2>1 DEF FromPre, IInv, WaitingIsSignalled
  <2>3. ASSUME change = << "laneChangeStarting", SignalledSide(in), 0 >>
        PROVE  LaneChangeContract!Begin
    BY <1>1, <1>2, <1>6, <2>3 DEF LaneChangeContract!Begin
  <2>4. ASSUME change = << "preLaneChange", SignalledSide(in), 0 >>
        PROVE  LaneChangeContract!Signal
    BY <1>1, <1>2, <1>6, <2>4 DEF LaneChangeContract!Signal
  <2> QED BY <1>3, <2>2, <2>3, <2>4 DEF LaneChangeContract!Next
<1>7. CASE ~Cancelled(in, set) /\ lane_change_state = "laneChangeStarting"
  <2>1. change = FromStarting(in)
    BY <1>7 DEF NextLaneChange
  <2>2. \/ change = Off
        \/ /\ lane_change_timer + 1 >= StartFrames
           /\ change = << "preLaneChange", SignalledSide(in), 0 >>
        \/ change = << "laneChangeStarting", lane_change_direction, lane_change_timer + 1 >>
    BY <2>1 DEF FromStarting
  <2>3. /\ lane_change_timer \in Nat /\ TimeMaxFrames \in Nat /\ StartFrames \in Nat
        /\ lane_change_timer < TimeMaxFrames
    BY <1>7, FramesAssumption DEF Cancelled, IInv, TypeOK
  <2>4. ASSUME lane_change_timer + 1 >= StartFrames,
               change = << "preLaneChange", SignalledSide(in), 0 >>
        PROVE  LaneChangeContract!Finish
    BY <1>1, <1>2, <1>7, <2>3, <2>4 DEF LaneChangeContract!Finish
  <2>5. ASSUME change = << "laneChangeStarting", lane_change_direction, lane_change_timer + 1 >>
        PROVE  LaneChangeContract!Move
    BY <1>1, <1>7, <2>3, <2>5 DEF LaneChangeContract!Move
  <2> QED BY <1>3, <2>2, <2>4, <2>5 DEF LaneChangeContract!Next
<1> QED BY <1>4, <1>5, <1>6, <1>7 DEF IInv, TypeOK, LaneChangeStates

\* Signalled before it begins, to one side only, for at least StartFrames and at
\* most TimeMaxFrames, or cut short: whatever the model and the settings do.
THEOREM KeepsLaneChangeContract == Spec => ImplementsLaneChange
<1>1. Init => LaneChangeContract!Init
  BY DEF Init, LaneChangeContract!Init, LaneChangeContract!Idle
<1>2. IInv /\ [Next]_vars => [LaneChangeContract!Next]_LaneChangeContract!vars
  <2> SUFFICES ASSUME IInv, [Next]_vars
               PROVE  [LaneChangeContract!Next]_LaneChangeContract!vars
    OBVIOUS
  <2>1. CASE Next
    <3>1. PICK in \in Inputs, set \in Settings \union { settings } : Update(in, set)
      BY <2>1, Frames
    <3>2. in \in InputType /\ set \in SettingType
      BY <3>1, InputsAssumption DEF IInv, TypeOK
    <3> QED BY <3>1, <3>2, UpdateRefines
  <2>2. CASE UNCHANGED vars
    BY <2>2 DEF vars, helper, LaneChangeContract!vars
  <2> QED BY <2>1, <2>2
<1> QED BY <1>1, <1>2, Invariant, PTL DEF Spec, ImplementsLaneChange, LaneChangeContract!Spec

-----------------------------------------------------------------------------
(* What has been since the signal was set: while the steering stays on the   *)
(* code remembers the brake, the last change and the obstacle as the history *)
(* does, the last one in a timer, or is off and stays so until the blinker is *)
(* switched off.                                                              *)

\* Off until the signal ends, or with a memory.
Remembers(memory) == prev_one_blinker /\ (lane_change_state = "off" \/ memory)

WaitsOut ==
  /\ settings.set_timer \in AutoModes
  /\ lane_change_wait_timer <= WaitFrames[settings.set_timer] - SecondFrames + clear

ChangeInv ==
  /\ IInv
  /\ prev_one_blinker <=> (OneBlinker(sm) /\ sm.lateral_active)
  /\ lane_change_state = "laneChangeStarting" => prev_lane_change
  /\ braked \in BOOLEAN /\ changed \in BOOLEAN
  /\ clear \in 0..SecondFrames
  /\ braked /\ "brake" \notin forgotten => Remembers(prev_brake_pressed)
  /\ changed /\ "change" \notin forgotten => Remembers(prev_lane_change)
  /\ clear < SecondFrames /\ "obstacle" \notin forgotten => Remembers(WaitsOut)

\* Of a frame: when the controller starts over, and what a frame that waits adds.
LEMMA ChangeFrames ==
  ASSUME IInv, IInv', NEW in \in InputType, NEW set \in SettingType, Update(in, set)
  PROVE  /\ IsOff(NextLaneChange(in, set)) <=> lane_change_state' = "off"
         /\ Waits /\ lane_change_state' # "off" =>
              ~Cancelled(in, set) /\ OneBlinker(in) /\ lane_change_direction' = SignalledSide(in)
         /\ lane_change_state' # "off" =>
              /\ lane_change_wait_timer' = IF Waits THEN Waited(in, set) ELSE lane_change_wait_timer
              /\ prev_brake_pressed' = (prev_brake_pressed \/ (Waits /\ in.brakePressed))
              /\ prev_lane_change' = (prev_lane_change \/ lane_change_state' = "laneChangeStarting")
<1> DEFINE change == NextLaneChange(in, set)
<1>1. lane_change_state' = change[1] /\ lane_change_direction' = change[2]
  BY DEF Update
<1>2. lane_change_state' = "off" => lane_change_direction' = "none"
  BY DEF IInv, OffIsClean
<1>3. IsOff(change) <=> lane_change_state' = "off"
  BY <1>1, <1>2 DEF IsOff
<1>4. ASSUME Waits, lane_change_state' # "off"
      PROVE  ~Cancelled(in, set) /\ OneBlinker(in) /\ lane_change_direction' = SignalledSide(in)
  <2>1. ~Cancelled(in, set)
    BY <1>1, <1>4 DEF NextLaneChange, Off
  <2>2. change = FromPre(in, set)
    BY <1>4, <2>1 DEF NextLaneChange, Waits
  <2>3. OneBlinker(in) /\ ~BelowLaneChangeSpeed(in)
    BY <1>1, <1>4, <2>2 DEF FromPre, Off
  <2> QED BY <1>1, <2>1, <2>2, <2>3 DEF FromPre
<1>5. ASSUME lane_change_state' # "off"
      PROVE  /\ lane_change_wait_timer' = IF Waits THEN Waited(in, set) ELSE lane_change_wait_timer
             /\ prev_brake_pressed' = (prev_brake_pressed \/ (Waits /\ in.brakePressed))
             /\ prev_lane_change' = (prev_lane_change \/ lane_change_state' = "laneChangeStarting")
  <2>1. (~Cancelled(in, set) /\ lane_change_state = "preLaneChange") <=> Waits
    BY <1>4, <1>5 DEF Waits
  <2>2. NextAuto(~Cancelled(in, set) /\ lane_change_state = "preLaneChange", in, set, change)
    BY DEF Update
  <2>3. ~IsOff(change)
    BY <1>3, <1>5
  <2>4. /\ prev_brake_pressed \in BOOLEAN /\ prev_lane_change \in BOOLEAN
        /\ prev_brake_pressed' \in BOOLEAN /\ prev_lane_change' \in BOOLEAN
    BY DEF IInv, TypeOK
  <2> HIDE DEF change
  <2>5. lane_change_wait_timer' = IF Waits THEN Waited(in, set) ELSE lane_change_wait_timer
    BY <2>1, <2>2, <2>3 DEF NextAuto
  <2>6. prev_brake_pressed' <=> IF Waits THEN BrakeLatched(in) ELSE prev_brake_pressed
    BY <2>1, <2>2, <2>3 DEF NextAuto
  <2>7. prev_lane_change' <=> prev_lane_change \/ lane_change_state' = "laneChangeStarting"
    BY <1>1, <2>2, <2>3 DEF NextAuto
  <2> QED BY <2>4, <2>5, <2>6, <2>7 DEF BrakeLatched
<1> QED BY <1>3, <1>4, <1>5

LEMMA ChangeStarts == ChangeInit => ChangeInv
<1> SUFFICES ASSUME ChangeInit PROVE ChangeInv
  OBVIOUS
<1>1. IInv
  BY InitInvariant DEF ChangeInit
<1>2. clear \in 0..SecondFrames /\ ~(clear < SecondFrames)
  BY FramesAssumption DEF ChangeInit
<1>3. ~prev_one_blinker /\ ~sm.lateral_active /\ lane_change_state = "off"
  BY DEF ChangeInit, Init, NoInput
<1> QED BY <1>1, <1>2, <1>3 DEF ChangeInit, ChangeInv

\* What an update does with the signal: it is remembered while the steering is on, and
\* a helper that is off while it is stays off.
LEMMA SignalFrame ==
  ASSUME IInv, NEW in \in InputType, NEW set \in SettingType, Update(in, set)
  PROVE  /\ sm' = in /\ settings' = set
         /\ prev_one_blinker' = (OneBlinker(in) /\ in.lateral_active)
         /\ prev_one_blinker /\ OneBlinker(in) /\ lane_change_state = "off"
              => lane_change_state' = "off"
<1>1. /\ sm' = in /\ settings' = set /\ lane_change_state' = NextLaneChange(in, set)[1]
      /\ prev_one_blinker' = (OneBlinker(in) /\ in.lateral_active)
  BY DEF Update
<1>2. ASSUME prev_one_blinker, lane_change_state = "off"
      PROVE  NextLaneChange(in, set)[1] = "off"
  <2>1. CASE Cancelled(in, set)
    BY <2>1 DEF NextLaneChange, Off
  <2>2. CASE ~Cancelled(in, set)
    <3>1. NextLaneChange(in, set) = FromOff(in)
      BY <1>2, <2>2 DEF NextLaneChange
    <3> QED BY <1>2, <3>1 DEF FromOff
  <2> QED BY <2>1, <2>2
<1> QED BY <1>1, <1>2

\* The wait timer is at least as far from its end as the clear second is.
LEMMA ClearFrame ==
  ASSUME ChangeInv, IInv', NEW in \in InputType, NEW set \in SettingType, Update(in, set), ChangeFrame
  PROVE  /\ clear' \in 0..SecondFrames
         /\ clear' < SecondFrames /\ "obstacle" \notin forgotten' => Remembers(WaitsOut)'
<1> SecondFrames \in Nat /\ WaitCap \in Nat /\ WaitFrames \in [ AutoModes -> 1..WaitCap ]
  BY FramesAssumption
<1> clear \in 0..SecondFrames /\ lane_change_wait_timer \in Int /\ lane_change_wait_timer <= WaitCap
  BY DEF ChangeInv, IInv, TypeOK
<1> /\ sm' = in /\ settings' = set
    /\ prev_one_blinker' = (OneBlinker(in) /\ in.lateral_active)
    /\ prev_one_blinker /\ OneBlinker(in) /\ lane_change_state = "off" => lane_change_state' = "off"
  BY SignalFrame DEF ChangeInv
<1>1. /\ clear' = IF ~OneBlinker(in) THEN SecondFrames
                  ELSE IF Sees THEN 0
                  ELSE IF set # settings THEN SecondFrames
                  ELSE IF Waits /\ clear < SecondFrames THEN clear + 1
                  ELSE clear
      /\ OneBlinker(in) /\ "obstacle" \notin forgotten' =>
           in.lateral_active /\ ("obstacle" \notin forgotten \/ Sees)
  <2> HIDE DEF Sees
  <2> QED BY DEF ChangeFrame
<1>2. /\ lane_change_state' # "off" =>
           lane_change_wait_timer' = IF Waits THEN Waited(in, set) ELSE lane_change_wait_timer
  BY ChangeFrames DEF ChangeInv
<1>3. clear' \in 0..SecondFrames
  BY <1>1
<1>4. SUFFICES ASSUME clear' < SecondFrames, "obstacle" \notin forgotten', lane_change_state' # "off"
               PROVE  prev_one_blinker' /\ WaitsOut'
  <2>1. ASSUME clear' < SecondFrames, "obstacle" \notin forgotten'
        PROVE  prev_one_blinker'
    <3> HIDE DEF Sees
    <3>1. clear' # SecondFrames
      BY <2>1
    <3>2. OneBlinker(in)
      BY <1>1, <3>1, Zenon
    <3>3. in.lateral_active
      BY <1>1, <2>1, <3>2, Zenon
    <3>4. prev_one_blinker' = (OneBlinker(in) /\ in.lateral_active)
      OBVIOUS
    <3> QED BY <3>2, <3>3, <3>4, Zenon
  <2> QED BY <1>3, <1>4, <2>1 DEF Remembers
<1>5. OneBlinker(in) /\ prev_one_blinker'
  <2> HIDE DEF Sees
  <2>1. clear' # SecondFrames
    BY <1>4
  <2>2. OneBlinker(in)
    BY <1>1, <2>1, Zenon
  <2>3. in.lateral_active
    BY <1>1, <1>4, <2>2, Zenon
  <2>4. prev_one_blinker' = (OneBlinker(in) /\ in.lateral_active)
    OBVIOUS
  <2> QED BY <2>2, <2>3, <2>4, Zenon
<1>6. CASE Sees
  <2>1. /\ Waits /\ set.bsm_delay /\ set.set_timer \in AutoModes /\ Obstructed(in)
    BY <1>6 DEF Sees
  <2>2. Waited(in, set) \in { -SecondFrames, WaitFrames[set.set_timer] - SecondFrames }
    BY <2>1 DEF Waited
  <2>3. lane_change_wait_timer' = Waited(in, set) /\ clear' = 0
    BY <1>1, <1>2, <1>4, <1>5, <1>6, <2>1
  <2>4. WaitFrames[set.set_timer] \in 1..WaitCap
    BY <2>1
  <2>5. lane_change_wait_timer' <= WaitFrames[set.set_timer] - SecondFrames + clear'
    BY <2>2, <2>3, <2>4
  <2> QED BY <1>5, <2>1, <2>5 DEF WaitsOut
<1>7. CASE ~Sees
  <2>1. /\ set = settings /\ "obstacle" \notin forgotten
        /\ clear' = IF Waits /\ clear < SecondFrames THEN clear + 1 ELSE clear
    BY <1>1, <1>4, <1>5, <1>7
  <2>2. clear < SecondFrames
    BY <1>4, <2>1
  <2>3. /\ settings.set_timer \in AutoModes
        /\ lane_change_wait_timer <= WaitFrames[settings.set_timer] - SecondFrames + clear
    <3>1. Remembers(WaitsOut)
      BY <2>1, <2>2 DEF ChangeInv
    <3>2. lane_change_state # "off"
      BY <1>4, <1>5, <3>1 DEF Remembers
    <3> QED BY <3>1, <3>2 DEF Remembers, WaitsOut
  <2>4. WaitFrames[settings.set_timer] \in 1..WaitCap
    BY <2>3
  <2>5. CASE Waits
    <3>1. ~(set.bsm_delay /\ Obstructed(in) /\ set.set_timer \in AutoModes)
      BY <1>7, <2>5 DEF Sees
    <3>2. Waited(in, set) <= lane_change_wait_timer + 1 /\ Waited(in, set) \in Int
      BY <3>1 DEF Waited
    <3>3. lane_change_wait_timer' = Waited(in, set) /\ clear' = clear + 1
      BY <1>2, <1>4, <2>1, <2>2, <2>5
    <3>4. lane_change_wait_timer' <= WaitFrames[set.set_timer] - SecondFrames + clear'
      BY <2>1, <2>3, <2>4, <3>2, <3>3
    <3> QED BY <1>5, <2>1, <2>3, <3>4 DEF WaitsOut
  <2>6. CASE ~Waits
    <3>1. lane_change_wait_timer' = lane_change_wait_timer /\ clear' = clear
      BY <1>2, <1>4, <2>1, <2>6
    <3> QED BY <1>5, <2>1, <2>3, <3>1 DEF WaitsOut
  <2> QED BY <2>5, <2>6
<1> QED BY <1>6, <1>7

\* The brake and the last change, of a signal with the steering on.
LEMMA LatchFrame ==
  ASSUME ChangeInv, IInv', NEW in \in InputType, NEW set \in SettingType, Update(in, set), ChangeFrame
  PROVE  /\ braked' /\ "brake" \notin forgotten' => Remembers(prev_brake_pressed)'
         /\ changed' /\ "change" \notin forgotten' => Remembers(prev_lane_change)'
<1> /\ sm' = in
    /\ prev_one_blinker' = (OneBlinker(in) /\ in.lateral_active)
    /\ prev_one_blinker /\ OneBlinker(in) /\ lane_change_state = "off" => lane_change_state' = "off"
  BY SignalFrame DEF ChangeInv
<1>1. /\ lane_change_state' # "off" =>
           /\ prev_brake_pressed' = (prev_brake_pressed \/ (Waits /\ in.brakePressed))
           /\ prev_lane_change' = (prev_lane_change \/ lane_change_state' = "laneChangeStarting")
  BY ChangeFrames DEF ChangeInv
<1>2. /\ braked' /\ "brake" \notin forgotten' =>
           /\ OneBlinker(in) /\ in.lateral_active
           /\ Brakes \/ (braked /\ "brake" \notin forgotten)
      /\ changed' /\ "change" \notin forgotten' =>
           /\ OneBlinker(in) /\ in.lateral_active
           /\ Starts \/ (changed /\ "change" \notin forgotten)
  <2> HIDE DEF Brakes, Starts
  <2> QED BY DEF ChangeFrame
<1>3. ASSUME braked', "brake" \notin forgotten', lane_change_state' # "off"
      PROVE  prev_brake_pressed'
  <2>1. CASE Brakes
    BY <1>1, <1>3, <2>1 DEF Brakes
  <2>2. CASE braked /\ "brake" \notin forgotten
    BY <1>1, <1>2, <1>3, <2>2 DEF ChangeInv, Remembers
  <2> QED BY <1>2, <1>3, <2>1, <2>2
<1>4. ASSUME changed', "change" \notin forgotten', lane_change_state' # "off"
      PROVE  prev_lane_change'
  <2>1. CASE Starts
    BY <1>1, <1>4, <2>1 DEF Starts
  <2>2. CASE changed /\ "change" \notin forgotten
    BY <1>1, <1>2, <1>4, <2>2 DEF ChangeInv, Remembers
  <2> QED BY <1>2, <1>4, <2>1, <2>2
<1> QED BY <1>2, <1>3, <1>4 DEF Remembers

LEMMA ChangeStep == ChangeInv /\ [ChangeFrame]_changeVars => ChangeInv'
<1> SUFFICES ASSUME ChangeInv, [ChangeFrame]_changeVars PROVE ChangeInv'
  OBVIOUS
<1>1. IInv'
  BY StepInvariant DEF ChangeInv, ChangeFrame, changeVars
<1>2. CASE ChangeFrame
  <2>1. PICK in \in Inputs, set \in Settings \union { settings } : Update(in, set)
    BY <1>2, Frames DEF ChangeFrame
  <2>2. in \in InputType /\ set \in SettingType
    BY <2>1, InputsAssumption DEF ChangeInv, IInv, TypeOK
  <2>3. braked' \in BOOLEAN /\ changed' \in BOOLEAN
    BY <1>2 DEF ChangeFrame
  <2>4. prev_one_blinker' <=> (OneBlinker(sm') /\ sm'.lateral_active)
    BY <2>1, <2>2, SignalFrame DEF ChangeInv
  <2>5. lane_change_state' = "laneChangeStarting" => prev_lane_change'
    BY <1>1, <2>1, <2>2, ChangeFrames DEF ChangeInv
  <2>6. /\ clear' \in 0..SecondFrames
        /\ clear' < SecondFrames /\ "obstacle" \notin forgotten' => Remembers(WaitsOut)'
    BY <1>1, <1>2, <2>1, <2>2, ClearFrame
  <2>7. /\ braked' /\ "brake" \notin forgotten' => Remembers(prev_brake_pressed)'
        /\ changed' /\ "change" \notin forgotten' => Remembers(prev_lane_change)'
    BY <1>1, <1>2, <2>1, <2>2, LatchFrame
  <2>8. OneBlinker(sm)' <=> OneBlinker(sm')
    BY DEF OneBlinker
  <2> QED BY <1>1, <2>3, <2>4, <2>5, <2>6, <2>7, <2>8 DEF ChangeInv
<1>3. CASE UNCHANGED changeVars
  BY <1>1, <1>3 DEF changeVars, vars, helper, auto, ChangeInv, Remembers, WaitsOut, OneBlinker
<1> QED BY <1>2, <1>3

LEMMA ChangeInvariant == ChangeSpec => []ChangeInv
  BY ChangeStarts, ChangeStep, PTL DEF ChangeSpec

\* A change that nobody nudges is one the automatic controller allowed.
LEMMA AloneIsAllowed ==
  ASSUME ChangeInv, ChangeFrame, StartsAlone
  PROVE  /\ ~sm'.brakePressed /\ (braked => "brake" \in forgotten)
         /\ changed => "change" \in forgotten
         /\ clear' = SecondFrames \/ "obstacle" \in forgotten
<1>1. PICK in \in Inputs, set \in Settings \union { settings } : Update(in, set)
  BY Frames DEF ChangeFrame
<1>2. in \in InputType /\ set \in SettingType /\ sm' = in /\ settings' = set
  BY <1>1, InputsAssumption DEF ChangeInv, IInv, TypeOK, Update
<1>3. IInv'
  BY StepInvariant DEF ChangeInv, ChangeFrame
<1>4. /\ Waits /\ ~Cancelled(in, set) /\ ~Obstructed(in)
      /\ lane_change_direction' = SignalledSide(in)
  BY <1>1, <1>2, StartIsClear DEF ChangeInv, StartsAlone, Waits
<1>5. AutoLaneChangeAllowed(in, set)
  <2>1. NextLaneChange(in, set) = FromPre(in, set)
    BY <1>4 DEF NextLaneChange, Waits
  <2>2. NextLaneChange(in, set)[1] = "laneChangeStarting"
    BY <1>1 DEF Update, StartsAlone, Starts
  <2>3. ~Nudged(in)
    BY <1>2, <1>4 DEF StartsAlone, Nudged
  <2> QED BY <2>1, <2>2, <2>3 DEF FromPre, Off
<1>6. /\ ~in.brakePressed /\ (braked => "brake" \in forgotten)
      /\ changed => "change" \in forgotten
  <2>1. ~prev_brake_pressed /\ ~in.brakePressed /\ ~prev_lane_change
    BY <1>5 DEF AutoLaneChangeAllowed, BrakeLatched
  <2> QED BY <1>4, <2>1 DEF ChangeInv, Remembers, Waits
<1>7. clear' = SecondFrames \/ "obstacle" \in forgotten
  <2> SUFFICES ASSUME "obstacle" \notin forgotten PROVE clear' = SecondFrames
    OBVIOUS
  <2> SecondFrames \in Nat /\ WaitFrames \in [ AutoModes -> 1..WaitCap ] /\ WaitCap \in Nat
    BY FramesAssumption
  <2>1. lane_change_state' # "off"
    BY DEF StartsAlone, Starts
  <2>2. lane_change_wait_timer' = Waited(in, set)
    BY <1>1, <1>2, <1>3, <1>4, <2>1, ChangeFrames DEF ChangeInv
  <2>3. set.set_timer \in AutoModes /\ lane_change_wait_timer' >= WaitFrames[set.set_timer]
    BY <1>5, <2>2 DEF AutoLaneChangeAllowed
  <2>4. /\ clear' \in 0..SecondFrames
        /\ clear' < SecondFrames /\ "obstacle" \notin forgotten' => Remembers(WaitsOut)'
    BY <1>1, <1>2, <1>3, ClearFrame
  <2>5. "obstacle" \notin forgotten'
    <3>1. in.lateral_active
      BY <1>4 DEF Cancelled
    <3> HIDE DEF Brakes, Starts, Sees
    <3> QED BY <1>2, <3>1 DEF ChangeFrame
  <2>6. clear' < SecondFrames =>
          lane_change_wait_timer' <= WaitFrames[set.set_timer] - SecondFrames + clear'
    BY <1>2, <2>1, <2>4, <2>5 DEF Remembers, WaitsOut
  <2>7. WaitFrames[set.set_timer] \in Int /\ lane_change_wait_timer' \in Int
    BY <1>3, <2>3 DEF IInv, TypeOK
  <2> QED BY <2>3, <2>4, <2>6, <2>7
<1> QED BY <1>2, <1>6, <1>7

\* A blinker that is left on does not take the car across the next lane as well, while
\* the steering stays on.
THEOREM ChangesAreOnePerSignal == ChangeSpec => OneChangePerSignal
<1>1. ChangeInv /\ [ChangeFrame]_changeVars
        => [ StartsAlone => (changed => "change" \in forgotten) ]_changeVars
  BY AloneIsAllowed
<1> QED BY <1>1, ChangeInvariant, PTL DEF ChangeSpec, OneChangePerSignal

\* The brake, pressed at any time of the wait, and an obstacle seen within the last
\* second hold a change back that nobody nudges, while the steering stays on.
THEOREM ChangesAloneWait == ChangeSpec => ChangeAloneWaits
<1>1. ChangeInv /\ [ChangeFrame]_changeVars
        => [ StartsAlone => ~sm'.brakePressed /\ (braked => "brake" \in forgotten) ]_changeVars
  BY AloneIsAllowed
<1>2. ChangeInv /\ [ChangeFrame]_changeVars
        => [ StartsAlone => clear' = SecondFrames \/ "obstacle" \in forgotten ]_changeVars
  BY AloneIsAllowed
<1>3. ChangeSpec => BrakeVetoesChange
  BY <1>1, ChangeInvariant, PTL DEF ChangeSpec, BrakeVetoesChange
<1>4. ChangeSpec => BlindspotDelaysChange
  BY <1>2, ChangeInvariant, PTL DEF ChangeSpec, BlindspotDelaysChange
<1> QED BY <1>3, <1>4 DEF ChangeAloneWaits

-----------------------------------------------------------------------------
(* controlsd.                                                               *)

\* Neither of the two calls of a frame counts the blinker timer below zero.
LEMMA OffTimerType ==
  ASSUME ControlsTypeOK, NEW m \in MessageType, NEW t \in Nat
  PROVE  OffTimer(m, t) \in Nat
BY DEF OffTimer, ControlsTypeOK, PauseSettingType

LEMMA FrameType ==
  ASSUME ControlsTypeOK, NEW m \in MessageType, Frame(m)
  PROVE  /\ messages' \in MessageType /\ CC' \in CarControlType
         /\ blinker_off_timer' \in Nat /\ steer_limit_looked_at' \in BOOLEAN
<1> DEFINE first == OffTimer(m, blinker_off_timer)
           second == OffTimer(m, first)
<1>1. first \in Nat
  BY OffTimerType DEF ControlsTypeOK
<1>2. second \in Nat
  BY <1>1, OffTimerType
<1>3. messages' = m /\ blinker_off_timer' = second
  BY DEF Frame
<1>4. steer_limit_looked_at' \in BOOLEAN
  BY Zenon DEF Frame, LatActive
<1>5. CC' \in CarControlType
  <2> DEFINE lat == LatActive(m, first) /\ m.steerable
             long == m.enabled /\ ~m.overriding /\ LongitudinalControl
             blink == IF m.laneChange = "none" THEN {} ELSE { m.laneChange }
             over == m.enabled /\ ~long /\ LongitudinalControl
             cancels == m.stockEnabled /\ (~m.enabled \/ ~PcmCruise)
             resumes == m.enabled /\ m.stockWaits /\ ~m.shouldStop
             escalates == m.noResponse \/ m.softDisabling
  <2>1. CC' = [ enabled |-> m.enabled, latActive |-> lat, longActive |-> long,
                blinkers |-> blink, override |-> over, cancel |-> cancels,
                resume |-> resumes, escalation |-> escalates ]
    BY DEF Frame
  <2>2. m.enabled \in BOOLEAN /\ blink \in SUBSET Blinkers
    BY DEF MessageType
  <2>3. lat \in BOOLEAN /\ long \in BOOLEAN /\ over \in BOOLEAN
    BY Zenon DEF LatActive
  <2>4. cancels \in BOOLEAN /\ resumes \in BOOLEAN /\ escalates \in BOOLEAN
    BY Zenon
  <2> HIDE DEF lat, long, blink, over, cancels, resumes, escalates
  <2> QED BY <2>1, <2>2, <2>3, <2>4 DEF CarControlType
<1> QED BY <1>2, <1>3, <1>4, <1>5 DEF ControlsTypeOK

LEMMA InitType == ControlsInit => ControlsTypeOK
<1> SUFFICES ASSUME ControlsInit PROVE ControlsTypeOK
  OBVIOUS
<1>1. messages \in MessageType
  BY MessagesAssumption DEF ControlsInit
<1>2. CC \in CarControlType
  BY DEF ControlsInit, NoControl, CarControlType
<1>3. blinker_pause \in PauseSettingType
  BY PauseSettingsAssumption DEF ControlsInit, PauseSettingType
<1> QED BY <1>1, <1>2, <1>3 DEF ControlsInit, ControlsTypeOK

LEMMA StepType == ControlsTypeOK /\ [ControlsNext]_controlsVars => ControlsTypeOK'
<1> SUFFICES ASSUME ControlsTypeOK, [ControlsNext]_controlsVars PROVE ControlsTypeOK'
  OBVIOUS
<1>1. CASE ControlsNext
  <2>1. PICK m \in Messages : Frame(m)
    BY <1>1 DEF ControlsNext, ControlsFrame, ControlsFrameReadingParams
  <2>2. m \in MessageType
    BY MessagesAssumption
  <2>3. blinker_pause' \in PauseSettingType
    BY <1>1, PauseSettingsAssumption
       DEF ControlsNext, ControlsFrame, ControlsFrameReadingParams, ReadParams, ControlsTypeOK
  <2> QED BY <2>1, <2>2, <2>3, FrameType DEF ControlsTypeOK
<1>2. CASE UNCHANGED controlsVars
  BY <1>2 DEF controlsVars, ControlsTypeOK
<1> QED BY <1>1, <1>2

\* controlsd sends a well-formed carControl in every frame, and the blinker timer,
\* counted down twice in each of them, stays a natural number.
THEOREM ControlsTypeCorrect == ControlsSpec => []ControlsTypeOK
BY InitType, StepType, PTL DEF ControlsSpec

\* While the driver signals a turn at low speed no frame steers: neither the rest
\* of an earlier delay, nor a MADS that wants to steer changes that.
THEOREM TurnsAreTheDrivers == ControlsSpec => TurnIsTheDrivers
<1>1. [ControlsNext]_controlsVars =>
      [ (/\ blinker_pause.enabled
         /\ messages'.blinkers \in { { "left" }, { "right" } }
         /\ messages'.vEgo < blinker_pause.min_speed) => ~CC'.latActive ]_controlsVars
  <2> SUFFICES ASSUME ControlsNext, blinker_pause.enabled,
                      messages'.blinkers \in { { "left" }, { "right" } },
                      messages'.vEgo < blinker_pause.min_speed
               PROVE  ~CC'.latActive
    OBVIOUS
  <2>1. PICK m \in Messages : Frame(m)
    BY DEF ControlsNext, ControlsFrame, ControlsFrameReadingParams
  <2>2. messages' = m /\ CC'.latActive
                     = (LatActive(m, OffTimer(m, blinker_off_timer)) /\ m.steerable)
    BY <2>1 DEF Frame
  <2>3. Signalling(m)
    BY <2>2 DEF Signalling
  <2>4. Pauses(m, OffTimer(m, blinker_off_timer))
    BY <2>3 DEF Pauses
  <2> QED BY <2>2, <2>4 DEF LatActive
<1> QED BY <1>1, PTL DEF ControlsSpec, TurnIsTheDrivers

-----------------------------------------------------------------------------
(***************************************************************************)
(* The set speed.  Card may take a plan in the frame before or after the   *)
(* next one of the planner arrives, or skip it: the invariant says of each *)
(* plan that is under way or at card, and that card would take over, that  *)
(* its limit is the set speed, or both are above the threshold, or how     *)
(* recent a button is.                                                     *)
(***************************************************************************)
-----------------------------------------------------------------------------
\* card takes over the limit of a plan p from the plan that has moved the speed last
Moves(p, last) ==
    p.state \in SlaActive /\ (last.state \notin SlaActive \/ (p.limit > 0 /\ p.limit # last.limit))
Taken == [state |-> prev_sla, limit |-> prev_limit]
Coming == [state |-> sla, limit |-> limit_last]

\* the driver has agreed to a speed: it is the set speed, or both are above the threshold
Above(v) == v >= Threshold
Agreed(v) == v_cruise = Clip(v) \/ (Above(v_cruise) /\ Above(v))
SinceButton(n) == untouched <= HoldFrames + n

\* what the planner has seen of the set speed is gone: it will take back its confirmation
Overtaken == SinceButton(0) \/ (SinceButton(1) /\ v_cruise # cluster_prev)

\* a plan on its way to card, before and after the frame of card that may come between
Underway ==
    ~Arrived =>
       /\ ticked => Taken = plan \/ sla = "disabled"
       /\ ticked /\ Moves(Coming, plan) => Agreed(limit_last) \/ Overtaken
       /\ ~ticked /\ Moves(plan, Taken) => Agreed(plan.limit) \/ SinceButton(2)
       /\ ~ticked /\ Moves(Coming, Taken) => Agreed(limit_last) \/ SinceButton(1)
       /\ ~ticked /\ Moves(Coming, plan) /\ ~Moves(plan, Taken) => Agreed(limit_last) \/ SinceButton(0)
       /\ ~ticked /\ Moves(Coming, plan) /\ Moves(plan, Taken) =>
             /\ Above(v_cruise) /\ Above(limit_last)
             /\ Agreed(plan.limit) \/ SinceButton(1)

\* a plan that card has and may not have used
AtCard ==
    Arrived /\ Moves(plan, Taken) =>
       Agreed(plan.limit) \/ IF ticked THEN Overtaken ELSE SinceButton(1)

SlaSane ==
    /\ ~long_enabled_prev => sla = "disabled"
    /\ limit_last \in Finals /\ speed_limit_prev \in Limits
    /\ speed_limit_prev > 0 => limit_last = Final[speed_limit_prev]
    /\ ~pcm => {sla, plan.state, prev_sla} \subseteq {"disabled", "inactive", "preActive", "active"}

\* the frame that engages: card will set the speed in the next
Engaging ==
    enabled /\ ~enabled_seen =>
       /\ sla = "disabled" /\ (Arrived \/ ~ticked => plan.state = "disabled")
       /\ ticked => ~long_enabled_prev
       /\ ~pcm => button_change = {}

ButtonsHeld ==
    /\ \A b, c \in Buttons : button_timers[b] > 0 /\ button_timers[c] > 0 => b = c
    /\ ~pcm => \A b \in button_change : button_timers[b] > 0

Releases ==
    /\ flipped # {} => untouched = 0
    /\ \A b \in Signs : holds[b] > 0 => untouched + holds[b] <= HoldFrames + 1

SpeedAgreed ==
    ~pcm /\ enabled_seen /\ v_cruise # Unset =>
       /\ ~ticked => v_cruise = cluster_prev
       /\ Underway /\ AtCard

SetSpeedInv ==
    SetSpeedTypeOK /\ SlaSane /\ Engaging /\ ButtonsHeld /\ Releases /\ EngagedSpeedIsSet /\ SpeedAgreed

LEMMA ClipType ==
  /\ \A v \in Int : Clip(v) \in VMin .. VMax
  /\ \A v \in VMin .. VMax : Clip(v) = v
  /\ \A v \in Int, u \in VMin .. VMax : Above(v) /\ Above(u) => Above(Clip(v))
BY CruiseAssumption, SlaAssumption DEF Clip, Above

LEMMA LimitType ==
  /\ \A l \in Limits : l \in Nat /\ l \in Int /\ Final[l] \in Finals
  /\ \A f \in Finals : f \in Nat /\ f \in Int
  /\ 0 \in Limits /\ 0 \in Finals
<1>1. /\ \A l \in Limits : l \in Nat /\ l \in Int
      /\ 0 \in Limits /\ Final[0] = 0
  BY RoadAssumption
<1>2. ASSUME NEW l \in Limits PROVE Final[l] \in Finals /\ Final[l] \in Nat /\ Final[l] \in Int
  <2>1. Final[l] \in Finals
    BY DEF Finals
  <2>2. Final[l] \in Nat
    BY RoadAssumption
  <2> QED BY <2>1, <2>2
<1>3. ASSUME NEW f \in Finals PROVE f \in Nat /\ f \in Int
  <2>1. PICK l \in Limits : f = Final[l]
    BY DEF Finals
  <2> QED BY <1>2, <2>1
<1>4. 0 \in Finals
  <2>1. Final[0] \in Finals
    BY <1>1, <1>2
  <2> QED BY <1>1, <2>1
<1> QED BY <1>1, <1>2, <1>3, <1>4

LEMMA SteppedType ==
  ASSUME v_cruise \in VMin .. Unset, NEW b \in Buttons, NEW long \in BOOLEAN
  PROVE  Stepped(b, long) \in Int
<1> DEFINE step == IF long THEN LongStep ELSE 1
           more == IF b = "accel" THEN 1 ELSE 0
<1>1. v_cruise \in Int /\ step \in Nat \ {0} /\ more \in Int
  BY CruiseAssumption DEF Unset
<1>2. v_cruise \div step \in Int
  BY <1>1
<1>3. (v_cruise \div step + more) * step \in Int
  BY <1>1, <1>2
<1>4. v_cruise + step * (IF b = "accel" THEN 1 ELSE -1) \in Int
  BY <1>1
<1> QED BY <1>3, <1>4 DEF Stepped

\* What the buttons of a frame make of the set speed.
LEMMA ButtonsSet ==
  ASSUME CruiseTypeOK, NEW enabledNow, NEW p, NEW cs,
         cs.event \in ButtonEvents, cs.gas_speed \in Nat
  PROVE  /\ AfterButtons(cs, enabledNow, p) \in (VMin .. VMax) \cup { v_cruise }
         /\ button_change = {} => AfterButtons(cs, enabledNow, p) = v_cruise
         /\ cs.event = NoEvent /\ (\A b \in Buttons : button_timers[b] = 0)
               => AfterButtons(cs, enabledNow, p) = v_cruise
<1> DEFINE Acts(b) == Short(b, cs.event) \/ Long(b, cs.event)
<1>1. ASSUME NEW b \in Buttons PROVE Pressed(b, cs) \in VMin .. VMax
  <2>1. Long(b, cs.event) \in BOOLEAN
    BY DEF Long
  <2>2. Stepped(b, Long(b, cs.event)) \in Int
    BY <2>1, SteppedType DEF CruiseTypeOK
  <2> QED BY <2>2, ClipType DEF Pressed, AtLeast
<1>2. CASE \E b \in Buttons : Acts(b) /\ Counts(b, cs, p)
  <2>1. PICK b \in Buttons : Acts(b) /\ Counts(b, cs, p)
    BY <1>2
  <2>2. b \in button_change
    BY <2>1 DEF Counts
  <2>3. ~(cs.event = NoEvent /\ \A c \in Buttons : button_timers[c] = 0)
    BY <2>1 DEF Short, Long, Released, CruiseTypeOK
  <2>4. (CHOOSE c \in Buttons : Acts(c)) \in Buttons
    BY <2>1
  <2>5. AfterButtons(cs, enabledNow, p) \in { Pressed(CHOOSE c \in Buttons : Acts(c), cs), v_cruise }
    BY DEF AfterButtons
  <2> QED BY <1>1, <2>2, <2>3, <2>4, <2>5
<1>3. CASE ~\E b \in Buttons : Acts(b) /\ Counts(b, cs, p)
  BY <1>3 DEF AfterButtons
<1> QED BY <1>2, <1>3

-----------------------------------------------------------------------------
\* The set speed that a frame of card leaves.
LEMMA CardSpeed ==
  ASSUME SetSpeedTypeOK, NEW e \in ButtonEvents, NEW a \in BOOLEAN, NEW s \in BOOLEAN,
         NEW w \in BOOLEAN, NEW g \in Nat, NEW v \in VMin .. VMax, CardFrame(e, a, s, g, v, w)
  PROVE  /\ v_cruise' \in VMin .. Unset
         /\ ~pcm /\ enabled /\ ~enabled_seen /\ button_change = {} /\ plan.state \notin SlaActive
               => v_cruise' \in VMin .. VMax
         /\ ~pcm /\ enabled /\ enabled_seen /\ a /\ v_cruise \in VMin .. VMax
               => v_cruise' \in VMin .. VMax
         /\ ~pcm /\ ~(enabled /\ ~enabled_seen)
               => \/ v_cruise' = Unset /\ ~a
                  \/ a /\ (e = NoEvent /\ (\A b \in Buttons : button_timers[b] = 0)
                             => v_cruise' = IF Moves(plan, Taken) THEN Clip(plan.limit) ELSE v_cruise)
<1> DEFINE cs == [event |-> e, available |-> a, standstill |-> s, gas_speed |-> g, speed |-> v, v_ego |-> v]
           bt == AfterButtons(cs, enabled, plan)
           set == IF ~a THEN Unset ELSE IF pcm THEN v ELSE AfterLimit(bt, plan)
<1>1. UpdateVCruise(cs, button_prev, enabled, enabled_seen, plan)
  BY DEF CardFrame
<1>2. /\ cs.event = e /\ cs.available = a /\ cs.gas_speed = g /\ cs.speed = v /\ cs.v_ego = v
  OBVIOUS
<1>3. v_cruise' = IF ~pcm /\ enabled /\ ~enabled_seen THEN Initialized(set, button_prev, v) ELSE set
  BY <1>1, <1>2 DEF UpdateVCruise
<1>4. /\ bt \in (VMin .. VMax) \cup { v_cruise }
      /\ button_change = {} => bt = v_cruise
      /\ e = NoEvent /\ (\A b \in Buttons : button_timers[b] = 0) => bt = v_cruise
  BY <1>2, ButtonsSet DEF SetSpeedTypeOK
<1>5. v_cruise \in VMin .. Unset /\ Clip(plan.limit) \in VMin .. VMax
      /\ (VMin .. VMax) \subseteq (VMin .. Unset) /\ Unset \in VMin .. Unset /\ Unset \notin VMin .. VMax
      /\ \A x \in VMin .. Unset : x # Unset => x \in VMin .. VMax
  <2>1. plan.limit \in Finals
    BY DEF SetSpeedTypeOK
  <2>2. plan.limit \in Int
    BY <2>1, LimitType
  <2> QED BY <2>2, ClipType, CruiseAssumption DEF SetSpeedTypeOK, CruiseTypeOK, Unset
<1>6. LimitTakesOver(plan) <=> Moves(plan, Taken)
  BY DEF LimitTakesOver, Moves, Taken
<1>7. AfterLimit(bt, plan) = IF Moves(plan, Taken) THEN Clip(plan.limit) ELSE bt
  BY <1>6 DEF AfterLimit
<1>8. ASSUME NEW x PROVE Initialized(x, button_prev, v) = (IF button_prev = "accel" /\ x # Unset THEN v_cruise ELSE Clip(AtLeast(v, VInitial)))
                 /\ Clip(AtLeast(v, VInitial)) \in VMin .. VMax
  <2>1. AtLeast(v, VInitial) \in Int
    BY CruiseAssumption DEF AtLeast
  <2> QED BY <2>1, ClipType DEF Initialized
<1>9. plan.state \notin SlaActive => ~Moves(plan, Taken)
  BY DEF Moves
<1> HIDE DEF cs, bt
<1>a. set \in VMin .. Unset
  BY <1>4, <1>5, <1>7
<1>b. v_cruise' \in VMin .. Unset
  BY <1>3, <1>5, <1>8, <1>a
<1>c. ASSUME ~pcm, enabled, ~enabled_seen, button_change = {}, plan.state \notin SlaActive
      PROVE  v_cruise' \in VMin .. VMax
  <2>1. set # Unset => v_cruise # Unset
    BY <1>c, <1>4, <1>7, <1>9
  <2> QED BY <1>c, <1>3, <1>5, <1>8, <2>1
<1>d. ASSUME ~pcm, enabled, enabled_seen, a, v_cruise \in VMin .. VMax
      PROVE  v_cruise' \in VMin .. VMax
  BY <1>d, <1>3, <1>4, <1>5, <1>7
<1>e. ASSUME ~pcm, ~(enabled /\ ~enabled_seen)
      PROVE  \/ v_cruise' = Unset /\ ~a
             \/ a /\ (e = NoEvent /\ (\A b \in Buttons : button_timers[b] = 0)
                        => v_cruise' = IF Moves(plan, Taken) THEN Clip(plan.limit) ELSE v_cruise)
  BY <1>e, <1>3, <1>4, <1>7
<1> QED BY <1>b, <1>c, <1>d, <1>e

-----------------------------------------------------------------------------
\* What else a frame of card does.
LEMMA CardRest ==
  ASSUME SetSpeedTypeOK, NEW e \in ButtonEvents, NEW a \in BOOLEAN, NEW s \in BOOLEAN,
         NEW w \in BOOLEAN, NEW g \in Nat, NEW v \in VMin .. VMax, CardFrame(e, a, s, g, v, w)
  PROVE  /\ UNCHANGED <<slaVars, plan, pcm>> /\ ticked' = TRUE
         /\ Arrived \/ ~ticked
         /\ enabled_seen' = enabled /\ enabled' = (a /\ w) /\ button_prev' = e.button
         /\ ~enabled /\ enabled' => ~long_enabled_prev /\ (~pcm => e # NoEvent)
         /\ pcm => UNCHANGED <<button_timers, button_change>> /\ e = NoEvent
         /\ ~pcm => MayHappen(e)
         /\ IF ~pcm /\ a THEN prev_sla' = plan.state /\ prev_limit' = plan.limit
            ELSE UNCHANGED <<prev_sla, prev_limit>>
         /\ untouched' = IF e # NoEvent \/ \E b \in Buttons : button_timers[b] > 0 THEN 0 ELSE untouched
         /\ flipped' \subseteq Buttons /\ (e = NoEvent => flipped' = flipped)
<1> DEFINE cs == [event |-> e, available |-> a, standstill |-> s, gas_speed |-> g, speed |-> v, v_ego |-> v]
<1>1. UpdateVCruise(cs, button_prev, enabled, enabled_seen, plan)
  BY DEF CardFrame
<1>2. /\ pcm' = pcm
      /\ IF ~pcm /\ a THEN prev_sla' = plan.state /\ prev_limit' = plan.limit
         ELSE UNCHANGED <<prev_sla, prev_limit>>
      /\ pcm => UNCHANGED <<button_timers, button_change>>
  BY <1>1 DEF UpdateVCruise
<1>3. Released(e) => e.button \in Buttons
  BY DEF Released, ButtonEvents, NoEvent
<1>4. flipped' \subseteq Buttons /\ (e = NoEvent => flipped' = flipped)
  BY <1>3 DEF CardFrame, SetSpeedTypeOK, Released
<1> QED BY <1>2, <1>4 DEF CardFrame

\* The timers of the buttons: one button is held at a time, and it alone counts.
LEMMA CardButtons ==
  ASSUME SetSpeedTypeOK, ButtonsHeld, NEW e \in ButtonEvents, NEW a \in BOOLEAN, NEW s \in BOOLEAN,
         NEW w \in BOOLEAN, NEW g \in Nat, NEW v \in VMin .. VMax, CardFrame(e, a, s, g, v, w)
  PROVE  /\ button_timers' \in [Buttons -> 0 .. 2 * LongPress] /\ button_change' \subseteq Buttons
         /\ ButtonsHeld'
         /\ ~pcm /\ ~enabled /\ e # NoEvent => button_change' = {}
<1>0. pcm' = pcm
  BY CardRest
<1>1. CASE pcm
  <2>1. UNCHANGED <<button_timers, button_change>> /\ e = NoEvent
    BY <1>1, CardRest
  <2> QED BY <1>0, <1>1, <2>1 DEF ButtonsHeld, SetSpeedTypeOK, CruiseTypeOK
<1>2. CASE ~pcm
  <2> DEFINE cs == [event |-> e, available |-> a, standstill |-> s, gas_speed |-> g, speed |-> v, v_ego |-> v]
             time(b) == IF e.button = b THEN (IF e.pressed THEN 1 ELSE 0)
                        ELSE IF button_timers[b] > 0 THEN HeldLonger(button_timers[b]) ELSE 0
  <2>1. UpdateTimers(cs, enabled)
    BY <1>2 DEF CardFrame, UpdateVCruise
  <2>2. /\ button_timers' = [b \in Buttons |-> time(b)]
        /\ button_change' = IF e.pressed /\ enabled /\ ~(e.button = "accel" /\ s)
                            THEN button_change \cup {e.button} ELSE button_change \ {e.button}
    BY <2>1 DEF UpdateTimers
  <2>3. button_timers \in [Buttons -> 0 .. 2 * LongPress] /\ button_change \subseteq Buttons
        /\ LongPress \in Nat \ {0}
    BY CruiseAssumption DEF SetSpeedTypeOK, CruiseTypeOK
  <2>4. ASSUME NEW b \in Buttons PROVE /\ time(b) \in 0 .. 2 * LongPress
                                       /\ e.button # b => (time(b) > 0 <=> button_timers[b] > 0)
                                       /\ e.button = b => (time(b) > 0 <=> e.pressed)
    <3>1. button_timers[b] \in 0 .. 2 * LongPress
      BY <2>3
    <3>2. button_timers[b] > 0 => HeldLonger(button_timers[b]) \in 1 .. 2 * LongPress
      BY <3>1, <2>3 DEF HeldLonger
    <3> QED BY <2>3, <3>1, <3>2
  <2> HIDE DEF time
  <2>5. button_timers' \in [Buttons -> 0 .. 2 * LongPress]
    BY <2>2, <2>4
  <2>6. \A b \in Buttons : button_timers'[b] = time(b)
    BY <2>2
  <2>7. MayHappen(e)
    BY <1>2 DEF CardFrame
  <2>8. CASE e = NoEvent
    <3>1. ~e.pressed /\ e.button \notin Buttons
      BY <2>8 DEF NoEvent, Buttons
    <3>2. button_change' = button_change
      BY <2>2, <2>3, <3>1
    <3>3. \A b \in Buttons : button_timers'[b] > 0 <=> button_timers[b] > 0
      BY <2>4, <2>6, <3>1
    <3> QED BY <1>0, <2>3, <2>5, <2>8, <3>2, <3>3 DEF ButtonsHeld
  <2>9. CASE e # NoEvent
    <3>1. e.button \in Buttons /\ e.pressed \in BOOLEAN
      BY <2>9 DEF ButtonEvents
    <3>2. button_change' \subseteq Buttons
      BY <2>2, <2>3, <3>1
    <3>3. CASE e.pressed
      <4>1. \A b \in Buttons : button_timers[b] = 0
        BY <2>7, <2>9, <3>3 DEF MayHappen, Released
      <4>2. button_change = {}
        BY <1>2, <2>3, <4>1 DEF ButtonsHeld
      <4>3. \A b \in Buttons : button_timers'[b] > 0 <=> b = e.button
        BY <2>4, <2>6, <3>1, <3>3, <4>1
      <4>4. button_change' \subseteq { e.button } /\ (~enabled => button_change' = {})
        BY <2>2, <4>2
      <4> QED BY <1>0, <2>5, <3>1, <3>2, <4>3, <4>4 DEF ButtonsHeld
    <3>4. CASE ~e.pressed
      <4>1. button_timers[e.button] > 0
        BY <2>7, <2>9, <3>4 DEF MayHappen
      <4>2. \A b \in Buttons : b # e.button => ~(button_timers[b] > 0)
        BY <3>1, <4>1 DEF ButtonsHeld
      <4>3. \A b \in Buttons : ~(button_timers'[b] > 0)
        BY <2>4, <2>6, <3>1, <3>4, <4>2
      <4>4. button_change' = {}
        BY <1>2, <2>2, <2>3, <3>4, <4>2 DEF ButtonsHeld
      <4> QED BY <1>0, <2>5, <4>3, <4>4 DEF ButtonsHeld
    <3> QED BY <3>1, <3>3, <3>4
  <2> QED BY <2>8, <2>9
<1> QED BY <1>1, <1>2

-----------------------------------------------------------------------------
LEMMA SetSpeedInitially == SetSpeedInit => SetSpeedInv
<1> SUFFICES ASSUME SetSpeedInit PROVE SetSpeedInv
  OBVIOUS
<1> USE DEF SetSpeedInit, CruiseInit, SlaInit
<1>1. SetSpeedTypeOK
  <2>1. CruiseTypeOK
    BY CruiseAssumption DEF CruiseTypeOK, Unset, Buttons
  <2>2. SlaTypeOK
    BY SlaAssumption DEF SlaTypeOK, SlaStates, Signs
  <2>3. plan \in [state : SlaStates, limit : Finals] /\ flipped \subseteq Buttons
        /\ enabled \in BOOLEAN /\ enabled_seen \in BOOLEAN
    BY LimitType DEF SlaStates
  <2>4. untouched \in 0 .. Recent + 1
    BY SlaAssumption DEF Recent
  <2> QED BY <2>1, <2>2, <2>3, <2>4 DEF SetSpeedTypeOK
<1>2. SlaSane
  BY LimitType DEF SlaSane
<1>3. ButtonsHeld /\ Releases
  BY SlaAssumption DEF ButtonsHeld, Releases, Signs, Buttons
<1> QED BY <1>1, <1>2, <1>3 DEF SetSpeedInv, Engaging, EngagedSpeedIsSet, SpeedAgreed

-----------------------------------------------------------------------------
LEMMA CardInputs ==
  ASSUME Card
  PROVE  \E e \in ButtonEvents, a \in BOOLEAN, w \in BOOLEAN, s \in BOOLEAN, g \in Nat, v \in VMin .. VMax :
            CardFrame(e, a, s, g, v, w)
<1>1. PICK e \in ButtonEvents, a \in BOOLEAN, w \in BOOLEAN :
        \E s \in IF e.button = "accel" THEN BOOLEAN ELSE {FALSE},
           g \in IF e.button = "decel" THEN GasSpeeds ELSE {0},
           v \in IF pcm \/ (enabled /\ ~enabled_seen) THEN VMin .. VMax ELSE {VMin} : CardFrame(e, a, s, g, v, w)
  BY DEF Card
<1>2. PICK s \in IF e.button = "accel" THEN BOOLEAN ELSE {FALSE},
           g \in IF e.button = "decel" THEN GasSpeeds ELSE {0},
           v \in IF pcm \/ (enabled /\ ~enabled_seen) THEN VMin .. VMax ELSE {VMin} : CardFrame(e, a, s, g, v, w)
  BY <1>1
<1>a. s \in BOOLEAN
  OBVIOUS
<1>b. VMin \in VMin .. VMax
  BY CruiseAssumption
<1>3. s \in BOOLEAN /\ VMin \in VMin .. VMax
  BY <1>a, <1>b
<1>4. v \in VMin .. VMax
  BY <1>3
<1>5. g \in Nat
  BY RoadAssumption
<1> QED BY <1>2, <1>3, <1>4, <1>5

LEMMA CardKeeps ==
  ASSUME SetSpeedInv, Card PROVE SetSpeedInv'
<1>1. PICK e \in ButtonEvents, a \in BOOLEAN, w \in BOOLEAN, s \in BOOLEAN, g \in Nat, v \in VMin .. VMax :
          CardFrame(e, a, s, g, v, w)
  BY CardInputs
<1>2. SetSpeedTypeOK
  BY DEF SetSpeedInv
<1>3. /\ UNCHANGED <<slaVars, plan, pcm>> /\ ticked' = TRUE
      /\ Arrived \/ ~ticked
      /\ enabled_seen' = enabled /\ enabled' = (a /\ w) /\ button_prev' = e.button
      /\ ~enabled /\ enabled' => ~long_enabled_prev /\ (~pcm => e # NoEvent)
      /\ IF ~pcm /\ a THEN prev_sla' = plan.state /\ prev_limit' = plan.limit
         ELSE UNCHANGED <<prev_sla, prev_limit>>
      /\ untouched' = IF e # NoEvent \/ \E b \in Buttons : button_timers[b] > 0 THEN 0 ELSE untouched
      /\ flipped' \subseteq Buttons /\ (e = NoEvent => flipped' = flipped)
  BY <1>1, <1>2, CardRest
<1>4. /\ button_timers' \in [Buttons -> 0 .. 2 * LongPress] /\ button_change' \subseteq Buttons
      /\ ButtonsHeld'
      /\ ~pcm /\ ~enabled /\ e # NoEvent => button_change' = {}
  BY <1>1, <1>2, CardButtons DEF SetSpeedInv
<1>5. /\ v_cruise' \in VMin .. Unset
      /\ ~pcm /\ enabled /\ ~enabled_seen /\ button_change = {} /\ plan.state \notin SlaActive
            => v_cruise' \in VMin .. VMax
      /\ ~pcm /\ enabled /\ enabled_seen /\ a /\ v_cruise \in VMin .. VMax
            => v_cruise' \in VMin .. VMax
      /\ ~pcm /\ ~(enabled /\ ~enabled_seen)
            => \/ v_cruise' = Unset /\ ~a
               \/ a /\ (e = NoEvent /\ (\A b \in Buttons : button_timers[b] = 0)
                          => v_cruise' = IF Moves(plan, Taken) THEN Clip(plan.limit) ELSE v_cruise)
  BY <1>1, <1>2, CardSpeed
<1>6. Arrived' = Arrived /\ Coming' = Coming
  BY <1>3 DEF Arrived, Coming, slaVars
<1>7. SetSpeedTypeOK'
  <2>1. CruiseTypeOK'
    BY <1>2, <1>3, <1>4, <1>5 DEF SetSpeedTypeOK, CruiseTypeOK, Unset
  <2>2. SlaTypeOK'
    BY <1>2, <1>3 DEF SetSpeedTypeOK, SlaTypeOK, slaVars
  <2>3. untouched' \in 0 .. Recent + 1
    BY <1>2, <1>3, SlaAssumption DEF SetSpeedTypeOK, Recent
  <2>4. enabled' \in BOOLEAN /\ enabled_seen' \in BOOLEAN
    BY <1>2, <1>3 DEF SetSpeedTypeOK
  <2>5. plan' \in [state : SlaStates, limit : Finals]
    BY <1>2, <1>3 DEF SetSpeedTypeOK
  <2> QED BY <1>3, <2>1, <2>2, <2>3, <2>4, <2>5 DEF SetSpeedTypeOK
<1>8. SlaSane'
  <2>1. SlaSane
    BY DEF SetSpeedInv
  <2>2. prev_sla' \in { plan.state, prev_sla }
    BY <1>3
  <2> QED BY <1>3, <2>1, <2>2 DEF SlaSane, slaVars
<1>9. Engaging'
  <2> SUFFICES ASSUME enabled', ~enabled_seen'
               PROVE  /\ sla' = "disabled" /\ (Arrived' => plan'.state = "disabled")
                      /\ ~long_enabled_prev' /\ (~pcm' => button_change' = {})
    BY <1>3 DEF Engaging
  <2>1. ~enabled /\ ~long_enabled_prev /\ (~pcm => e # NoEvent)
    BY <1>3
  <2>2. sla = "disabled"
    BY <2>1 DEF SetSpeedInv, SlaSane
  <2>3. Arrived => plan.state = "disabled"
    BY <2>2 DEF Arrived
  <2> QED BY <1>3, <1>4, <1>6, <2>1, <2>2, <2>3 DEF slaVars
<1>10. Releases'
  <2>1. Releases
    BY DEF SetSpeedInv
  <2>2. flipped' # {} => untouched' = 0
    BY <1>3, <2>1 DEF Releases
  <2>3. ASSUME NEW b \in Signs, holds[b] > 0 PROVE untouched' + holds[b] <= HoldFrames + 1
    <3>1. untouched + holds[b] <= HoldFrames + 1 /\ holds[b] \in 0 .. HoldFrames
          /\ untouched \in Nat /\ HoldFrames \in Nat
      BY <1>2, <2>1, <2>3, SlaAssumption DEF Releases, SetSpeedTypeOK, SlaTypeOK
    <3>2. untouched' \in { 0, untouched }
      BY <1>3
    <3> QED BY <3>1, <3>2
  <2> QED BY <1>3, <2>2, <2>3 DEF Releases, slaVars
\* Before the frame the speed was set, if it is engaged after it.
<1>11. ASSUME ~pcm, enabled, enabled_seen PROVE v_cruise \in VMin .. VMax
  BY <1>11 DEF SetSpeedInv, EngagedSpeedIsSet
<1>12. EngagedSpeedIsSet'
  <2> SUFFICES ASSUME ~pcm, enabled', enabled PROVE v_cruise' \in VMin .. VMax
    BY <1>3 DEF EngagedSpeedIsSet
  <2>1. CASE enabled_seen
    BY <1>3, <1>5, <1>11, <2>1
  <2>2. CASE ~enabled_seen
    <3>1. button_change = {} /\ plan.state = "disabled"
      BY <1>3, <2>2 DEF SetSpeedInv, Engaging
    <3> QED BY <1>5, <2>2, <3>1 DEF SlaActive
  <2> QED BY <2>1, <2>2
<1>13. SpeedAgreed'
  <2> SUFFICES ASSUME ~pcm, enabled, v_cruise' # Unset
               PROVE  /\ ~Arrived => /\ Taken' = plan \/ sla = "disabled"
                                     /\ Moves(Coming, plan) => Agreed(limit_last)' \/ Overtaken'
                      /\ Arrived /\ Moves(plan, Taken') => FALSE
    <3>1. sla' = sla /\ limit_last' = limit_last /\ plan' = plan
      BY <1>3 DEF slaVars
    <3> QED BY <1>3, <1>6, <3>1 DEF SpeedAgreed, Underway, AtCard, Unset, Moves, Coming, Taken, Agreed
  <2>1. CASE ~enabled_seen
    <3>1. sla = "disabled" /\ plan.state = "disabled"
      BY <1>3, <2>1 DEF SetSpeedInv, Engaging
    <3> QED BY <3>1 DEF Moves, Coming, SlaActive
  <2>2. CASE enabled_seen
    <3>1. a /\ v_cruise \in VMin .. VMax
      BY <1>5, <1>11, <2>2
    <3>2. v_cruise # Unset
      BY <3>1, CruiseAssumption DEF Unset
    <3>3. prev_sla' = plan.state /\ prev_limit' = plan.limit
      BY <1>3, <3>1
    <3>4. Taken' = plan /\ ~Moves(plan, Taken')
      <4>1. plan = [state |-> plan.state, limit |-> plan.limit]
        BY <1>2 DEF SetSpeedTypeOK
      <4> QED BY <3>3, <4>1 DEF Taken, Moves
    <3>5. Underway
      BY <2>2, <3>2 DEF SetSpeedInv, SpeedAgreed
    <3>6. /\ limit_last \in Nat /\ plan.limit \in Nat /\ untouched \in Nat /\ HoldFrames \in Nat
          /\ Threshold \in Nat /\ v_cruise \in Int
          /\ v_cruise' \in Int /\ Clip(plan.limit) \in VMin .. VMax /\ Clip(limit_last) \in VMin .. VMax
      <4>1. limit_last \in Finals /\ plan.limit \in Finals
        BY <1>2 DEF SetSpeedInv, SlaSane, SetSpeedTypeOK
      <4>2. limit_last \in Nat /\ plan.limit \in Nat /\ limit_last \in Int /\ plan.limit \in Int
        BY <4>1, LimitType
      <4>3. untouched \in Nat /\ HoldFrames \in Nat /\ Threshold \in Nat
        BY <1>2, SlaAssumption DEF SetSpeedTypeOK
      <4>4. v_cruise \in Int /\ v_cruise' \in Int
        BY <1>5, <3>1, CruiseAssumption DEF Unset
      <4> QED BY <4>2, <4>3, <4>4, ClipType
    <3>7. ASSUME ~Arrived, Moves(Coming, plan) PROVE Agreed(limit_last)' \/ Overtaken'
      <4>1. ~ticked
        BY <1>3, <3>7
      <4>2. CASE e = NoEvent /\ \A b \in Buttons : button_timers[b] = 0
        <5>1. v_cruise' = (IF Moves(plan, Taken) THEN Clip(plan.limit) ELSE v_cruise) /\ untouched' = untouched
          <6>1. ~\E b \in Buttons : button_timers[b] > 0
            BY <4>2
          <6> QED BY <1>3, <1>5, <2>2, <4>2, <3>1, <6>1, CruiseAssumption DEF Unset
        <5>2. CASE ~Moves(plan, Taken)
          <6>1. Agreed(limit_last) \/ SinceButton(0)
            BY <3>5, <3>7, <4>1, <5>2 DEF Underway
          <6> QED BY <1>3, <5>1, <5>2, <6>1 DEF Agreed, Overtaken, SinceButton, slaVars
        <5>3. CASE Moves(plan, Taken)
          <6>1. Above(v_cruise) /\ Above(limit_last) /\ (Agreed(plan.limit) \/ SinceButton(1))
            BY <3>5, <3>7, <4>1, <5>3 DEF Underway
          <6>2. v_cruise' = Clip(plan.limit)
            BY <5>1, <5>3
          <6>3. CASE Clip(plan.limit) = v_cruise
            BY <1>3, <6>1, <6>2, <6>3 DEF Agreed, Above, slaVars
          <6>4. CASE Above(plan.limit)
            <7>1. Above(Clip(plan.limit))
              BY <3>1, <3>6, <6>1, <6>4, ClipType
            <7> QED BY <1>3, <6>1, <6>2, <7>1 DEF Agreed, Above, slaVars
          <6>5. CASE SinceButton(1) /\ Clip(plan.limit) # v_cruise
            <7>1. v_cruise = cluster_prev
              BY <2>2, <3>2, <4>1 DEF SetSpeedInv, SpeedAgreed
            <7> QED BY <1>3, <5>1, <6>2, <6>5, <7>1 DEF Overtaken, SinceButton, slaVars
          <6> QED BY <6>1, <6>3, <6>4, <6>5 DEF Agreed
        <5> QED BY <5>2, <5>3
      <4>3. CASE ~(e = NoEvent /\ \A b \in Buttons : button_timers[b] = 0)
        <5>1. e # NoEvent \/ \E b \in Buttons : button_timers[b] > 0
          BY <1>2, <4>3 DEF SetSpeedTypeOK, CruiseTypeOK
        <5>2. untouched' = 0
          BY <1>3, <5>1
        <5> QED BY <3>6, <5>2 DEF Overtaken, SinceButton
      <4> QED BY <4>2, <4>3
    <3> QED BY <3>4, <3>7
  <2> QED BY <2>1, <2>2
<1> QED BY <1>4, <1>7, <1>8, <1>9, <1>10, <1>12, <1>13 DEF SetSpeedInv

-----------------------------------------------------------------------------
\* What a frame of the planner makes of the state, for a car whose set speed openpilot keeps.
LEMMA SlaActivates ==
  ASSUME SetSpeedInv, NEW limit \in Limits, NEW fast \in BOOLEAN, PlannerFrame(limit, fast),
         ~pcm, v_cruise \in VMin .. VMax
  PROVE  /\ sla' \in {"disabled", "inactive", "preActive", "active"}
         /\ sla' = "active" =>
              \/ sla # "active" /\ v_cruise = limit_last'
              \/ sla # "active" /\ \E b \in Signs : b \in flipped \/ holds[b] > 1
              \/ /\ sla = "active" /\ v_cruise = cluster_prev
                 /\ limit_last' = limit_last \/ (Above(v_cruise) /\ Above(limit_last'))
<1> DEFINE in == [long_enabled |-> enabled, cluster |-> IF v_cruise > VMax THEN VMax ELSE v_cruise,
                  flipped |-> flipped, limit |-> limit, fast |-> fast]
<1>1. in.long_enabled = enabled /\ in.flipped = flipped /\ in.limit = limit
  OBVIOUS
<1>2. in.cluster = v_cruise
  BY CruiseAssumption
<1>3. sla' = NextSla(in, FALSE) /\ limit_last' = Last(in)
  <2>1. pcm = FALSE
    BY DEF SetSpeedInv, SetSpeedTypeOK, CruiseTypeOK
  <2>2. SlaFrame(in, FALSE)
    BY <2>1 DEF PlannerFrame
  <2> QED BY <2>2 DEF SlaFrame
<1>4. sla \in {"disabled", "inactive", "preActive", "active"}
  BY DEF SetSpeedInv, SlaSane
<1>5. /\ limit_last \in Nat /\ speed_limit_prev \in Nat /\ limit \in Nat /\ Threshold \in Nat /\ v_cruise \in Nat
      /\ speed_limit_prev > 0 => limit_last = Final[speed_limit_prev]
      /\ Final[limit] \in Nat /\ (limit > 0 => Final[limit] > 0)
  <2>1. Final[limit] \in Nat /\ (limit > 0 => Final[limit] > 0)
    BY RoadAssumption
  <2> QED BY <2>1, LimitType, SlaAssumption, CruiseAssumption DEF SetSpeedInv, SlaSane
<1> HIDE DEF in
<1>6. Confirmed(in, FALSE) <=> v_cruise = Last(in)
  BY <1>2 DEF Confirmed
<1>7. Asking(in) # {} => \E b \in Signs : b \in flipped \/ holds[b] > 1
  <2> SUFFICES ASSUME NEW b \in Signs, Hold(in)[b] > 0 PROVE b \in flipped \/ holds[b] > 1
    BY DEF Asking
  <2>1. Hold(in)[b] = IF b \in flipped THEN HoldFrames ELSE IF holds[b] > 0 THEN holds[b] - 1 ELSE 0
    BY <1>1 DEF Hold
  <2>2. holds[b] \in 0 .. HoldFrames /\ HoldFrames \in Nat
    BY SlaAssumption DEF SetSpeedInv, SetSpeedTypeOK, SlaTypeOK
  <2> QED BY <2>1, <2>2
<1>8. Last(in) = (IF limit > 0 THEN Final[limit] ELSE limit_last)
  BY <1>1 DEF Last
<1>9. ~LimitChanged(in) => Last(in) = limit_last
  BY <1>1, <1>5, <1>8 DEF LimitChanged, HasLimit
<1>10. ~NeedsConfirmation(in) => Above(v_cruise) /\ Above(Last(in))
  BY <1>2, <1>5, <1>8 DEF NeedsConfirmation, Above
<1>11. CASE ~enabled
  BY <1>1, <1>3, <1>11 DEF NextSla
<1>12. CASE enabled /\ sla = "disabled"
  BY <1>1, <1>3, <1>6, <1>12 DEF NextSla, FromDisabled
<1>13. CASE enabled /\ sla = "active"
  <2>1. sla' = IF ClusterChanged(in) THEN "inactive"
               ELSE IF LimitChanged(in) /\ NeedsConfirmation(in) THEN "preActive" ELSE "active"
    BY <1>1, <1>3, <1>13 DEF NextSla, NonPcmNext
  <2>2. ~ClusterChanged(in) => v_cruise = cluster_prev
    BY <1>2 DEF ClusterChanged
  <2> QED BY <1>3, <1>9, <1>10, <1>13, <2>1, <2>2
<1>14. CASE enabled /\ sla \in {"inactive", "preActive"}
  <2>1. sla' = NonPcmNext(in)
    BY <1>1, <1>3, <1>14 DEF NextSla
  <2> QED BY <1>3, <1>6, <1>7, <1>14, <2>1 DEF NonPcmNext
<1> QED BY <1>4, <1>11, <1>12, <1>13, <1>14

\* The rest of it, for every car.
LEMMA PlannerRest ==
  ASSUME SetSpeedInv, NEW limit \in Limits, NEW fast \in BOOLEAN, PlannerFrame(limit, fast)
  PROVE  /\ Arrived /\ ticked /\ ~ticked'
         /\ UNCHANGED <<cruiseVars, button_prev, enabled, enabled_seen, plan>>
         /\ flipped' = {} /\ untouched' = (IF untouched > Recent THEN untouched ELSE untouched + 1)
         /\ SlaTypeOK' /\ SlaSane' /\ Releases'
         /\ v_cruise \in VMin .. VMax => cluster_prev' = v_cruise
         /\ sla = "disabled" /\ ~long_enabled_prev => sla' = "disabled"
<1> DEFINE in == [long_enabled |-> enabled, cluster |-> IF v_cruise > VMax THEN VMax ELSE v_cruise,
                  flipped |-> flipped, limit |-> limit, fast |-> fast]
<1>1. in.long_enabled = enabled /\ in.flipped = flipped /\ in.limit = limit
      /\ (v_cruise \in VMin .. VMax => in.cluster = v_cruise)
  BY CruiseAssumption
<1>2. SlaFrame(in, pcm)
  BY DEF PlannerFrame
<1>3. /\ Arrived /\ ticked /\ ~ticked'
      /\ UNCHANGED <<cruiseVars, button_prev, enabled, enabled_seen, plan>>
      /\ flipped' = {} /\ untouched' = (IF untouched > Recent THEN untouched ELSE untouched + 1)
  BY DEF PlannerFrame
<1> HIDE DEF in
<1>4. /\ sla \in SlaStates /\ holds \in [Signs -> 0 .. HoldFrames] /\ HoldFrames \in Nat
      /\ long_engaged_timer \in 0 .. GuardFrames /\ pre_active_timer \in 0 .. PreActiveFrames
      /\ GuardFrames \in Nat /\ PreActiveFrames \in Nat
  BY SlaAssumption DEF SetSpeedInv, SetSpeedTypeOK, SlaTypeOK
<1>5. sla' \in SlaStates
  BY <1>2, <1>4 DEF SlaFrame, NextSla, FromDisabled, PcmNext, NonPcmNext, ConfirmedState, SlaStates
<1>6. ASSUME NEW b \in Signs
      PROVE  /\ Hold(in)[b] \in 0 .. HoldFrames
             /\ Hold(in)[b] = IF b \in flipped THEN HoldFrames ELSE IF holds[b] > 0 THEN holds[b] - 1 ELSE 0
  BY <1>1, <1>4 DEF Hold
<1>7. holds' \in [Signs -> 0 .. HoldFrames] /\ \A b \in Signs : holds'[b] \in { 0, Hold(in)[b] }
  BY <1>2, <1>4, <1>6 DEF SlaFrame
<1>8. long_engaged_timer' \in 0 .. GuardFrames /\ pre_active_timer' \in 0 .. PreActiveFrames
  BY <1>2, <1>4 DEF SlaFrame, PreActiveTimer, Down
<1>9. SlaTypeOK'
  BY <1>5, <1>7, <1>8 DEF SlaTypeOK
<1>10. ~enabled => sla' = "disabled"
  BY <1>1, <1>2 DEF SlaFrame, NextSla
<1>11. limit_last' = (IF limit > 0 THEN Final[limit] ELSE limit_last) /\ speed_limit_prev' = limit
       /\ long_enabled_prev' = enabled /\ cluster_prev' = in.cluster
  BY <1>1, <1>2 DEF SlaFrame, Last
<1>12. SlaSane'
  <2>1. SlaSane /\ limit \in Nat /\ limit \in Limits /\ Final[limit] \in Finals
    BY LimitType DEF SetSpeedInv
  <2>2. ~pcm => sla' \in {"disabled", "inactive", "preActive", "active"}
    <3>1. ~pcm => sla' = NextSla(in, FALSE) /\ sla \in {"disabled", "inactive", "preActive", "active"}
      <4>1. ~pcm => pcm = FALSE
        BY DEF SetSpeedInv, SetSpeedTypeOK, CruiseTypeOK
      <4>2. ~pcm => SlaFrame(in, FALSE)
        BY <1>2, <4>1
      <4> QED BY <2>1, <4>2 DEF SlaFrame, SlaSane
    <3> QED BY <3>1 DEF NextSla, FromDisabled, NonPcmNext
  <2>3. pcm' = pcm /\ prev_sla' = prev_sla /\ plan' = plan
    BY <1>3 DEF cruiseVars
  <2> QED BY <1>10, <1>11, <2>1, <2>2, <2>3 DEF SlaSane
<1>13. Releases'
  <2> SUFFICES ASSUME NEW b \in Signs, holds'[b] > 0 PROVE untouched' + holds'[b] <= HoldFrames + 1
    BY <1>3 DEF Releases
  <2>1. holds'[b] = Hold(in)[b] /\ Hold(in)[b] > 0 /\ holds[b] \in 0 .. HoldFrames
    BY <1>4, <1>6, <1>7
  <2>2. untouched \in Nat /\ (flipped # {} => untouched = 0)
        /\ (holds[b] > 0 => untouched + holds[b] <= HoldFrames + 1)
    BY DEF SetSpeedInv, SetSpeedTypeOK, Releases
  <2>3. Recent = HoldFrames + 2
    BY DEF Recent
  <2>4. CASE b \in flipped
    BY <1>3, <1>4, <1>6, <2>1, <2>2, <2>3, <2>4
  <2>5. CASE b \notin flipped
    BY <1>3, <1>4, <1>6, <2>1, <2>2, <2>3, <2>5
  <2> QED BY <2>4, <2>5
<1>14. sla = "disabled" /\ ~long_enabled_prev => sla' = "disabled"
  BY <1>2 DEF SlaFrame, NextSla, FromDisabled, Guarded
<1> QED BY <1>1, <1>3, <1>9, <1>11, <1>12, <1>13, <1>14

LEMMA PlannerKeeps ==
  ASSUME SetSpeedInv, Planner PROVE SetSpeedInv'
<1>1. PICK limit \in Limits, fast \in BOOLEAN : PlannerFrame(limit, fast)
  BY DEF Planner
<1>2. /\ Arrived /\ ticked /\ ~ticked'
      /\ UNCHANGED <<cruiseVars, button_prev, enabled, enabled_seen, plan>>
      /\ flipped' = {} /\ untouched' = (IF untouched > Recent THEN untouched ELSE untouched + 1)
      /\ SlaTypeOK' /\ SlaSane' /\ Releases'
      /\ v_cruise \in VMin .. VMax => cluster_prev' = v_cruise
      /\ sla = "disabled" /\ ~long_enabled_prev => sla' = "disabled"
  BY <1>1, PlannerRest
<1>3. /\ SetSpeedTypeOK /\ untouched \in Nat /\ HoldFrames \in Nat /\ Recent = HoldFrames + 2
  BY SlaAssumption DEF SetSpeedInv, SetSpeedTypeOK, Recent
<1>4. untouched' <= untouched + 1 /\ untouched' \in 0 .. Recent + 1
  BY <1>2, <1>3 DEF SetSpeedTypeOK
<1>5. SetSpeedTypeOK'
  <2>1. CruiseTypeOK'
    BY <1>2, <1>3 DEF SetSpeedTypeOK, CruiseTypeOK, cruiseVars
  <2> QED BY <1>2, <1>3, <1>4, <2>1 DEF SetSpeedTypeOK
<1>6. Engaging'
  <2> SUFFICES ASSUME enabled, ~enabled_seen
               PROVE  sla' = "disabled" /\ plan.state = "disabled" /\ (~pcm => button_change = {})
    BY <1>2 DEF Engaging, cruiseVars
  <2> QED BY <1>2 DEF SetSpeedInv, Engaging
<1>7. ButtonsHeld' /\ EngagedSpeedIsSet'
  BY <1>2 DEF SetSpeedInv, ButtonsHeld, EngagedSpeedIsSet, cruiseVars
<1>8. SpeedAgreed'
  <2> SUFFICES ASSUME ~pcm, enabled_seen, v_cruise # Unset
               PROVE  (~ticked' => v_cruise' = cluster_prev') /\ Underway' /\ AtCard'
    BY <1>2 DEF SpeedAgreed, cruiseVars, Unset
  <2>1. v_cruise \in VMin .. VMax
    BY <1>3, CruiseAssumption DEF SetSpeedTypeOK, CruiseTypeOK, Unset
  <2>2. /\ sla' \in {"disabled", "inactive", "preActive", "active"}
        /\ sla' = "active" =>
              \/ sla # "active" /\ v_cruise = limit_last'
              \/ sla # "active" /\ \E b \in Signs : b \in flipped \/ holds[b] > 1
              \/ /\ sla = "active" /\ v_cruise = cluster_prev
                 /\ limit_last' = limit_last \/ (Above(v_cruise) /\ Above(limit_last'))
    BY <1>1, <2>1, SlaActivates
  <2>3. /\ plan = Coming /\ plan.state = sla /\ plan.limit = limit_last
        /\ v_cruise' = v_cruise /\ Taken' = Taken /\ plan' = plan
        /\ Coming'.state = sla' /\ Coming'.limit = limit_last' /\ cluster_prev' = v_cruise
    BY <1>2, <2>1 DEF Arrived, Coming, Taken, cruiseVars
  \* the plan that is at card, now a frame older
  <2>4. Moves(plan, Taken) => Agreed(plan.limit) \/ Overtaken
    BY <1>2 DEF SetSpeedInv, SpeedAgreed, AtCard
  <2>5. ASSUME NEW n \in {0, 1}, SinceButton(n)
        PROVE  untouched' <= HoldFrames + n + 1
    BY <1>3, <1>4, <2>5 DEF SinceButton
  <2>6. Moves(plan, Taken) => Agreed(plan.limit)' \/ SinceButton(2)'
    <3>1. Overtaken => SinceButton(1)
      BY <1>3 DEF Overtaken, SinceButton
    <3>2. SinceButton(1) => SinceButton(2)'
      BY <1>3, <1>4 DEF SinceButton
    <3>3. Agreed(plan.limit)' <=> Agreed(plan.limit)
      BY <2>3 DEF Agreed
    <3> QED BY <2>4, <3>1, <3>2, <3>3
  <2>7. Agreed(limit_last)' <=> (v_cruise = Clip(limit_last') \/ (Above(v_cruise) /\ Above(limit_last')))
    BY <2>3 DEF Agreed
  \* the new plan, for a card that has taken the one before
  <2>8. Moves(Coming', plan) =>
          \/ sla # "active" /\ (Agreed(limit_last)' \/ SinceButton(0)')
          \/ sla = "active" /\ v_cruise = cluster_prev /\ Above(v_cruise) /\ Above(limit_last')
    <3> SUFFICES ASSUME Moves(Coming', plan)
                 PROVE  \/ sla # "active" /\ (Agreed(limit_last)' \/ SinceButton(0)')
                        \/ sla = "active" /\ v_cruise = cluster_prev /\ Above(v_cruise) /\ Above(limit_last')
      OBVIOUS
    <3>1. sla' = "active"
      BY <2>2, <2>3 DEF Moves, SlaActive
    <3>2. CASE sla # "active" /\ v_cruise = limit_last'
      BY <2>1, <2>7, <3>2, ClipType
    <3>3. CASE sla # "active" /\ \E b \in Signs : b \in flipped \/ holds[b] > 1
      <4>1. PICK b \in Signs : b \in flipped \/ holds[b] > 1
        BY <3>3
      <4>2. holds[b] \in 0 .. HoldFrames /\ HoldFrames \in Nat \ {0}
        BY <1>3, SlaAssumption DEF SetSpeedTypeOK, SlaTypeOK
      <4>3. untouched <= HoldFrames - 1
        <5>1. flipped # {} => untouched = 0
          BY DEF SetSpeedInv, Releases
        <5>2. holds[b] > 0 => untouched + holds[b] <= HoldFrames + 1
          BY DEF SetSpeedInv, Releases
        <5>3. CASE b \in flipped
          BY <4>2, <5>1, <5>3
        <5>4. CASE holds[b] > 1
          BY <1>3, <4>2, <5>2, <5>4
        <5> QED BY <4>1, <5>3, <5>4
      <4> QED BY <1>3, <1>4, <3>3, <4>2, <4>3 DEF SinceButton
    <3>4. CASE sla = "active" /\ limit_last' = limit_last
      BY <2>3, <3>4 DEF Moves, SlaActive
    <3> QED BY <2>2, <3>1, <3>2, <3>3, <3>4
  \* and for one that has not
  <2>9. Moves(Coming', Taken) => Agreed(limit_last)' \/ SinceButton(1)'
    <3> SUFFICES ASSUME Moves(Coming', Taken), ~Moves(Coming', plan)
                 PROVE  Agreed(limit_last)' \/ SinceButton(1)'
      <4>1. SinceButton(0)' => SinceButton(1)'
        BY <1>3, <1>4 DEF SinceButton
      <4> QED BY <2>7, <2>8, <4>1
    <3>1. sla' = "active" /\ sla = "active"
      <4>1. sla \in {"disabled", "inactive", "preActive", "active"}
        BY DEF SetSpeedInv, SlaSane
      <4> QED BY <2>2, <2>3, <4>1 DEF Moves, SlaActive
    <3>2. v_cruise = cluster_prev
      BY <2>2, <3>1
    <3>3. CASE limit_last' = limit_last
      <4>1. Moves(plan, Taken)
        BY <2>3, <3>1, <3>3 DEF Moves, SlaActive
      <4>2. Agreed(plan.limit) \/ SinceButton(0)
        BY <2>4, <3>2, <4>1 DEF Overtaken
      <4>3. SinceButton(0) => SinceButton(1)'
        BY <1>3, <1>4 DEF SinceButton
      <4> QED BY <2>3, <2>7, <3>3, <4>2, <4>3 DEF Agreed
    <3>4. CASE Above(v_cruise) /\ Above(limit_last')
      BY <2>7, <3>4
    <3> QED BY <2>2, <3>1, <3>3, <3>4
  <2>10. Underway'
    <3>1. Moves(Coming', plan) /\ ~Moves(plan, Taken) => Agreed(limit_last)' \/ SinceButton(0)'
      BY <2>7, <2>8
    <3>2. Moves(Coming', plan) /\ Moves(plan, Taken) =>
             /\ Above(v_cruise) /\ Above(limit_last')
             /\ Agreed(plan.limit)' \/ SinceButton(1)'
      <4> SUFFICES ASSUME Moves(Coming', plan), Moves(plan, Taken)
                   PROVE  /\ Above(v_cruise) /\ Above(limit_last')
                          /\ Agreed(plan.limit)' \/ SinceButton(1)'
        OBVIOUS
      <4>1. sla \in SlaActive
        BY <2>3 DEF Moves
      <4>2. sla = "active"
        BY <4>1 DEF SetSpeedInv, SlaSane, SlaActive
      <4>3. v_cruise = cluster_prev /\ Above(v_cruise) /\ Above(limit_last')
        BY <2>8, <4>2
      <4>4. Agreed(plan.limit) \/ SinceButton(0)
        BY <2>4, <4>3 DEF Overtaken
      <4>5. SinceButton(0) => SinceButton(1)'
        BY <1>3, <1>4 DEF SinceButton
      <4> QED BY <2>3, <4>3, <4>4, <4>5 DEF Agreed
    <3>3. /\ Above(v_cruise)' <=> Above(v_cruise)
          /\ Above(limit_last)' <=> Above(limit_last')
          /\ Moves(Coming, plan)' <=> Moves(Coming', plan)
          /\ Moves(Coming, Taken)' <=> Moves(Coming', Taken)
          /\ Moves(plan, Taken)' <=> Moves(plan, Taken)
      BY <2>3 DEF Moves, Above
    <3> QED BY <1>2, <2>6, <2>9, <3>1, <3>2, <3>3 DEF Underway
  \* a plan that says nothing new is there at once
  <2>11. AtCard'
    <3> SUFFICES ASSUME Arrived', Moves(plan, Taken) PROVE Agreed(plan.limit)' \/ SinceButton(1)'
      <4>1. Moves(plan, Taken)' <=> Moves(plan, Taken)
        BY <2>3 DEF Moves
      <4> QED BY <1>2, <4>1 DEF AtCard
    <3>1. sla' = sla /\ limit_last' = limit_last
      BY <2>3 DEF Arrived
    <3>2. sla = "active"
      <4>1. sla \in SlaActive
        BY <2>3 DEF Moves
      <4> QED BY <4>1 DEF SetSpeedInv, SlaSane, SlaActive
    <3>3. v_cruise = cluster_prev
      BY <2>2, <3>1, <3>2
    <3>4. Agreed(plan.limit) \/ SinceButton(0)
      BY <2>4, <3>3 DEF Overtaken
    <3>5. SinceButton(0) => SinceButton(1)'
      BY <1>3, <1>4 DEF SinceButton
    <3> QED BY <2>3, <3>4, <3>5 DEF Agreed
  <2> QED BY <2>3, <2>10, <2>11
<1> QED BY <1>2, <1>5, <1>6, <1>7, <1>8 DEF SetSpeedInv

-----------------------------------------------------------------------------
LEMMA ArrivalKeeps ==
  ASSUME SetSpeedInv, PlanArrives PROVE SetSpeedInv'
<1>1. /\ ~Arrived /\ plan' = Coming
      /\ UNCHANGED <<cruiseVars, slaVars, button_prev, enabled, enabled_seen, flipped, ticked, untouched>>
  BY DEF PlanArrives, Coming
<1>2. Coming.state = sla /\ Coming.limit = limit_last /\ Arrived'
  BY <1>1 DEF Coming, Arrived, slaVars
<1>3. SetSpeedTypeOK'
  <2>1. SetSpeedTypeOK /\ limit_last \in Finals /\ sla \in SlaStates
    BY DEF SetSpeedInv, SlaSane, SetSpeedTypeOK, SlaTypeOK
  <2>2. plan' \in [state : SlaStates, limit : Finals]
    BY <1>1, <2>1 DEF Coming
  <2>3. CruiseTypeOK' /\ SlaTypeOK'
    BY <1>1, <2>1 DEF SetSpeedTypeOK, CruiseTypeOK, SlaTypeOK, cruiseVars, slaVars
  <2> QED BY <1>1, <2>1, <2>2, <2>3 DEF SetSpeedTypeOK
<1>4. SlaSane' /\ Engaging' /\ ButtonsHeld' /\ Releases' /\ EngagedSpeedIsSet'
  BY <1>1, <1>2 DEF SetSpeedInv, SlaSane, Engaging, ButtonsHeld, Releases, EngagedSpeedIsSet, cruiseVars, slaVars
<1>5. SpeedAgreed'
  <2> SUFFICES ASSUME ~pcm, enabled_seen, v_cruise # Unset
               PROVE  /\ ~ticked => v_cruise = cluster_prev
                      /\ Moves(Coming, Taken) =>
                           Agreed(limit_last) \/ IF ticked THEN Overtaken ELSE SinceButton(1)
    BY <1>1, <1>2 DEF SpeedAgreed, Underway, AtCard, cruiseVars, slaVars, Unset, Moves, Taken, Agreed,
                      Overtaken, SinceButton
  <2>1. (~ticked => v_cruise = cluster_prev) /\ Underway
    BY DEF SetSpeedInv, SpeedAgreed
  <2>2. sla = "disabled" => ~Moves(Coming, Taken)
    BY <1>2 DEF Moves, SlaActive
  <2> QED BY <1>1, <2>1, <2>2 DEF Underway
<1> QED BY <1>3, <1>4, <1>5 DEF SetSpeedInv

LEMMA SetSpeedStep == SetSpeedInv /\ [SetSpeedNext]_setSpeedVars => SetSpeedInv'
<1> SUFFICES ASSUME SetSpeedInv, [SetSpeedNext]_setSpeedVars PROVE SetSpeedInv'
  OBVIOUS
<1>1. CASE Card
  BY <1>1, CardKeeps
<1>2. CASE Planner
  BY <1>2, PlannerKeeps
<1>3. CASE PlanArrives
  BY <1>3, ArrivalKeeps
<1>4. CASE UNCHANGED setSpeedVars
  <2>1. SetSpeedTypeOK' /\ SlaSane'
    BY <1>4 DEF SetSpeedInv, SetSpeedTypeOK, CruiseTypeOK, SlaTypeOK, SlaSane,
                setSpeedVars, cruiseVars, slaVars, linkVars
  <2>2. Engaging' /\ ButtonsHeld' /\ Releases' /\ EngagedSpeedIsSet'
    BY <1>4 DEF SetSpeedInv, Engaging, Arrived, ButtonsHeld, Releases, EngagedSpeedIsSet,
                setSpeedVars, cruiseVars, slaVars, linkVars
  <2>3. SpeedAgreed'
    BY <1>4 DEF SetSpeedInv, SpeedAgreed, Underway, AtCard, Arrived, Moves, Taken, Coming, Agreed, Above,
                SinceButton, Overtaken, setSpeedVars, cruiseVars, slaVars, linkVars
  <2> QED BY <2>1, <2>2, <2>3 DEF SetSpeedInv
<1> QED BY <1>1, <1>2, <1>3, <1>4 DEF SetSpeedNext

\* The limit that moves the speed by itself is one that was agreed to.
LEMMA AgreedAlone ==
  ASSUME SetSpeedInv, [SetSpeedNext]_setSpeedVars, MovesAlone
  PROVE  /\ v_cruise' = Clip(plan.limit)
         /\ untouched <= Recent \/ (v_cruise >= Threshold /\ plan.limit >= Threshold)
<1>1. /\ ~pcm /\ v_cruise \in VMin .. VMax /\ v_cruise' \in VMin .. VMax /\ v_cruise' # v_cruise
      /\ button_prev' = "none" /\ (\A b \in Buttons : button_timers[b] = 0) /\ enabled_seen
  BY DEF MovesAlone
<1>2. Card
  BY <1>1 DEF SetSpeedNext, Planner, PlannerFrame, PlanArrives, setSpeedVars, cruiseVars
<1>3. PICK e \in ButtonEvents, a \in BOOLEAN, w \in BOOLEAN, s \in BOOLEAN, g \in Nat, v \in VMin .. VMax :
          CardFrame(e, a, s, g, v, w)
  BY <1>2, CardInputs
<1>4. SetSpeedTypeOK /\ v_cruise # Unset /\ v_cruise' # Unset
  BY <1>1, CruiseAssumption DEF SetSpeedInv, Unset
<1>5. e = NoEvent
  <2>1. e.button = "none"
    BY <1>1, <1>3 DEF CardFrame
  <2> QED BY <2>1 DEF ButtonEvents, Buttons
<1>6. v_cruise' = Clip(plan.limit) /\ Moves(plan, Taken)
  BY <1>1, <1>3, <1>4, <1>5, CardSpeed
<1>7. Arrived \/ ~ticked
  BY <1>3 DEF CardFrame
<1>8. Underway /\ AtCard
  BY <1>1, <1>4 DEF SetSpeedInv, SpeedAgreed
<1>9. untouched \in Nat /\ HoldFrames \in Nat /\ Recent = HoldFrames + 2
  BY <1>4, SlaAssumption DEF SetSpeedTypeOK, Recent
<1>10. Agreed(plan.limit) \/ SinceButton(2)
  <2>1. Overtaken \/ SinceButton(1) => SinceButton(2)
    BY <1>9 DEF Overtaken, SinceButton
  <2> QED BY <1>6, <1>7, <1>8, <2>1 DEF Underway, AtCard
<1> QED BY <1>1, <1>6, <1>9, <1>10 DEF Agreed, Above, SinceButton

\* However buttons, plans, releases and engagements fall between the frames of card and of
\* the planner, the set speed of an engaged car is one that was set, and nothing moves it
\* but the driver's buttons and the limits he has agreed to (cruise.py, cruise_ext.py,
\* speed_limit_assist.py).
THEOREM SpeedIsAlwaysTheDrivers == SetSpeedSpec => SetSpeedIsTheDrivers
<1>1. SetSpeedInv /\ [SetSpeedNext]_setSpeedVars =>
        [MovesAlone => /\ v_cruise' = Clip(plan.limit)
                       /\ untouched <= Recent \/ (v_cruise >= Threshold /\ plan.limit >= Threshold)]_setSpeedVars
  BY AgreedAlone
<1>2. SetSpeedInv => SetSpeedTypeOK /\ EngagedSpeedIsSet
  BY DEF SetSpeedInv
<1> QED BY SetSpeedInitially, SetSpeedStep, <1>1, <1>2, PTL
        DEF SetSpeedSpec, SetSpeedIsTheDrivers, NothingMovesAlone
=============================================================================
