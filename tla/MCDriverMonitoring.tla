------------------------- MODULE MCDriverMonitoring -------------------------
(* The driver monitoring in frames that differ from an attentive drive with  *)
(* cruise control in few inputs, with what the driver has been through kept  *)
(* in auxiliary variables.                                                   *)
EXTENDS DriverMonitoring

Watching   == [ valid |-> TRUE, face |-> TRUE, low_std |-> TRUE, distracted |-> FALSE,
                engaged |-> TRUE, interacting |-> FALSE, lowspeed |-> FALSE,
                wrong_gear |-> FALSE, always_on |-> FALSE ]
OnPhone    == [ Watching EXCEPT !.distracted = TRUE ]
Blurred    == [ Watching EXCEPT !.low_std = FALSE, !.distracted = TRUE ]
Hidden     == [ Watching EXCEPT !.face = FALSE ]

FewInputs ==
  { Watching, OnPhone, Blurred, Hidden,
    [ Watching EXCEPT !.valid = FALSE ],
    [ Watching EXCEPT !.engaged = FALSE ],
    [ Watching EXCEPT !.interacting = TRUE ],
    [ Hidden EXCEPT !.interacting = TRUE ],
    [ OnPhone EXCEPT !.lowspeed = TRUE ],
    [ OnPhone EXCEPT !.engaged = FALSE, !.always_on = TRUE ],
    [ Hidden EXCEPT !.engaged = FALSE, !.always_on = TRUE, !.wrong_gear = TRUE ] }

\* Green, orange and red on the scale of Full = 3, and a second lockout that is
\* longer than the first.
MCStep   == [ p \in Policies |-> 1 ]
MCAlert1 == [ p \in Policies |-> 2 ]
MCAlert2 == [ p \in Policies |-> 1 ]
MCFactor == << 2, 1, 1 >>
MCLockoutTimes == << 2, 3 >>
-----------------------------------------------------------------------------
VARIABLES
  red,           \* frames the alert has been at three without a break, counted up to
                 \* NoResponseFrames + 1
  strikes,       \* how often it went to three since the last lockout was over, or the
                 \* monitoring started, counted up to MaxAlert3
  served,        \* valid frames of the lockout since it began or the monitoring started
  frame_parity   \* of the frames of the driver camera

history == << red, strikes, served, frame_parity >>

Frame == frame_parity' # frame_parity /\ sm'.valid

HistoryInit ==
  /\ Init
  /\ red = 0 /\ strikes = 0 /\ served = 0 /\ frame_parity = 0

Lifted == lockout_active /\ ~lockout_active'

NewRed == alert_level' = "three" /\ alert_level # "three"

RememberFrame ==
  /\ red' = IF alert_level' # "three" THEN 0
            ELSE IF sm'.valid THEN Smaller(red + 1, NoResponseFrames + 1)
            ELSE red
  /\ strikes' = Smaller((IF Lifted THEN 0 ELSE strikes) + (IF NewRed THEN 1 ELSE 0), MaxAlert3)
  /\ served' = IF ~lockout_active /\ ~lockout_active' THEN 0
               ELSE IF sm'.valid THEN served + 1
               ELSE served
  /\ frame_parity' = 1 - frame_parity

ForgetAll ==
  /\ red' = 0 /\ strikes' = 0 /\ served' = 0
  /\ UNCHANGED frame_parity

\* The shortest lockout takes a minute, in which selfdrived runs 6000 times: it has
\* seen every lockout before that is over.
SeenInTime == Lifted => dm_lockout_set

HistoryNext ==
  \/ MonitorFrame /\ SeenInTime /\ RememberFrame
  \/ HandleDM /\ UNCHANGED history
  \/ BackOnroad /\ ForgetAll
  \/ IgnitionOn /\ ForgetAll

HistorySpec == HistoryInit /\ [][HistoryNext]_<< vars, history >>

\* The driver camera delivers a frame every 50 ms, and selfdrived runs five times as
\* often; a frame like the one before it is a step as well.
FairSpec == /\ HistorySpec
            /\ WF_frame_parity(frame_parity' = 1 - frame_parity)
            /\ WF_vars(HandleDM)
-----------------------------------------------------------------------------
\* The car is stopped only once the driver has left this red alert, not red alerts in
\* all, unanswered for longer than no_response_timeout.
ForceDecelIsEarned == NoResponseForceDecel => red > NoResponseFrames

\* Red twice locks engaging out with the next frame, whatever lay between the two.
RepeatedRedLocksOut ==
  [][ Frame /\ strikes >= MaxAlert3 => lockout_active \/ lockout_active' ]_<< vars, history >>

\* selfdrived.py:258, "Block engaging until lockout times out or ignition reset": once
\* selfdrived has noted it, a lockout is served in full, also by a new process.
LockoutIsServed ==
  [][ /\ DriverTooDistracted /\ lockout_active /\ ~lockout_active'
      => served' > LockoutTime(lockout_count) \/ DriverLockoutCount' < DriverLockoutCount
      ]_<< vars, history >>

\* Alerts that were ignored have consequences nobody gets around by disengaging, by
\* hiding or by starting anew.
LockoutsAreReal == RepeatedRedLocksOut /\ LockoutIsServed
-----------------------------------------------------------------------------
Unattended ==
  /\ sm.valid /\ sm.engaged /\ ~sm.interacting /\ ~sm.lowspeed
  /\ ~sm.face \/ (Distracted(sm) /\ distraction = "high")

\* A driver who is certainly distracted, or not there, in every frame is alerted for
\* good, whatever mixture of the two it is.
UnattendedIsAlerted == <>[]Unattended => <>[](alert_level \in { "two", "three" })

Attends == sm.valid /\ sm.face /\ sm.low_std /\ distraction = "low"

\* A driver who looks ahead gets rid of every alert but the red one.
AttentionClearsAlert == <>[](Attends /\ alert_level # "three") => <>[](alert_level = "none")

\* Engaging is possible again some time after the last red alert: the lockout and the
\* parameter that keeps it are both gone.
LockoutEnds ==
  <>[](sm.valid /\ alert_level # "three") => <>[](~lockout_active /\ ~DriverTooDistracted)

\* In the end the alert and the lockout are what the driver deserves.
AlertsFollowTheDriver == UnattendedIsAlerted /\ AttentionClearsAlert /\ LockoutEnds
=============================================================================
