-------------------------- MODULE DriverMonitoring --------------------------
(***************************************************************************)
(* dmonitoringd: DriverMonitoring.run_step of selfdrive/monitoring/policy.py, *)
(* called once per frame of the driver camera (20 Hz), and what selfdrived  *)
(* does with its lockout.                                                   *)
(*                                                                         *)
(* The parameters DriverTooDistracted and DriverLockoutCount outlive both   *)
(* processes: they are stopped when the car goes offroad and are new when it *)
(* is onroad again; the ignition clears the parameters.                     *)
(*                                                                         *)
(* Awareness counts in units of 1/Full; a frame takes Step of the policy.   *)
(***************************************************************************)
EXTENDS Integers

CONSTANTS
  Full,              \* awareness 1.
  Below,             \* awareness stops at -0.1
  Step,              \* per policy: DT_DMON / *_POLICY_ALERT_3_TIMEOUT
  Alert1, Alert2,    \* per policy: threshold_alert_1 and _2
  Factor,            \* per awareness: how many steps a recovering frame gains
  HiStdFallback,     \* _HI_STD_FALLBACK_TIME, 200 frames
  NoResponseFrames,  \* no_response_timeout, 100 frames
  MaxAlert3,         \* _MAX_ALERT_3, 2
  MaxNoResponse,     \* _MAX_NO_RESPONSE, 1
  LockoutTimes,      \* _LOCKOUT_TIMES, 1200, 6000, 18000 and 36000 frames
  MaxLockouts,       \* their number; the model counts no further
  Inputs             \* what a frame may bring

Policies == { "vision", "wheeltouch" }

InputType ==
  [ valid       : BOOLEAN,   \* sm.all_checks()
    face        : BOOLEAN,   \* faceProb > _FACE_THRESHOLD
    low_std     : BOOLEAN,   \* the pose is certain enough to be used
    distracted  : BOOLEAN,   \* any of the distracted_types
    engaged     : BOOLEAN,   \* selfdriveState.enabled or carControl.latActive
    interacting : BOOLEAN,   \* steeringPressed, or gasPressed while enabled
    lowspeed    : BOOLEAN,
    wrong_gear  : BOOLEAN,
    always_on   : BOOLEAN ]  \* AlwaysOnDM, as read at the end of the frame

ASSUME AwarenessAssumption ==
  /\ Full \in Nat \ {0} /\ Below \in Nat
  /\ Step \in [ Policies -> 1..Full ]
  /\ Alert1 \in [ Policies -> 0..(Full - 1) ] /\ Alert2 \in [ Policies -> 0..(Full - 1) ]
  /\ \A p \in Policies : Alert2[p] < Alert1[p]
  /\ Factor \in [ 1..Full -> Nat \ {0} ]

ASSUME CountsAssumption ==
  /\ HiStdFallback \in Nat /\ NoResponseFrames \in Nat \ {0}
  /\ MaxAlert3 \in Nat \ {0} /\ MaxNoResponse \in Nat \ {0}
  /\ MaxLockouts \in Nat \ {0}
  /\ LockoutTimes \in [ 1..MaxLockouts -> Nat \ {0} ]

ASSUME InputsAssumption == Inputs \subseteq InputType

VARIABLES
  sm,                     \* the input of the last frame
  \* --- DriverMonitoring: what it made of the driver camera ---
  distraction,            \* driver_distraction_filter.x: below 0.37, above 0.63 or between
  hi_stds,
  attention,              \* awareness, the awareness saved for each policy, step_change,
                          \* active_policy
  alert_level,
  \* --- what it counts ---
  alert_3_cnt,
  cnt_since_alert_3,
  no_response_cnt,
  lockout_active,
  lockout_count,
  lockout_duration,
  lockout_time_elapsed,
  always_on,
  \* --- selfdrived and the parameters ---
  lockout_message,        \* driverMonitoringState.lockout as selfdrived last received it
  dm_lockout_set,
  DriverTooDistracted,
  DriverLockoutCount

camera  == << distraction, hi_stds >>
counts  == << alert_3_cnt, cnt_since_alert_3, no_response_cnt >>
lockout == << lockout_active, lockout_count, lockout_duration, lockout_time_elapsed >>
params  == << DriverTooDistracted, DriverLockoutCount >>
monitor == << sm, camera, attention, alert_level, counts, lockout, always_on >>
vars    == << monitor, lockout_message, dm_lockout_set, params >>

Smaller(a, b) == IF a < b THEN a ELSE b
Larger(a, b)  == IF a < b THEN b ELSE a

Attentions ==
  [ awareness     : (-Below)..Full,
    saved         : [ Policies -> 1..Full ],   \* last_vision_, last_wheeltouch_awareness
    step_change   : 0..Full,
    active_policy : Policies ]

\* alert_3_cnt, no_response_cnt and cnt_since_alert_3 are compared with their
\* limits only: the model counts them up to there.
TypeOK ==
  /\ sm \in InputType
  /\ distraction \in { "low", "middle", "high" }
  /\ hi_stds \in 0..HiStdFallback
  /\ attention \in Attentions
  /\ alert_level \in { "none", "one", "two", "three" }
  /\ alert_3_cnt \in 0..MaxAlert3 /\ no_response_cnt \in 0..MaxNoResponse
  /\ cnt_since_alert_3 \in 0..(NoResponseFrames + 1)
  /\ lockout_active \in BOOLEAN /\ lockout_count \in 0..MaxLockouts
  /\ \E n \in 1..MaxLockouts : lockout_duration = LockoutTimes[n]
  /\ lockout_time_elapsed \in 0..lockout_duration
  /\ always_on \in BOOLEAN
  /\ lockout_message \in BOOLEAN /\ dm_lockout_set \in BOOLEAN
  /\ DriverTooDistracted \in BOOLEAN /\ DriverLockoutCount \in 0..MaxLockouts

LockoutTime(count) == LockoutTimes[Larger(1, count)]

NoInput == [ valid |-> FALSE, face |-> FALSE, low_std |-> TRUE, distracted |-> FALSE,
             engaged |-> FALSE, interacting |-> FALSE, lowspeed |-> FALSE,
             wrong_gear |-> FALSE, always_on |-> FALSE ]

FullAttention == [ awareness |-> Full, saved |-> [ p \in Policies |-> Full ],
                   step_change |-> Step["vision"], active_policy |-> "vision" ]

Init ==
  /\ sm = NoInput
  /\ distraction = "low" /\ hi_stds = 0
  /\ attention = FullAttention
  /\ alert_level = "none"
  /\ alert_3_cnt = 0 /\ cnt_since_alert_3 = 0 /\ no_response_cnt = 0
  /\ lockout_active = FALSE /\ lockout_count = 0
  /\ lockout_duration = LockoutTime(0) /\ lockout_time_elapsed = 0
  /\ always_on \in BOOLEAN
  /\ lockout_message = FALSE /\ dm_lockout_set = FALSE
  /\ DriverTooDistracted = FALSE /\ DriverLockoutCount = 0
-----------------------------------------------------------------------------
(* _update_states and _set_policy                                           *)

Distracted(in) == in.distracted /\ in.face /\ in.low_std

\* The first-order filter moves towards its input and passes the bands in order;
\* how many frames it stays in one is left open.
NextDistraction(in) ==
  IF Distracted(in)
    THEN CASE distraction = "low"    -> { "low", "middle" }
           [] distraction = "middle" -> { "middle", "high" }
           [] distraction = "high"   -> { "high" }
    ELSE CASE distraction = "low"    -> { "low" }
           [] distraction = "middle" -> { "middle", "low" }
           [] distraction = "high"   -> { "high", "middle" }

NextHiStds(in) ==
  IF in.face /\ in.low_std THEN 0
  ELSE IF in.face THEN Smaller(hi_stds + 1, HiStdFallback)
  ELSE hi_stds

\* is_model_uncertain, decided before hi_stds counts this frame
Uncertain == hi_stds >= HiStdFallback

Target(in) == IF in.face /\ ~Uncertain THEN "vision" ELSE "wheeltouch"

\* The other policy takes over with the awareness it had when it was left.
TakeOver(a, target) ==
  [ awareness     |-> a.saved[target],
    saved         |-> [ a.saved EXCEPT ![a.active_policy] = a.awareness ],
    step_change   |-> Step[target],
    active_policy |-> target ]

SetPolicyDodged(a, target) ==       \* mutant: hiding is a way out after orange
  IF a.awareness <= 0 THEN a
  ELSE IF target = a.active_policy THEN [ a EXCEPT !.step_change = Step[target] ]
  ELSE TakeOver(a, target)
SetPolicyFrozen(a, target) ==       \* mutant: and neither is looking ahead again
  IF a.active_policy = "vision" /\ a.awareness <= Alert2["vision"]
    THEN [ a EXCEPT !.step_change = 0 ]
  ELSE IF a.awareness <= 0 THEN a
  ELSE IF target = a.active_policy THEN [ a EXCEPT !.step_change = Step[target] ]
  ELSE TakeOver(a, target)
\* _set_policy: "no exploit after orange alert"
SetPolicy(a, target) ==
  IF a.active_policy = "vision" /\ a.awareness <= Alert2["vision"]
    THEN [ a EXCEPT !.step_change = IF target = "vision" THEN Step["vision"] ELSE 0 ]
  ELSE IF a.awareness <= 0 THEN a
  ELSE IF target = a.active_policy THEN [ a EXCEPT !.step_change = Step[target] ]
  ELSE TakeOver(a, target)
-----------------------------------------------------------------------------
(* _update_events: awareness and the alert                                  *)

\* _reset_awareness
Reset(a) == [ a EXCEPT !.awareness = Full, !.saved = [ p \in Policies |-> Full ] ]

AlwaysOnValid(in) == always_on /\ ~in.wrong_gear

\* The driver holds the wheel, or nothing is engaged: a red alert of the always-on
\* monitoring is reset too.
IsReset(a, in) ==
  \/ in.interacting /\ a.awareness > 0 /\ a.active_policy = "wheeltouch"
  \/ ~in.engaged /\ (AlwaysOnValid(in) => a.awareness <= 0)

LowspeedExemption(a, in) ==
  in.lowspeed /\ a.awareness - a.step_change <= Alert1[a.active_policy]

AlwaysOnExemption(a, in) ==
  AlwaysOnValid(in) /\ ~in.engaged /\ a.awareness <= a.step_change

\* band is the filter after this frame.
RecoversAtRed(a, in, band) ==       \* mutant: a red alert recovers as well
  (band = "low" /\ in.face /\ in.low_std) \/ LowspeedExemption(a, in)
Recovers(a, in, band) ==
  a.awareness > 0 /\ ((band = "low" /\ in.face /\ in.low_std) \/ LowspeedExemption(a, in))

Recovered(a) ==
  LET up == Smaller(a.awareness + Factor[Larger(1, a.awareness)] * a.step_change, Full)
  IN [ a EXCEPT !.awareness = up,
                !.saved["wheeltouch"] =
                   IF up = Full THEN Smaller(@ + a.step_change, Full) ELSE @ ]

\* certainly_distracted or maybe_distracted
CountsDown(in, band) ==
  \/ band = "high" /\ Distracted(in)
  \/ Uncertain \/ ~in.face

\* Awareness at the end of the frame, when its policy is set and before it is a.
NextAttention(a, in, band) ==
  LET b == IF Recovers(a, in, band) THEN Recovered(a) ELSE a
  IN IF IsReset(a, in) \/ (Recovers(a, in, band) /\ in.interacting) THEN Reset(a)
     ELSE IF Recovers(a, in, band) /\ b.awareness > Alert2[a.active_policy] THEN b
     ELSE IF CountsDown(in, band) /\ ~LowspeedExemption(a, in) /\ ~AlwaysOnExemption(a, in)
       THEN [ b EXCEPT !.awareness = Larger(@ - a.step_change, -Below) ]
     ELSE b

\* No banner while awareness recovers and has cleared orange.
NextAlert(a, in, band) ==
  LET b == NextAttention(a, in, band)
  IN IF IsReset(a, in) THEN "none"
     ELSE IF Recovers(a, in, band) /\ (in.interacting \/ Recovered(a).awareness > Alert2[a.active_policy])
       THEN "none"
     ELSE IF b.awareness <= 0 THEN "three"
     ELSE IF b.awareness <= Alert2[a.active_policy] THEN "two"
     ELSE IF b.awareness <= Alert1[a.active_policy] THEN "one"
     ELSE "none"
-----------------------------------------------------------------------------
(* _update_events: what is counted                                          *)

Earned == alert_3_cnt >= MaxAlert3 \/ no_response_cnt >= MaxNoResponse

Locks == Earned /\ ~lockout_active

NextCount == IF Locks THEN Smaller(lockout_count + 1, MaxLockouts) ELSE lockout_count

NextDuration == IF Locks THEN LockoutTime(NextCount) ELSE lockout_duration

Elapsed == IF Earned \/ lockout_active THEN lockout_time_elapsed + 1 ELSE 0

\* The frame in which the lockout is over also starts the counts anew.
Expires == Elapsed > NextDuration

CountsKept(before, red) ==          \* mutant: a new red goes on with the old count
  /\ cnt_since_alert_3' = IF red THEN Smaller(cnt_since_alert_3 + 1, NoResponseFrames + 1)
                          ELSE cnt_since_alert_3
  /\ UNCHANGED << alert_3_cnt, no_response_cnt >>
\* before is the awareness the frame began with.
Counts(before, red) ==
  LET kept(n) == IF Expires THEN 0 ELSE n
      since   == IF ~red THEN kept(cnt_since_alert_3)
                 ELSE IF before > 0 THEN 0
                 ELSE Smaller(kept(cnt_since_alert_3) + 1, NoResponseFrames + 1)
      noResponse == red /\ before <= 0 /\ since = NoResponseFrames
  IN /\ alert_3_cnt' = Smaller(kept(alert_3_cnt) + (IF red /\ before > 0 THEN 1 ELSE 0),
                               MaxAlert3)
     /\ cnt_since_alert_3' = since
     /\ no_response_cnt' = Smaller(kept(no_response_cnt) + (IF noResponse THEN 1 ELSE 0),
                                   MaxNoResponse)

\* run_step
Monitor(in, band) ==
  LET a   == SetPolicy(attention, Target(in))
      red == NextAlert(a, in, band) = "three"
  IN /\ distraction' = band
     /\ hi_stds' = NextHiStds(in)
     /\ attention' = NextAttention(a, in, band)
     /\ alert_level' = NextAlert(a, in, band)
     /\ Counts(a.awareness, red)
     /\ lockout_count' = NextCount /\ DriverLockoutCount' = NextCount
     /\ lockout_duration' = NextDuration
     /\ lockout_active' = ((Earned \/ lockout_active) /\ ~Expires)
     /\ lockout_time_elapsed' = IF Expires THEN 0 ELSE Elapsed

\* dmonitoringd_thread with a new camera frame: run_step unless a message it needs is
\* missing; the state is published in any case.
MonitorFrame ==
  /\ \E in \in Inputs :
       /\ sm' = in
       /\ IF in.valid THEN \E band \in NextDistraction(in) : Monitor(in, band)
          ELSE UNCHANGED << camera, attention, alert_level, counts, lockout, DriverLockoutCount >>
       /\ always_on' = in.always_on
  /\ lockout_message' = lockout_active'
  /\ UNCHANGED << dm_lockout_set, DriverTooDistracted >>

\* selfdrived.update_events, "Handle DM"
HandleDM ==
  /\ lockout_message # dm_lockout_set
  /\ dm_lockout_set' = lockout_message
  /\ DriverTooDistracted' = lockout_message
  /\ UNCHANGED << monitor, lockout_message, DriverLockoutCount >>

StartsForgiven(tooDistracted, count) ==   \* mutant: a new process knows of no lockout
  /\ lockout_active' = FALSE /\ lockout_count' = count
  /\ lockout_duration' = LockoutTime(count) /\ lockout_time_elapsed' = 0
\* DriverMonitoring.__init__
Starts(tooDistracted, count) ==
  /\ lockout_active' = tooDistracted /\ lockout_count' = count
  /\ lockout_duration' = LockoutTime(count) /\ lockout_time_elapsed' = 0

\* Offroad and onroad again: new processes, and new parameters if the ignition was off.
Restart(ignition) ==
  LET tooDistracted == DriverTooDistracted /\ ~ignition
      count         == IF ignition THEN 0 ELSE DriverLockoutCount
  IN /\ sm' = NoInput
     /\ distraction' = "low" /\ hi_stds' = 0
     /\ attention' = FullAttention /\ alert_level' = "none"
     /\ alert_3_cnt' = 0 /\ cnt_since_alert_3' = 0 /\ no_response_cnt' = 0
     /\ Starts(tooDistracted, count)
     /\ lockout_message' = FALSE /\ dm_lockout_set' = FALSE
     /\ DriverTooDistracted' = tooDistracted /\ DriverLockoutCount' = count
     /\ always_on' \in BOOLEAN

BackOnroad  == Restart(FALSE)
IgnitionOn  == Restart(TRUE)

\* driverMonitoringState.noResponseForceDecel: controlsd stops the car
NoResponseForceDecel == alert_level = "three" /\ cnt_since_alert_3 >= NoResponseFrames

Next == MonitorFrame \/ HandleDM \/ BackOnroad \/ IgnitionOn

Spec == Init /\ [][Next]_vars
-----------------------------------------------------------------------------
\* test_monitoring.py:135, "only disengaging clears red": no looking ahead, touching
\* the wheel, stopping or hiding does.
RedNeedsDisengagement ==
  [][ alert_level = "three" /\ sm'.engaged => alert_level' = "three" ]_vars

\* test_monitoring.py:135, "orange/red alert should remain after disappearance"; and a
\* hand on the wheel helps only while it is the wheel that is monitored.
OrangeRemains ==
  [][ /\ alert_level \in { "two", "three" }
      /\ sm'.engaged /\ ~sm'.face /\ ~sm'.lowspeed
      /\ sm'.interacting => attention.active_policy = "vision"
      => alert_level' \in { "two", "three" } ]_vars
=============================================================================
