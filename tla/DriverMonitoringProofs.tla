----------------------- MODULE DriverMonitoringProofs -----------------------
(***************************************************************************)
(* The driver monitoring for every choice of thresholds, steps, recovery   *)
(* factors, lockouts and inputs.  TypeOK is inductive: it holds the two    *)
(* saved awarenesses above zero, so that no change of the policy leads to  *)
(* a red alert or out of one.                                              *)
(*                                                                         *)
(* What the history of MCDriverMonitoring says of stops and lockouts is    *)
(* proved by relating each of its counts to the counter of the code that   *)
(* it watches (HistoryInv).                                                *)
(***************************************************************************)
EXTENDS MCDriverMonitoring, TLAPS

LEMMA SmallerType == \A a, b \in Int : Smaller(a, b) \in Int /\ Smaller(a, b) <= a
                                        /\ Smaller(a, b) <= b /\ Smaller(a, b) \in { a, b }
  BY DEF Smaller

LEMMA LargerType == \A a, b \in Int : Larger(a, b) \in Int /\ Larger(a, b) >= a
                                       /\ Larger(a, b) >= b /\ Larger(a, b) \in { a, b }
  BY DEF Larger

\* A record of Attentions is one with these fields.
LEMMA AttentionFields ==
  ASSUME NEW a \in Attentions
  PROVE  /\ a.awareness \in (-Below)..Full
         /\ a.saved \in [ Policies -> 1..Full ]
         /\ a.step_change \in 0..Full /\ a.active_policy \in Policies
  BY DEF Attentions

LEMMA AttentionUpdate ==
  ASSUME NEW a \in Attentions, NEW x \in (-Below)..Full, NEW s \in [ Policies -> 1..Full ]
  PROVE  [ a EXCEPT !.awareness = x, !.saved = s ] \in Attentions
<1> DEFINE b == [ a EXCEPT !.awareness = x ]
<1>1. b \in Attentions
  BY DEF Attentions
<1>2. [ a EXCEPT !.awareness = x, !.saved = s ] = [ b EXCEPT !.saved = s ]
  OBVIOUS
<1> HIDE DEF b
<1>3. [ b EXCEPT !.saved = s ] \in Attentions
  BY <1>1 DEF Attentions
<1> QED BY <1>2, <1>3

\* Setting the policy keeps the attention in its type.
LEMMA SetPolicyType ==
  ASSUME NEW a \in Attentions, NEW target \in Policies
  PROVE  SetPolicy(a, target) \in Attentions
<1> Full \in Nat \ {0} /\ Below \in Nat /\ Step \in [ Policies -> 1..Full ]
  BY AwarenessAssumption
<1>1. ASSUME a.awareness > 0 PROVE TakeOver(a, target) \in Attentions
  <2>1. a.awareness \in 1..Full /\ Step[target] \in 0..Full
    BY <1>1, AttentionFields
  <2>2. a.saved[target] \in (-Below)..Full
    BY AttentionFields
  <2>3. [ a.saved EXCEPT ![a.active_policy] = a.awareness ] \in [ Policies -> 1..Full ]
    BY <2>1, AttentionFields
  <2> QED BY <2>1, <2>2, <2>3 DEF TakeOver, Attentions
<1> QED BY <1>1 DEF SetPolicy, Attentions

\* Awareness recovers within its bounds.
LEMMA RecoveredType ==
  ASSUME NEW a \in Attentions, a.awareness > 0
  PROVE  Recovered(a) \in Attentions /\ Recovered(a).awareness > 0
<1> Full \in Nat \ {0} /\ Below \in Nat
  BY AwarenessAssumption
<1> DEFINE gain == Factor[Larger(1, a.awareness)] * a.step_change
<1>1. gain \in Nat
  <2>1. Larger(1, a.awareness) \in 1..Full
    BY DEF Larger, Attentions
  <2>2. Factor[Larger(1, a.awareness)] \in Nat /\ a.step_change \in Nat
    BY <2>1, AwarenessAssumption DEF Attentions
  <2> HIDE DEF gain
  <2>3. \A m, n \in Nat : m * n \in Nat
    OBVIOUS
  <2> QED BY <2>2, <2>3 DEF gain
<1> DEFINE up == Smaller(a.awareness + gain, Full)
<1> HIDE DEF gain
<1>2. up \in 1..Full
  BY <1>1 DEF Smaller, Attentions
<1> DEFINE s == [ a.saved EXCEPT !["wheeltouch"] =
                    IF up = Full THEN Smaller(@ + a.step_change, Full) ELSE @ ]
<1>3. Recovered(a) = [ a EXCEPT !.awareness = up, !.saved = s ]
  BY DEF Recovered, gain
<1> HIDE DEF up
<1>4. s \in [ Policies -> 1..Full ]
  <2>1. a.saved \in [ Policies -> 1..Full ] /\ a.step_change \in 0..Full
    BY AttentionFields
  <2>2. \A n \in 1..Full : Smaller(n + a.step_change, Full) \in 1..Full
    BY <2>1 DEF Smaller
  <2> QED BY <2>1, <2>2 DEF Policies
<1> HIDE DEF s
<1>5. up \in (-Below)..Full
  BY <1>2
<1>6. [ a EXCEPT !.awareness = up, !.saved = s ] \in Attentions
  BY <1>4, <1>5, AttentionUpdate
<1>7. [ a EXCEPT !.awareness = up, !.saved = s ].awareness = up
  BY DEF Attentions
<1> QED BY <1>2, <1>3, <1>6, <1>7

\* A frame leaves the attention in its type.
LEMMA NextAttentionType ==
  ASSUME NEW a \in Attentions, NEW in \in InputType, NEW band
  PROVE  NextAttention(a, in, band) \in Attentions
<1> Full \in Nat \ {0} /\ Below \in Nat
  BY AwarenessAssumption
<1> DEFINE b == IF Recovers(a, in, band) THEN Recovered(a) ELSE a
<1>1. b \in Attentions
  BY RecoveredType DEF Recovers
<1>2. Reset(a) \in Attentions
  <2>1. Full \in (-Below)..Full /\ [ p \in Policies |-> Full ] \in [ Policies -> 1..Full ]
    OBVIOUS
  <2> QED BY <2>1, AttentionUpdate DEF Reset
<1>3. a.step_change \in 0..Full
  BY DEF Attentions
<1> HIDE DEF b
<1>4. [ b EXCEPT !.awareness = Larger(b.awareness - a.step_change, -Below) ] \in Attentions
  BY <1>1, <1>3 DEF Larger, Attentions
<1>5. NextAttention(a, in, band)
        \in { Reset(a), b, [ b EXCEPT !.awareness = Larger(b.awareness - a.step_change, -Below) ] }
  BY DEF NextAttention, b
<1> QED BY <1>1, <1>2, <1>4, <1>5
-----------------------------------------------------------------------------
IInv ==
  /\ TypeOK
  /\ alert_level = "three" => attention.awareness <= 0
  /\ alert_level = "two" => attention.awareness <= Alert2[attention.active_policy]

LEMMA InitInvariant == Init => IInv
<1> SUFFICES ASSUME Init PROVE IInv
  OBVIOUS
<1>1. NoInput \in InputType
  BY DEF NoInput, InputType
<1>2. FullAttention \in Attentions
  BY AwarenessAssumption DEF FullAttention, Attentions, Policies
<1>3. LockoutTime(0) = LockoutTimes[1] /\ 1 \in 1..MaxLockouts /\ LockoutTimes[1] \in Nat
  BY CountsAssumption DEF LockoutTime, Larger
<1>4. \E n \in 1..MaxLockouts : LockoutTime(0) = LockoutTimes[n]
  BY <1>3
<1>5. /\ HiStdFallback \in Nat /\ NoResponseFrames \in Nat /\ MaxAlert3 \in Nat
      /\ MaxNoResponse \in Nat /\ MaxLockouts \in Nat /\ LockoutTime(0) \in Nat
  BY <1>3, CountsAssumption
<1>6. /\ 0 \in 0..HiStdFallback /\ 0 \in 0..(NoResponseFrames + 1) /\ 0 \in 0..MaxAlert3
      /\ 0 \in 0..MaxNoResponse /\ 0 \in 0..MaxLockouts /\ 0 \in 0..LockoutTime(0)
  BY <1>5
<1>7. TypeOK
  <2>1. \E n \in 1..MaxLockouts : lockout_duration = LockoutTimes[n]
    BY <1>4 DEF Init
  <2>2. lockout_time_elapsed \in 0..lockout_duration
    BY <1>6 DEF Init
  <2> QED BY <1>1, <1>2, <1>6, <2>1, <2>2 DEF Init, TypeOK
<1> QED BY <1>7 DEF Init, IInv

\* The policy a frame leaves is the one it counted for.
LEMMA NextPolicy ==
  ASSUME NEW a \in Attentions, NEW in \in InputType, NEW band
  PROVE  NextAttention(a, in, band).active_policy = a.active_policy
<1> DEFINE b == IF Recovers(a, in, band) THEN Recovered(a) ELSE a
<1>1. b.active_policy = a.active_policy /\ Reset(a).active_policy = a.active_policy
  BY DEF Recovered, Reset, Attentions
<1>2. b \in Attentions
  BY RecoveredType DEF Recovers
<1>3. [ b EXCEPT !.awareness = Larger(b.awareness - a.step_change, -Below) ].active_policy
        = b.active_policy
  BY <1>2 DEF Attentions
<1>4. NextAttention(a, in, band)
        \in { Reset(a), b, [ b EXCEPT !.awareness = Larger(b.awareness - a.step_change, -Below) ] }
  BY DEF NextAttention
<1> QED BY <1>1, <1>3, <1>4

LEMMA DistractionType ==
  ASSUME NEW in, distraction \in { "low", "middle", "high" }, NEW band \in NextDistraction(in)
  PROVE  band \in { "low", "middle", "high" }
<1>1. CASE Distracted(in)
  BY <1>1 DEF NextDistraction
<1>2. CASE ~Distracted(in)
  BY <1>2 DEF NextDistraction
<1> QED BY <1>1, <1>2

LEMMA CountsType ==
  ASSUME TypeOK, NEW before \in Int, NEW isRed \in BOOLEAN, Counts(before, isRed)
  PROVE  /\ alert_3_cnt' \in 0..MaxAlert3 /\ no_response_cnt' \in 0..MaxNoResponse
         /\ cnt_since_alert_3' \in 0..(NoResponseFrames + 1)
<1> MaxAlert3 \in Nat /\ MaxNoResponse \in Nat /\ NoResponseFrames \in Nat
  BY CountsAssumption
<1> alert_3_cnt \in 0..MaxAlert3 /\ no_response_cnt \in 0..MaxNoResponse
      /\ cnt_since_alert_3 \in 0..(NoResponseFrames + 1)
  BY DEF TypeOK
<1> QED BY DEF Counts, Smaller

\* A lockout that is not over has time left.
LEMMA LockoutType ==
  ASSUME TypeOK, NEW in, NEW band, Monitor(in, band)
  PROVE  /\ lockout_active' \in BOOLEAN /\ lockout_count' \in 0..MaxLockouts
         /\ \E n \in 1..MaxLockouts : lockout_duration' = LockoutTimes[n]
         /\ lockout_time_elapsed' \in 0..lockout_duration'
         /\ DriverLockoutCount' \in 0..MaxLockouts
<1> MaxLockouts \in Nat \ {0} /\ \A n \in 1..MaxLockouts : LockoutTimes[n] \in Nat
  BY CountsAssumption
<1> lockout_count \in 0..MaxLockouts /\ lockout_time_elapsed \in Nat /\ lockout_duration \in Nat
  BY DEF TypeOK
<1>1. NextCount \in 0..MaxLockouts
  BY DEF NextCount, Smaller
<1>2. \E n \in 1..MaxLockouts : NextDuration = LockoutTimes[n]
  <2>1. CASE Locks
    BY <2>1, <1>1 DEF NextDuration, LockoutTime, Larger
  <2>2. CASE ~Locks
    BY <2>2 DEF NextDuration, TypeOK
  <2> QED BY <2>1, <2>2
<1>3. Elapsed \in Nat /\ NextDuration \in Nat
  BY <1>2 DEF Elapsed
<1>4. ~Expires => Elapsed \in 0..NextDuration
  BY <1>3 DEF Expires
<1> QED BY <1>1, <1>2, <1>3, <1>4 DEF Monitor

\* What run_step makes of a frame keeps the invariant.
LEMMA MonitorInvariant ==
  ASSUME IInv, NEW in \in InputType, NEW band \in NextDistraction(in), Monitor(in, band)
  PROVE  /\ distraction' \in { "low", "middle", "high" } /\ hi_stds' \in 0..HiStdFallback
         /\ attention' \in Attentions
         /\ alert_level' \in { "none", "one", "two", "three" }
         /\ alert_level' = "three" => attention'.awareness <= 0
         /\ alert_level' = "two" => attention'.awareness <= Alert2[attention'.active_policy]
         /\ alert_3_cnt' \in 0..MaxAlert3 /\ no_response_cnt' \in 0..MaxNoResponse
         /\ cnt_since_alert_3' \in 0..(NoResponseFrames + 1)
<1> DEFINE a == SetPolicy(attention, Target(in))
<1>1. a \in Attentions
  BY SetPolicyType DEF IInv, TypeOK, Target, Policies
<1>2. attention' \in Attentions /\ attention'.active_policy = a.active_policy
  BY <1>1, NextAttentionType, NextPolicy DEF Monitor
<1>3. distraction' \in { "low", "middle", "high" }
  BY DistractionType DEF Monitor, IInv, TypeOK
<1>4. hi_stds' \in 0..HiStdFallback
  BY CountsAssumption DEF Monitor, NextHiStds, Smaller, IInv, TypeOK
<1>5. /\ alert_level' \in { "none", "one", "two", "three" }
      /\ alert_level' = "three" => attention'.awareness <= 0
      /\ alert_level' = "two" => attention'.awareness <= Alert2[a.active_policy]
  BY DEF Monitor, NextAlert
<1>6. a.awareness \in Int
  BY <1>1, AwarenessAssumption DEF Attentions
<1>7. Counts(a.awareness, NextAlert(a, in, band) = "three")
  BY DEF Monitor
<1> QED BY <1>2, <1>3, <1>4, <1>5, <1>6, <1>7, CountsType DEF IInv

LEMMA FrameInvariant == IInv /\ MonitorFrame => IInv'
<1> SUFFICES ASSUME IInv, MonitorFrame PROVE IInv'
  OBVIOUS
<1>1. PICK in \in Inputs :
        /\ sm' = in
        /\ IF in.valid THEN \E band \in NextDistraction(in) : Monitor(in, band)
           ELSE UNCHANGED << camera, attention, alert_level, counts, lockout, DriverLockoutCount >>
        /\ always_on' = in.always_on
  BY DEF MonitorFrame
<1>2. in \in InputType
  BY InputsAssumption
<1>3. /\ sm' \in InputType /\ always_on' \in BOOLEAN
      /\ dm_lockout_set' \in BOOLEAN /\ DriverTooDistracted' \in BOOLEAN
  BY <1>1, <1>2 DEF MonitorFrame, IInv, TypeOK, InputType
<1>4. CASE in.valid
  <2>1. PICK band \in NextDistraction(in) : Monitor(in, band)
    BY <1>1, <1>4
  <2>2. /\ lockout_active' \in BOOLEAN /\ lockout_count' \in 0..MaxLockouts
        /\ \E n \in 1..MaxLockouts : lockout_duration' = LockoutTimes[n]
        /\ lockout_time_elapsed' \in 0..lockout_duration'
        /\ DriverLockoutCount' \in 0..MaxLockouts
    BY <2>1, LockoutType DEF IInv
  <2>3. lockout_message' \in BOOLEAN
    BY <2>2 DEF MonitorFrame
  <2> QED BY <1>2, <1>3, <2>1, <2>2, <2>3, MonitorInvariant DEF IInv, TypeOK
<1>5. CASE ~in.valid
  <2>1. UNCHANGED << camera, attention, alert_level, counts, lockout, DriverLockoutCount >>
    BY <1>1, <1>5
  <2>2. lockout_message' \in BOOLEAN
    BY <2>1 DEF MonitorFrame, lockout, IInv, TypeOK
  <2> QED BY <1>3, <2>1, <2>2 DEF IInv, TypeOK, camera, counts, lockout
<1> QED BY <1>4, <1>5

LEMMA RestartInvariant ==
  ASSUME IInv, NEW ignition \in BOOLEAN, Restart(ignition)
  PROVE  IInv'
<1>1. NoInput \in InputType
  BY DEF NoInput, InputType
<1>2. FullAttention \in Attentions
  BY AwarenessAssumption DEF FullAttention, Attentions, Policies
<1>3. lockout_count' \in 0..MaxLockouts /\ DriverLockoutCount' \in 0..MaxLockouts
  BY CountsAssumption DEF Restart, Starts, IInv, TypeOK
<1>4. \E n \in 1..MaxLockouts : lockout_duration' = LockoutTimes[n]
  BY <1>3, CountsAssumption DEF Restart, Starts, LockoutTime, Larger
<1>5. lockout_duration' \in Nat
  BY <1>4, CountsAssumption
<1>6. /\ HiStdFallback \in Nat /\ NoResponseFrames \in Nat /\ MaxAlert3 \in Nat
      /\ MaxNoResponse \in Nat
  BY CountsAssumption
<1>7. lockout_active' \in BOOLEAN /\ DriverTooDistracted' \in BOOLEAN
  BY DEF Restart, Starts, IInv, TypeOK
<1>8. TypeOK'
  <2>1. /\ 0 \in 0..HiStdFallback /\ 0 \in 0..(NoResponseFrames + 1) /\ 0 \in 0..MaxAlert3
        /\ 0 \in 0..MaxNoResponse /\ 0 \in 0..lockout_duration'
    BY <1>5, <1>6
  <2>2. lockout_time_elapsed' \in 0..lockout_duration'
    BY <2>1 DEF Restart, Starts
  <2> QED BY <1>1, <1>2, <1>3, <1>4, <1>7, <2>1, <2>2 DEF Restart, TypeOK
<1> QED BY <1>8 DEF Restart, IInv

LEMMA StepInvariant == IInv /\ [Next]_vars => IInv'
<1> SUFFICES ASSUME IInv, [Next]_vars PROVE IInv'
  OBVIOUS
<1>1. CASE MonitorFrame
  BY <1>1, FrameInvariant
<1>2. CASE HandleDM
  BY <1>2 DEF HandleDM, IInv, TypeOK, monitor, camera, counts, lockout
<1>3. CASE BackOnroad
  BY <1>3, RestartInvariant DEF BackOnroad
<1>4. CASE IgnitionOn
  BY <1>4, RestartInvariant DEF IgnitionOn
<1>5. CASE UNCHANGED vars
  BY <1>5 DEF vars, params, IInv, TypeOK, monitor, camera, counts, lockout
<1> QED BY <1>1, <1>2, <1>3, <1>4, <1>5 DEF Next

LEMMA Invariant == Spec => []IInv
  BY InitInvariant, StepInvariant, PTL DEF Spec

\* Awareness, the counts of alerts and the lockout stay within their bounds: in
\* particular no lockout runs for longer than the time it was given.
THEOREM TypeCorrect == Spec => []TypeOK
<1>1. IInv => TypeOK
  BY DEF IInv
<1> QED BY <1>1, Invariant, PTL
-----------------------------------------------------------------------------
\* Setting the policy is no way out of a red alert.
LEMMA SetPolicyKeepsRed ==
  ASSUME NEW a \in Attentions, NEW target \in Policies, a.awareness <= 0
  PROVE  SetPolicy(a, target).awareness = a.awareness
  BY DEF SetPolicy, Attentions

\* Nor is anything a frame brings while the system is engaged.
LEMMA RedStays ==
  ASSUME NEW a \in Attentions, NEW in \in InputType, NEW band, a.awareness <= 0, in.engaged
  PROVE  NextAlert(a, in, band) = "three"
<1> Full \in Nat \ {0} /\ Below \in Nat
  BY AwarenessAssumption
<1> a.awareness \in Int /\ a.step_change \in Nat
  BY AttentionFields
<1>1. ~IsReset(a, in) /\ ~Recovers(a, in, band)
  BY DEF IsReset, Recovers
<1>2. NextAttention(a, in, band) \in
        { a, [ a EXCEPT !.awareness = Larger(a.awareness - a.step_change, -Below) ] }
  BY <1>1 DEF NextAttention
<1>3. Larger(a.awareness - a.step_change, -Below) <= 0
  BY DEF Larger
<1>4. [ a EXCEPT !.awareness = Larger(a.awareness - a.step_change, -Below) ].awareness
        = Larger(a.awareness - a.step_change, -Below)
  BY DEF Attentions
<1>5. NextAttention(a, in, band).awareness <= 0
  BY <1>2, <1>3, <1>4
<1> QED BY <1>1, <1>5 DEF NextAlert

LEMMA RedStep == IInv /\ [Next]_vars => (alert_level = "three" /\ sm'.engaged => alert_level' = "three")
<1> SUFFICES ASSUME IInv, [Next]_vars, alert_level = "three", sm'.engaged
             PROVE  alert_level' = "three"
  OBVIOUS
<1>1. CASE MonitorFrame
  <2>1. PICK in \in Inputs :
          /\ sm' = in
          /\ IF in.valid THEN \E band \in NextDistraction(in) : Monitor(in, band)
             ELSE UNCHANGED << camera, attention, alert_level, counts, lockout, DriverLockoutCount >>
    BY <1>1 DEF MonitorFrame
  <2>2. CASE in.valid
    <3>1. PICK band \in NextDistraction(in) : Monitor(in, band)
      BY <2>1, <2>2
    <3> DEFINE a == SetPolicy(attention, Target(in))
    <3>2. Target(in) \in Policies /\ attention \in Attentions /\ attention.awareness <= 0
      BY DEF IInv, TypeOK, Target, Policies
    <3>3. a \in Attentions /\ a.awareness <= 0
      BY <3>2, SetPolicyType, SetPolicyKeepsRed
    <3>4. NextAlert(a, in, band) = "three"
      BY <2>1, <3>3, RedStays, InputsAssumption
    <3> QED BY <3>1, <3>4 DEF Monitor
  <2> QED BY <2>1, <2>2
<1>2. CASE HandleDM \/ UNCHANGED vars
  BY <1>2 DEF HandleDM, vars, monitor
<1>3. CASE BackOnroad \/ IgnitionOn
  BY <1>3 DEF BackOnroad, IgnitionOn, Restart, NoInput
<1> QED BY <1>1, <1>2, <1>3 DEF Next

\* Once the alert is red, only a frame in which nothing is engaged clears it: not the
\* driver's look, nor a hand on the wheel, nor low speed, nor hiding from the camera.
THEOREM RedAlwaysNeedsDisengagement == Spec => RedNeedsDisengagement
<1>1. IInv /\ IInv' /\ [Next]_vars => [ alert_level = "three" /\ sm'.engaged => alert_level' = "three" ]_vars
  BY RedStep
<1> QED BY <1>1, Invariant, PTL DEF Spec, RedNeedsDisengagement
-----------------------------------------------------------------------------
\* A frame without a face, and without a hand that counts, does not lighten orange.
LEMMA HiddenStaysOrange ==
  ASSUME NEW a \in Attentions, NEW in \in InputType, NEW band,
         a.awareness <= Alert2[a.active_policy], in.engaged, ~in.face, ~in.lowspeed,
         in.interacting => a.active_policy = "vision"
  PROVE  NextAlert(a, in, band) \in { "two", "three" }
<1> Full \in Nat \ {0} /\ Below \in Nat
  BY AwarenessAssumption
<1> a.awareness \in Int /\ a.step_change \in Nat /\ a.active_policy \in Policies
  BY AttentionFields
<1> Alert2[a.active_policy] \in Nat
  BY AwarenessAssumption
<1>1. ~IsReset(a, in) /\ ~Recovers(a, in, band)
  BY DEF IsReset, Recovers, LowspeedExemption
<1>2. CountsDown(in, band) /\ ~LowspeedExemption(a, in) /\ ~AlwaysOnExemption(a, in)
  BY DEF CountsDown, LowspeedExemption, AlwaysOnExemption
<1>3. NextAttention(a, in, band) = [ a EXCEPT !.awareness = Larger(a.awareness - a.step_change, -Below) ]
  BY <1>1, <1>2 DEF NextAttention
<1>4. NextAttention(a, in, band).awareness = Larger(a.awareness - a.step_change, -Below)
  BY <1>3 DEF Attentions
<1>5. NextAttention(a, in, band).awareness <= Alert2[a.active_policy]
  BY <1>4 DEF Larger
<1> QED BY <1>1, <1>5 DEF NextAlert

\* Hiding after orange leaves the policy and the awareness as they are.
LEMMA HidingKeepsPolicy ==
  ASSUME NEW a \in Attentions, a.awareness <= Alert2[a.active_policy]
  PROVE  /\ SetPolicy(a, "wheeltouch").awareness = a.awareness
         /\ SetPolicy(a, "wheeltouch").active_policy = a.active_policy
<1>1. a.active_policy \in { "vision", "wheeltouch" }
  BY AttentionFields DEF Policies
<1> QED BY <1>1 DEF SetPolicy, Attentions

LEMMA OrangeStep ==
  ASSUME IInv, [Next]_vars, alert_level \in { "two", "three" }, sm'.engaged, ~sm'.face,
         ~sm'.lowspeed, sm'.interacting => attention.active_policy = "vision"
  PROVE  alert_level' \in { "two", "three" }
<1>1. CASE MonitorFrame
  <2>1. PICK in \in Inputs :
          /\ sm' = in
          /\ IF in.valid THEN \E band \in NextDistraction(in) : Monitor(in, band)
             ELSE UNCHANGED << camera, attention, alert_level, counts, lockout, DriverLockoutCount >>
    BY <1>1 DEF MonitorFrame
  <2>2. CASE in.valid
    <3>1. PICK band \in NextDistraction(in) : Monitor(in, band)
      BY <2>1, <2>2
    <3> DEFINE a == SetPolicy(attention, "wheeltouch")
    <3>2. Target(in) = "wheeltouch" /\ "wheeltouch" \in Policies /\ attention \in Attentions
      BY <2>1 DEF IInv, TypeOK, Target, Policies
    <3>3. attention.awareness <= Alert2[attention.active_policy]
      <4>1. attention.awareness \in Int /\ Alert2[attention.active_policy] \in Nat
        BY <3>2, AttentionFields, AwarenessAssumption
      <4> QED BY <4>1 DEF IInv
    <3>4. a \in Attentions /\ a.awareness = attention.awareness
            /\ a.active_policy = attention.active_policy
      BY <3>2, <3>3, SetPolicyType, HidingKeepsPolicy
    <3>5. NextAlert(a, in, band) \in { "two", "three" }
      BY <2>1, <3>3, <3>4, HiddenStaysOrange, InputsAssumption
    <3> QED BY <3>1, <3>2, <3>5 DEF Monitor
  <2> QED BY <2>1, <2>2
<1>2. CASE HandleDM \/ UNCHANGED vars
  BY <1>2 DEF HandleDM, vars, monitor
<1>3. CASE BackOnroad \/ IgnitionOn
  BY <1>3 DEF BackOnroad, IgnitionOn, Restart, NoInput
<1> QED BY <1>1, <1>2, <1>3 DEF Next

\* An orange or red alert outlasts every frame in which the driver is hidden from the
\* camera, whatever is done at the wheel under the vision policy.
THEOREM OrangeAlwaysRemains == Spec => OrangeRemains
<1> DEFINE Kept ==
      /\ alert_level \in { "two", "three" }
      /\ sm'.engaged /\ ~sm'.face /\ ~sm'.lowspeed
      /\ sm'.interacting => attention.active_policy = "vision"
      => alert_level' \in { "two", "three" }
<1>1. IInv /\ [Next]_vars => [Kept]_vars
  BY OrangeStep
<1>2. OrangeRemains <=> [][Kept]_vars
  BY DEF OrangeRemains
<1> HIDE DEF Kept
<1> QED BY <1>1, <1>2, Invariant, PTL DEF Spec
-----------------------------------------------------------------------------
(* What the driver has been through. The counters of the code are compared   *)
(* with a history of the alerts that does not depend on them.                *)

\* A red alert and an awareness that is used up are the same, so that a frame that
\* begins with some left and ends red is one in which the alert goes to three.
RedIsEmpty == alert_level = "three" <=> attention.awareness <= 0

\* The red alert has lasted for longer than is counted.
RedOutlastsCount ==
  red \in Nat /\ (alert_level = "three" => red >= Smaller(cnt_since_alert_3 + 1, NoResponseFrames + 1))

LockoutInv ==
  /\ strikes = alert_3_cnt
  /\ served \in Nat /\ (lockout_active => served >= lockout_time_elapsed)
  /\ ~lockout_active => lockout_time_elapsed = 0
  /\ lockout_active => lockout_duration = LockoutTime(lockout_count)
  /\ lockout_count = DriverLockoutCount
  /\ lockout_active \/ lockout_message \/ DriverTooDistracted => DriverLockoutCount # 0
  /\ frame_parity \in { 0, 1 }

HistoryInv == IInv /\ RedIsEmpty /\ RedOutlastsCount /\ LockoutInv

LEMMA HistoryStarts == HistoryInit => HistoryInv
<1> SUFFICES ASSUME HistoryInit PROVE HistoryInv
  OBVIOUS
<1>1. IInv
  BY InitInvariant DEF HistoryInit
<1>2. RedIsEmpty
  BY AwarenessAssumption DEF HistoryInit, Init, FullAttention, RedIsEmpty
<1>3. RedOutlastsCount /\ LockoutInv
  BY DEF HistoryInit, Init, RedOutlastsCount, LockoutInv
<1> QED BY <1>1, <1>2, <1>3 DEF HistoryInv

\* A frame that ends red began red, or with awareness left.
LEMMA RedFrame ==
  ASSUME IInv, RedIsEmpty, NEW in \in InputType, NEW band \in NextDistraction(in), Monitor(in, band)
  PROVE  /\ RedIsEmpty'
         /\ SetPolicy(attention, Target(in)).awareness <= 0 <=> alert_level = "three"
         /\ SetPolicy(attention, Target(in)).awareness \in Int
<1> DEFINE a == SetPolicy(attention, Target(in))
           b == IF Recovers(a, in, band) THEN Recovered(a) ELSE a
<1> Full \in Nat \ {0} /\ Below \in Nat
  BY AwarenessAssumption
<1>1. attention \in Attentions /\ Target(in) \in Policies
  BY DEF IInv, TypeOK, Target, Policies
<1>2. a \in Attentions
  BY <1>1, SetPolicyType
<1>3. a.awareness \in Int /\ a.active_policy \in Policies
  BY <1>2, AttentionFields
<1>4. a.awareness <= 0 <=> alert_level = "three"
  <2>1. attention.awareness \in Int /\ attention.saved \in [ Policies -> 1..Full ]
    BY <1>1, AttentionFields
  <2>2. a.awareness \in { attention.awareness, attention.saved[Target(in)] }
    BY <1>1 DEF SetPolicy, TakeOver, Attentions
  <2>3. attention.awareness <= 0 => a.awareness = attention.awareness
    BY <1>1, SetPolicyKeepsRed
  <2>4. attention.saved[Target(in)] \in 1..Full
    BY <1>1, <2>1
  <2> HIDE DEF a
  <2> QED BY <2>1, <2>2, <2>3, <2>4 DEF RedIsEmpty
<1>5. RedIsEmpty'
  <2>1. alert_level' = NextAlert(a, in, band) /\ attention' = NextAttention(a, in, band)
    BY DEF Monitor
  <2>2. Alert2[a.active_policy] \in Nat
    BY <1>3, AwarenessAssumption
  <2>3. attention' \in Attentions
    BY <1>2, <2>1, NextAttentionType
  <2>4. attention'.awareness \in Int
    BY <2>3, AttentionFields
  <2>5. Reset(a).awareness = Full
    BY <1>2 DEF Reset, Attentions
  <2>6. CASE IsReset(a, in) \/ (Recovers(a, in, band) /\ in.interacting)
    <3>1. attention' = Reset(a) /\ alert_level' = "none"
      BY <2>1, <2>6 DEF NextAttention, NextAlert
    <3> QED BY <2>5, <3>1 DEF RedIsEmpty
  <2>7. CASE /\ ~(IsReset(a, in) \/ (Recovers(a, in, band) /\ in.interacting))
             /\ Recovers(a, in, band) /\ b.awareness > Alert2[a.active_policy]
    <3>1. attention' = Recovered(a) /\ alert_level' = "none"
      BY <2>1, <2>7 DEF NextAttention, NextAlert
    <3>2. Recovered(a).awareness > Alert2[a.active_policy]
      BY <2>7
    <3>3. Recovered(a).awareness \in Int
      BY <2>4, <3>1
    <3> HIDE DEF a
    <3> QED BY <2>2, <3>1, <3>2, <3>3 DEF RedIsEmpty
  <2>8. CASE /\ ~(IsReset(a, in) \/ (Recovers(a, in, band) /\ in.interacting))
             /\ ~(Recovers(a, in, band) /\ b.awareness > Alert2[a.active_policy])
    <3>1. alert_level' = "three" <=> NextAttention(a, in, band).awareness <= 0
      BY <2>1, <2>8 DEF NextAlert
    <3> QED BY <2>1, <3>1 DEF RedIsEmpty
  <2> QED BY <2>6, <2>7, <2>8
<1> QED BY <1>3, <1>4, <1>5

\* A lockout ends in a frame only by having been served: none begins and ends in one.
LEMMA ExpiresWhenActive ==
  ASSUME TypeOK, LockoutInv, Expires
  PROVE  lockout_active /\ NextDuration = lockout_duration /\ NextCount = lockout_count
<1>1. lockout_active
  <2> SUFFICES ASSUME ~lockout_active PROVE FALSE
    OBVIOUS
  <2>1. Elapsed \in { 0, 1 }
    BY DEF LockoutInv, Elapsed
  <2>2. Elapsed = 1 => Locks
    BY DEF Elapsed, Locks
  <2>3. NextDuration \in Nat /\ (Locks => NextDuration >= 1)
    <3>1. CASE Locks
      <4>1. NextCount \in 0..MaxLockouts /\ MaxLockouts \in Nat \ {0}
        BY CountsAssumption DEF NextCount, Smaller, TypeOK
      <4>2. Larger(1, NextCount) \in 1..MaxLockouts
        BY <4>1 DEF Larger
      <4> QED BY <3>1, <4>2, CountsAssumption DEF NextDuration, LockoutTime
    <3>2. CASE ~Locks
      BY <3>2, CountsAssumption DEF NextDuration, TypeOK
    <3> QED BY <3>1, <3>2
  <2> QED BY <2>1, <2>2, <2>3 DEF Expires
<1> QED BY <1>1 DEF NextDuration, NextCount, Locks

\* What is counted, in a frame that is looked at, is what the driver has been through.
LEMMA LookedAtFrame ==
  ASSUME HistoryInv, NEW in \in InputType, sm' = in, in.valid,
         NEW band \in NextDistraction(in), Monitor(in, band), RememberFrame,
         lockout_message' = lockout_active', UNCHANGED DriverTooDistracted
  PROVE  RedIsEmpty' /\ RedOutlastsCount' /\ LockoutInv'
<1> DEFINE before == SetPolicy(attention, Target(in)).awareness
           isRed == NextAlert(SetPolicy(attention, Target(in)), in, band) = "three"
<1>1. /\ RedIsEmpty' /\ before \in Int
      /\ before <= 0 <=> alert_level = "three"
  BY RedFrame DEF HistoryInv
<1>2. Counts(before, isRed) /\ (isRed <=> alert_level' = "three")
  BY DEF Monitor
<1>3. /\ lockout_active' = ((Earned \/ lockout_active) /\ ~Expires)
      /\ lockout_time_elapsed' = IF Expires THEN 0 ELSE Elapsed
      /\ lockout_duration' = NextDuration
      /\ lockout_count' = NextCount /\ DriverLockoutCount' = NextCount
  BY DEF Monitor
<1> HIDE DEF before, isRed
<1>4. Expires => lockout_active /\ NextDuration = lockout_duration /\ NextCount = lockout_count
  BY ExpiresWhenActive DEF HistoryInv, IInv
<1>5. Lifted <=> Expires
  BY <1>3, <1>4 DEF Lifted
<1>6. alert_3_cnt \in 0..MaxAlert3 /\ cnt_since_alert_3 \in 0..(NoResponseFrames + 1)
      /\ MaxAlert3 \in Nat \ {0} /\ NoResponseFrames \in Nat \ {0}
  BY CountsAssumption DEF HistoryInv, IInv, TypeOK
<1>7. strikes' = alert_3_cnt'
  <2>1. NewRed <=> isRed /\ before > 0
    BY <1>1, <1>2 DEF NewRed
  <2> QED BY <1>2, <1>5, <2>1 DEF RememberFrame, Counts, HistoryInv, LockoutInv
<1>8. RedOutlastsCount'
  <2>1. red \in Nat /\ (alert_level = "three" => red >= Smaller(cnt_since_alert_3 + 1, NoResponseFrames + 1))
    BY DEF HistoryInv, RedOutlastsCount
  <2>2. red' = IF isRed THEN Smaller(red + 1, NoResponseFrames + 1) ELSE 0
    BY <1>2 DEF RememberFrame
  <2>3. red' \in Nat
    BY <1>6, <2>1, <2>2 DEF Smaller
  <2>4. CASE isRed /\ before > 0
    <3>1. cnt_since_alert_3' = 0
      BY <1>2, <2>4 DEF Counts
    <3> QED BY <1>6, <2>1, <2>2, <2>3, <2>4, <3>1 DEF RedOutlastsCount, Smaller
  <2>5. CASE isRed /\ ~(before > 0)
    <3>1. \/ cnt_since_alert_3' = Smaller(cnt_since_alert_3 + 1, NoResponseFrames + 1)
          \/ cnt_since_alert_3' = Smaller(0 + 1, NoResponseFrames + 1)
      BY <1>2, <2>5 DEF Counts
    <3>2. alert_level = "three"
      BY <1>1, <2>5
    <3> QED BY <1>6, <2>1, <2>2, <2>3, <2>5, <3>1, <3>2 DEF RedOutlastsCount, Smaller
  <2>6. CASE ~isRed
    BY <1>2, <2>3, <2>6 DEF RedOutlastsCount
  <2> QED BY <2>4, <2>5, <2>6
<1>9. served' \in Nat /\ (lockout_active' => served' >= lockout_time_elapsed')
  <2>1. served \in Nat /\ lockout_time_elapsed \in Nat
        /\ (lockout_active => served >= lockout_time_elapsed)
        /\ (~lockout_active => lockout_time_elapsed = 0)
    BY DEF HistoryInv, LockoutInv, IInv, TypeOK
  <2>2. served' = IF ~lockout_active /\ ~lockout_active' THEN 0 ELSE served + 1
    BY DEF RememberFrame
  <2>3. lockout_active' => lockout_time_elapsed' = lockout_time_elapsed + 1
    BY <1>3 DEF Elapsed
  <2> QED BY <2>1, <2>2, <2>3
<1>10. ~lockout_active' => lockout_time_elapsed' = 0
  BY <1>3 DEF Elapsed
<1>11. lockout_active' => lockout_duration' = LockoutTime(lockout_count')
  <2>1. LockoutTime(lockout_count') = LockoutTime(NextCount)
    BY <1>3
  <2>2. CASE Locks
    BY <1>3, <2>1, <2>2 DEF NextDuration
  <2>3. CASE ~Locks
    BY <1>3, <2>1, <2>3 DEF NextDuration, NextCount, Locks, HistoryInv, LockoutInv
  <2> QED BY <2>2, <2>3
<1>12. lockout_active' \/ lockout_message' \/ DriverTooDistracted' => DriverLockoutCount' # 0
  <2>1. lockout_count \in 0..MaxLockouts /\ MaxLockouts \in Nat \ {0}
    BY CountsAssumption DEF HistoryInv, IInv, TypeOK
  <2>2. Locks \/ lockout_count # 0 => NextCount # 0
    BY <2>1 DEF NextCount, Smaller
  <2>3. lockout_active' => Locks \/ lockout_active
    BY <1>3 DEF Locks
  <2> QED BY <1>3, <2>2, <2>3 DEF HistoryInv, LockoutInv
<1>13. frame_parity' \in { 0, 1 }
  BY DEF RememberFrame, HistoryInv, LockoutInv
<1> QED BY <1>1, <1>3, <1>7, <1>8, <1>9, <1>10, <1>11, <1>12, <1>13 DEF LockoutInv

LEMMA HistoryStep == HistoryInv /\ [HistoryNext]_<< vars, history >> => HistoryInv'
<1> SUFFICES ASSUME HistoryInv, [HistoryNext]_<< vars, history >> PROVE HistoryInv'
  OBVIOUS
<1>1. IInv'
  BY StepInvariant DEF HistoryInv, HistoryNext, Next
<1>2. CASE MonitorFrame /\ RememberFrame
  <2>1. PICK in \in Inputs :
          /\ sm' = in
          /\ IF in.valid THEN \E band \in NextDistraction(in) : Monitor(in, band)
             ELSE UNCHANGED << camera, attention, alert_level, counts, lockout, DriverLockoutCount >>
    BY <1>2 DEF MonitorFrame
  <2>2. in \in InputType /\ lockout_message' = lockout_active' /\ UNCHANGED DriverTooDistracted
    BY <1>2, InputsAssumption DEF MonitorFrame
  <2>3. CASE in.valid
    BY <1>1, <1>2, <2>1, <2>2, <2>3, LookedAtFrame DEF HistoryInv
  <2>4. CASE ~in.valid
    <3>1. /\ UNCHANGED << attention, alert_level, alert_3_cnt, cnt_since_alert_3, lockout_active,
                          lockout_count, lockout_duration, lockout_time_elapsed, DriverLockoutCount >>
      BY <2>1, <2>4 DEF counts, lockout
    <3>2. RedIsEmpty'
      BY <3>1 DEF HistoryInv, RedIsEmpty
    <3>3. red' = IF alert_level = "three" THEN red ELSE 0
      BY <1>2, <2>1, <2>4, <3>1 DEF RememberFrame
    <3>4. RedOutlastsCount'
      BY <3>1, <3>3 DEF HistoryInv, RedOutlastsCount
    <3>5. strikes' = alert_3_cnt'
      <4>1. strikes' = Smaller(strikes + 0, MaxAlert3)
        BY <1>2, <3>1 DEF RememberFrame, Lifted, NewRed
      <4>2. strikes \in 0..MaxAlert3 /\ MaxAlert3 \in Nat
        BY CountsAssumption DEF HistoryInv, LockoutInv, IInv, TypeOK
      <4> QED BY <3>1, <4>1, <4>2 DEF Smaller, HistoryInv, LockoutInv
    <3>6. served' = IF lockout_active THEN served ELSE 0
      BY <1>2, <2>1, <2>4, <3>1 DEF RememberFrame, HistoryInv, IInv, TypeOK
    <3>7. frame_parity' \in { 0, 1 }
      BY <1>2 DEF RememberFrame, HistoryInv, LockoutInv
    <3>8. LockoutInv'
      BY <2>2, <3>1, <3>5, <3>6, <3>7 DEF HistoryInv, LockoutInv, LockoutTime
    <3> QED BY <1>1, <3>2, <3>4, <3>8 DEF HistoryInv
  <2> QED BY <2>3, <2>4
<1>3. CASE HandleDM /\ UNCHANGED history
  BY <1>1, <1>3 DEF HandleDM, history, monitor, counts, lockout, HistoryInv, RedIsEmpty,
                    RedOutlastsCount, LockoutInv, LockoutTime
<1>4. ASSUME NEW ignition \in BOOLEAN, Restart(ignition), ForgetAll PROVE HistoryInv'
  <2>1. RedIsEmpty'
    BY <1>4, AwarenessAssumption DEF Restart, FullAttention, RedIsEmpty
  <2>2. RedOutlastsCount'
    BY <1>4 DEF Restart, ForgetAll, RedOutlastsCount
  <2>3. LockoutInv'
    <3>1. /\ lockout_active' = (DriverTooDistracted /\ ~ignition)
          /\ DriverTooDistracted' = (DriverTooDistracted /\ ~ignition) /\ ~lockout_message'
          /\ lockout_count' = DriverLockoutCount' /\ lockout_duration' = LockoutTime(lockout_count')
          /\ lockout_time_elapsed' = 0 /\ strikes' = alert_3_cnt' /\ served' = 0
          /\ DriverLockoutCount' = IF ignition THEN 0 ELSE DriverLockoutCount
          /\ frame_parity' = frame_parity
      BY <1>4 DEF Restart, Starts, ForgetAll, LockoutTime
    <3>2. DriverTooDistracted' => DriverTooDistracted /\ DriverLockoutCount' = DriverLockoutCount
      BY <3>1
    <3> QED BY <3>1, <3>2 DEF LockoutInv, HistoryInv
  <2> QED BY <1>1, <2>1, <2>2, <2>3 DEF HistoryInv
<1>5. CASE UNCHANGED << vars, history >>
  BY <1>1, <1>5 DEF vars, history, monitor, counts, lockout, params, HistoryInv, RedIsEmpty,
                    RedOutlastsCount, LockoutInv, LockoutTime
<1> QED BY <1>2, <1>3, <1>4, <1>5 DEF HistoryNext, BackOnroad, IgnitionOn

LEMMA HistoryInvariant == HistorySpec => []HistoryInv
  BY HistoryStarts, HistoryStep, PTL DEF HistorySpec

\* The car is stopped only for a driver who has not answered this red alert, without a
\* break, for longer than no_response_timeout.
THEOREM ForceDecelIsAlwaysEarned == HistorySpec => []ForceDecelIsEarned
<1>1. HistoryInv => ForceDecelIsEarned
  <2> SUFFICES ASSUME HistoryInv, alert_level = "three", cnt_since_alert_3 >= NoResponseFrames
               PROVE  red > NoResponseFrames
    BY DEF ForceDecelIsEarned, NoResponseForceDecel
  <2> NoResponseFrames \in Nat /\ cnt_since_alert_3 \in 0..(NoResponseFrames + 1)
    BY CountsAssumption DEF HistoryInv, IInv, TypeOK
  <2> QED BY DEF HistoryInv, RedOutlastsCount, Smaller
<1> QED BY <1>1, HistoryInvariant, PTL

\* What ends a lockout that selfdrived has noted, in a frame: only its time.
LEMMA ServedStep ==
  ASSUME HistoryInv, [HistoryNext]_<< vars, history >>,
         DriverTooDistracted, lockout_active, ~lockout_active'
  PROVE  served' > LockoutTime(lockout_count) \/ DriverLockoutCount' < DriverLockoutCount
<1>1. CASE MonitorFrame /\ RememberFrame
  <2>1. PICK in \in Inputs :
          /\ sm' = in
          /\ IF in.valid THEN \E band \in NextDistraction(in) : Monitor(in, band)
             ELSE UNCHANGED << camera, attention, alert_level, counts, lockout, DriverLockoutCount >>
    BY <1>1 DEF MonitorFrame
  <2>2. in.valid /\ Expires
    BY <2>1 DEF lockout, Monitor
  <2>3. NextDuration = LockoutTime(lockout_count) /\ Elapsed = lockout_time_elapsed + 1
    BY <2>2, ExpiresWhenActive DEF HistoryInv, LockoutInv, IInv, Elapsed
  <2>4. served' = served + 1
    BY <1>1, <2>1, <2>2 DEF RememberFrame
  <2>5. /\ served \in Nat /\ lockout_time_elapsed \in Nat /\ served >= lockout_time_elapsed
        /\ NextDuration \in Nat
    <3>1. lockout_duration \in Nat
      BY CountsAssumption DEF HistoryInv, IInv, TypeOK
    <3> QED BY <3>1, <2>2, ExpiresWhenActive DEF HistoryInv, LockoutInv, IInv, TypeOK
  <2> QED BY <2>2, <2>3, <2>4, <2>5 DEF Expires
<1>2. CASE HandleDM \/ UNCHANGED << vars, history >>
  BY <1>2 DEF HandleDM, vars, monitor, lockout
<1>3. CASE BackOnroad
  BY <1>3 DEF BackOnroad, Restart, Starts
<1>4. CASE IgnitionOn
  <2>1. DriverLockoutCount' = 0
    BY <1>4 DEF IgnitionOn, Restart
  <2>2. DriverLockoutCount \in 0..MaxLockouts /\ DriverLockoutCount # 0
    BY DEF HistoryInv, LockoutInv, IInv, TypeOK
  <2> QED BY <2>1, <2>2, CountsAssumption
<1> QED BY <1>1, <1>2, <1>3, <1>4 DEF HistoryNext

\* Enough red alerts lock engaging out with the next frame, whatever lay between them,
\* and a lockout that selfdrived has noted is served in full, also by a new process.
THEOREM LockoutsAreAlwaysReal == HistorySpec => LockoutsAreReal
<1> DEFINE Locked == Frame /\ strikes >= MaxAlert3 => lockout_active \/ lockout_active'
           Served == /\ DriverTooDistracted /\ lockout_active /\ ~lockout_active'
                     => served' > LockoutTime(lockout_count) \/ DriverLockoutCount' < DriverLockoutCount
<1>1. HistoryInv /\ [HistoryNext]_<< vars, history >> => [Locked]_<< vars, history >>
  <2> SUFFICES ASSUME HistoryInv, HistoryNext, Frame, strikes >= MaxAlert3, ~lockout_active
               PROVE  lockout_active'
    OBVIOUS
  <2>1. MonitorFrame /\ RememberFrame
    BY DEF HistoryNext, ForgetAll, Frame, history
  <2>2. PICK in \in Inputs : \E band \in NextDistraction(in) : Monitor(in, band)
    BY <2>1 DEF MonitorFrame, Frame
  <2>3. Earned
    BY DEF Earned, HistoryInv, LockoutInv
  <2>4. ~Expires
    BY ExpiresWhenActive DEF HistoryInv, IInv
  <2> QED BY <2>2, <2>3, <2>4 DEF Monitor
<1>2. HistoryInv /\ [HistoryNext]_<< vars, history >> => [Served]_<< vars, history >>
  BY ServedStep
<1>3. HistorySpec => [][Locked]_<< vars, history >>
  BY <1>1, HistoryInvariant, PTL DEF HistorySpec
<1>4. HistorySpec => [][Served]_<< vars, history >>
  BY <1>2, HistoryInvariant, PTL DEF HistorySpec
<1> QED BY <1>3, <1>4 DEF LockoutsAreReal, RepeatedRedLocksOut, LockoutIsServed
=============================================================================
