------------------------ MODULE SelfdriveStateLemmas ------------------------
(***************************************************************************)
(* Facts about the operators of SelfdriveState, for any state, timer and   *)
(* set of event types: what the proofs about the machine on its own and    *)
(* about SelfdriveD rest on.                                               *)
(***************************************************************************)
EXTENDS SelfdriveState, TLAPS

\* A type is in a frame when one of the frame's events carries it.
LEMMA TypesInEvents ==
  ASSUME NEW E, NEW et \in DOMAIN EventsOfType
  PROVE  et \in TypesIn(E) <=> E \intersect EventsOfType[et] # {}
<1>1. \A e \in EventsOfType[et] : e \in EventName
  BY DEF EventName
<1>2. \A e \in EventName : TypesOf[e] = { k \in DOMAIN EventsOfType : e \in EventsOfType[k] }
  BY DEF TypesOf
<1> QED BY <1>1, <1>2 DEF TypesIn

\* The names of the types the proofs meet.
LEMMA TypeNames ==
  { "enable", "preEnable", "overrideLateral", "overrideLongitudinal", "noEntry",
    "userDisable", "softDisable", "immediateDisable" } = DOMAIN EventsOfType
  BY DEF EventsOfType

\* The step stays within the states, whatever the events.
LEMMA NextStateType ==
  ASSUME NEW s \in States, NEW t, NEW T
  PROVE  NextState(s, t, T) \in States
  BY DEF NextState, States

\* The timer stays within its bounds, whatever the events.
LEMMA NextTimerType ==
  ASSUME NEW s, NEW t \in 0..SoftDisableFrames, NEW T
  PROVE  NextTimer(s, t, T) \in 0..SoftDisableFrames
  BY SoftDisableFramesAssumption DEF NextTimer, Tick

\* A state that is softDisabling after the step has a running timer.
LEMMA SoftDisablingHasTime ==
  ASSUME NEW s \in States, NEW t \in 0..SoftDisableFrames, NEW T,
         NextState(s, t, T) = "softDisabling"
  PROVE  NextTimer(s, t, T) \in 1..SoftDisableFrames
<1>1. CASE s \in { "enabled", "overriding" }
  BY <1>1, SoftDisableFramesAssumption DEF NextTimer
<1>2. CASE s = "softDisabling"
  BY <1>2, SoftDisableFramesAssumption DEF NextTimer, NextState, Tick
<1>3. s \notin { "disabled", "preEnabled" }
  BY DEF NextState
<1> QED BY <1>1, <1>2, <1>3 DEF States

\* An event that disables ends every state.
LEMMA DisablingDisables ==
  ASSUME NEW s \in States \ { "disabled" }, NEW t, NEW T, Disabling(T)
  PROVE  NextState(s, t, T) = "disabled"
  BY DEF NextState, States

\* What the alert types tell the driver: softDisabling after the step is shown,
\* and a non-disabled state that an event ends is announced.
LEMMA AlertsTell ==
  ASSUME NEW s \in States, NEW t \in 0..SoftDisableFrames, NEW T
  PROVE  /\ AlertTypes(s, t, T) \subseteq EventTypes
         /\ NextState(s, t, T) = "softDisabling" => "softDisable" \in AlertTypes(s, t, T)
         /\ s # "disabled" /\ Disabling(T)
              => AlertTypes(s, t, T) \intersect { "immediateDisable", "userDisable" } # {}
  BY DEF AlertTypes, EventTypes, Disabling

-----------------------------------------------------------------------------
(* The steps of Engagement as a relation between values.                    *)

Grace(s, t) == IF s = "softDisabling" THEN t ELSE 0

ContractAllows(m, g, m2, g2, told, hushed) ==
  \/ m = "disabled" /\ m2 \in { "preEnabled", "enabled", "overriding" } /\ g2 = 0
  \/ m = "preEnabled" /\ m2 \in { "preEnabled", "enabled" } /\ g2 = 0
  \/ m \in { "enabled", "overriding" } /\ m2 \in { "enabled", "overriding" } /\ g2 = 0
  \/ m \in { "enabled", "overriding" } /\ m2 = "softDisabling"
       /\ g2 = SoftDisableFrames /\ told
  \/ m = "softDisabling" /\ m2 = "softDisabling" /\ g > 1 /\ g2 = g - 1 /\ told
  \/ m = "softDisabling" /\ m2 = "enabled" /\ g2 = 0
  \/ m = "softDisabling" /\ m2 = "disabled" /\ g = 1 /\ g2 = 0
  \/ m # "disabled" /\ m2 = "disabled" /\ g2 = 0 /\ (told \/ hushed)
  \/ m = "disabled" /\ m2 = "disabled" /\ g2 = 0

\* Every step of the state machine is one the contract allows, when the driver is
\* told at least what the alert types of the step tell, or the end is hushed.
LEMMA StepKeepsContract ==
  ASSUME NEW s \in States, NEW t \in 0..SoftDisableFrames, NEW T,
         s = "softDisabling" => t >= 1,
         NEW told, NEW hushed,
         NextState(s, t, T) = "softDisabling" => told,
         s # "disabled" /\ Disabling(T) => told \/ hushed
  PROVE  ContractAllows(s, Grace(s, t), NextState(s, t, T),
                        Grace(NextState(s, t, T), NextTimer(s, t, T)), told, hushed)
<1> DEFINE n == NextState(s, t, T)
<1>1. CASE s = "disabled"
  BY <1>1 DEF NextState, Grace, ContractAllows
<1>2. CASE s # "disabled" /\ Disabling(T)
  BY <1>2, DisablingDisables DEF Grace, ContractAllows
<1>3. CASE s = "preEnabled" /\ ~Disabling(T)
  BY <1>3 DEF NextState, Grace, ContractAllows
<1>4. CASE s \in { "enabled", "overriding" } /\ ~Disabling(T)
  <2>1. CASE "softDisable" \in T
    <3>1. n = "softDisabling"
      BY <1>4, <2>1 DEF NextState
    <3>2. NextTimer(s, t, T) = SoftDisableFrames
      BY <1>4, <3>1 DEF NextTimer
    <3> QED BY <1>4, <3>1, <3>2 DEF Grace, ContractAllows
  <2>2. CASE "softDisable" \notin T
    <3>1. n \in { "enabled", "overriding" }
      BY <1>4, <2>2 DEF NextState
    <3> QED BY <1>4, <3>1 DEF Grace, ContractAllows
  <2> QED BY <2>1, <2>2
<1>5. CASE s = "softDisabling" /\ ~Disabling(T)
  <2>1. NextTimer(s, t, T) = t - 1 /\ Tick(t) = t - 1
    BY <1>5 DEF NextTimer, Tick
  <2>2. CASE "softDisable" \notin T
    <3>1. n = "enabled"
      BY <1>5, <2>2 DEF NextState
    <3> QED BY <1>5, <3>1 DEF Grace, ContractAllows
  <2>3. CASE "softDisable" \in T /\ t > 1
    <3>1. n = "softDisabling"
      BY <1>5, <2>1, <2>3 DEF NextState
    <3> QED BY <1>5, <2>1, <2>3, <3>1 DEF Grace, ContractAllows
  <2>4. CASE "softDisable" \in T /\ t = 1
    <3>1. n = "disabled"
      BY <1>5, <2>1, <2>4 DEF NextState
    <3> QED BY <1>5, <2>4, <3>1 DEF Grace, ContractAllows
  <2> QED BY <1>5, <2>2, <2>3, <2>4
<1> QED BY <1>1, <1>2, <1>3, <1>4, <1>5 DEF States
=============================================================================
