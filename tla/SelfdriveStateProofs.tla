------------------------ MODULE SelfdriveStateProofs ------------------------
(***************************************************************************)
(* Theorems about selfdrived's state machine on its own, for every pool of *)
(* events and every length of the soft disable.                            *)
(***************************************************************************)
EXTENDS SelfdriveStateMachine, SelfdriveStateLemmas

\* The inductive invariant: TypeOK alone forgets that a softDisabling state has
\* time left, which the count-down of the contract starts from.
IInv == TypeOK /\ SoftDisableRuns

LEMMA InitInvariant == Init => IInv
  BY SoftDisableFramesAssumption DEF Init, IInv, TypeOK, SoftDisableRuns, States, EventTypes

LEMMA StepInvariant == IInv /\ [Next]_vars => IInv'
<1> SUFFICES ASSUME IInv, [Next]_vars PROVE IInv'
  OBVIOUS
<1>1. ASSUME NEW E \in SUBSET EventPool, Update(E) PROVE IInv'
  <2> DEFINE T == TypesIn(E)
  <2>1. state' \in States
    BY <1>1, NextStateType DEF Update, IInv, TypeOK
  <2>2. soft_disable_timer' \in 0..SoftDisableFrames
    BY <1>1, NextTimerType DEF Update, IInv, TypeOK
  <2>3. current_alert_types' \subseteq EventTypes
    BY <1>1, AlertsTell DEF Update, IInv, TypeOK
  <2>4. events' \subseteq EventPool
    BY <1>1 DEF Update
  <2>5. SoftDisableRuns'
    BY <1>1, SoftDisablingHasTime DEF Update, IInv, TypeOK, SoftDisableRuns
  <2> QED BY <2>1, <2>2, <2>3, <2>4, <2>5 DEF IInv, TypeOK
<1>2. CASE UNCHANGED vars
  BY <1>2 DEF vars, IInv, TypeOK, SoftDisableRuns
<1> QED BY <1>1, <1>2 DEF Next

\* The state, the timer and the alert types of the state machine keep their types.
THEOREM TypeCorrect == Spec => []TypeOK
<1>1. IInv => TypeOK
  BY DEF IInv
<1> QED BY <1>1, InitInvariant, StepInvariant, PTL DEF Spec

\* softDisabling never outlives its timer, whatever the events of any frame.
THEOREM SoftDisableAlwaysRuns == Spec => []SoftDisableRuns
<1>1. IInv => SoftDisableRuns
  BY DEF IInv
<1> QED BY <1>1, InitInvariant, StepInvariant, PTL DEF Spec

\* StateMachine.update implements the contract of Engagement.
THEOREM KeepsEngagementContract == Spec => ImplementsEngagement
<1> DEFINE told == current_alert_types
                     \intersect { "immediateDisable", "userDisable", "softDisable" } # {}
<1>1. Init => EngagementContract!Init
  BY DEF Init, EngagementContract!Init
<1>2. IInv /\ [Next]_vars => [EngagementContract!Next]_EngagementContract!vars
  <2> SUFFICES ASSUME IInv, [Next]_vars
               PROVE  [EngagementContract!Next]_EngagementContract!vars
    OBVIOUS
  <2>1. ASSUME NEW E \in SUBSET EventPool, Update(E) PROVE EngagementContract!Next
    <3> DEFINE T == TypesIn(E)
    <3>1. /\ state' = NextState(state, soft_disable_timer, T)
          /\ soft_disable_timer' = NextTimer(state, soft_disable_timer, T)
          /\ current_alert_types' = AlertTypes(state, soft_disable_timer, T)
      BY <2>1 DEF Update
    <3>2. /\ state \in States /\ soft_disable_timer \in 0..SoftDisableFrames
          /\ state = "softDisabling" => soft_disable_timer >= 1
      BY DEF IInv, TypeOK, SoftDisableRuns
    <3>3. /\ state' = "softDisabling" => told'
          /\ state # "disabled" /\ Disabling(T) => told'
      BY <3>1, <3>2, AlertsTell
    <3>4. ContractAllows(state, Grace(state, soft_disable_timer),
                         state', Grace(state', soft_disable_timer'), told', FALSE)
      BY <3>1, <3>2, <3>3, StepKeepsContract
    <3>5. told' \in BOOLEAN
      OBVIOUS
    <3> QED
      BY <3>4, <3>5 DEF ContractAllows, Grace, EngagementContract!Next,
         EngagementContract!Engage, EngagementContract!Drive,
         EngagementContract!BeginSoftDisable, EngagementContract!CountDown,
         EngagementContract!Recover, EngagementContract!Expire,
         EngagementContract!Disengage, EngagementContract!Idle
  <2>2. CASE UNCHANGED vars
    BY <2>2 DEF vars, EngagementContract!vars
  <2> QED BY <2>1, <2>2 DEF Next
<1> QED
  BY <1>1, <1>2, InitInvariant, StepInvariant, PTL
     DEF Spec, ImplementsEngagement, EngagementContract!Spec
=============================================================================
