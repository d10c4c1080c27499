------------------------ MODULE SelfdriveStateMachine ------------------------
(***************************************************************************)
(* The StateMachine object of selfdrive/selfdrived/state.py on its own,    *)
(* fed any set of events in any frame: what it promises whatever selfdrived *)
(* puts into the Events object.                                            *)
(***************************************************************************)
EXTENDS SelfdriveState

CONSTANT EventPool   \* the events a frame may hold

VARIABLES
  state,                \* StateMachine.state
  soft_disable_timer,   \* StateMachine.soft_disable_timer
  current_alert_types,  \* StateMachine.current_alert_types
  events                \* the Events object of the frame

vars == << state, soft_disable_timer, current_alert_types, events >>

TypeOK ==
  /\ state \in States
  /\ soft_disable_timer \in 0..SoftDisableFrames
  /\ current_alert_types \subseteq EventTypes
  /\ events \subseteq EventPool

Init ==
  /\ state = "disabled"
  /\ soft_disable_timer = 0
  /\ current_alert_types = { "permanent" }
  /\ events = {}

\* StateMachine.update(events)
Update(E) ==
  /\ state' = NextState(state, soft_disable_timer, TypesIn(E))
  /\ soft_disable_timer' = NextTimer(state, soft_disable_timer, TypesIn(E))
  /\ current_alert_types' = AlertTypes(state, soft_disable_timer, TypesIn(E))
  /\ events' = E

Next == \E E \in SUBSET EventPool : Update(E)

Spec == Init /\ [][Next]_vars

-----------------------------------------------------------------------------
\* A soft disable never outlives its timer: while softDisabling the timer is
\* running, so the state is left by the frame that finds it at zero.
SoftDisableRuns == state = "softDisabling" => soft_disable_timer \in 1..SoftDisableFrames

\* A condition that calls for a soft disable and stays ends the engagement,
\* whatever else comes and goes.  preEnabled does not look at SOFT_DISABLE: it
\* needs the brake to be released (preEnable to go) for this to happen.
PersistentFaultDisengages ==
  <>[](events \intersect SoftAndNoEntry # {} /\ "preEnableStandstill" \notin events)
    => <>[](state = "disabled")

\* The state machine keeps the contract of Engagement: a soft disable counts
\* down frame by frame and asks for its alert, and no state is given up without
\* asking for one.  Nothing is hushed here: MADS comes after it.
EngagementContract ==
  INSTANCE Engagement WITH
    mode  <- state,
    grace <- IF state = "softDisabling" THEN soft_disable_timer ELSE 0,
    told  <- current_alert_types
               \intersect { "immediateDisable", "userDisable", "softDisable" } # {},
    hushed <- FALSE

ImplementsEngagement == EngagementContract!Spec
=============================================================================
