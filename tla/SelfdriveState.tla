--------------------------- MODULE SelfdriveState ---------------------------
(***************************************************************************)
(* StateMachine of selfdrive/selfdrived/state.py: what selfdrived does     *)
(* with the events of one control frame (100 Hz).                          *)
(*                                                                         *)
(* The step is written as operators on the state s, the soft-disable timer *)
(* t and the types T of the frame's events, because MADS shares the timer  *)
(* and the alert types: SelfdriveStateMachine runs them on their own,      *)
(* SelfdriveD composes them with the operators of Mads.                    *)
(***************************************************************************)
EXTENDS OnroadEvents, Integers

CONSTANT SoftDisableFrames   \* int(SOFT_DISABLE_TIME / DT_CTRL), 300 in the code

ASSUME SoftDisableFramesAssumption == SoftDisableFrames \in Nat \ {0}

States       == { "disabled", "preEnabled", "enabled", "softDisabling", "overriding" }
ActiveStates == { "enabled", "softDisabling", "overriding" }
EnabledStates == { "preEnabled" } \union ActiveStates

Overriding(T) == "overrideLateral" \in T \/ "overrideLongitudinal" \in T

\* An event that ends every non-disabled state at once.
Disabling(T) == "immediateDisable" \in T \/ "userDisable" \in T

\* The timer is decremented at the start of every step ...
Tick(t) == IF t > 0 THEN t - 1 ELSE 0

Entering(T) == "enable" \in T /\ "noEntry" \notin T

NextState(s, t, T) ==
  CASE s = "disabled" /\ Entering(T) /\ "preEnable" \in T  -> "preEnabled"
    [] s = "disabled" /\ Entering(T) /\ "preEnable" \notin T ->
         IF Overriding(T) THEN "overriding" ELSE "enabled"
    [] s = "disabled" /\ ~Entering(T)     -> "disabled"
    [] s # "disabled" /\ Disabling(T)     -> "disabled"
    [] s = "preEnabled" /\ ~Disabling(T)  ->
         IF "preEnable" \in T THEN "preEnabled" ELSE "enabled"
    [] s = "softDisabling" /\ ~Disabling(T) ->
         IF "softDisable" \notin T THEN "enabled"
         ELSE IF Tick(t) > 0 THEN "softDisabling" ELSE "disabled"
    [] OTHER -> \* enabled or overriding
         IF "softDisable" \in T THEN "softDisabling"
         ELSE IF Overriding(T) THEN "overriding" ELSE "enabled"

\* ... and reset on entrance in softDisabling.
NextTimerNotFromOverriding(s, t, T) ==                    \* mutant: one entrance forgotten
  IF s = "enabled" /\ NextState(s, t, T) = "softDisabling"
    THEN SoftDisableFrames ELSE Tick(t)
NextTimer(s, t, T) ==
  IF s \in { "enabled", "overriding" } /\ NextState(s, t, T) = "softDisabling"
    THEN SoftDisableFrames
    ELSE Tick(t)

\* The alert types the step leaves for update_alerts.
AlertTypes(s, t, T) ==
  LET n == NextState(s, t, T) IN
    { a \in EventTypes :
        \/ a = "permanent"
        \/ a \in { "immediateDisable", "userDisable" }
             /\ s # "disabled" /\ a \in T
             /\ (a = "userDisable" => "immediateDisable" \notin T)
        \/ a = "softDisable" /\ n = "softDisabling"
        \/ a \in { "overrideLateral", "overrideLongitudinal" }
             /\ s \in { "enabled", "overriding" } /\ n = "overriding"
        \/ a = "preEnable" /\ s = "preEnabled" /\ n = "preEnabled"
        \/ a = "noEntry" /\ s = "disabled" /\ { "enable", "noEntry" } \subseteq T
        \/ a = "enable" /\ s = "disabled" /\ n # "disabled"
        \/ a = "warning" /\ n \in ActiveStates }
=============================================================================
