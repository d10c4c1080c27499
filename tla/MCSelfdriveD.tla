---------------------------- MODULE MCSelfdriveD ----------------------------
(* Small cars, small drivers, small systems for SelfdriveD.  A frame's      *)
(* carState differs from steady driving in a few fields at a time: what is  *)
(* bounded is how much happens in one frame, not in which order.            *)
EXTENDS SelfdriveD, FiniteSets

Cruising == [ NoCarState EXCEPT !.can = "valid", !.available = TRUE, !.gear = "drive",
                                !.slow = FALSE ]

Deviations(c) == Cardinality({ f \in DOMAIN Cruising \ { "slow" } : c[f] # Cruising[f] })

\* The pedals, main cruise and the LKAS button of a car that engages cruise itself.
PedalCarStates ==
  { c \in [ can : { "valid" }, available : BOOLEAN, cruiseEnabled : BOOLEAN,
            buttonEnable : { FALSE }, brakePressed : BOOLEAN, gasPressed : BOOLEAN,
            steeringPressed : { FALSE }, standstill : BOOLEAN, slow : BOOLEAN,
            gear : { "drive" }, blockPcmEnable : { FALSE }, button : { "none", "lkas" },
            flags : { {} } ] :
      c.slow = c.standstill /\ Deviations(c) <= 2 }

\* Faults of a car that is engaged with buttons.
FaultCarStates ==
  { c \in [ can : { "valid", "invalid", "timeout" }, available : { TRUE },
            cruiseEnabled : { FALSE }, buttonEnable : BOOLEAN, brakePressed : BOOLEAN,
            gasPressed : { FALSE }, steeringPressed : BOOLEAN, standstill : BOOLEAN,
            slow : BOOLEAN, gear : { "drive", "park" }, blockPcmEnable : { FALSE },
            button : { "none", "lkas" },
            flags : { {}, { "doorOpen" }, { "brakeHold" } } ] :
      /\ c.slow = c.standstill
      /\ Deviations(c) <= IF c.steeringPressed THEN 1 ELSE 2 }
    \union { [ Cruising EXCEPT !.buttonEnable = TRUE, !.brakePressed = TRUE,
                               !.standstill = TRUE, !.slow = TRUE ],
               [ Cruising EXCEPT !.slow = TRUE,
                                 !.flags = { "belowEngageSpeed", "speedTooLow" } ] }

AllWell  == { [ long |-> TRUE, lat |-> TRUE ] }
AnyPanda == PandaType

PedalSystem == { {} }
FaultSystem == { {}, { "commIssue" }, { "bigModelFailed" }, { "relayMalfunction" } }

SomeParams(modes, unified, gas) ==
  { p \in ParamType :
      /\ p.enabled_toggle
      /\ p.steering_mode_on_brake \in modes
      /\ p.unified_engagement_mode \in unified
      /\ p.disengage_on_accelerator \in gas }

PedalParams == SomeParams(SteeringModes, BOOLEAN, { TRUE })
FaultParams == { p \in SomeParams({ "pause", "disengage" }, { TRUE }, { FALSE }) : p.main_enabled_toggle }
LiveSystem  == { {}, { "commIssue" } }
=============================================================================
