------------------------------ MODULE MCLateral ------------------------------
(***************************************************************************)
(* The two state machines of the steering that run beside selfdrived,      *)
(* checked in two parts of one run; a behaviour belongs to one:            *)
(*   change:   DesireHelper, in frames that differ from a fast drive with  *)
(*             steering on in a few inputs at a time;                      *)
(*   controls: controlsd, with a few messages that matter to the steering. *)
(* What a part has been through is kept in auxiliary variables.            *)
(***************************************************************************)
EXTENDS DesireHelper, ControlsD, FiniteSets

CONSTANT MaxDelay   \* bound on the control frames counted

VARIABLES
  part,
  frame_parity   \* of the turns of the loop: a frame like the one before it is a
                 \* step that fairness can ask for
-----------------------------------------------------------------------------
(* The lane change.                                                         *)

Driving == [ blinkers |-> {}, speed |-> "fast", torque |-> "none", brakePressed |-> FALSE,
             blindspot |-> {}, edge |-> {}, lateral_active |-> TRUE, done |-> TRUE ]

Deviations(in) == Cardinality({ f \in DOMAIN Driving \ { "blinkers" } : in[f] # Driving[f] })

FewInputs(n) ==
  { in \in [ blinkers : { {}, { "left" }, { "right" }, Sides }, speed : { "turn", "slow", "fast" },
             torque : { "none", "left", "right" }, brakePressed : BOOLEAN,
             blindspot : { {}, { "left" } }, edge : { {}, { "right" } },
             lateral_active : BOOLEAN, done : BOOLEAN ] :
      Deviations(in) <= n }

\* One thing at a time, less while the right blinker is on, a nudge towards a car in the
\* blind spot, and a brake that pauses the steering.
OneInput ==
  { in \in FewInputs(1) :
      "right" \in in.blinkers => Deviations(in) = 0 \/ in.edge = { "right" } \/ in.torque = "right" }
  \union { in \in FewInputs(2) :
             /\ "right" \notin in.blinkers
             /\ \/ in.torque = "left" /\ in.blindspot = { "left" }
                \/ in.brakePressed /\ ~in.lateral_active }

\* 1 frame, half a second, ..., on the scale of SecondFrames = 2.
MCWaitFrames == [ m \in AutoModes |-> IF m \in { "NUDGELESS", "HALF_SECOND" } THEN 1 ELSE 2 ]

MCSettings == [ set_timer : { "NUDGELESS", "ONE_SECOND" }, bsm_delay : { TRUE }, turn : { TRUE } ]
                \union [ set_timer : { "OFF" }, bsm_delay : { FALSE }, turn : { TRUE } ]

\* What the driver and the road have done since the one blinker that is on was set.
VARIABLES
  braked,     \* the brake was pressed in a frame that waited for the change
  changed,    \* a change has been made
  clear,      \* frames waited since an obstacle was seen with AutoLaneChangeBsmDelay set,
              \* counted up to SecondFrames, while the settings stay as they are
  forgotten   \* of the three, what came before a frame with the steering off

changeVars == << vars, braked, changed, clear, forgotten >>

Waits == lane_change_state = "preLaneChange"

Brakes == Waits /\ sm'.brakePressed

Sees == /\ Waits /\ settings'.bsm_delay /\ settings'.set_timer \in AutoModes
        /\ Obstructed(sm')

ChangeInit ==
  Init /\ braked = FALSE /\ changed = FALSE /\ clear = SecondFrames /\ forgotten = {}

ChangeFrame ==
  /\ Next
  /\ braked' = (OneBlinker(sm') /\ (braked \/ Brakes))
  /\ changed' = (OneBlinker(sm') /\ (changed \/ Starts))
  /\ clear' = IF ~OneBlinker(sm') THEN SecondFrames
              ELSE IF Sees THEN 0
              ELSE IF settings' # settings THEN SecondFrames
              ELSE IF Waits /\ clear < SecondFrames THEN clear + 1
              ELSE clear
  /\ forgotten' = IF ~OneBlinker(sm') THEN {}
                  ELSE IF ~sm'.lateral_active THEN { "brake", "change", "obstacle" }
                  ELSE { k \in forgotten : /\ k = "brake" => ~Brakes
                                           /\ k = "change" => ~Starts
                                           /\ k = "obstacle" => ~Sees }

ChangeSpec == ChangeInit /\ [][ChangeFrame]_changeVars

\* Once the driver has braked while the change was waited for, it takes a nudge:
\* releasing the brake is not enough, the blinker must be switched off, or the
\* steering has been off since (in MADS' mode that pauses, the brake does that).
BrakeVetoesChange ==
  [][ StartsAlone => ~sm'.brakePressed /\ (braked => "brake" \in forgotten) ]_changeVars

\* A change that nobody nudges is the first one since the blinker was set, whatever
\* speed, timeout or settings have ended in between: a blinker left on does not take
\* the car across the next lane as well, unless the steering has been off since.
OneChangePerSignal ==
  [][ StartsAlone => (changed => "change" \in forgotten) ]_changeVars

\* With the delay for the blind spot, no automatic change begins within a second
\* of the last frame that saw an obstacle, unless the steering has been off since.
BlindspotDelaysChange ==
  [][ StartsAlone => clear' = SecondFrames \/ "obstacle" \in forgotten ]_changeVars

\* What the driver does with the brake and what the blind spot sees holds a change that
\* nobody nudges back for as long as the signal and the steering stay on, however they
\* come and go meanwhile.
ChangeAloneWaits == BrakeVetoesChange /\ BlindspotDelaysChange
-----------------------------------------------------------------------------
(* The blinker pause of controlsd.                                          *)

Steering == [ enabled |-> TRUE, active |-> TRUE, softDisabling |-> FALSE,
              madsAvailable |-> TRUE, madsActive |-> TRUE, overriding |-> FALSE,
              blinkers |-> {}, vEgo |-> 2, steerable |-> TRUE, stockEnabled |-> TRUE,
              stockWaits |-> FALSE, shouldStop |-> FALSE, laneChange |-> "none",
              noResponse |-> FALSE ]

MCMessages ==
  { [ Steering EXCEPT !.blinkers = b, !.vEgo = v, !.madsAvailable = av, !.madsActive = a ] :
      b \in SUBSET Blinkers, v \in { 0, 2 }, av \in BOOLEAN, a \in BOOLEAN }
    \union { [ Steering EXCEPT !.enabled = FALSE, !.active = FALSE ],
             [ Steering EXCEPT !.active = FALSE ], [ Steering EXCEPT !.overriding = TRUE ],
             [ Steering EXCEPT !.steerable = FALSE ], [ Steering EXCEPT !.laneChange = "left" ] }

MCPauseSettings == { [ enabled |-> e, min_speed |-> 1, reengage_delay |-> d ] :
                       e \in BOOLEAN, d \in { 0, MaxDelay } }

VARIABLE since   \* control frames since the driver signalled a turn at low speed, while
                 \* the settings stayed as they are; MaxDelay + 1 for longer ago

pauseVars == << controlsVars, since >>

PauseInit == ControlsInit /\ since = MaxDelay + 1

PauseFrame ==
  /\ ControlsNext
  /\ since' = IF Pauses(messages', 0) /\ blinker_pause' = blinker_pause THEN 0
              ELSE IF blinker_pause' # blinker_pause THEN MaxDelay + 1
              ELSE IF since <= MaxDelay THEN since + 1 ELSE since

\* steering.yaml:86 "Delay before lateral control resumes after the turn signal
\* ends": the steering stays off for the delay that is set.
FullDelay ==
  [][ CC'.latActive => since' >= blinker_pause.reengage_delay
                         \/ ~blinker_pause.enabled ]_pauseVars
-----------------------------------------------------------------------------
(* Both parts.                                                              *)

\* A behaviour is one of change or of controls: the part that rests starts in one state.
MCInit ==
  /\ ChangeInit /\ PauseInit /\ part \in { "change", "controls" } /\ frame_parity = 0
  /\ part = "change" => /\ messages = [ Steering EXCEPT !.steerable = FALSE ]
                        /\ ~blinker_pause.enabled
  /\ part = "controls" => settings.set_timer = "OFF"

MCNext ==
  /\ UNCHANGED part /\ frame_parity' = 1 - frame_parity
  /\ \/ part = "change" /\ ChangeFrame /\ UNCHANGED pauseVars
     \/ part = "controls" /\ PauseFrame /\ UNCHANGED changeVars

\* The loops of modeld (20 Hz) and of controlsd (100 Hz) never stop turning.
MCSpec == /\ MCInit
          /\ [][MCNext]_<< changeVars, pauseVars, part, frame_parity >>
          /\ WF_frame_parity(frame_parity' = 1 - frame_parity)
\* Nothing keeps the lateral control for ever: a lane change ends, with the timeout if
\* need be, and the pause of a blinker gives the steering back.
LateralSettles == ChangeEnds /\ SteeringComesBack
=============================================================================
