# TLA+ models of openpilot/sunnypilot: the driving core and the device around it

TLA+ specifications of the code under `src/openpilot`, the TLC configurations that check
them on small instances, and theorems about them that TLAPS checks for every value of the
constants. Paths below are relative to `src/openpilot`.

1. [The system](#1-the-system): parts, state, interaction, what is hard
2. [Modules](#2-modules): what models what
3. [Runs](#3-runs): what is checked, with which bounds and which fairness
4. [Disagreements](#4-disagreements-with-comments-texts-and-tests): what the code does and a text denies
5. [Proofs](#5-proofs)
6. [Simplifications, and what is not modelled](#6-simplifications-and-what-is-not-modelled)
7. [Plan](#7-plan)

## 1. The system

openpilot is a set of processes that publish messages to each other (`cereal/messaging`) and
keep the latest message of each service (`SubMaster`). On the road the control path is

    panda --CAN--> card --carState--> selfdrived --selfdriveState(SP), onroadEvents(SP)--> controlsd
                    ^                     ^  |                                               |
                    |                     |  +-- MADS (same process, same objects)           |
                    +-----carControl------|--------------------------------------------------+
    camerad --> modeld (DesireHelper) --modelV2.meta--> selfdrived, controlsd, plannerd

`selfdrived`, `card` and `controlsd` run at 100 Hz, `modeld` and `plannerd` at 20 Hz, other
processes slower. No process waits for another: each uses what it last received.

| Component | State it keeps | Operations | Talks to | What is hard | What makes it correct |
|---|---|---|---|---|---|
| **selfdrived** `selfdrive/selfdrived/selfdrived.py` | events, mismatch counter, previous carState, three parameters refreshed by a thread | `step`: sample, collect events, run the state machine, run MADS, publish | car, panda, every process; MADS by shared objects | edges of a carState that is missing or invalid; parameters that change between frames; a counter against a limit | never engaged against the panda; engagement as its contract says |
| **state machine** `selfdrive/selfdrived/state.py` | state, soft-disable timer, alert types | `update(events)` | called by selfdrived | priorities between events of one frame; timer at zero | every disengagement is announced; a soft disable ends |
| **MADS** `sunnypilot/mads` | its state, lateral mismatch counter, settings | `update_events`, `update` | rewrites selfdrived's events; shares its timer and alert types | two state machines on one timer; three brake modes; pauses that end by themselves | the brake stops the steering when it should, and only then; steering is taken up only on demand |
| **events** `selfdrived/events.py`, `sunnypilot/selfdrive/selfdrived/` | list of events, counters | add, remove, contains | producers and both state machines | duplicates; names against types | every event that disables also blocks entry |
| **alerts** `selfdrived/alertmanager.py` | alert entries with end times | add, process | UI | priorities and durations | the most urgent live alert is shown |
| **card, cruise speed** `selfdrive/car/card.py`, `cruise.py`, `sunnypilot/.../cruise_ext.py`, ICBM | last carState, button timers, v_cruise, the plan that moved it last | state_update, update_v_cruise | CAN, selfdrived, plannerd | long press against short press; engagement in the frame of a press; a limit that takes over while a press is held | the set speed is set before it is used, and moves only as the driver asked or agreed |
| **controlsd** `selfdrive/controls/controlsd.py` | carControl, controllers, blinker pause | state_control, publish | selfdriveState, modelV2, carState | messages of different age in one frame; a helper with state called twice | no steering in a slow turn; cruise cancelled when openpilot is off |
| **DesireHelper** `selfdrive/controls/lib/desire_helper.py`, `sunnypilot/.../auto_lane_change.py`, `lane_turn_desire.py` | lane change state, direction, timers, brake latch | update | modelV2.meta | waits, vetoes and latches reset through another object's state | a change is signalled, clear and ends; a brake vetoes it |
| **road edges** `sunnypilot/.../relc.py` | timer and flag per side | update | DesireHelper | hysteresis | an edge blocks the change to its side |
| **modeld** `selfdrive/modeld`, `sunnypilot/modeld_v2` | frame buffers, network state | run | cameras | frame sync, dropped frames | consecutive frames |
| **speed limit assist** `sunnypilot/.../speed_limit` | state, timers, last limits | update | card, selfdrived, planner | confirmation against timeout; button presses shared with card | a new limit needs a confirmation; inactive when openpilot is |
| **smart cruise, DEC** `sunnypilot/.../smart_cruise_control` | small state machines | update | planner | entering and leaving thresholds | leaves when disengaged |
| **planner** `longitudinal_planner.py`, `longcontrol.py` | trajectory, PID, LongControl state | update | controlsd | numerical | stopping and starting states |
| **driver monitoring** `selfdrive/monitoring/policy.py` | awareness per policy, alert counts, lockout; two parameters | run_step | selfdrived, params | two policies with an awareness each; recovery against alert level; a lockout kept by another process | an unattentive driver is always escalated; lockout after too many |
| **hardwared** `system/hardware` | onroad conditions, thermal band, power integrals | one loop | manager, every process | hysteresis; started against offroad | offroad when a condition fails; no shutdown while driving |
| **manager** `system/manager` | process table | ensure_running, start, stop, restart | every process | a process that ignores signals; restart on crash | running set follows started |
| **loggerd, uploader, deleter** `system/loggerd` | segments on disk, xattrs, lock files, encoder sync; a cache of attributes per process | rotate, upload, delete | disk, server | encoders ahead of each other at a rotation; a restart between upload and mark; deletion of what is recorded | packets in the segment they belong to; logs sent whole and once; the recorded and the preserved stay |
| **athenad** `system/athena` | upload queue, cancelled set, current item per thread, its copy in a param; the video clips and their worker | RPC handlers, upload handlers, clip worker | network, params | several threads on one queue; retry, abort, reconnect, cancellation, restart; a child process outside the lock | an upload is in one place until it is settled; a clip is the one asked for |
| **sunnylinkd** `sunnypilot/sunnylink` | as athenad, backups | as athenad | network | as athenad | as athenad |
| **updated** `system/updated`, `launch_chffrplus.sh`, `common/hardware/comma/agnos.py` | overlay, consistent flag, finalized tree, two slots of the operating system | fetch, flash, finalize, set_consistent_flag; the swap at startup | params, git | power cut between two steps, and of what was not synced | there is always a whole version to start from, on a system flashed as a whole |
| **params** `common/params.cc` | files, rename under a lock, a queue and a thread for calls that do not wait | put, get, remove, readAll, clearAll, putNonBlocking | every process | kill and power cut inside put; calls of several processes at once; the thread that is about to end | what has returned is kept; a snapshot is one moment; values appear in order |
| **pandad** `selfdrive/pandad` | safety mode set, CAN queues, SPI | threads for send, receive, state | panda firmware, card | reconnects; safety mode set once per drive | safety mode follows CarParams |
| **models manager** `sunnypilot/models` | download queue and cache | download, select, clear | network | interrupted download | only a verified model is used |
| **Wi-Fi manager** `system/ui/lib/wifi_manager.py` | the state shown, known networks, an epoch, three queues of signals | connect, activate, forget; monitor thread; worker threads | NetworkManager over D-Bus, UI | three kinds of threads without a lock; signals out of order; answers that are old when they are used | the UI ends up showing what the device does |
| **modem** `common/hardware/comma/modem.py` | state machine, copies of SIM, APN and roaming, the pppd session and its routes | one handler per state, once a second | serial port shared with the eSIM tool, pppd, params | SIM, settings, port and network change in any state; a session that breaks half way | online with the SIM and settings of now; nothing of one session in the next |
| **webrtcd** `system/webrtc/webrtcd.py` | sessions with their tasks, a lock, a timer, the param that switches it on | startStream; handle_get_stream, run, stop, post_run_cleanup | athenad, manager, camerad | coroutines that are cancelled in their own cleanup; calls that time out | one session at a time, cleaned up whole; the cameras go off |
| **UI, tools** | mirrors of other state | - | user | - | - |
| **mapd, navd, locationd, camerad, sensors** | filters, buffers, an external binary | - | - | numerical or device input and output | - |

`PROJECT.json` lists the same components with their status, and the hazards of the code at
their lines.

## 2. Modules

    OnroadEvents -- SelfdriveState -+- SelfdriveStateMachine ---------- MCEngagement
                                    +- Mads -- SelfdriveD -- MCSelfdriveD -+-- (faults)
    VCruise, SpeedLimitAssist -- Cruise ----------------------- MCPedals --+
    DesireHelper, ControlsD ----------------------------------- MCLateral
    DriverMonitoring ------------------------------------------ MCDriverMonitoring
    Params, LogStorage, Loggerd, Modem, Livestream ------------ MCServices
    Agnos -- Update ; Hardwared, Manager -- Device ------------ MCSystem
    UploadQueue, VideoClips ----------------------------------- MCAthena
    NetworkManager (external) -- WifiManager ------------------ MCWifi

    Engagement <== refinement == SelfdriveStateMachine, SelfdriveD
    LaneChange <== refinement == DesireHelper

An MC module that joins several components runs them in *parts*: a variable `part` is chosen at the start, and a
behaviour takes the steps of its part only while the others rest in one state. That saves TLC a start for each and is
not a composition; where components are composed (MADS with selfdrived, card with plannerd, hardwared with manager,
updated with the slots of the operating system, the Wi-Fi manager with NetworkManager) the composing module says so.

### The driving

**OnroadEvents** holds the events and their types. Only the types decide what the state
machines do, so the many faults that all have the types SOFT_DISABLE and NO_ENTRY are a few
members here, and likewise the other combinations; every event that MADS names is present. `Mute` are those whose
alert has neither a text nor a sound.

**SelfdriveState** is `StateMachine.update` as operators of the old state, the old timer and the
types of the frame's events: `NextState`, `NextTimer`, `AlertTypes`. **SelfdriveStateMachine** makes a
machine of it that is fed any set of events: what the state machine promises by itself.

**Mads** is the code of `mads.py` and `mads/state.py`: `MadsEvents` rewrites the events
(`Removed` and `Requested` follow `update_events` branch by branch), `NextMadsState`, `NextMadsTimer` and
`MadsAlertTypes` are the second state machine, `MadsUpdate` puts them together on the objects that
it shares with selfdrived.

**SelfdriveD** is a frame of selfdrived: `FrameEvents` (update_events), `NextMismatch` (data_sample), the
state machine, then MADS. One action `Frame` is one turn of `step`, three further actions are the
attributes that `params_thread` refreshes one by one: a frame reads each of them in one place only, so
that a frame needs no finer grain. Publishing changes no state. `AlertsMade` is what `update_alerts` has to show: the types
in `current_alert_types` of which MADS has left an event that is not mute. `hushed` (of `Hushes`, in Mads) is a frame in
which MADS has taken out every event that asked to disable.

**Engagement** is the contract: cruise engagement ends with an alert made in the same frame, or after a soft disable
that had its alert in each of its frames, unless MADS has hushed the frame (section 4 says when). It does not mention
events at all. Both
SelfdriveStateMachine and SelfdriveD implement it; for SelfdriveD that is the statement that MADS, which
writes the same timer and the same alert types, does not disturb cruise control.

**VCruise** is `VCruiseHelper` in card: `update_v_cruise`, `initialize_v_cruise`, the button timers and the long press,
and sunnypilot's extension that lets the plan move the set speed (`LimitTakesOver`). **SpeedLimitAssist** is the assist
in plannerd, its two state machines (cars that keep the set speed, and cars that leave it to openpilot), its
confirmation by buttons and its timers; `Final` is a limit with the driver's offset. **Cruise** composes them with the messages between: a frame of card takes the plan
it received last, a frame of the planner takes the set speed and the releases that came since, and a plan arrives some
time after it was made.

**DesireHelper** is `DesireHelper.update` with the two controllers it owns. Times are frames; a constant
is the number of additions of DT_MDL after which the code's comparison of floats turns true (11 for the
0.5 s start, 200 for the 10 s limit). **LaneChange** is its contract: signalled, one side, seen by the model
for long enough, over in time.

**ControlsD** is what `controlsd` decides in a frame about steering and cruise (`CC`), with
`BlinkerPauseLateral`. `get_lat_active` runs twice per frame, each call counting its timer down.

**DriverMonitoring** is a frame of the driver camera in `policy.py` (`Monitor`: `SetPolicy`, `NextAttention`,
`NextAlert`, `Counts`, in the order of the code), selfdrived's handling of the lockout (`HandleDM`) and the two
ways in which the processes start anew: `BackOnroad` keeps the two parameters, `IgnitionOn` clears them. Awareness counts
in units of 1/`Full`. The first-order filter of the distraction is a band (below 0.37, above 0.63, between) that moves to
its neighbour or stays: any filter that passes the bands in order. `saved` is `last_vision_awareness` and
`last_wheeltouch_awareness`.

### The device

**Params** is `params.cc` down to the system calls: a file is a *log* of what a power cut may leave of it, the last
entry being what processes see. `put` takes the lock, writes and syncs a temporary file, renames it and syncs the
directory, and may fail or be killed at each step; `remove`, `clearAll` and `readAll` work under the lock too. A lock that
cannot be opened or taken is logged, and the call goes on without it (`LockFails`).
`putNonBlocking` puts into a queue that a thread empties, with the future that tells whether the thread runs.

**Loggerd** is the rotation: encoders number their segments on their own, loggerd marks which of them have begun the next
one, rotates when all have or when the time is up, and keeps the packets of an encoder that is ahead. **LogStorage** is what
becomes of a segment on the disk: loggerd makes, locks, closes and preserves it, over several drives (`LoggerStarts`; each
is a route of its own); the uploader lists, sends (`Accepted`) and then tags it (`Tag`, `TagFails`); the deleter works through
its lists, looks for locks (`Check`) and then removes (`Delete`). Anything may happen between the two halves of each, up to
loggerd's asserts when its new directory is gone (`NewIsGone`, `NoVideo`). Uploader and deleter each have a cache of extended
attributes, and each may restart.

**Agnos** holds the two slots of the operating system: `flash_partition` in its three steps (check, write, hash),
`verify_partition` by contents or by the hash behind the partition, and the change of the active slot. **Update** is
updated's loop around it (overlay, fetch, reset, flash, finalize, flag), the launch script with its two moves, and the
updater a user sees when the system does not fit, or the restart from a release before the move to `openpilot/`
(`OldReleases`, `launch_chffrplus.sh:60`). `trail` is what the directories were at each step since the last sync:
a power cut may go back to any of them, and what was copied and not synced may be incomplete.

**Hardwared** is one pass of `hardware_thread`: conditions, thermal bands, `started`, the onroad cycle, the time off the
road and the shutdown. **Manager** is the loop of manager process by process: `stop` that does not wait the first time and
joins the second, `start`, crashes, and the cleanup. **Device** composes them by `deviceState`, of which manager has the
latest only. While manager joins a process (`Joining`), hardwared goes on publishing, so that a drive may end and the next
begin unseen (`missed`).

**UploadQueue** holds athenad's upload threads and RPC workers on one priority queue: taking an item, sending it, failing,
breaking off, putting it back and writing the copy of the queue to a param are steps of their own, so that the end of a
websocket, a new start of the threads or a kill comes between them. **VideoClips** is the class of that name: its RPCs,
its worker, the child process that encodes, and the files.

**Modem** is the loop of `modem.py`: `_check_iccid` and then the handler of the state, with a step between them and within
the handlers that wait (`adopt`, `redial`). What AT commands answer is read at the step, so a SIM that is changed, a port
that vanishes, a network that is left and a setting come between any two. `routes` tells the routes of the link that is up from
those left over by one before.

**Livestream** is `startStream` of athenad and webrtcd: a step is what a coroutine does from one await to the next, so the
cancellation of a session's task can meet it before it has begun, while it runs, and at each await of its own cleanup. A call that
times out leaves what it has posted to go on. manager starts and ends webrtcd by the param, and the ignition clears it.

**NetworkManager** is external: the device, the connections and the signals as the repository's tests record them.
**WifiManager** is `wifi_manager.py`: `connect_to_network`, `activate_connection` and `forget_connection` of the user,
`_init_wifi_state` and the other workers, and the monitor with its three queues of signals. `user_epoch` is the set of
threads whose copy of `_user_epoch` is still the current one. Which acts the pages offer is in `UserActs`; the operations
themselves do what they do for any network.

A definition marked `mutant:` stands before the definition it replaces: it is the same code with a
plausible bug, and the property it is listed with in `PROJECT.json` fails under it.

## 3. Runs

| Run | What it asks, and the properties | Bounds |
|---|---|---|
| `engagement` | The state machine alone keeps the contract for every set of events (`MachineKeepsContract`). A soft-disable condition that stays ends the engagement, in the frames of selfdrived it ends the steering, and a pause ends (`FaultsAndPausesEnd`). | soft disable of 3 frames alone, 2 in selfdrived; one event per combination of types; a few carStates and `commIssue` for the liveness |
| `faults` | Faults of car, CAN and system with both machines on one timer (`SteeringSoftDisableRuns`, `ImplementsEngagement`, `SteeringStopsKnowingly`). | 3 frames; carStates that differ from driving in at most 2 fields |
| `pedals` | Pedals, main cruise and LKAS button in the three brake modes, unified engagement on and off, the panda disagreeing at any time (`PandaHasTheLastWord`, `BrakeStopsSteering`, `SteeringFollowsTheDriver`, `UnifiedEngagement`). The set speed of card and planner (`SetSpeedIsTheDrivers`). | mismatch limit 3; carStates that differ in at most 3 fields; a car that engages itself. Set speeds 1 to 3, limits none, 1 and 2 with an offset of one, a long press of 1 frame and a step of 2, each timer 1 or 2 frames |
| `lateral` | Lane changes (`OffIsClean`, `ImplementsLaneChange`, `ChangeIsSignalledAndClear`), those without a nudge for as long as signal and steering stay on (`OneChangePerSignal`, `ChangeAloneWaits`), the blinker pause (`TurnIsTheDrivers`), and that neither keeps the lateral control for ever (`LateralSettles`). | start 2 frames, limit 3, waits 1 or 2, second 2; one input out of the ordinary per frame, and the brake with the pause it makes; delays 0 and 4, two speeds |
| `driver_monitoring` | Alerts that cannot be dodged (`OrangeRemains`), red that needs a disengagement (`RedNeedsDisengagement`), a deceleration that is earned (`ForceDecelIsEarned`), lockouts that come and are served over restarts (`LockoutsAreReal`), and alert and lockout that follow the driver in the end (`AlertsFollowTheDriver`). | awareness 1 in 3 steps with green, orange and red; limits of 2 red alerts and 2 frames of no response; lockouts of 2 and 3 frames; 11 kinds of frame |
| `services` | Parameters: durable, whole and not torn (`StoreIsDurable`), calls kept apart (`CallsAreIsolated`), values in order (`AsyncFifo`). Rotation: packets in place, encoders together (`PacketsAreInPlace`). Segments: sent whole, and again only if the tag was lost; the recorded and the newest preserved ones stay (`SegmentsAreSafe`). Modem: nothing of one session is left in the next (`ConnectionIsWhole`). Livestream: one session at a time, cleaned up whole (`StreamsAreWhole`). In the end logs are sent or deleted, the device is online with the SIM and settings of now, a session begun while roaming was allowed ends once it is switched off, and the cameras are off (`ServicesInTheEnd`). | Seven parts. 2 keys, 3 threads, 3 calls and 1 fault; 2 encoders, segments of 5 units that may last 6, 18 units of time, 1 failure; segments 0 to 3, the second drive begins with 2, 1 preserved, 1 upset, loggerd with the uploader, with the deleter (0 and 3 may be marked), and with both on the first two segments unmarked; 2 SIMs of which one always roams, 2 APNs, 2 troubles; 2 calls, 2 sessions, 1 switch of the video |
| `system` | The update leaves a whole version on a whole system at every power cut (`DiskIsWhole`). Heat, ignition and battery decide as they should (`HardwareRules`). The processes are those of the mode (`ProcessesAreRight`). Version, drive, shutdown and processes get there in the end (`MCInTheEnd`). | 2 partitions, one of them with full check; 3 versions, each on its own system, one of them an old release; 2 faults; an onroad cycle of 2 passes; one process of each kind |
| `athena` | An upload is in one place until it is settled (`UploadsHaveOnePlace`), settled as was earned (`SettledRightly`), and settled in the end (`MCSettles`). A clip is the one asked for last and does not come back after its deletion (`ClipsAreTheirs`). | 2 upload threads with one item and 2 troubles; 1 thread with 2 items of different priority; one RPC worker; 1 retry; 2 file names, 2 requests |
| `wifi` | The UI shows what the device does once nothing is under way (`TruthfulAtRest`), and forgetting one network does not clear another (`PickSurvivesForget`). | 2 networks that are known, 2 worker threads, 2 acts of the user, 1 failure, 5 signals on their way (queues of 10, as in the code) |
| `find_*` | see section 4 | those of the run they belong to |

A property whose parts are about one object is one conjunction, named for what it says: `StoreIsDurable` is
`ParamsTypeOK /\ DurableOnReturn /\ NeverTorn /\ SeenIsKept`, and so on. The modules comment each part.

**Bounds.** They keep what decides: a soft disable has a first frame, a middle one and a last one with 3
frames; a mismatch limit of 3 has a count below, at the edge and at the limit; a lane change of at most
3 frames with 2 to start passes every comparison on both sides. Frames follow each other in every order; what is
bounded in the driving is how many unusual things happen in one frame. On the device a bound counts the faults of a
behaviour, and each may come at any step: one power cut reaches every intermediate state of a `put`; two reach a cut in
the recovery from the first, which is what the swap of a version and the flash of a slot need. Two encoders are one that is ahead
and one that is not, two networks the one that is left and the one that is joined, one retry and two handlers are a
retry that meets another thread. 18 units of time are three segments, enough for a second rotation after a failure in
the first. Where values are alike the MC module says so and starts with one of them: the first key a call names is the
first, the param of the APN starts with `"a"`.

**Fairness.** Only what the code's own loops give:

* Each process of the driving is a loop kept by a `Ratekeeper` (100 Hz selfdrived and controlsd) or driven by camera
  frames (20 Hz modeld and dmonitoringd): it always turns again. A frame that changes nothing would be a stuttering
  step, which fairness cannot ask for, so `engagement` and `lateral` add `frame_parity` (`sm.frame % 2`) and assume weak
  fairness of its change, which only a frame makes. Nothing is assumed about the car, the driver, the panda, the settings or
  `params_thread`: what they must do for a property to hold is in its premise.
* `driver_monitoring` also assumes that selfdrived keeps handling lockouts, and one thing about time, `SeenInTime`:
  selfdrived sees a lockout before it is over. The shortest takes a minute, 6000 turns of selfdrived. Without it the
  parameter could be left behind, set and never removed, by a lockout that nobody saw.
* `athena`: every thread that has a step takes it (weak fairness per thread), and the websocket is opened again after it
  has ended (`Reconnect`), which the main loop of athenad does for ever. That the server answers well is not assumed; an
  attempt ends, as `requests` has a timeout.
* `services`: loggerd and the uploader run. The server takes each file that is offered again and again (strong fairness
  of `Accepted`, weak of `Tag`): `SentOrDeleted` is about locks and attributes left behind, not about the server. It does not
  cover a file that is refused for ever, which holds up all others (section 4). The loop of `modem.py` turns once a second and pppd, once its
  chat or its echo fails, exits; a network that is dialled again and again with the right APN answers in the end (strong fairness of
  `LinkComes`). athenad, webrtcd and manager go on (weak fairness of `StreamingWorks`, all their steps together), every wait in them having
  a timeout; nothing is assumed of the viewer.
* `system`: updated and the launch script go on, the user restarts the device now and then while an update is ready
  (strong fairness, as an update may be withdrawn meanwhile), a pass of hardwared comes twice a second, time passes, manager
  goes through its loop and processes that obey the signal end.

**Timing.** Three orders of steps are excluded, as the code's rates exclude them. A loop of manager
takes less than a pass of hardwared, unless manager joins a process, for up to 5 s, when hardwared goes on. card runs at least once between
two frames of the planner and at most once between a frame of the planner and the arrival of its plan, selfdrived and
controlsd answer a carState before the next, and a car is engaged again only after the planner has seen it disengaged
(but see section 4). Joining a network takes seconds, so that NetworkManager's answer to it comes after the signals
before it have been handled (`Handled`).

**Auxiliary variables.** MCLateral remembers, for as long as a blinker stays on and whatever the code forgets, whether the brake was
pressed in a frame that waited for the change (`braked`), whether a change was made (`changed`) and how long ago an obstacle was seen
(`clear`); `forgotten` says of which of the three a frame with the steering off has come since. It also counts the control frames since
the driver signalled; MCDriverMonitoring counts the
frames of the present red alert, the red alerts since the last lockout, and the frames a lockout has been served. Cruise
keeps how long ago a button was held (`untouched`); UploadQueue what became of each item (`fate`), its failed attempts and the
items cancelled while they waited; VideoClips the requests and deletions of a name; Params what has been acknowledged (`acked`),
whether a writer broke off before the last sync (`slip`) and which calls shared the lock's section with one that had no lock (`crossed`);
Livestream whether a call has left the param on without a session (`orphaned`); LogStorage how often a log was accepted (`times`) and which
files were then not tagged (`untagged`), which directories lost their lock early (`early`) and which the deleter has looked at before they had a log
(`glimpsed`); Loggerd where the last packet went; Device the drive that manager has not seen begin (`missed`); Mads, by `hushed`, what it
has taken out; WifiManager whether a worker wrote last an answer that no longer held (`overtaken`), and whether a DISCONNECTED was passed over
for a network nobody connects to (`ignored`). They record, and constrain nothing, but
for `ticked` of Cruise, which keeps the order of frames said under Timing.

**Deadlock** is checked in the runs of the driving and of athenad. `services`, `system` and `wifi` say `CHECK_DEADLOCK FALSE`: there calls,
time, versions, sessions and faults are bounded and run out, and a behaviour may stop after the last.

## 4. Disagreements with comments, texts and tests

Three have a run in which TLC finds the behaviour, and a finding in `PROJECT.json` with the quoted line.

* `find_params_queue`: `~Params` asserts that the queue of `putNonBlocking` is empty. A value that is put after the
  thread has found the queue empty and before its future is ready gets no thread: it is written with the next call
  only, and if there is none, the assertion fails (`params.cc:103`, `params.cc:243`).
* `find_wrong_password`: a refusal of the network before, handled after the user has picked another one, blames the
  picked one and clears its state, which the comment at `wifi_manager.py:455` says must not happen.
* `find_blinker_delay`: the delay of the blinker pause is counted down twice per frame and lasts half as long as
  the setting says.

Met while modelling, each visible in a definition, without a run of its own:

* `events_sp.contains(EventNameSP.lkasEnable)` asks for a *type* and is given a *name*. It is never true, so in the mode
  that disengages on the brake the LKAS button still enables the steering in the frame of a brake press (`mads.py:194`).
* MADS reads `DisengageOnAccelerator` once, selfdrived keeps refreshing it. After the setting has been switched on while
  driving, MADS takes an accelerator press for a brake press.
* A frame with an immediate disable and a pausing event leaves MADS paused, from where it resumes by itself.
* While cruise control is preEnabled nobody restarts the timer when MADS enters softDisabling, so the steering is gone
  one frame later and without its alert. The same happens when MADS enters softDisabling while cruise control is
  engaged and does not count down itself (`bigModelFailed` in the frame that engages it) and the end of cruise control is
  hushed in the next frame. `SteeringEndsTold` (of `SteeringStopsKnowingly`) names these two cases, `SteeringSoftDisableRuns`
  leaves the frames out in which cruise control is on and not counting down.
* `events.py:789` says of `cruiseDisabled` and its like that the driver "needs to be warned immediately". With MADS on, cruise control
  ends without any alert when what ended it is taken out of the events before `update_alerts`: `pcmDisable`, `buttonCancel`,
  `pedalPressed` and `wrongCruiseMode` (`mads.py:205`), `wrongCarMode` (`mads.py:98`), and, while only steering,
  `speedTooLow` and `cruiseDisabled` (`mads.py:147`). `hushed` marks these frames in the contract.
* In the mode that pauses, the brake ends cruise control and pauses the steering, both without an alert that shows or sounds:
  `silentLkasDisable` is mute (`events.py:121` of sunnypilot).
* The event of a CAN timeout is muted in park while MADS is engaged (`selfdrived.py:519`), so that the steering stays on there;
  `LostCanEndsAll` leaves park out.
* One frame without `lateral_active` (a steer fault, or a pause of MADS) with the blinker left on makes DesireHelper forget the
  latch of the brake, the last change and the wait (`desire_helper.py:92`). So a second automatic change on the same
  blinker is possible, and, as the brake itself pauses MADS in its pause mode, a change without a nudge after a brake, against the comment at
  `auto_lane_change.py:86`. `forgotten` marks it.
* `wifi_manager.py:400` says that "all known race windows are closed", and `test_handle_state_change.py:345` that the epoch "closes the
  remaining gaps". A worker compares the epoch (252) and then writes (255), and so does the monitor (436 to 444): what the user picks
  between the two is written over. What the monitor writes is put right by the signals that follow; an answer of a worker that
  the device has overtaken is not, and that needs no user at all, as signals do not count the epoch up. `overtaken` marks it.
* A DISCONNECTED of a removal is passed over while the network shown is known (`wifi_manager.py:417`), so that the UI may go on
  "connecting" to a network that nobody connects to. The test at `test_handle_state_change.py:616` says that "either way, state must
  clear", which holds for a network shown as connected. `ignored` marks it.
* A lock of the params that cannot be taken is logged, and the call goes on (`params.cc:79`): calls are not kept apart then, and
  `readAll` may mix two moments. `crossed` marks it.
* A deleter that looks at a new directory before loggerd has locked it may remove it while it is recorded, which ends
  loggerd with an assert (`logger.cc`, `video_writer.cc`). `glimpsed` marks it.
* The uploader always tries the oldest file first (`uploader.py:130`): one that the server refuses for ever holds up all others.
* A power cut between the two moves of the swap (`launch_chffrplus.sh:56`) leaves the old version in its old place only. It is whole,
  and nothing moves it back: it has to be restored by hand, as the TODO at line 67 says.
* The wait of an automatic lane change is not restarted when the blinker flips to the other side (`auto_lane_change.py:75`).
* A lockout that ends while the alert is still red resets `cnt_since_alert_3`, so that `noResponseForceDecel` is off for
  another five seconds (`policy.py:332`).
* Comments overtaken by the code: `selfdrived.py:567` speaks of two samples of mismatch where the limit is 200, and
  `selfdrived.py:404` says that all its events carry NO_ENTRY, which `bigModelFailed` does not.
* A set speed that card moved to the limit and the driver moved back within one frame of the planner goes unseen by
  the speed limit assist, which stays active although the set speed is another. Engaging again with resume within one
  frame of the planner (50 ms) restores the old set speed after card has already used up the new limit.
* The deleter reads `user.preserve` once per segment and caches it: a segment marked after that is not preserved
  for it. `SeenMarkIsKept` (a part of `SegmentsAreSafe`) speaks of the marks it has seen.
* A camera that is missing from the start is not waited for; one that stops holds up every rotation until the time is up.
* A call of `startStream` that switches `IsLiveStreaming` on and then times out, or whose answer fails, brings no session and
  schedules no teardown: cameras and webrtcd stay on until the ignition is switched on. The comment at `webrtcd.py:391` says
  that they are torn down if nothing connects for 5 seconds. `orphaned` marks it. A timer left by a session before may also
  clear the param that a new call has just set.
* A request that stops a session which is closing its peer connection cuts that off, and `_cleanup_done` keeps it from
  being taken up again: `NothingHeld` leaves the peer out.
* The modem looks at its registration while it searches only: a session that was begun at home goes on abroad with
  roaming forbidden, until the link breaks or the setting changes. `RoamingEnds` is about the setting only.
* manager joins a process that is still ending for up to 5 s (`process.py:89`). A drive that ends and begins again meanwhile
  is not seen: the processes of the drive before go on. `missed` marks it, `FreshProcess` is about the drives whose beginning
  manager has seen.

## 5. Proofs

TLAPS checks these for every value of the constants that the named ASSUMEs allow: any number of frames for the timers, any
mismatch limit, any sets of carStates, system events, inputs, messages and settings of the right type, any set of speed
limits, any number of items, clips, threads and retries, any networks, SIMs and APNs, keys, processes, callers and sessions,
versions and partitions, segments and encoders, and any number of faults and power cuts. TLC evaluates the ASSUMEs in the
runs. Each says what the code has: `EnvironmentAssumption` that a frame's events are those the code can produce, where a
brand's `speedTooLow` and `cruiseDisabled`, which disable at once without NO_ENTRY, come with `belowEngageSpeed` or, with the
cruise of the car off, without an engaging button (opendbc reports one only for cars without `pcmCruise`); `ProcAssumption`
that no process has two conditions; `CallerAssumption` that a free lock is held by no caller; `RoadAssumption` that a limit
is a speed, 0 where none is known, and with its offset a speed above zero; `ReleaseAssumption` that old releases are among
the versions; `LengthAssumption` that a segment holds more than one packet of an encoder (it lasts a minute): with a single
one, an encoder would be two segments ahead while the other's packet is on its way.

| Module | Proves |
|---|---|
| `SelfdriveStateLemmas` | what `NextState` and `NextTimer` return and bound: the facts the next two share |
| `SelfdriveStateProofs` | `TypeOK`, `SoftDisableRuns`, and `Spec => ImplementsEngagement` for any pool of events |
| `SelfdriveDProofs` | `TypeOK`, `PandaHasTheLastWord`, `ImplementsEngagement` with MADS on the same timer, `BrakeStopsSteering`, `UnifiedEngagement`, `SteeringSoftDisableRuns`, `SteeringStopsKnowingly`, `SteeringFollowsTheDriver` |
| `DrivingProofs` | of the lane change `TypeOK`, `OffIsClean`, `ChangeIsSignalledAndClear`, `OneChangePerSignal`, `ChangeAloneWaits`, `ImplementsLaneChange`; of controlsd its type and `TurnIsTheDrivers`; of card with the planner `SetSpeedIsTheDrivers` |
| `DriverMonitoringProofs` | `TypeOK`, `RedNeedsDisengagement`, `OrangeRemains`, `ForceDecelIsEarned`, `LockoutsAreReal` |
| `ConnectivityProofs` | of athenad `UploadsHaveOnePlace`, `SettledRightly`, `ClipsAreTheirs`; of the Wi-Fi manager `TruthfulAtRest`, `PickSurvivesForget` |
| `ServicesProofs` | of the modem `ConnectionIsWhole`; of Params `StoreIsDurable`, `CallsAreIsolated`, `AsyncFifo`; of webrtcd `StreamsAreWhole`; of the segments `SegmentsAreSafe`, of loggerd's rotation `PacketsAreInPlace`; the types are a part |
| `SystemProofs` | `HardwareRules` of hardwared, `ProcessesAreRight` of hardwared with manager, `DiskIsWhole` of the update with the operating system |

The arguments. For the state machine, `TypeOK /\ SoftDisableRuns` is inductive: the timer is read after it has been
ticked, so a state that stays softDisabling had at least two frames left. For SelfdriveD the inductive invariant
(`IInv`) joins `TypeOK`, the running timer of selfdrived, and that neither counter is at its limit while
its machine is on: a counter moves by one per frame and the frame in which it gets to the limit holds
`controlsMismatch`, an immediate disable, which both machines obey (`MismatchDisables`,
`ImmediateDisableStopsMads`). That MADS leaves selfdrived's part of the frame alone is `MadsLeavesSelfdrived`: it
writes the timer and the alert types only when selfdrived is disabled or when both agree.

For `SteeringSoftDisableRuns` the type says how the timer ticks, and `SoftDisableFrame` that a frame which stays in MADS' soft
disable starts it or keeps it (`MadsSoftDisablingHasTime`). The contract of cruise control rests on what MADS leaves:
of an event that MADS has left and that is not mute an alert is made (`EventMakesAlert`), MADS leaves one that asks to disable
unless it hushes the frame (`MadsLeavesEvents`), so an end is told (`EndIsTold`). `SteeringStopsKnowingly` has a lemma for each of its
parts: `EndFrame`, a walk over the branches of MADS, with `NoEntryWithImmediateDisable`, that no event
which disables at once lets cruise engage in its frame, the place where `EnvironmentAssumption` on the brands is used;
`PauseFrame`, that only what the driver does pauses; and `LostCanFrame`. `SteeringFollowsTheDriver` rests on `DemandFrame` (what the driver asked for when MADS comes on) and `PedalFrame` (in the mode
that remains active the pedals never take the steering).

For the lane change,
`IInv` adds `WaitingIsSignalled` to type and `OffIsClean`: whenever a change is waited for, the frame that decided so had
exactly one blinker on, which is why a change that starts has been signalled for two frames. The history that MCLateral keeps
does not follow the code's own memory, which a frame without steering clears; `ChangeInv` compares the two: the latch, `prev_lane_change` and the
wait hold at least what the history remembers since the steering was last off (`Remembers`), and the wait of a change with an
obstacle lags behind its delay by as much as the second after the obstacle has still to run.

For the set speed, `SetSpeedInv` has to say why the driver agrees to whatever card may still take over, while a plan is
under way (`Underway`) and when card has it (`AtCard`), before and after the frame of card that may come between: the set
speed is already the limit, or both are above the threshold from which no confirmation is asked, or a button was held or
released so lately that it confirmed the plan, or the set speed the planner saw is gone, so that its next frame takes the
confirmation back before card sees it (`Overtaken`). The rest is what makes this inductive: an assist that was off is off until
the planner has seen the engagement (`SlaSane`, `Engaging`), and which releases the planner has still to see (`ButtonsHeld`, `Releases`).

For the driver monitoring,
`TypeOK` keeps the saved awarenesses above zero, and `IInv` adds that an alert of two or three lies below its threshold:
then no change of policy can leave red (`SetPolicyKeepsRed`) or take a hidden driver out of orange (`HidingKeepsPolicy`).
`HistoryInv` compares the counts of MCDriverMonitoring with the code's: the red alerts are those counted, a red alert is at least
as old as the frames without response, and a lockout has been served for as long as its timer says. A red alert has
no awareness left (`RedIsEmpty`), so that it begins only where none was.

For the upload queue, `UploadsHaveOnePlace` needs that what is queued is accepted and that a worker about to enqueue an
item is the only one to do so (`QueuedIsAccepted`, `EnqueuesNew`); its proof sees four kinds of steps of a handler, which
keeps what it has, takes an item, puts its item back or settles it, so that each action is looked at once
(`HandlerPlaces`) and the invariant never again. `SettledRightly` needs that no retry count, wherever a copy of it is kept
(queue, hand, snapshot, param), exceeds the failed attempts (`Counts`), and that a cancelled item keeps its mark until it
is settled (`Stopped`). For the clips, the invariant adds that a name is once in the dict with a request newer than
its last deletion (`Waiting`) and which of job, hidden file and child goes with each place of the worker (`Working`).

For the Wi-Fi manager, `WifiInv` says what every signal on its way will still do. A network that NetworkManager has becomes known, for its
last signal on the bus is NewConnection, or it is known already, or about to be, and no removal comes (`KnownInTime`); one that it has not is
forgotten (`ForgottenInTime`). A device that is off has told so in its last change of state, which clears what is shown unless a
worker is still to ask for it, or was passed over, as `ignored` says (`OffIsShown`); one that is connected has ACTIVATED as the next signal the monitor receives, or the monitor
has it, looks up the connection, or shows it (`ConnectionIsShown`). The operations of NetworkManager are looked at once, for what
they send (`TellsConnections`); the steps that keep their silence share `ShownKeeps`. A worker that reads the device anew writes what
holds, or `overtaken` says that it does not.

For the modem, `ModemInv` adds `Steady`: the wait for a SIM, from which a search begins, is clean as the
search is; a redial belongs to CONNECTED; nothing is believed of a link that is still dialled; and a session that is
connected has failures to spare, which keeps the count in its range. For Params, the inductive invariant (`ParamsInv`) says who holds the lock, that calls inside its section share it
only with those that `crossed` names, what a thread has at each step (`JobsFit`), that no two calls under way, queued or acknowledged share a number and that the queue, the thread's
call and what it has written come in this order (`Books`), and that a key's log is of one entry, as synced, unless a call is between
its change and its sync or was killed there (`Kept`). For the streams (`StreamInv`), the caller with the lock is the one whose
request is under way, only the session made last can be alive (`LastOnly`), and each stage of a cleanup has given back what comes before it
(`StagesFit`).

The segments are proved with loggerd, uploader and deleter at work at once and any number of segments, where the run has all three
on two segments and pairs of them on four. In `StoreInv`, everything that is not whole yet has a lock of loggerd, unless a start of the
uploader has cleared it or there was no video to hold it (`LocksHold`); loggerd's own step tells which of its directories exist and are locked (`RecorderFits`);
what the deleter is about to take was closed, or had no lock when it was looked at (`CheckFits`); the uploader's cache says "not sent" of what is not tagged only (`UploadsFit`); and the deleter spares what
the marks it has read tell it to spare, until its list is worked off (`PassFits`).

For the rotation there are two arguments. `ready_to_rotate` never exceeds the number of encoders that are marked and
begin a newer segment (`Counted`), so that a count which reaches all encoders means all of them; that survives one failure,
and not two, which is the premise of `RotatesTogether`. And while nothing fails the encoders are in lockstep (`InLockstep`): either all
have begun the next segment, and loggerd waits for those whose packet is still to come (`AllAhead`), or all are in loggerd's segment,
each settled, or with the packet that began it still in its queue, or about to open it after a rotation by the clock
(`AllLevel`). How long nothing of an encoder may have been written follows from which of these it is in (`Quiet`).

Hardwared is off the road at the third thermal band (`HwInv`). For the manager (`ManInv`), the pass of a loop is
divided at its place (`ClearedInKill`). What lives of a drive was started for it or has been asked to end, unless `missed` says
that the drive has begun unseen (`FreshOrAsked`), and at the end of a loop nothing of the drive is still ending
(`StartedStay`); processes that ignore their signal are killed by then, so that no premise about them is needed.
For the update (`UpdateInv`), a recorded hash is that of what the partition holds, up to the flashing under way (`HashesAreTrue`,
`FlashedSoFar`); **every** snapshot to which a power cut may take the disk back, since the last sync, starts, as what is there now does
(`AllStart`: a whole tree in one of the two places, and where the swap will be taken up, an operating system flashed
whole); and to each place in updated and in the launch script belongs what it is about to rely on (`UpdatedInv`, `LauncherInv`): a
prepared tree has no flag in any snapshot before `set_consistent_flag`, after its verification the system does not change until the flag is
set, and what is activated is what was verified.

Only model-checked is liveness, as fairness and ENABLED are out of the prover's reach: `FaultsAndPausesEnd`, `LateralSettles`,
`AlertsFollowTheDriver`, `MCSettles`, `ServicesInTheEnd`, `MCInTheEnd`. The models hold no RECURSIVE operator, and no theorem needs induction over data.

## 6. Simplifications, and what is not modelled

The driving:

* Events are sets. `Events` keeps a sorted list in which an event can occur twice, which no code that
  the model covers makes use of. Names of `events` and `events_sp` do not overlap.
* Events of type WARNING or PERMANENT alone change no state machine and are left out, except `brakeHold`, which pauses
  the steering. The catch-all for communication faults and the conditions of other processes come as one set of
  system events that may be anything in any frame.
* `regenBraking` is part of `brakePressed`. One button event per frame. Of the branches for cars there are `blockPcmEnable`, Honda's events,
  `allow_button_cancel` and `DRIVABLE_GEARS`, as constants; the others (Toyota, Chrysler, Hyundai), passive mode, `notCar`,
  replay and simulation are left out.
* `AlertManager`, with its priorities and durations, is not modelled: `AlertsMade` is what alerts are made of, and a more
  urgent one may be the one that is shown.
* `BrakeStopsSteering` leaves the frame of a new press of the accelerator out, in which MADS does not see the brake (`mads.py:66`).
* `enabled` and `active` are functions of the state and are not variables.
* Before initialization a frame holds `selfdriveInitializing` only.
* Parameters are refreshed in any frame, where the code does so every 50th frame or every 0.1 s.
* The set speed is in whole km/h, in metric units, without custom increments; one button at a time; the count of a long
  press wraps after two of its steps. Cars whose speed openpilot moves by pressing their buttons (ICBM), and cars that keep
  the set speed but do not report it, are left out. The mode of the speed limit assist is constantly on; of the
  resolver there is the limit that is known, not where it comes from, and its offset stays what it is during a drive and leaves a
  positive speed. (In the code an offset changed while driving moves the set speed without a confirmation, as
  `speed_limit_changed` compares the limits without it.)
* controlsd sees any mixture of messages instead of the queues between the processes. Its controllers of curvature and
  acceleration are numerical and left out. That a blinker is old when `TurnIsTheDrivers` looks at it is not excluded.
* The driver monitoring takes as input whether a face is seen, whether the pose is certain and whether any distraction is
  found; wheel side and pose calibration, which decide these, are numerical. Left out: the counter behind the offroad alert
  about an uncertain camera, the demo mode (its inputs are among the ordinary ones), the offline development switch,
  and the removal of `DriverTooDistracted` by the cabin camera dialog of the UI. `AlwaysOnDM` may be read in any frame.
  A message without any face data, for which `policy.py:266` returns early, is not an input.
* The lane change probability is the Boolean `done`, speeds are three bands, the road edge flag is an input.

The device:

* Parameters: a value is the number of the call that wrote it; of the failures of a call that of its lock is one. A power cut leaves, of each file on its own, what it was
  at any time since the last sync of the directory. Types, defaults and the flags other than the one `clearAll` is called with are left
  out.
* Loggerd: a packet stands for what an encoder sends in a unit of time, in which every living encoder sends once. Preview
  encoders, `qlog` and the contents of a segment are left out.
* Segments: a directory holds one log and, with cameras, one video; the server takes a log or does not. A move to the
  external disk takes the directory away as a deletion does, and a deletion is one step: one that fails leaves the directory as it was.
  The order of files within a segment and the sizes are left out; space may be short at any time.
* Update: branches are one list of versions, one of which the server offers. Submodules, permissions, the count of failures
  and the texts are left out. That the newest is installed is checked once the faults are spent, and a restart during a fetch is one.
* Agnos: a partition holds a version or garbage; download and decompression end in a write that may be cut anywhere.
* Hardwared: temperatures are the ranges between the limits of the bands; the battery is good or weak. Fans, power save, statistics
  and updates of attached hardware are left out. A pass that is cut short changes nothing the next does not read again.
* Manager: processes are onroad, offroad or always; `DaemonProcess`, `manager_init` and parameters cleared at transitions
  are left out.
* Athenad: the websocket is the flag `end` and its opening again; the local proxy and the calls that only read are left out. A file
  of an item stays or goes as `Raises` says.
* Modem: one AT command or all of a step fail together; signal, operator, band, temperatures and traffic are left out, and
  DNS servers but for their failure. A registration that changes does not end a session by itself.
* Livestream: codec, the adaptation of the bit rate, the data channel, the messages other than `livestreamVideoEnable` and the
  control of a body are left out, as is `startStream` on the road. The end of webrtcd takes its sessions with it in one step.
* Wi-Fi: a connection is named by its network, and PREPARE stands for the states between it and ACTIVATED. Tethering,
  the list of a scan, addresses, metered settings, callbacks and pages are left out; the callback `need_auth` is the step
  `WrongPassword`. The queues of signals are never full: no signal is received while one holds `SIGNAL_QUEUE_SIZE`.

Not modelled, each with its reason in `PROJECT.json`: numerical filters and optimisers (planner, locationd, estimators, the neural
networks), device input and output (cameras, sensors, panda's SPI), the user interface apart from Wi-Fi, the
tools, an external binary (mapd). sunnylinkd's queue is athenad's. What remains small and discrete is
planned below.

## 7. Plan

1. *Done*: state machine, MADS, selfdrived, lane changes, steering decision, driver monitoring, with their
   contracts and proofs.
2. *Done*: the set speed of card with the speed limit assist.
3. *Done*: parameters, loggerd's rotation, segments with uploader and deleter, the update with the operating system,
   hardwared with manager, athenad's uploads and clips, the modem, webrtcd's sessions, the Wi-Fi manager.
4. An abstract contract of escalation that DriverMonitoring implements, and the link to selfdrived's no-entry event.
5. `Lateral`: SelfdriveD, ControlsD and DesireHelper composed through the messages between them, one frame late.
6. RoadEdgeLaneChange (an input of DesireHelper so far), AlertManager, LongControl's state machine, the models manager's
   downloads.
7. *Done*: a proof of every safety property the runs check.
