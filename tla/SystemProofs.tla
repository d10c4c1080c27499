---------------------------- MODULE SystemProofs ----------------------------
(***************************************************************************)
(* The device around the driving: hardwared, and hardwared with manager,   *)
(* for every length of an onroad cycle and every set of processes; and the *)
(* software on its disk, for every number of versions and partitions, and  *)
(* power cuts at any time.                                                 *)
(***************************************************************************)
EXTENDS Update, Device, TLAPS, WellFoundedInduction

-----------------------------------------------------------------------------
(* hardwared.  It is inductive that what drives is not in the hottest band:  *)
(* the pass that measures it there ends the drive.                           *)

HwInv == HwTypeOK /\ (started => thermal # 3)

LEMMA HwRanges ==
  ASSUME HwTypeOK
  PROVE  temp \in 0 .. 4 /\ thermal \in 1 .. 3 /\ cycle \in 0 .. CyclePasses
BY Zenon DEF HwTypeOK

LEMMA ThermalType ==
  ASSUME HwTypeOK PROVE Thermal \in 1 .. 3
<1>1. thermal \in {1, 2, 3}
  BY HwRanges
<1>2. CASE thermal = 1
  <2>1. ~BelowBand
    BY <1>2 DEF BelowBand
  <2>2. Thermal \in {3, thermal + 1, thermal}
    BY <2>1 DEF Thermal
  <2> QED BY <1>2, <2>2
<1>3. CASE thermal = 2
  <2>1. Thermal \in {3, thermal - 1, thermal + 1, thermal}
    BY DEF Thermal
  <2> QED BY <1>3, <2>1
<1>4. CASE thermal = 3
  <2>1. ~AboveBand
    BY <1>4 DEF AboveBand
  <2>2. Thermal \in {3, thermal - 1, thermal}
    BY <2>1 DEF Thermal
  <2> QED BY <1>4, <2>2
<1> QED BY <1>1, <1>2, <1>3, <1>4

LEMMA CycleType ==
  ASSUME HwTypeOK PROVE CycleLeft \in 0 .. CyclePasses
<1>1. CyclePasses \in Nat /\ cycle \in 0 .. CyclePasses
  BY CycleAssumption, HwRanges
<1>2. CycleLeft \in {CyclePasses, 0} \/ (cycle > 0 /\ CycleLeft = cycle - 1)
  BY DEF CycleLeft
<1> QED BY <1>1, <1>2

LEMMA PassKeepsHw == HwInv /\ HardwarePass => HwInv'
<1> SUFFICES ASSUME HwInv, HardwarePass PROVE HwInv'
  OBVIOUS
<1>1. HwTypeOK /\ UNCHANGED << world, up >>
  BY DEF HwInv, HardwarePass
<1>2. cycle' \in 0 .. CyclePasses /\ thermal' \in 1 .. 3
  BY <1>1, ThermalType, CycleType DEF HardwarePass
<1>3. /\ ign' \in BOOLEAN /\ panda' \in {"speaks", "silent", "timed out"}
      /\ temp' \in 0 .. 4 /\ hot' \in BOOLEAN /\ allowed' \in BOOLEAN /\ forced' \in BOOLEAN
      /\ battery' \in {"good", "weak"}
      /\ powerDown' \in BOOLEAN /\ forceDown' \in BOOLEAN /\ up' \in BOOLEAN
  BY <1>1 DEF HwTypeOK, world
<1>4. ignSeen' \in BOOLEAN
  BY <1>1 DEF HwTypeOK, HardwarePass, Ignition
<1>5. started' \in BOOLEAN /\ startedSeen' \in BOOLEAN /\ doShutdown' \in BOOLEAN
      /\ cycleReq' \in BOOLEAN
  BY <1>1, Zenon DEF HwTypeOK, HardwarePass, ShouldStart, ShouldShutdown
<1>6. off' \in Ages /\ (started' => off' = "none")
  BY <1>1 DEF HwTypeOK, HardwarePass, OffTs, Ages
<1>7. started' => thermal' # 3
  <2>1. started' => Thermal < 3 /\ thermal' = Thermal
    BY DEF HardwarePass, ShouldStart
  <2> QED BY <1>1, <2>1, ThermalType
<1> QED BY <1>2, <1>3, <1>4, <1>5, <1>6, <1>7 DEF HwInv, HwTypeOK

\* What the lemmas below need of a step that leaves the drive alone.
LEMMA HwUndisturbed ==
  ASSUME HwInv,
         UNCHANGED << temp, cycle, thermal, ignSeen, started, startedSeen, doShutdown >>,
         UNCHANGED << ign, panda, hot, allowed, forced, battery, powerDown, forceDown >>,
         cycleReq' \in BOOLEAN, up' \in BOOLEAN, off' \in Ages, started => off' = "none"
  PROVE  HwInv'
<1>1. temp' \in 0 .. 4 /\ cycle' \in 0 .. CyclePasses /\ thermal' \in 1 .. 3
  BY HwRanges, Zenon DEF HwInv
<1>2. /\ ign' \in BOOLEAN /\ hot' \in BOOLEAN /\ allowed' \in BOOLEAN /\ forced' \in BOOLEAN
      /\ powerDown' \in BOOLEAN /\ forceDown' \in BOOLEAN
      /\ ignSeen' \in BOOLEAN /\ started' \in BOOLEAN /\ startedSeen' \in BOOLEAN
      /\ doShutdown' \in BOOLEAN
  BY Zenon DEF HwInv, HwTypeOK
<1>3. panda' \in {"speaks", "silent", "timed out"} /\ battery' \in {"good", "weak"}
  BY Zenon DEF HwInv, HwTypeOK
<1>4. (started' => off' = "none") /\ (started' => thermal' # 3)
  BY DEF HwInv
<1> QED BY <1>1, <1>2, <1>3, <1>4, Zenon DEF HwInv, HwTypeOK

LEMMA AroundKeepsHw == HwInv /\ Around => HwInv'
<1> SUFFICES ASSUME HwInv, Around PROVE HwInv'
  OBVIOUS
<1> USE DEF HwInv, HwTypeOK, Ages
<1>1. CASE CycleRequested
  <2>1. UNCHANGED << world, up, kept >> /\ cycleReq' = TRUE
    BY <1>1 DEF CycleRequested
  <2>2. /\ ign' = ign /\ panda' = panda /\ temp' = temp /\ hot' = hot /\ allowed' = allowed
        /\ forced' = forced /\ battery' = battery /\ powerDown' = powerDown
        /\ forceDown' = forceDown /\ up' = up /\ ignSeen' = ignSeen /\ cycle' = cycle
        /\ thermal' = thermal /\ started' = started /\ startedSeen' = startedSeen
        /\ off' = off /\ doShutdown' = doShutdown
    BY <2>1, Zenon DEF world, kept
  <2>3. cycleReq' \in BOOLEAN
    BY <2>1
  <2>4. off' \in Ages /\ up' \in BOOLEAN /\ (started => off' = "none")
    BY <2>2
  <2> QED BY <2>2, <2>3, <2>4, HwUndisturbed, Zenon
<1>2. CASE TimePasses
  <2>1. /\ ign' = ign /\ panda' = panda /\ temp' = temp /\ hot' = hot /\ allowed' = allowed
        /\ forced' = forced /\ battery' = battery /\ powerDown' = powerDown
        /\ forceDown' = forceDown /\ ignSeen' = ignSeen /\ cycle' = cycle
        /\ thermal' = thermal /\ started' = started /\ startedSeen' = startedSeen
        /\ cycleReq' = cycleReq /\ doShutdown' = doShutdown
    BY <1>2, Zenon DEF TimePasses, world
  <2>2. up' \in BOOLEAN /\ off' \in Ages /\ (started => off' = "none")
    BY <1>2 DEF TimePasses
  <2>3. cycleReq' \in BOOLEAN
    BY <2>1
  <2> QED BY <2>1, <2>2, <2>3, HwUndisturbed, Zenon
<1>3. CASE WorldMoves
  <2>1. UNCHANGED << cycleReq, up, kept >>
    BY <1>3 DEF WorldMoves
  <2>2. /\ ign' \in BOOLEAN /\ panda' \in {"speaks", "silent", "timed out"}
        /\ temp' \in 0 .. 4 /\ hot' \in BOOLEAN /\ allowed' \in BOOLEAN /\ forced' \in BOOLEAN
        /\ battery' \in {"good", "weak"}
        /\ powerDown' \in BOOLEAN /\ forceDown' \in BOOLEAN
    <3>1. CASE IgnitionTurns
      BY <3>1 DEF IgnitionTurns
    <3>2. CASE PandaGoes
      BY <3>2 DEF PandaGoes
    <3>3. CASE TemperatureMoves
      BY <3>3 DEF TemperatureMoves
    <3>4. CASE BatteryMoves
      BY <3>4 DEF BatteryMoves
    <3>5. CASE UserSwitches
      BY <3>5 DEF UserSwitches
    <3>6. CASE PowerDownForced
      BY <3>6 DEF PowerDownForced
    <3> QED BY <1>3, <3>1, <3>2, <3>3, <3>4, <3>5, <3>6 DEF WorldMoves
  <2> QED BY <2>1, <2>2 DEF kept
<1> QED BY <1>1, <1>2, <1>3 DEF Around

LEMMA HwStart == HwInit => HwInv
<1> SUFFICES ASSUME HwInit PROVE HwInv
  OBVIOUS
<1>1. cycle \in 0 .. CyclePasses
  BY CycleAssumption DEF HwInit
<1>2. HwTypeOK
  <2>1. temp \in 0 .. 4 /\ thermal \in 1 .. 3
    BY DEF HwInit
  <2>2. panda \in {"speaks", "silent", "timed out"} /\ battery \in {"good", "weak"} /\ off \in Ages
    BY DEF HwInit, Ages
  <2> QED BY <1>1, <2>1, <2>2, Zenon DEF HwInit, HwTypeOK
<1> QED BY <1>2 DEF HwInit, HwInv

LEMMA HwStep == HwInv /\ [HwNext]_hwVars => HwInv'
<1> SUFFICES ASSUME HwInv, [HwNext]_hwVars PROVE HwInv'
  OBVIOUS
<1>1. CASE HwNext
  BY <1>1, PassKeepsHw, AroundKeepsHw DEF HwNext
<1>2. CASE UNCHANGED hwVars
  <2>1. /\ UNCHANGED << temp, cycle, thermal, ignSeen, started, startedSeen, doShutdown >>
        /\ UNCHANGED << ign, panda, hot, allowed, forced, battery, powerDown, forceDown >>
        /\ UNCHANGED << cycleReq, up, off >>
    BY <1>2 DEF hwVars, world, kept
  <2>2. cycleReq' \in BOOLEAN /\ up' \in BOOLEAN /\ off' \in Ages /\ (started => off' = "none")
    BY <2>1 DEF HwInv, HwTypeOK
  <2> QED BY <2>1, <2>2, HwUndisturbed, Zenon
<1> QED BY <1>1, <1>2

\* Nothing around hardwared starts or ends a drive, changes the band or decides to
\* shut down.
LEMMA OnlyPassesDecide ==
  ASSUME HwNext, ~HardwarePass
  PROVE  UNCHANGED << started, thermal, doShutdown >>
BY DEF HwNext, Around, WorldMoves, CycleRequested, TimePasses, kept

\* The temperature ends a drive only above 107 degrees and lets one begin only up to
\* 96; what was too hot rests until it is below 88; and no device decides to shut down
\* while it drives or, unless it is forced to, before five minutes in a parked car.
THEOREM HardwareKeepsItsRules == HwSpec => HardwareRules
<1>1. ASSUME HwInv, HwNext, started, ~started', thermal' = 3 PROVE temp = 4
  <2>1. HardwarePass
    BY <1>1, OnlyPassesDecide
  <2>2. thermal \in 1 .. 2 /\ temp \in 0 .. 4
    BY <1>1, HwRanges DEF HwInv
  <2>3. Thermal = 3
    BY <1>1, <2>1 DEF HardwarePass
  <2> QED BY <1>1, <2>2, <2>3 DEF Thermal, OffroadForFiveMinutes, BelowBand, AboveBand
<1>2. ASSUME HwInv, HwNext, ~started, started' PROVE temp <= 2
  <2>1. HardwarePass
    BY <1>2, OnlyPassesDecide
  <2>2. thermal \in 1 .. 3 /\ temp \in 0 .. 4
    BY <1>2, HwRanges DEF HwInv
  <2>3. Thermal = 1
    BY <1>2, <2>1 DEF HardwarePass, ShouldStart
  <2> QED BY <2>2, <2>3 DEF Thermal, BelowBand, AboveBand
<1>3. ASSUME HwInv, HwNext, thermal # 1, thermal' = 1 PROVE temp = 0
  <2>1. HardwarePass
    BY <1>3, OnlyPassesDecide
  <2>2. thermal \in 2 .. 3 /\ temp \in 0 .. 4
    BY <1>3, HwRanges DEF HwInv
  <2>3. Thermal = 1
    BY <1>3, <2>1 DEF HardwarePass
  <2> QED BY <2>2, <2>3 DEF Thermal, BelowBand, AboveBand
<1>4. ASSUME HwInv, HwNext, doShutdown', ~doShutdown
      PROVE  ~started' /\ (forceDown \/ (~(panda = "speaks" /\ ign) /\ off \in {"long", "max"}))
  <2>1. HardwarePass
    BY <1>4, OnlyPassesDecide
  <2>2. ShouldShutdown
    BY <1>4, <2>1 DEF HardwarePass
  <2>3. ~started'
    BY <2>1, <2>2 DEF HardwarePass, ShouldShutdown, OffTs
  <2>4. CASE ~forceDown
    <3>1. OffTs \in {"long", "max"} /\ ~Ignition
      BY <2>2, <2>4 DEF ShouldShutdown
    <3>2. off \in {"long", "max"}
      BY <3>1 DEF OffTs
    <3>3. ~(panda = "speaks" /\ ign)
      BY <3>1 DEF Ignition
    <3> QED BY <2>3, <3>2, <3>3
  <2> QED BY <2>3, <2>4
<1>5. HwInv /\ [HwNext]_hwVars =>
        /\ [/\ started /\ ~started' /\ thermal' = 3 => temp = 4
            /\ ~started /\ started' => temp <= 2]_hwVars
        /\ [thermal # 1 /\ thermal' = 1 => temp = 0]_hwVars
        /\ [doShutdown' /\ ~doShutdown =>
              ~started' /\ (forceDown \/ (~(panda = "speaks" /\ ign)
                                          /\ off \in {"long", "max"}))]_hwVars
  BY <1>1, <1>2, <1>3, <1>4
<1> QED
  BY <1>5, HwStart, HwStep, PTL
     DEF HwSpec, HardwareRules, HeatDecides, RestsUntilCool, ShutdownIsForParked

-----------------------------------------------------------------------------
(* manager.  The loops go through the processes by their numbers, so that    *)
(* the first of those left is one of them.                                   *)

LEMMA LeastIsIn ==
  ASSUME NEW S, S \subseteq Nat, S # {}
  PROVE  (CHOOSE x \in S : \A q \in S : x <= q) \in S
<1>1. PICK x \in S : \A y \in S : << y, x >> \notin OpToRel(<, Nat)
  BY NatLessThanWellFounded, WFMin
<1>2. \A q \in S : x <= q
  <2> SUFFICES ASSUME NEW q \in S, ~(x <= q) PROVE FALSE
    OBVIOUS
  <2>1. q \in Nat /\ x \in Nat /\ q < x
    OBVIOUS
  <2>2. << q, x >> \in OpToRel(<, Nat)
    BY <2>1 DEF OpToRel
  <2> QED BY <1>1, <2>2
<1> QED BY <1>2

LEMMA FirstIsLeft ==
  ASSUME ManTypeOK, todo # {} PROVE First \in todo /\ First \in Procs
<1>1. todo \subseteq Nat /\ todo \subseteq Procs
  BY ProcAssumption DEF ManTypeOK, Procs
<1> QED BY <1>1, LeastIsIn DEF First

\* When manager sees that a drive is over it asks every process of the drive to end before
\* it reads the next deviceState, and one that is still ending is waited for before it is
\* started again: this is what a process that is fresh rests on.
ClearedInKill == pc = "kill" => \A p \in Procs \ todo : proc[p] = "none"
FreshOrAsked ==
    \A p \in Onroad : proc[p] = "alive" /\ p \notin stopping =>
        IF mStarted THEN missed \/ p \in fresh ELSE pc = "stop" /\ p \in todo
StartedStay ==
    \A p \in Onroad : mStarted /\ ((pc = "start" /\ p \notin todo) \/ pc = "poll")
        => ~(proc[p] = "alive" /\ p \in stopping)
DriveInv == missed \in BOOLEAN /\ FreshOrAsked /\ StartedStay
ManInv == ManTypeOK /\ CleanedUp /\ ClearedInKill /\ DriveInv

LEMMA PollKeeps ==
  ASSUME HwInv, ManInv, Poll(started), missed' = (missed /\ started) PROVE ManInv'
<1> USE DEF ManInv, Poll, handles
<1>1. ManTypeOK'
  <2>1. mStarted' \in BOOLEAN /\ unread' \in BOOLEAN
    BY Zenon DEF HwInv, HwTypeOK
  <2>2. /\ pc' \in {"poll", "stop", "start", "signal", "kill", "ended"} /\ todo' \subseteq Procs
        /\ proc' = proc /\ stopping' = stopping /\ fresh' = fresh /\ stubborn' = stubborn
    OBVIOUS
  <2> QED BY <2>1, <2>2, Zenon DEF ManTypeOK
<1>2. CleanedUp' /\ ClearedInKill'
  BY DEF CleanedUp, ClearedInKill
<1>3. DriveInv'
  <2>1. missed' \in BOOLEAN /\ (missed' <=> missed /\ started) /\ (mStarted' <=> started)
    BY Zenon DEF DriveInv, HwInv, HwTypeOK
  <2>2. /\ FreshOrAsked /\ pc = "poll" /\ pc' = "stop" /\ todo' = Procs
        /\ UNCHANGED << proc, stopping, fresh >>
    BY DEF DriveInv
  <2>3. FreshOrAsked'
    BY <2>1, <2>2 DEF FreshOrAsked, Procs
  <2>4. StartedStay'
    BY <2>2 DEF StartedStay
  <2> QED BY <2>1, <2>3, <2>4, Zenon DEF DriveInv
<1> QED BY <1>1, <1>2, <1>3

\* What a step of stop does to the handles, and what it asks of the type.
LEMMA StopStep ==
  ASSUME ManTypeOK, NEW p \in Procs, NEW block \in BOOLEAN, Stop(p, block)
  PROVE  /\ \A q \in Procs \ {p} : proc'[q] = proc[q] /\ (q \in stopping' <=> q \in stopping)
         /\ proc'[p] = "alive" => p \in stopping' /\ proc[p] = "alive"
         /\ proc[p] = "none" => proc'[p] = "none"
         /\ p \in stopping' => proc'[p] # "none"
         /\ proc' \in [Procs -> {"none", "alive", "gone"}] /\ stopping' \subseteq Procs
         /\ fresh' = fresh
         /\ pc' = pc /\ (todo' = todo \ {First} \/ (todo' = todo /\ block))
         /\ block /\ todo' # todo => proc'[p] = "none"
<1> USE DEF ManTypeOK, GoOn
<1>1. CASE proc[p] = "none" /\ GoOn /\ UNCHANGED handles
  BY <1>1 DEF handles
<1>2. CASE Drop(p) /\ GoOn
  BY <1>2 DEF Drop, Set
<1>3. CASE p \notin stopping /\ Signal(p) /\ (IF block THEN UNCHANGED << pc, todo >> ELSE GoOn)
  BY <1>3 DEF Signal
<1>4. CASE p \in stopping /\ KillIt(p) /\ GoOn
  BY <1>4 DEF KillIt, Set
<1> QED BY <1>1, <1>2, <1>3, <1>4 DEF Stop

LEMMA StopUnwantedKeeps ==
  ASSUME ManInv, StopUnwanted, missed' = missed PROVE ManInv'
<1>t. /\ ManTypeOK /\ pc = "stop" /\ UNCHANGED << mStarted, unread, stubborn >>
      /\ CleanedUp /\ ClearedInKill
  BY DEF ManInv, StopUnwanted
<1>1. CASE todo = {} /\ pc' = "start" /\ todo' = Procs /\ UNCHANGED handles
  <2> USE DEF handles
  <2>1. ManTypeOK'
    BY <1>t, <1>1, Zenon DEF ManTypeOK
  <2>2. CleanedUp' /\ ClearedInKill'
    BY <1>1 DEF CleanedUp, ClearedInKill
  <2>3. DriveInv'
    BY <1>t, <1>1 DEF ManInv, DriveInv, FreshOrAsked, StartedStay, Procs
  <2> QED BY <2>1, <2>2, <2>3 DEF ManInv
<1>2. CASE todo # {} /\ Wanted(First) /\ GoOn /\ UNCHANGED handles
  <2> USE DEF handles, GoOn
  <2>1. ManTypeOK'
    BY <1>t, <1>2 DEF ManTypeOK
  <2>2. CleanedUp' /\ ClearedInKill'
    BY <1>t, <1>2 DEF CleanedUp, ClearedInKill
  <2>3. ~mStarted => First \notin Onroad
    BY <1>2, ProcAssumption DEF Wanted
  <2>4. DriveInv'
    BY <1>t, <1>2, <2>3 DEF ManInv, DriveInv, FreshOrAsked, StartedStay
  <2> QED BY <2>1, <2>2, <2>4 DEF ManInv
<1>3. CASE todo # {} /\ ~Wanted(First) /\ Stop(First, FALSE)
  <2>1. First \in todo /\ First \in Procs
    BY <1>t, <1>3, FirstIsLeft
  <2>2. /\ \A q \in Procs \ {First} : proc'[q] = proc[q] /\ (q \in stopping' <=> q \in stopping)
        /\ proc'[First] = "alive" => First \in stopping' /\ proc[First] = "alive"
        /\ First \in stopping' => proc'[First] # "none"
        /\ proc' \in [Procs -> {"none", "alive", "gone"}] /\ stopping' \subseteq Procs
        /\ fresh' = fresh /\ pc' = pc /\ todo' = todo \ {First}
    BY <1>t, <1>3, <2>1, StopStep
  <2>3. ManTypeOK'
    BY <1>t, <2>2 DEF ManTypeOK
  <2>4. CleanedUp' /\ ClearedInKill'
    BY <1>t, <2>2 DEF CleanedUp, ClearedInKill
  <2>5. DriveInv'
    BY <1>t, <2>1, <2>2 DEF ManInv, DriveInv, FreshOrAsked, StartedStay, Procs
  <2> QED BY <2>3, <2>4, <2>5 DEF ManInv
<1> QED BY <1>1, <1>2, <1>3 DEF StopUnwanted

LEMMA CleanupKeeps ==
  ASSUME ManInv, Cleanup, missed' = missed PROVE ManInv'
<1>t. /\ ManTypeOK /\ pc \in {"signal", "kill"} /\ UNCHANGED << mStarted, unread, stubborn >>
      /\ CleanedUp /\ ClearedInKill
  BY DEF ManInv, Cleanup
<1>1. CASE todo = {} /\ pc = "signal" /\ pc' = "kill" /\ todo' = Procs /\ UNCHANGED handles
  <2> USE DEF handles
  <2>1. ManTypeOK'
    BY <1>t, <1>1, Zenon DEF ManTypeOK
  <2>2. CleanedUp' /\ ClearedInKill'
    BY <1>1 DEF CleanedUp, ClearedInKill
  <2>3. DriveInv'
    BY <1>t, <1>1 DEF ManInv, DriveInv, FreshOrAsked, StartedStay, Procs
  <2> QED BY <2>1, <2>2, <2>3 DEF ManInv
<1>2. CASE todo = {} /\ pc = "kill" /\ pc' = "ended" /\ UNCHANGED << todo, handles >>
  <2> USE DEF handles
  <2>1. ManTypeOK'
    BY <1>t, <1>2, Zenon DEF ManTypeOK
  <2>2. CleanedUp' /\ ClearedInKill'
    BY <1>t, <1>2 DEF CleanedUp, ClearedInKill
  <2>3. DriveInv'
    BY <1>t, <1>2 DEF ManInv, DriveInv, FreshOrAsked, StartedStay, Procs
  <2> QED BY <2>1, <2>2, <2>3 DEF ManInv
<1>3. CASE todo # {} /\ Stop(First, pc = "kill")
  <2>1. First \in todo /\ First \in Procs /\ (pc = "kill") \in BOOLEAN
    BY <1>t, <1>3, FirstIsLeft
  <2>2. /\ \A q \in Procs \ {First} : proc'[q] = proc[q] /\ (q \in stopping' <=> q \in stopping)
        /\ proc'[First] = "alive" => First \in stopping' /\ proc[First] = "alive"
        /\ proc[First] = "none" => proc'[First] = "none"
        /\ First \in stopping' => proc'[First] # "none"
        /\ proc' \in [Procs -> {"none", "alive", "gone"}] /\ stopping' \subseteq Procs
        /\ fresh' = fresh /\ pc' = pc /\ (todo' = todo \ {First} \/ todo' = todo)
        /\ pc = "kill" /\ todo' # todo => proc'[First] = "none"
    <3> DEFINE block == pc = "kill"
    <3>1. Stop(First, block) /\ block \in BOOLEAN
      BY <1>3
    <3> HIDE DEF block
    <3>2. /\ \A q \in Procs \ {First} : proc'[q] = proc[q] /\ (q \in stopping' <=> q \in stopping)
          /\ proc'[First] = "alive" => First \in stopping' /\ proc[First] = "alive"
          /\ proc[First] = "none" => proc'[First] = "none"
          /\ First \in stopping' => proc'[First] # "none"
          /\ proc' \in [Procs -> {"none", "alive", "gone"}] /\ stopping' \subseteq Procs
          /\ fresh' = fresh /\ pc' = pc /\ (todo' = todo \ {First} \/ todo' = todo)
          /\ block /\ todo' # todo => proc'[First] = "none"
      BY <1>t, <2>1, <3>1, StopStep
    <3> QED BY <3>2 DEF block
  <2>3. ManTypeOK'
    BY <1>t, <2>2 DEF ManTypeOK
  <2>4. CleanedUp' /\ ClearedInKill'
    BY <1>t, <2>1, <2>2 DEF CleanedUp, ClearedInKill
  <2>5. DriveInv'
    BY <1>t, <2>1, <2>2 DEF ManInv, DriveInv, FreshOrAsked, StartedStay, Procs
  <2> QED BY <2>3, <2>4, <2>5 DEF ManInv
<1> QED BY <1>1, <1>2, <1>3 DEF Cleanup

LEMMA StartWantedKeeps ==
  ASSUME ManInv, NEW end, StartWanted(end), missed' = missed PROVE ManInv'
<1>t. /\ ManTypeOK /\ pc = "start" /\ UNCHANGED << mStarted, unread, stubborn >>
      /\ CleanedUp /\ ClearedInKill
  BY DEF ManInv, StartWanted
<1>1. CASE todo = {} /\ UNCHANGED handles
           /\ IF end THEN pc' = "signal" /\ todo' = Procs ELSE pc' = "poll" /\ UNCHANGED todo
  <2> USE DEF handles
  <2>0. (pc' = "signal" \/ pc' = "poll") /\ todo' \subseteq Procs
    BY <1>t, <1>1 DEF ManTypeOK
  <2>1. ManTypeOK'
    BY <1>t, <1>1, <2>0, Zenon DEF ManTypeOK
  <2>2. CleanedUp' /\ ClearedInKill'
    BY <2>0 DEF CleanedUp, ClearedInKill
  <2>3. DriveInv'
    BY <1>t, <1>1, <2>0 DEF ManInv, DriveInv, FreshOrAsked, StartedStay, Procs
  <2> QED BY <2>1, <2>2, <2>3 DEF ManInv
<1>2. CASE todo # {} /\ ~Wanted(First) /\ GoOn /\ UNCHANGED handles
  <2> USE DEF handles, GoOn
  <2>1. ManTypeOK'
    BY <1>t, <1>2 DEF ManTypeOK
  <2>2. CleanedUp' /\ ClearedInKill'
    BY <1>t, <1>2 DEF CleanedUp, ClearedInKill
  <2>3. mStarted => First \notin Onroad
    BY <1>2 DEF Wanted
  <2>4. DriveInv'
    BY <1>t, <1>2, <2>3 DEF ManInv, DriveInv, FreshOrAsked, StartedStay
  <2> QED BY <2>1, <2>2, <2>4 DEF ManInv
<1>3. CASE todo # {} /\ Wanted(First) /\ Start(First)
  <2>1. First \in todo /\ First \in Procs
    BY <1>t, <1>3, FirstIsLeft
  <2>3. CASE First \in stopping /\ (Drop(First) \/ KillIt(First)) /\ UNCHANGED << pc, todo >>
    <3>1. /\ proc' = [proc EXCEPT ![First] = "none"] /\ stopping' = stopping \ {First}
          /\ fresh' = fresh /\ pc' = pc /\ todo' = todo
      BY <2>3 DEF Drop, KillIt, Set
    <3>2. ManTypeOK'
      BY <1>t, <2>1, <3>1 DEF ManTypeOK
    <3>3. CleanedUp' /\ ClearedInKill'
      BY <1>t, <3>1 DEF CleanedUp, ClearedInKill
    <3>4. DriveInv'
      BY <1>t, <2>1, <3>1
         DEF ManInv, ManTypeOK, DriveInv, FreshOrAsked, StartedStay, Procs
    <3> QED BY <3>2, <3>3, <3>4 DEF ManInv
  <2>4. CASE First \notin stopping /\ proc[First] # "none" /\ GoOn /\ UNCHANGED handles
    <3> USE DEF handles, GoOn
    <3>1. ManTypeOK'
      BY <1>t, <2>4 DEF ManTypeOK
    <3>2. CleanedUp' /\ ClearedInKill'
      BY <1>t, <2>4 DEF CleanedUp, ClearedInKill
    <3>3. DriveInv'
      BY <1>t, <2>4 DEF ManInv, DriveInv, FreshOrAsked, StartedStay
    <3> QED BY <3>1, <3>2, <3>3 DEF ManInv
  <2>5. CASE /\ proc[First] = "none" /\ Set(First, "alive") /\ fresh' = fresh \cup {First}
             /\ UNCHANGED stopping /\ GoOn
    <3>1. /\ proc' = [proc EXCEPT ![First] = "alive"] /\ stopping' = stopping
          /\ fresh' = fresh \cup {First} /\ pc' = pc /\ todo' = todo \ {First}
          /\ First \notin stopping
      BY <1>t, <2>5 DEF Set, GoOn, ManTypeOK
    <3>2. ManTypeOK'
      BY <1>t, <2>1, <3>1 DEF ManTypeOK
    <3>3. CleanedUp' /\ ClearedInKill'
      BY <1>t, <3>1 DEF CleanedUp, ClearedInKill
    <3>4. ~mStarted => First \notin Onroad
      BY <1>3, ProcAssumption DEF Wanted
    <3>5. DriveInv'
      BY <1>t, <2>1, <3>1, <3>4
         DEF ManInv, ManTypeOK, DriveInv, FreshOrAsked, StartedStay, Procs
    <3> QED BY <3>2, <3>3, <3>5 DEF ManInv
  <2> QED BY <1>3, <2>3, <2>4, <2>5 DEF Start
<1> QED BY <1>1, <1>2, <1>3 DEF StartWanted

LEMMA ProcessKeeps ==
  ASSUME ManInv, NEW p \in Procs, Ends(p) \/ Crashes(p), missed' = missed PROVE ManInv'
<1>1. /\ ManTypeOK /\ proc[p] = "alive" /\ proc' = [proc EXCEPT ![p] = "gone"]
      /\ UNCHANGED << pc, todo, mStarted, unread, stopping, fresh, stubborn >>
      /\ CleanedUp /\ ClearedInKill
  BY DEF ManInv, Ends, Crashes, Set
<1>2. proc' \in [Procs -> {"none", "alive", "gone"}] /\ (\A q \in stopping' : proc'[q] # "none")
  BY <1>1 DEF ManTypeOK
<1>3. ManTypeOK'
  BY <1>1, <1>2, Zenon DEF ManTypeOK
<1>4. CleanedUp' /\ ClearedInKill'
  BY <1>1 DEF CleanedUp, ClearedInKill
<1>5. DriveInv'
  BY <1>1 DEF ManInv, ManTypeOK, DriveInv, FreshOrAsked, StartedStay, Procs
<1> QED BY <1>3, <1>4, <1>5 DEF ManInv

LEMMA PublishKeeps ==
  ASSUME HwInv, ManInv, Publish PROVE ManInv'
<1>1. /\ ManTypeOK /\ CleanedUp /\ ClearedInKill
      /\ UNCHANGED << pc, todo, mStarted, proc, stopping, stubborn >> /\ unread' = TRUE
      /\ fresh' = IF started' /\ ~started THEN {} ELSE fresh
  BY DEF ManInv, Publish
<1>2. ManTypeOK'
  <2>1. fresh' \subseteq Procs /\ unread' \in BOOLEAN
    BY <1>1 DEF ManTypeOK
  <2> QED BY <1>1, <2>1, Zenon DEF ManTypeOK
<1>3. CleanedUp' /\ ClearedInKill'
  BY <1>1 DEF CleanedUp, ClearedInKill
<1>4. DriveInv'
  <2>1. DriveInv /\ (missed' <=> missed \/ (started' /\ ~started /\ mStarted)) /\ missed' \in BOOLEAN
    BY Zenon DEF ManInv, Publish
  <2>2. FreshOrAsked'
    BY <1>1, <2>1 DEF DriveInv, FreshOrAsked
  <2>3. StartedStay'
    BY <1>1, <2>1 DEF DriveInv, StartedStay
  <2> QED BY <2>1, <2>2, <2>3, Zenon DEF DriveInv
<1> QED BY <1>2, <1>3, <1>4 DEF ManInv

LEMMA ManagerRests ==
  ASSUME ManInv, UNCHANGED manVars, missed' = missed PROVE ManInv'
<1>1. UNCHANGED << pc, todo, mStarted, unread, proc, stopping, fresh, stubborn >>
  BY DEF manVars, handles
<1>2. ManTypeOK'
  BY <1>1, Zenon DEF ManInv, ManTypeOK
<1>3. CleanedUp' /\ ClearedInKill'
  BY <1>1 DEF ManInv, CleanedUp, ClearedInKill
<1>4. DriveInv'
  BY <1>1 DEF ManInv, DriveInv, FreshOrAsked, StartedStay
<1> QED BY <1>2, <1>3, <1>4 DEF ManInv

LEMMA DeviceStep == HwInv /\ ManInv /\ [DeviceNext]_devVars => HwInv' /\ ManInv'
<1> SUFFICES ASSUME HwInv, ManInv, [DeviceNext]_devVars PROVE HwInv' /\ ManInv'
  OBVIOUS
<1>u. ASSUME UNCHANGED hwVars PROVE HwInv'
  BY <1>u, HwStep DEF hwVars, kept
<1>1. CASE Publish
  BY <1>1, PublishKeeps, PassKeepsHw DEF Publish
<1>2. CASE ManagerStep
  BY <1>2, <1>u, PollKeeps, StopUnwantedKeeps, StartWantedKeeps, CleanupKeeps DEF ManagerStep
<1>3. CASE Processes
  BY <1>3, <1>u, ProcessKeeps DEF Processes
<1>4. CASE Crash
  BY <1>4, <1>u, ProcessKeeps DEF Crash
<1>5. CASE Around /\ UNCHANGED << manVars, missed >>
  BY <1>5, AroundKeepsHw, ManagerRests
<1>6. CASE UNCHANGED devVars
  BY <1>6, <1>u, ManagerRests DEF devVars
<1> QED BY <1>1, <1>2, <1>3, <1>4, <1>5, <1>6 DEF DeviceNext

LEMMA DeviceStart == DeviceInit => HwInv /\ ManInv
<1> SUFFICES ASSUME DeviceInit PROVE HwInv /\ ManInv
  OBVIOUS
<1>1. HwInv
  BY HwStart DEF DeviceInit
<1>2. /\ pc = "stop" /\ todo = Procs /\ mStarted = FALSE /\ unread = FALSE /\ started = FALSE
      /\ proc = [p \in Procs |-> "none"] /\ stopping = {} /\ fresh = {} /\ missed = FALSE
      /\ stubborn \in {{}, Onroad, Offroad}
  BY DEF DeviceInit, ManInit, HwInit
<1>3. ManTypeOK
  BY <1>2 DEF ManTypeOK, Procs
<1>4. CleanedUp /\ ClearedInKill
  BY <1>2 DEF CleanedUp, ClearedInKill
<1>5. DriveInv
  BY <1>2 DEF DriveInv, FreshOrAsked, StartedStay, Procs
<1> QED BY <1>1, <1>3, <1>4, <1>5 DEF ManInv

\* However hardwared, manager and the processes interleave, and whatever the processes do
\* when they are asked to end: when manager waits for the next deviceState in a drive whose
\* beginning it has seen, what runs for the drive was started for it; and when manager has
\* ended no process is left.
THEOREM DeviceKeepsItsProcesses == DeviceSpec => []ProcessesAreRight
<1>1. HwInv /\ ManInv => ProcessesAreRight
  <2> SUFFICES ASSUME HwInv, ManInv PROVE ProcessesAreRight
    OBVIOUS
  <2>1. HwTypeOK /\ ManTypeOK /\ CleanedUp /\ missed \in BOOLEAN
    BY DEF HwInv, ManInv, DriveInv
  <2>2. FreshProcess
    BY DEF FreshProcess, ManInv, DriveInv, FreshOrAsked, StartedStay
  <2> QED BY <2>1, <2>2 DEF ProcessesAreRight
<1> QED BY <1>1, DeviceStart, DeviceStep, PTL DEF DeviceSpec

-----------------------------------------------------------------------------
(* The operating system.  A hash tells the truth about what it stands behind *)
(* in either slot, so that what flash_agnos_update is through with is as it  *)
(* should be, and what it flashes is never the slot that will be booted.     *)

HashesAreTrue ==
    \A s \in Slots : \A p \in Partitions \ FullCheck :
        hash[s][p] # NoHash => content[s][p] = hash[s][p]
FlashedSoFar ==
    flashing # 0 =>
        /\ \A p \in done : Verified(p, flashing)
        /\ done # Partitions /\ step = "hash" => content[Target][Partition] = flashing
        /\ done # Partitions /\ step # "check" /\ Partition \notin FullCheck
             => hash[Target][Partition] = NoHash
OsInv == OsTypeOK /\ HashesAreTrue /\ FlashedSoFar /\ ActiveIsWhole

LEMMA PartitionIsLeft ==
  ASSUME OsTypeOK, done # Partitions PROVE Partition \in Partitions /\ Partition \notin done
<1> DEFINE S == Partitions \ done
<1>1. S \subseteq Nat /\ S # {}
  BY PartitionAssumption DEF OsTypeOK
<1>2. (CHOOSE x \in S : \A q \in S : x <= q) \in S
  <2> HIDE DEF S
  <2> QED BY <1>1, LeastIsIn
<1> QED BY <1>2 DEF Partition

LEMMA TargetIsOther ==
  ASSUME OsTypeOK PROVE Target \in Slots /\ Target # booted
<1>1. booted = 0 \/ booted = 1
  BY DEF OsTypeOK, Slots
<1> QED BY <1>1 DEF Target, Slots

\* OsVersion is a matter of the slot that runs.
LEMMA SameSystem ==
  ASSUME content'[booted'] = content[booted] PROVE OsVersion' = OsVersion
BY DEF OsVersion

LEMMA FlashStepKeeps ==
  ASSUME OsInv, active = booted, FlashStep
  PROVE  OsInv' /\ UNCHANGED << active, booted, flashing >> /\ OsVersion' = OsVersion
<1>1. /\ OsTypeOK /\ HashesAreTrue /\ FlashedSoFar /\ ActiveIsWhole
      /\ Partition \in Partitions /\ Partition \notin done /\ Target \in Slots /\ Target # booted
      /\ flashing # 0 /\ done # Partitions /\ flashing \in OsVersions
      /\ UNCHANGED << active, booted, flashing >> /\ Target' = Target
  BY PartitionIsLeft, TargetIsOther
     DEF OsInv, FlashStep, CheckPartition, WriteImage, WriteHash, OsTypeOK, Target
<1>2. /\ content' \in [Slots -> [Partitions -> OsVersions \cup {Garbage}]]
      /\ content'[booted] = content[booted]
  <2>1. \/ content' = content
        \/ content' = [content EXCEPT ![Target][Partition] = Garbage]
        \/ content' = [content EXCEPT ![Target][Partition] = flashing]
    BY <1>1 DEF FlashStep, CheckPartition, WriteImage, WriteHash
  <2>2. content \in [Slots -> [Partitions -> OsVersions \cup {Garbage}]] /\ booted \in Slots
    BY <1>1 DEF OsTypeOK
  <2> QED BY <1>1, <2>1, <2>2
<1>3. hash' \in [Slots -> [Partitions -> OsVersions \cup {NoHash}]]
  <2>1. \/ hash' = hash
        \/ hash' = [hash EXCEPT ![Target][Partition] = NoHash]
        \/ hash' = [hash EXCEPT ![Target][Partition] = flashing]
    BY <1>1 DEF FlashStep, CheckPartition, WriteImage, WriteHash
  <2>2. hash \in [Slots -> [Partitions -> OsVersions \cup {NoHash}]]
    BY <1>1 DEF OsTypeOK
  <2> QED BY <1>1, <2>1, <2>2
<1>4. done' \subseteq Partitions /\ step' \in {"check", "write", "hash"}
  BY <1>1 DEF FlashStep, CheckPartition, WriteImage, WriteHash, OsTypeOK
<1>5. OsTypeOK'
  BY <1>1, <1>2, <1>3, <1>4 DEF OsTypeOK
<1>6. ActiveIsWhole' /\ OsVersion' = OsVersion
  BY <1>1, <1>2, SameSystem DEF ActiveIsWhole, Whole
<1>7. /\ content \in [Slots -> [Partitions -> OsVersions \cup {Garbage}]]
      /\ hash \in [Slots -> [Partitions -> OsVersions \cup {NoHash}]]
      /\ done \subseteq Partitions
  BY <1>1 DEF OsTypeOK
<1>8. HashesAreTrue' /\ FlashedSoFar'
  <2>1. CASE CheckPartition /\ Verified(Partition, flashing)
    <3>1. content' = content /\ hash' = hash /\ done' = done \cup {Partition} /\ step' = "check"
      BY <2>1 DEF CheckPartition
    <3>2. HashesAreTrue'
      BY <1>1, <3>1 DEF HashesAreTrue
    <3>3. FlashedSoFar'
      BY <1>1, <2>1, <3>1 DEF FlashedSoFar, Verified
    <3> QED BY <3>2, <3>3
  <2>2. CASE CheckPartition /\ ~Verified(Partition, flashing)
    <3>1. /\ content' = content /\ done' = done /\ step' = "write"
          /\ hash' = [hash EXCEPT ![Target][Partition] = NoHash]
      BY <2>2 DEF CheckPartition
    <3>2. HashesAreTrue'
      BY <1>1, <1>7, <3>1 DEF HashesAreTrue
    <3>3. /\ \A p \in done : hash'[Target][p] = hash[Target][p]
          /\ hash'[Target][Partition] = NoHash /\ Partition' = Partition
      BY <1>1, <1>7, <3>1 DEF Partition
    <3>4. FlashedSoFar'
      BY <1>1, <3>1, <3>3 DEF FlashedSoFar, Verified
    <3> QED BY <3>2, <3>4
  <2>3. CASE WriteImage /\ content[Target][Partition] # Garbage
    <3>1. /\ hash' = hash /\ done' = done /\ step' = "write" /\ step = "write"
          /\ content' = [content EXCEPT ![Target][Partition] = Garbage]
      BY <2>3 DEF WriteImage
    <3>2. Partition' = Partition
      BY <3>1 DEF Partition
    <3>3. \A p \in Partitions : p # Partition => content'[Target][p] = content[Target][p]
      BY <1>1, <1>7, <3>1
    <3>4. Partition \notin FullCheck => hash[Target][Partition] = NoHash
      BY <1>1, <3>1 DEF FlashedSoFar
    <3>5. HashesAreTrue'
      BY <1>1, <1>7, <3>1, <3>4 DEF HashesAreTrue
    <3>6. \A p \in done : Verified(p, flashing)'
      BY <1>1, <1>7, <3>1, <3>3 DEF FlashedSoFar, Verified
    <3> QED BY <1>1, <3>1, <3>2, <3>4, <3>5, <3>6 DEF FlashedSoFar
  <2>4. CASE WriteImage /\ content[Target][Partition] = Garbage
    <3>1. /\ hash' = hash /\ done' = done /\ step' = "hash" /\ step = "write"
          /\ content' = [content EXCEPT ![Target][Partition] = flashing]
      BY <2>4 DEF WriteImage
    <3>2. Partition' = Partition
      BY <3>1 DEF Partition
    <3>3. /\ \A p \in Partitions : p # Partition => content'[Target][p] = content[Target][p]
          /\ content'[Target][Partition] = flashing
      BY <1>1, <1>7, <3>1
    <3>4. Partition \notin FullCheck => hash[Target][Partition] = NoHash
      BY <1>1, <3>1 DEF FlashedSoFar
    <3>5. HashesAreTrue'
      BY <1>1, <1>7, <3>1, <3>4 DEF HashesAreTrue
    <3>6. \A p \in done : Verified(p, flashing)'
      BY <1>1, <1>7, <3>1, <3>3 DEF FlashedSoFar, Verified
    <3> QED BY <1>1, <3>1, <3>2, <3>3, <3>4, <3>5, <3>6 DEF FlashedSoFar
  <2>5. CASE WriteHash
    <3>1. /\ content' = content /\ done' = done \cup {Partition} /\ step' = "check" /\ step = "hash"
          /\ hash' = IF Partition \in FullCheck THEN hash
                     ELSE [hash EXCEPT ![Target][Partition] = flashing]
          /\ content[Target][Partition] = flashing
      BY <1>1, <2>5 DEF WriteHash, FlashedSoFar
    <3>2. HashesAreTrue'
      <4>1. CASE Partition \in FullCheck
        BY <1>1, <3>1, <4>1 DEF HashesAreTrue
      <4>2. CASE hash' = [hash EXCEPT ![Target][Partition] = flashing]
        BY <1>1, <1>7, <3>1, <4>2 DEF HashesAreTrue
      <4> QED BY <3>1, <4>1, <4>2
    <3>3. \A p \in done : hash'[Target][p] = hash[Target][p]
      BY <1>1, <1>7, <3>1
    <3>4. Partition \notin FullCheck => hash'[Target][Partition] = flashing
      BY <1>1, <1>7, <3>1
    <3>5. \A p \in done' : Verified(p, flashing)'
      BY <1>1, <3>1, <3>3, <3>4 DEF FlashedSoFar, Verified
    <3> QED BY <1>1, <3>1, <3>2, <3>5 DEF FlashedSoFar
  <2> QED BY <1>1, <2>1, <2>2, <2>3, <2>4, <2>5 DEF FlashStep, WriteImage
<1> QED BY <1>1, <1>5, <1>6, <1>8 DEF OsInv

\* What else is done to the slots.
LEMMA OsRests ==
  ASSUME OsInv, UNCHANGED osVars PROVE OsInv' /\ OsVersion' = OsVersion
<1>1. UNCHANGED << content, hash, active, booted, flashing, done, step >>
  BY DEF osVars
<1>2. OsTypeOK'
  BY <1>1 DEF OsInv, OsTypeOK
<1>3. HashesAreTrue' /\ ActiveIsWhole' /\ Target' = Target /\ Partition' = Partition
  BY <1>1 DEF OsInv, HashesAreTrue, ActiveIsWhole, Whole, Target, Partition
<1>4. FlashedSoFar'
  BY <1>1, <1>3 DEF OsInv, FlashedSoFar, Verified
<1> QED BY <1>1, <1>2, <1>3, <1>4, SameSystem DEF OsInv

LEMMA FlashTurns ==
  ASSUME OsInv, StopFlash \/ \E v \in OsVersions : StartFlash(v)
  PROVE  OsInv' /\ UNCHANGED slots /\ OsVersion' = OsVersion
<1>1. /\ OsTypeOK /\ UNCHANGED << content, hash, active, booted >>
      /\ flashing' \in OsVersions \cup {0} /\ done' = {} /\ step' = "check"
  BY DEF OsInv, StopFlash, StartFlash, slots
<1>2. OsTypeOK'
  BY <1>1 DEF OsTypeOK
<1>3. HashesAreTrue' /\ ActiveIsWhole'
  BY <1>1 DEF OsInv, HashesAreTrue, ActiveIsWhole, Whole
<1>4. FlashedSoFar'
  BY <1>1 DEF FlashedSoFar
<1> QED BY <1>1, <1>2, <1>3, <1>4, SameSystem DEF OsInv, slots

\* A slot whose partitions are all verified is whole, whichever way each is verified.
LEMMA VerifiedIsWhole ==
  ASSUME OsInv, NEW v \in OsVersions, VerifiedAll(v) PROVE Whole(Target, v)
<1>1. Target \in Slots /\ v # NoHash
  BY TargetIsOther, OsAssumption DEF OsInv, NoHash
<1> QED BY <1>1 DEF OsInv, HashesAreTrue, VerifiedAll, Verified, Whole

LEMMA ClearKeeps ==
  ASSUME OsInv, ClearHashes, flashing = 0
  PROVE  OsInv' /\ UNCHANGED << content, active, booted, flashing >> /\ OsVersion' = OsVersion
<1>1. /\ OsTypeOK /\ Target \in Slots
      /\ hash' = [hash EXCEPT ![Target] = [p \in Partitions |-> NoHash]]
      /\ UNCHANGED << content, active, booted, flashing, done, step >>
  BY TargetIsOther DEF OsInv, ClearHashes
<1>2. hash \in [Slots -> [Partitions -> OsVersions \cup {NoHash}]]
  BY <1>1 DEF OsTypeOK
<1>3. hash' \in [Slots -> [Partitions -> OsVersions \cup {NoHash}]]
  BY <1>1, <1>2
<1>4. OsTypeOK'
  BY <1>1, <1>3 DEF OsTypeOK
<1>5. HashesAreTrue'
  <2> SUFFICES ASSUME NEW s \in Slots, NEW p \in Partitions \ FullCheck, hash'[s][p] # NoHash
               PROVE  content[s][p] = hash'[s][p]
    BY <1>1 DEF HashesAreTrue
  <2>1. hash'[s][p] = hash[s][p]
    BY <1>1, <1>2
  <2> QED BY <2>1 DEF OsInv, HashesAreTrue
<1>6. ActiveIsWhole' /\ FlashedSoFar'
  BY <1>1 DEF OsInv, ActiveIsWhole, Whole, FlashedSoFar
<1> QED BY <1>1, <1>4, <1>5, <1>6, SameSystem DEF OsInv

LEMMA ActivateKeeps ==
  ASSUME OsInv, SetActive, NEW v \in OsVersions, Whole(Target, v), flashing = 0
  PROVE  OsInv' /\ UNCHANGED << content, hash, booted, flashing >> /\ OsVersion' = OsVersion
<1>1. /\ OsTypeOK /\ Target \in Slots /\ active' = Target
      /\ UNCHANGED << content, hash, booted, flashing, done, step >>
  BY TargetIsOther DEF OsInv, SetActive
<1>2. OsTypeOK'
  BY <1>1 DEF OsTypeOK
<1>3. ActiveIsWhole'
  BY <1>1 DEF ActiveIsWhole, Whole
<1>4. HashesAreTrue' /\ FlashedSoFar'
  BY <1>1 DEF OsInv, HashesAreTrue, FlashedSoFar
<1> QED BY <1>1, <1>2, <1>3, <1>4, SameSystem DEF OsInv

LEMMA BootKeeps ==
  ASSUME OsInv, BootSlot PROVE OsInv' /\ active' = active /\ booted' = active /\ flashing' = 0
<1>1. /\ OsTypeOK /\ booted' = active /\ flashing' = 0 /\ done' = {} /\ step' = "check"
      /\ UNCHANGED << content, hash, active >>
  BY DEF OsInv, BootSlot
<1>2. OsTypeOK'
  BY <1>1 DEF OsTypeOK
<1>3. HashesAreTrue' /\ ActiveIsWhole' /\ FlashedSoFar'
  BY <1>1 DEF OsInv, HashesAreTrue, ActiveIsWhole, Whole, FlashedSoFar
<1> QED BY <1>1, <1>2, <1>3 DEF OsInv

LEMMA OsStart ==
  ASSUME NEW v \in OsVersions, OsInit(v) PROVE OsInv /\ active = booted
<1>1. OsTypeOK
  BY DEF OsInit, OsTypeOK, Slots
<1>2. HashesAreTrue /\ FlashedSoFar
  BY DEF OsInit, HashesAreTrue, FlashedSoFar
<1>3. ActiveIsWhole
  BY DEF OsInit, ActiveIsWhole, Whole, Slots
<1> QED BY <1>1, <1>2, <1>3 DEF OsInv, OsInit

-----------------------------------------------------------------------------
(* The directories.  Every state of the disk that a power cut may bring back *)
(* has to be good: Snaps are those since the last sync, beside the one that  *)
(* is seen.                                                                  *)

Snaps == {trail[i] : i \in 1 .. Len(trail)}
Trees == TreeType \X TreeType \X TreeType

\* of BASEDIR, the finalized copy and old_openpilot
Sound(b, f, o) ==
    /\ b.data = "synced" /\ o.data = "synced"
    /\ b = NoTree \/ b.v # 0
    /\ b # NoTree \/ o # NoTree
    /\ f.flag => f.v # 0 /\ f.data = "synced"
ValidAt(b, f, o) == b.init /\ ~b.edited /\ f.flag /\ o = NoTree
OsReady(v) == OsVersion = OsOf[v] \/ VerifiedAll(OsOf[v])
Starts(b, f, o) == Sound(b, f, o) /\ (ValidAt(b, f, o) => OsReady(f.v))
AllStart == Starts(base, final, old) /\ \A s \in Snaps : Starts(s[1], s[2], s[3])

InPreparation ==
    upd \in {"clear", "touch", "mount", "reset", "agnos", "flash", "finalize", "copy", "flag"}
NoFlags == ~final.flag /\ \A s \in Snaps : ~s[2].flag

\* What updated is about to set the flag for.
UpdatedInv ==
    /\ upd # "off" => Running
    /\ InPreparation => NoFlags
    /\ ~merged.flag /\ (upd = "mount" => ~base.flag)
    /\ upd \in {"agnos", "flash", "finalize", "copy", "flag"} => merged.v # 0
    /\ upd = "flash" => flashing = OsOf[merged.v]
    /\ upd \in {"finalize", "copy", "flag"} => OsReady(merged.v)
    /\ upd \in {"copy", "flag"} => final.v = merged.v
    /\ upd = "flag" => final.data = "copied"

\* What the launch script has swapped in or is about to boot.
LauncherInv ==
    /\ boot \notin {"boot", "moved"} => base # NoTree
    /\ boot \in {"launch", "moved", "agnos", "swap", "activate"} => flashing = 0
    /\ boot \in {"boot", "activate"} => Snaps = {}
    /\ boot = "launch" => Snaps = {} \/ ~final.flag
    /\ boot = "moved" => final.flag
    /\ boot \in {"launch", "agnos"} =>
        \A s \in Snaps : ValidAt(s[1], s[2], s[3]) => s[2].v = base.v
    /\ boot = "moved" => \A s \in Snaps : ValidAt(s[1], s[2], s[3]) => s[2].v = final.v
    /\ boot = "foreground" => \A s \in Snaps : ~ValidAt(s[1], s[2], s[3])
    /\ boot \in {"agnos", "foreground", "swap", "activate"} => ~Valid
    /\ active # booted => boot = "boot" /\ ~Valid
    /\ boot = "swap" => VerifiedAll(OsOf[base.v])
    /\ boot = "activate" => Whole(Target, OsOf[base.v])

TreesOK ==
    /\ base \in TreeType /\ final \in TreeType /\ old \in TreeType /\ trail \in Seq(Trees)
PlacesOK ==
    /\ merged \in TreeType
    /\ head \in 1 .. Latest /\ metered \in BOOLEAN /\ faults \in 0 .. MaxFaults
    /\ boot \in {"boot", "launch", "moved", "agnos", "swap", "activate", "foreground", "running"}
    /\ upd \in {"off", "main", "loop", "clear", "touch", "mount", "check", "fetch", "reset",
                "agnos", "flash", "finalize", "copy", "flag", "sleep"}
UpdateInv == OsInv /\ TreesOK /\ PlacesOK /\ AllStart /\ UpdatedInv /\ LauncherInv

LEMMA NoTreeIsEmpty ==
  /\ NoTree \in TreeType /\ NoTree.v = 0 /\ NoTree.data = "synced"
  /\ ~NoTree.init /\ ~NoTree.flag /\ ~NoTree.edited
<1>1. 0 \in 0 .. Latest
  BY HeadAssumption
<1> QED BY <1>1 DEF NoTree, Tree, TreeType

LEMMA OnDiskKeeps ==
  ASSUME NEW t \in TreeType
  PROVE  /\ OnDisk(t) \in TreeType /\ OnDisk(t).v = t.v /\ OnDisk(t).init = t.init
         /\ OnDisk(t).flag = t.flag /\ OnDisk(t).edited = t.edited
         /\ t.data = "synced" => OnDisk(t) = t
         /\ t.data # "partial" => OnDisk(t).data = "synced"
         /\ t.data = "partial" => OnDisk(t) = t
BY DEF OnDisk, TreeType

LEMMA TreeEdits ==
  ASSUME NEW t \in TreeType
  PROVE  /\ [t EXCEPT !.flag = FALSE] \in TreeType
         /\ [t EXCEPT !.flag = FALSE].v = t.v /\ [t EXCEPT !.flag = FALSE].data = t.data
         /\ ~[t EXCEPT !.flag = FALSE].flag
         /\ [t EXCEPT !.flag = FALSE].init = t.init
         /\ [t EXCEPT !.flag = FALSE].edited = t.edited
         /\ [t EXCEPT !.flag = TRUE] \in TreeType /\ [t EXCEPT !.flag = TRUE].v = t.v
         /\ [t EXCEPT !.flag = TRUE].data = t.data
         /\ [t EXCEPT !.init = FALSE] \in TreeType /\ [t EXCEPT !.init = FALSE].v = t.v
         /\ [t EXCEPT !.init = FALSE].data = t.data /\ ~[t EXCEPT !.init = FALSE].init
         /\ \A d \in {"partial", "copied"} :
              /\ [t EXCEPT !.data = d] \in TreeType /\ [t EXCEPT !.data = d].v = t.v
              /\ [t EXCEPT !.data = d].flag = t.flag /\ [t EXCEPT !.data = d].data = d
BY DEF TreeType

LEMMA SnapsAre ==
  ASSUME TreesOK
  PROVE  /\ \A s \in Snaps : s[1] \in TreeType /\ s[2] \in TreeType /\ s[3] \in TreeType
         /\ Unsynced => trail' \in Seq(Trees) /\ Snaps' = Snaps \cup {<< base, final, old >>}
         /\ trail' = << >> => trail' \in Seq(Trees) /\ Snaps' = {}
         /\ trail' = trail => trail' \in Seq(Trees) /\ Snaps' = Snaps
<1>1. ASSUME NEW s \in Snaps PROVE s[1] \in TreeType /\ s[2] \in TreeType /\ s[3] \in TreeType
  BY <1>1 DEF Snaps, TreesOK, Trees
<1>2. ASSUME Unsynced PROVE trail' \in Seq(Trees) /\ Snaps' = Snaps \cup {<< base, final, old >>}
  <2> DEFINE cur == << base, final, old >>
  <2>1. cur \in Trees /\ trail \in Seq(Trees) /\ trail' = Append(trail, cur)
    BY <1>2 DEF Unsynced, TreesOK, Trees
  <2> HIDE DEF cur
  <2>2. /\ trail' \in Seq(Trees) /\ Len(trail') = Len(trail) + 1 /\ trail'[Len(trail) + 1] = cur
        /\ \A i \in 1 .. Len(trail) : trail'[i] = trail[i]
        /\ Len(trail) \in Nat
    BY <2>1
  <2>3. Snaps' = Snaps \cup {cur}
    BY <2>2 DEF Snaps
  <2> QED BY <2>2, <2>3 DEF cur
<1>3. ASSUME trail' = << >> PROVE trail' \in Seq(Trees) /\ Snaps' = {}
  BY <1>3 DEF Snaps
<1>4. ASSUME trail' = trail PROVE trail' \in Seq(Trees) /\ Snaps' = Snaps
  BY <1>4 DEF Snaps, TreesOK
<1> QED BY <1>1, <1>2, <1>3, <1>4

LEMMA SameReady ==
  ASSUME OsVersion' = OsVersion, UNCHANGED << content, hash, booted >>
  PROVE  /\ \A v : OsReady(v)' <=> OsReady(v)
         /\ \A b, f, o : Starts(b, f, o)' <=> Starts(b, f, o)
<1>1. \A v : OsReady(v)' <=> OsReady(v)
  BY DEF OsReady, VerifiedAll, Verified, Target
<1>2. \A b, f, o : Starts(b, f, o)' <=> Starts(b, f, o)
  BY <1>1 DEF Starts
<1> QED BY <1>1, <1>2

\* A fault is one of those that may still come.
LEMMA FaultCounts ==
  ASSUME faults \in 0 .. MaxFaults, Fault \/ UNCHANGED faults PROVE faults' \in 0 .. MaxFaults
BY HeadAssumption DEF Fault

\* While the system runs, what is asked of the launch script is little.
LEMMA RunningKeeps ==
  ASSUME UpdateInv, Running, boot' = boot, active' = active, booted' = booted,
         OsInv', TreesOK', PlacesOK', AllStart', UpdatedInv', base' # NoTree
  PROVE  UpdateInv'
<1>1. active = booted
  BY DEF UpdateInv, LauncherInv, Running
<1>2. LauncherInv'
  BY <1>1 DEF LauncherInv, Running
<1> QED BY <1>2 DEF UpdateInv

\* What updated finds.
LEMMA UpdatedFinds ==
  ASSUME UpdateInv, upd # "off"
  PROVE  /\ Running /\ active = booted /\ base # NoTree /\ base.v # 0
         /\ base \in TreeType /\ final \in TreeType /\ old \in TreeType /\ merged \in TreeType
         /\ Sound(base, final, old) /\ OnDisk(base) = base /\ OnDisk(old) = old
<1>1. Running /\ active = booted /\ base # NoTree
  BY DEF UpdateInv, UpdatedInv, LauncherInv, Running
<1>2. /\ base \in TreeType /\ final \in TreeType /\ old \in TreeType /\ merged \in TreeType
      /\ Sound(base, final, old)
  BY DEF UpdateInv, TreesOK, PlacesOK, AllStart, Starts
<1>3. OnDisk(base) = base /\ OnDisk(old) = old
  BY <1>2, OnDiskKeeps DEF Sound
<1> QED BY <1>1, <1>2, <1>3 DEF Sound

\* The flag of the copy is taken away, and all is synced.
LEMMA FlagOffKeeps ==
  ASSUME UpdateInv, upd # "off" \/ Running, FlagOff
  PROVE  TreesOK' /\ AllStart' /\ NoFlags' /\ base' = base
<1>1. /\ base \in TreeType /\ final \in TreeType /\ old \in TreeType /\ Sound(base, final, old)
  BY DEF UpdateInv, TreesOK, AllStart, Starts
<1>2. OnDisk(base) = base /\ OnDisk(old) = old
  BY <1>1, OnDiskKeeps DEF Sound
<1> DEFINE f == [final EXCEPT !.flag = FALSE]
<1>3. f \in TreeType /\ ~f.flag
  BY <1>1, TreeEdits
<1>4. base' = base /\ old' = old /\ final' = OnDisk(f) /\ trail' = << >>
  BY <1>2 DEF FlagOff, Sync
<1> HIDE DEF f
<1>5. final' \in TreeType /\ ~final'.flag
  BY <1>3, <1>4, OnDiskKeeps
<1>6. trail' \in Seq(Trees) /\ Snaps' = {}
  BY <1>4, SnapsAre DEF UpdateInv
<1>7. TreesOK'
  BY <1>1, <1>4, <1>5, <1>6 DEF TreesOK
<1>8. AllStart' /\ NoFlags'
  BY <1>1, <1>4, <1>5, <1>6 DEF AllStart, Starts, ValidAt, Sound, NoFlags
<1> QED BY <1>4, <1>7, <1>8

\* The trees are left alone.
LEMMA TreesRest ==
  ASSUME UpdateInv, UNCHANGED trees, UNCHANGED slots, OsVersion' = OsVersion
  PROVE  /\ TreesOK' /\ AllStart' /\ (NoFlags' <=> NoFlags) /\ Snaps' = Snaps
         /\ UNCHANGED << base, final, old >>
<1>1. UNCHANGED << base, final, old, trail >> /\ UNCHANGED << content, hash, booted >>
  BY DEF trees, slots
<1>2. Snaps' = Snaps
  BY <1>1 DEF Snaps
<1>3. TreesOK'
  BY <1>1 DEF UpdateInv, TreesOK
<1>4. AllStart'
  BY <1>1, <1>2, SameReady DEF UpdateInv, AllStart
<1> QED BY <1>1, <1>2, <1>3, <1>4 DEF NoFlags

LEMMA UpdatedStartsKeeps == UpdateInv /\ UpdatedStarts => UpdateInv'
<1> SUFFICES ASSUME UpdateInv, UpdatedStarts PROVE UpdateInv'
  OBVIOUS
<1>1. /\ Running /\ FlagOff /\ upd' = "loop" /\ boot' = boot
      /\ UNCHANGED << merged, head, metered, faults >> /\ UNCHANGED osVars
  BY DEF UpdatedStarts, Goes, outside
<1>2. TreesOK' /\ AllStart' /\ base' = base
  BY <1>1, FlagOffKeeps
<1>3. OsInv' /\ active' = active /\ booted' = booted
  BY <1>1, OsRests DEF UpdateInv, osVars
<1>4. PlacesOK' /\ UpdatedInv'
  BY <1>1 DEF UpdateInv, PlacesOK, UpdatedInv, InPreparation, Running
<1>5. base' # NoTree
  BY <1>1, <1>2 DEF UpdateInv, LauncherInv, Running
<1> QED BY <1>1, <1>2, <1>3, <1>4, <1>5, RunningKeeps

LEMMA OverlayKeeps == UpdateInv /\ Overlay => UpdateInv'
<1> SUFFICES ASSUME UpdateInv, Overlay PROVE UpdateInv'
  OBVIOUS
<1>1. /\ upd # "off" /\ boot' = boot /\ UNCHANGED << head, metered >> /\ UNCHANGED osVars
      /\ faults' \in 0 .. MaxFaults /\ ~merged.flag /\ PlacesOK
  <2>1. /\ upd # "off" /\ boot' = boot /\ UNCHANGED << head, metered >> /\ UNCHANGED osVars
        /\ Fault \/ UNCHANGED faults
    BY DEF Overlay, InitOverlay, ClearStaging, TouchInit, Mount, Check, Goes, outside
  <2> QED BY <2>1, FaultCounts DEF UpdateInv, PlacesOK, UpdatedInv
<1>2. /\ Running /\ base # NoTree /\ base.v # 0
      /\ base \in TreeType /\ final \in TreeType /\ old \in TreeType /\ merged \in TreeType
      /\ Sound(base, final, old) /\ OnDisk(base) = base /\ OnDisk(old) = old
  BY <1>1, UpdatedFinds
<1>3. OsInv' /\ active' = active /\ booted' = booted /\ OsVersion' = OsVersion /\ UNCHANGED slots
  BY <1>1, OsRests DEF UpdateInv, osVars, slots
<1>4. CASE InitOverlay /\ UNCHANGED trees /\ Goes("check")
  <2>1. TreesOK' /\ AllStart' /\ base' = base
    BY <1>3, <1>4, TreesRest
  <2>2. upd' = "check" /\ UNCHANGED << merged, faults >>
    BY <1>4 DEF InitOverlay, Goes
  <2>3. PlacesOK' /\ UpdatedInv'
    BY <1>1, <1>2, <2>2 DEF PlacesOK, UpdatedInv, InPreparation, Running
  <2> QED BY <1>1, <1>2, <1>3, <2>1, <2>3, RunningKeeps
<1>5. CASE InitOverlay /\ FlagOff /\ Goes("clear")
  <2>1. TreesOK' /\ AllStart' /\ NoFlags' /\ base' = base
    BY <1>1, <1>5, FlagOffKeeps
  <2>2. upd' = "clear" /\ UNCHANGED << merged, faults >>
    BY <1>5 DEF InitOverlay, Goes
  <2>3. PlacesOK' /\ UpdatedInv'
    BY <1>1, <1>2, <2>1, <2>2 DEF PlacesOK, UpdatedInv, InPreparation, Running
  <2> QED BY <1>1, <1>2, <1>3, <2>1, <2>3, RunningKeeps
<1>6. CASE ClearStaging
  <2>1. /\ upd = "clear" /\ upd' = "touch" /\ merged' = NoTree /\ final' = NoTree /\ old' = NoTree
        /\ base' = base /\ Unsynced /\ NoFlags /\ UNCHANGED faults
    BY <1>6 DEF ClearStaging, Goes, UpdateInv, UpdatedInv, InPreparation
  <2>2. trail' \in Seq(Trees) /\ Snaps' = Snaps \cup {<< base, final, old >>}
    BY <2>1, SnapsAre DEF UpdateInv
  <2>3. TreesOK'
    BY <1>2, <2>1, <2>2, NoTreeIsEmpty DEF TreesOK
  <2>4. AllStart'
    <3>1. Sound(base, NoTree, NoTree) /\ ~ValidAt(base, NoTree, NoTree)
      BY <1>2, NoTreeIsEmpty DEF Sound, ValidAt
    <3>4. Sound(base, final, old)' /\ ~ValidAt(base, final, old)'
      BY <2>1, <3>1 DEF Sound, ValidAt
    <3>2. \A s \in Snaps' : Starts(s[1], s[2], s[3])
      BY <2>2 DEF UpdateInv, AllStart
    <3>3. \A s \in Snaps' : Starts(s[1], s[2], s[3])'
      BY <3>2, <1>3, SameReady DEF slots
    <3> QED BY <3>3, <3>4 DEF AllStart, Starts
  <2>5. NoFlags'
    BY <2>1, <2>2, NoTreeIsEmpty DEF NoFlags
  <2>6. PlacesOK' /\ UpdatedInv'
    BY <1>1, <1>2, <2>1, <2>5, NoTreeIsEmpty
       DEF PlacesOK, UpdatedInv, InPreparation, Running
  <2> QED BY <1>1, <1>2, <1>3, <2>1, <2>3, <2>4, <2>6, RunningKeeps
<1>7. CASE TouchInit
  <2> DEFINE b == [base EXCEPT !.flag = FALSE, !.init = TRUE, !.edited = FALSE]
  <2>1. b \in TreeType /\ b.v = base.v /\ b.data = base.data /\ ~b.flag
    BY <1>2 DEF TreeType
  <2>2. Sync(b, final, old) /\ upd = "touch" /\ upd' = "mount" /\ NoFlags /\ UNCHANGED << merged, faults >>
    BY <1>7 DEF TouchInit, Goes, UpdateInv, UpdatedInv, InPreparation
  <2> HIDE DEF b
  <2>3. /\ base' = b /\ final' = OnDisk(final) /\ old' = old /\ trail' = << >>
    BY <1>2, <2>1, <2>2, OnDiskKeeps DEF Sync, Sound
  <2>4. trail' \in Seq(Trees) /\ Snaps' = {} /\ final' \in TreeType /\ ~final'.flag
    BY <1>2, <2>2, <2>3, SnapsAre, OnDiskKeeps DEF UpdateInv, NoFlags
  <2>5. TreesOK'
    BY <1>2, <2>1, <2>3, <2>4 DEF TreesOK
  <2>6. base' # NoTree
    BY <1>2, <2>1, <2>3, NoTreeIsEmpty
  <2>7. AllStart' /\ NoFlags'
    BY <1>2, <2>1, <2>3, <2>4, <2>6 DEF AllStart, Starts, Sound, ValidAt, NoFlags
  <2>8. PlacesOK' /\ UpdatedInv'
    BY <1>1, <1>2, <2>1, <2>2, <2>3, <2>7 DEF PlacesOK, UpdatedInv, InPreparation, Running
  <2> QED BY <1>1, <1>2, <1>3, <2>5, <2>6, <2>7, <2>8, RunningKeeps
<1>8. CASE Mount
  <2>1. /\ UNCHANGED trees /\ upd = "mount" /\ upd' = "check" /\ merged' = base /\ ~base.flag
        /\ UNCHANGED faults
    BY <1>8 DEF Mount, Goes, UpdateInv, UpdatedInv
  <2>2. TreesOK' /\ AllStart' /\ base' = base
    BY <1>3, <2>1, TreesRest
  <2>3. PlacesOK' /\ UpdatedInv'
    BY <1>1, <1>2, <2>1 DEF PlacesOK, UpdatedInv, InPreparation, Running
  <2> QED BY <1>1, <1>2, <1>3, <2>2, <2>3, RunningKeeps
<1>9. CASE Check
  <2>1. UNCHANGED trees /\ upd' \in {"fetch", "sleep"} /\ UNCHANGED merged
    BY <1>9 DEF Check, Goes
  <2>2. TreesOK' /\ AllStart' /\ base' = base
    BY <1>3, <2>1, TreesRest
  <2>3. PlacesOK' /\ UpdatedInv'
    BY <1>1, <1>2, <2>1 DEF PlacesOK, UpdatedInv, InPreparation, Running
  <2> QED BY <1>1, <1>2, <1>3, <2>2, <2>3, RunningKeeps
<1> QED BY <1>4, <1>5, <1>6, <1>7, <1>8, <1>9 DEF Overlay, InitOverlay

\* Which operating system a version needs is one of those there are.
LEMMA OsOfIsVersion ==
  ASSUME NEW t \in TreeType, t.v # 0 PROVE OsOf[t.v] \in OsVersions
<1>1. t.v \in 1 .. Latest
  BY HeadAssumption DEF TreeType
<1> QED BY <1>1, HeadAssumption

\* Where no flag is set it does not matter what the slots hold.
LEMMA UnflaggedStart ==
  ASSUME UpdateInv, UNCHANGED << base, final, old, trail >>, NoFlags
  PROVE  TreesOK' /\ AllStart' /\ NoFlags' /\ Snaps' = Snaps
<1>1. Snaps' = Snaps
  BY DEF Snaps
<1>2. TreesOK'
  BY DEF UpdateInv, TreesOK
<1>3. NoFlags'
  BY <1>1 DEF NoFlags
<1>4. Sound(base, final, old) /\ \A s \in Snaps : Sound(s[1], s[2], s[3])
  BY DEF UpdateInv, AllStart, Starts
<1>5. Sound(base, final, old)' /\ \A s \in Snaps' : Sound(s[1], s[2], s[3])'
  BY <1>1, <1>4 DEF Sound
<1>6. ~ValidAt(base, final, old)' /\ \A s \in Snaps' : ~ValidAt(s[1], s[2], s[3])'
  BY <1>3 DEF ValidAt, NoFlags
<1> QED BY <1>1, <1>2, <1>3, <1>5, <1>6 DEF AllStart, Starts

LEMMA DownloadKeeps == UpdateInv /\ Download => UpdateInv'
<1> SUFFICES ASSUME UpdateInv, Download PROVE UpdateInv'
  OBVIOUS
<1>1. /\ upd # "off" /\ boot' = boot /\ UNCHANGED << head, metered, faults >>
      /\ ~merged.flag /\ PlacesOK /\ OsInv /\ TreesOK
  BY DEF Download, Fetch, Reset, HandleAgnos, Flash, Goes, outside, updVars,
         UpdateInv, UpdatedInv
<1>2. /\ Running /\ active = booted /\ base # NoTree /\ base.v # 0
      /\ base \in TreeType /\ final \in TreeType /\ old \in TreeType /\ merged \in TreeType
      /\ Sound(base, final, old) /\ OnDisk(base) = base /\ OnDisk(old) = old
  BY <1>1, UpdatedFinds
<1>3. ASSUME UNCHANGED osVars
      PROVE  /\ OsInv' /\ active' = active /\ booted' = booted /\ OsVersion' = OsVersion
             /\ UNCHANGED slots /\ UNCHANGED << content, hash, booted, flashing >>
  BY <1>1, <1>3, OsRests DEF osVars, slots
<1>4. CASE Fetch
  <2>1. FlagOff /\ upd' = "reset" /\ merged' = merged /\ UNCHANGED osVars
    BY <1>4 DEF Fetch, Goes
  <2>2. TreesOK' /\ AllStart' /\ NoFlags' /\ base' = base
    BY <1>1, <2>1, FlagOffKeeps
  <2>3. PlacesOK' /\ UpdatedInv'
    BY <1>1, <1>2, <2>1, <2>2 DEF PlacesOK, UpdatedInv, InPreparation, Running
  <2> QED BY <1>1, <1>2, <1>3, <2>1, <2>2, <2>3, RunningKeeps
<1>5. CASE Reset
  <2>1. UNCHANGED trees /\ UNCHANGED osVars /\ NoFlags
    BY <1>5 DEF Reset, UpdateInv, UpdatedInv, InPreparation
  <2>2. TreesOK' /\ AllStart' /\ NoFlags' /\ base' = base
    BY <1>3, <2>1, TreesRest
  <2>3. merged' \in TreeType /\ ~merged'.flag /\ (upd' = "agnos" => merged'.v # 0)
    <3>1. CASE merged' = [merged EXCEPT !.data = "partial"] /\ upd' = "reset"
      BY <1>1, <1>2, <3>1, TreeEdits
    <3>2. CASE merged' = [Tree(head) EXCEPT !.data = "copied"]
      <4>1. head \in 0 .. Latest /\ head # 0
        BY <1>1, HeadAssumption DEF PlacesOK
      <4>2. Tree(head) \in TreeType /\ Tree(head).v = head /\ ~Tree(head).flag
        BY <4>1 DEF Tree, TreeType
      <4> QED BY <3>2, <4>1, <4>2, TreeEdits
    <3> QED BY <1>5, <3>1, <3>2 DEF Reset, Goes
  <2>4. upd' \in {"reset", "agnos"}
    BY <1>5 DEF Reset, Goes
  <2>5. PlacesOK' /\ UpdatedInv'
    BY <1>1, <1>2, <2>2, <2>3, <2>4 DEF PlacesOK, UpdatedInv, InPreparation, Running
  <2> QED BY <1>1, <1>2, <1>3, <2>1, <2>2, <2>5, RunningKeeps
<1>6. CASE HandleAgnos
  <2>1. upd = "agnos" /\ merged' = merged /\ merged.v # 0 /\ NoFlags
    BY <1>6 DEF HandleAgnos, UpdateInv, UpdatedInv, InPreparation
  <2>2. CASE OsVersion = OsOf[merged.v] /\ UNCHANGED << trees, osVars >> /\ Goes("finalize")
    <3>1. TreesOK' /\ AllStart' /\ NoFlags' /\ base' = base /\ OsReady(merged.v)'
      BY <1>3, <2>1, <2>2, TreesRest, SameReady DEF OsReady
    <3>2. PlacesOK' /\ UpdatedInv'
      BY <1>1, <1>2, <2>1, <2>2, <3>1 DEF PlacesOK, UpdatedInv, InPreparation, Running, Goes
    <3> QED BY <1>1, <1>2, <1>3, <2>2, <3>1, <3>2, RunningKeeps
  <2>3. CASE FlagOff /\ StartFlash(OsOf[merged.v]) /\ Goes("flash")
    <3>1. OsOf[merged.v] \in OsVersions
      BY <1>2, <2>1, OsOfIsVersion
    <3>2. OsInv' /\ active' = active /\ booted' = booted /\ flashing' = OsOf[merged.v]
      BY <1>1, <2>3, <3>1, FlashTurns DEF slots, StartFlash
    <3>3. TreesOK' /\ AllStart' /\ NoFlags' /\ base' = base
      BY <1>1, <2>3, FlagOffKeeps
    <3>4. PlacesOK' /\ UpdatedInv'
      BY <1>1, <1>2, <2>1, <2>3, <3>2, <3>3
         DEF PlacesOK, UpdatedInv, InPreparation, Running, Goes
    <3> QED BY <1>1, <1>2, <3>2, <3>3, <3>4, RunningKeeps
  <2> QED BY <1>6, <2>2, <2>3 DEF HandleAgnos
<1>7. CASE Flash
  <2>1. upd = "flash" /\ merged.v # 0 /\ NoFlags /\ flashing = OsOf[merged.v]
    BY <1>7 DEF Flash, UpdateInv, UpdatedInv, InPreparation
  <2>2. CASE FlashStep /\ UNCHANGED updVars
    <3>1. UNCHANGED << base, final, old, trail, merged, upd >>
      BY <2>2 DEF updVars
    <3>2. OsInv' /\ active' = active /\ booted' = booted /\ flashing' = flashing
      BY <1>1, <1>2, <2>2, FlashStepKeeps
    <3>3. TreesOK' /\ AllStart' /\ NoFlags'
      BY <2>1, <3>1, UnflaggedStart
    <3>4. PlacesOK' /\ UpdatedInv'
      BY <1>1, <1>2, <2>1, <3>1, <3>2, <3>3 DEF PlacesOK, UpdatedInv, InPreparation, Running
    <3> QED BY <1>1, <1>2, <3>1, <3>2, <3>3, <3>4, RunningKeeps
  <2>3. CASE Flashed /\ StopFlash /\ Goes("finalize") /\ UNCHANGED << trees, merged >>
    <3>1. OsInv' /\ UNCHANGED slots /\ OsVersion' = OsVersion
          /\ UNCHANGED << content, hash, active, booted >>
      BY <1>1, <2>3, FlashTurns DEF slots
    <3>2. OsReady(merged.v)
      BY <1>1, <2>1, <2>3 DEF Flashed, OsInv, FlashedSoFar, OsReady, VerifiedAll
    <3>3. OsReady(merged.v)'
      BY <2>3, <3>1, <3>2, SameReady
    <3>4. TreesOK' /\ AllStart' /\ NoFlags' /\ base' = base
      BY <2>1, <2>3, <3>1, TreesRest
    <3>5. PlacesOK' /\ UpdatedInv'
      BY <1>1, <1>2, <2>1, <2>3, <3>3, <3>4
         DEF PlacesOK, UpdatedInv, InPreparation, Running, Goes
    <3> QED BY <1>1, <1>2, <3>1, <3>4, <3>5, RunningKeeps
  <2> QED BY <1>7, <2>2, <2>3 DEF Flash
<1> QED BY <1>4, <1>5, <1>6, <1>7 DEF Download

LEMMA StageKeeps == UpdateInv /\ Stage => UpdateInv'
<1> SUFFICES ASSUME UpdateInv, Stage PROVE UpdateInv'
  OBVIOUS
<1>1. /\ upd \in {"finalize", "copy", "flag"} /\ boot' = boot
      /\ UNCHANGED << merged, head, metered, faults >> /\ UNCHANGED osVars
      /\ ~merged.flag /\ merged.v # 0 /\ OsReady(merged.v) /\ NoFlags
      /\ PlacesOK /\ OsInv /\ TreesOK
  BY DEF Stage, Finalize, Copied, SetFlag, Goes, outside, UpdateInv, UpdatedInv, InPreparation
<1>2. /\ Running /\ active = booted /\ base # NoTree /\ base.v # 0
      /\ base \in TreeType /\ final \in TreeType /\ old \in TreeType /\ merged \in TreeType
      /\ Sound(base, final, old) /\ OnDisk(base) = base /\ OnDisk(old) = old
  BY <1>1, UpdatedFinds
<1>3. /\ OsInv' /\ active' = active /\ booted' = booted /\ OsVersion' = OsVersion
      /\ UNCHANGED << content, hash, booted >> /\ OsReady(merged.v)'
  <2>1. /\ OsInv' /\ OsVersion' = OsVersion
        /\ UNCHANGED << content, hash, active, booted >>
    BY <1>1, OsRests DEF osVars
  <2> QED BY <1>1, <2>1, SameReady
<1>4. CASE Finalize
  <2> DEFINE f == [OnDisk(final) EXCEPT !.flag = FALSE]
             t == << base, f, old >>
  <2>1. /\ base' = base /\ old' = old /\ trail' = << t >>
        /\ final' = [merged EXCEPT !.data = "partial"] /\ upd' = "copy"
    BY <1>2, <1>4 DEF Finalize, Goes
  <2>2. f \in TreeType /\ ~f.flag
    BY <1>2, OnDiskKeeps, TreeEdits
  <2>3. final' \in TreeType /\ final'.v = merged.v /\ ~final'.flag
    BY <1>1, <1>2, <2>1, TreeEdits
  <2> HIDE DEF f
  <2>4. t \in Trees /\ t[1] = base /\ t[2] = f /\ t[3] = old
    BY <1>2, <2>2 DEF Trees
  <2> HIDE DEF t
  <2>5. trail' \in Seq(Trees) /\ Snaps' = {t}
    BY <2>1, <2>4 DEF Snaps
  <2>6. TreesOK' /\ NoFlags'
    BY <1>2, <2>1, <2>2, <2>3, <2>4, <2>5 DEF TreesOK, NoFlags
  <2>7. Sound(base, f, old) /\ Sound(base', final', old')
    BY <1>2, <2>1, <2>2, <2>3 DEF Sound
  <2>8. AllStart'
    BY <2>1, <2>2, <2>3, <2>4, <2>5, <2>7 DEF AllStart, Starts, Sound, ValidAt
  <2>9. PlacesOK' /\ UpdatedInv'
    BY <1>1, <1>2, <1>3, <2>1, <2>3, <2>6 DEF PlacesOK, UpdatedInv, InPreparation, Running
  <2> QED BY <1>1, <1>2, <1>3, <2>1, <2>6, <2>8, <2>9, RunningKeeps
<1>5. CASE Copied
  <2>1. /\ base' = base /\ old' = old /\ Unsynced /\ upd = "copy" /\ upd' = "flag"
        /\ final' = [final EXCEPT !.data = "copied"] /\ final.v = merged.v
    BY <1>5 DEF Copied, Goes, UpdateInv, UpdatedInv
  <2>2. final' \in TreeType /\ final'.v = merged.v /\ ~final'.flag /\ final'.data = "copied"
    BY <1>1, <1>2, <2>1, TreeEdits DEF NoFlags
  <2>3. trail' \in Seq(Trees) /\ Snaps' = Snaps \cup {<< base, final, old >>}
    BY <1>1, <2>1, SnapsAre
  <2>4. TreesOK' /\ NoFlags'
    BY <1>1, <1>2, <2>1, <2>2, <2>3 DEF TreesOK, NoFlags
  <2>5. \A s \in Snaps' : Sound(s[1], s[2], s[3])
    BY <1>2, <2>3 DEF UpdateInv, AllStart, Starts
  <2>6. Sound(base', final', old')
    BY <1>2, <2>1, <2>2 DEF Sound
  <2>7. AllStart'
    BY <2>4, <2>5, <2>6 DEF AllStart, Starts, Sound, ValidAt, NoFlags
  <2>8. PlacesOK' /\ UpdatedInv'
    BY <1>1, <1>2, <1>3, <2>1, <2>2, <2>4 DEF PlacesOK, UpdatedInv, InPreparation, Running
  <2> QED BY <1>1, <1>2, <1>3, <2>1, <2>4, <2>7, <2>8, RunningKeeps
<1>6. CASE SetFlag
  <2> DEFINE f == [final EXCEPT !.flag = TRUE]
  <2>1. Sync(base, f, old) /\ upd' = "sleep" /\ final.v = merged.v /\ final.data = "copied"
    BY <1>6 DEF SetFlag, Goes, UpdateInv, UpdatedInv
  <2>2. f \in TreeType /\ f.v = merged.v /\ f.data = "copied"
    BY <1>2, <2>1, TreeEdits
  <2> HIDE DEF f
  <2>3. base' = base /\ old' = old /\ final' = OnDisk(f) /\ trail' = << >>
    BY <1>2, <2>1 DEF Sync
  <2>4. final' \in TreeType /\ final'.v = merged.v /\ final'.data = "synced"
    BY <2>2, <2>3, OnDiskKeeps
  <2>5. trail' \in Seq(Trees) /\ Snaps' = {}
    BY <1>1, <2>3, SnapsAre
  <2>6. TreesOK'
    BY <1>2, <2>3, <2>4, <2>5 DEF TreesOK
  <2>7. Sound(base', final', old')
    BY <1>1, <1>2, <2>3, <2>4 DEF Sound
  <2>8. OsReady(final.v)'
    BY <1>1, <1>3, <2>4
  <2>9. AllStart'
    BY <2>5, <2>7, <2>8 DEF AllStart, Starts, Sound
  <2>10. PlacesOK' /\ UpdatedInv'
    BY <1>1, <1>2, <2>1 DEF PlacesOK, UpdatedInv, InPreparation, Running
  <2> QED BY <1>1, <1>2, <1>3, <2>3, <2>6, <2>9, <2>10, RunningKeeps
<1> QED BY <1>4, <1>5, <1>6 DEF Stage

LEMMA UpdatedRestKeeps == UpdateInv /\ (WakeUp \/ Fails \/ Killed) => UpdateInv'
<1> SUFFICES ASSUME UpdateInv, WakeUp \/ Fails \/ Killed PROVE UpdateInv'
  OBVIOUS
<1>1. /\ upd # "off" /\ upd' \in {"loop", "sleep", "off"} /\ boot' = boot
      /\ UNCHANGED << merged, head, metered >> /\ ~merged.flag /\ PlacesOK /\ OsInv /\ TreesOK
      /\ faults' \in 0 .. MaxFaults
  <2>1. /\ upd # "off" /\ upd' \in {"loop", "sleep", "off"} /\ boot' = boot
        /\ UNCHANGED << merged, head, metered >>
        /\ Fault \/ UNCHANGED faults
    BY DEF WakeUp, Fails, Killed, Goes, outside
  <2> QED BY <2>1, FaultCounts DEF UpdateInv, PlacesOK, UpdatedInv
<1>2. /\ Running /\ active = booted /\ base # NoTree /\ base.v # 0
      /\ base \in TreeType /\ final \in TreeType /\ old \in TreeType /\ merged \in TreeType
      /\ Sound(base, final, old)
  BY <1>1, UpdatedFinds
<1>3. /\ OsInv' /\ OsVersion' = OsVersion /\ UNCHANGED slots
      /\ UNCHANGED << content, hash, active, booted >>
  <2>1. UNCHANGED osVars \/ StopFlash
    BY DEF WakeUp, Fails, Killed
  <2> QED BY <1>1, <2>1, OsRests, FlashTurns DEF osVars, slots
<1>4. PlacesOK' /\ UpdatedInv'
  BY <1>1, <1>2 DEF PlacesOK, UpdatedInv, InPreparation, Running
<1>5. CASE WakeUp \/ Killed
  <2>1. UNCHANGED trees
    BY <1>5 DEF WakeUp, Killed
  <2>2. TreesOK' /\ AllStart' /\ base' = base
    BY <1>3, <2>1, TreesRest
  <2> QED BY <1>1, <1>2, <1>3, <1>4, <2>2, RunningKeeps
<1>6. CASE Fails
  <2>1. base' = [base EXCEPT !.init = FALSE] /\ final' = final /\ old' = old /\ Unsynced
    BY <1>6 DEF Fails
  <2>2. base' \in TreeType /\ base'.v = base.v /\ base'.data = base.data /\ ~base'.init
    BY <1>2, <2>1, TreeEdits
  <2>3. trail' \in Seq(Trees) /\ Snaps' = Snaps \cup {<< base, final, old >>}
    BY <1>1, <2>1, SnapsAre
  <2>4. TreesOK' /\ base' # NoTree
    BY <1>2, <2>1, <2>2, <2>3, NoTreeIsEmpty DEF TreesOK
  <2>5. Sound(base', final', old') /\ ~ValidAt(base', final', old')
    BY <1>2, <2>1, <2>2, <2>4 DEF Sound, ValidAt
  <2>6. \A s \in Snaps' : Starts(s[1], s[2], s[3])
    BY <2>3 DEF UpdateInv, AllStart
  <2>7. \A s \in Snaps' : Starts(s[1], s[2], s[3])'
    BY <1>3, <2>6, SameReady
  <2>8. AllStart'
    BY <2>5, <2>7 DEF AllStart, Starts, Sound, ValidAt
  <2> QED BY <1>1, <1>2, <1>3, <1>4, <2>4, <2>8, RunningKeeps
<1> QED BY <1>5, <1>6

\* A pure sync of what a power cut may bring back only makes it whole.
LEMMA SyncKeeps ==
  ASSUME UpdateInv, Sync(base, final, old)
  PROVE  /\ base' = base /\ old' = old /\ Snaps' = {} /\ TreesOK'
         /\ final'.v = final.v /\ final'.flag = final.flag
         /\ Sound(base', final', old')
<1>1. /\ base \in TreeType /\ final \in TreeType /\ old \in TreeType /\ Sound(base, final, old)
  BY DEF UpdateInv, TreesOK, AllStart, Starts
<1>2. base' = base /\ old' = old /\ final' = OnDisk(final) /\ trail' = << >>
  BY <1>1, OnDiskKeeps DEF Sync, Sound
<1>3. /\ final' \in TreeType /\ final'.v = final.v /\ final'.flag = final.flag
      /\ (final.data = "synced" => final'.data = "synced")
  BY <1>1, <1>2, OnDiskKeeps
<1>4. trail' \in Seq(Trees) /\ Snaps' = {}
  BY <1>2, SnapsAre DEF UpdateInv
<1>5. TreesOK'
  BY <1>1, <1>2, <1>3, <1>4 DEF TreesOK
<1>6. Sound(base', final', old')
  BY <1>1, <1>2, <1>3 DEF Sound
<1> QED BY <1>2, <1>3, <1>4, <1>5, <1>6

LEMMA LauncherKeeps == UpdateInv /\ Launcher => UpdateInv'
<1> SUFFICES ASSUME UpdateInv, Launcher PROVE UpdateInv'
  OBVIOUS
<1>1. /\ boot \in {"boot", "launch", "moved", "agnos", "swap", "activate", "foreground"}
      /\ upd' = upd /\ UNCHANGED << merged, head, metered, faults >>
      /\ PlacesOK /\ OsInv /\ TreesOK /\ LauncherInv
      /\ base \in TreeType /\ final \in TreeType /\ old \in TreeType /\ merged \in TreeType
      /\ Sound(base, final, old)
  <2>1. /\ boot \in {"boot", "launch", "moved", "agnos", "swap", "activate", "foreground"}
        /\ upd' = upd /\ UNCHANGED << merged, head, metered, faults >>
    BY DEF Launcher, Boot, Launch, Move, AgnosInit, Swap, Activate, Foreground, outside
  <2>2. /\ PlacesOK /\ OsInv /\ TreesOK /\ LauncherInv
        /\ base \in TreeType /\ final \in TreeType /\ old \in TreeType /\ merged \in TreeType
        /\ Sound(base, final, old)
    BY DEF UpdateInv, PlacesOK, TreesOK, AllStart, Starts
  <2> QED BY <2>1, <2>2
<1>2. upd = "off" /\ UpdatedInv'
  BY <1>1 DEF UpdateInv, UpdatedInv, Running, InPreparation
<1>3. ASSUME boot' \in {"boot", "launch", "moved", "agnos", "swap", "activate", "foreground",
                        "running"}
      PROVE  PlacesOK'
  BY <1>1, <1>3 DEF PlacesOK
<1>4. CASE Boot
  <2>1. /\ boot = "boot" /\ boot' = "launch" /\ base # NoTree /\ BootSlot /\ UNCHANGED trees
        /\ Snaps = {}
    BY <1>1, <1>4 DEF Boot, LauncherInv
  <2>2. OsInv' /\ active' = active /\ booted' = active /\ flashing' = 0
    BY <1>1, <2>1, BootKeeps
  <2>3. UNCHANGED << base, final, old, trail >> /\ Snaps' = {}
    BY <2>1 DEF trees, Snaps
  <2>4. TreesOK'
    BY <1>1, <2>3 DEF TreesOK
  <2>5. AllStart'
    <3>1. CASE active = booted
      <4>1. UNCHANGED << content, hash, booted >>
        BY <2>1, <2>2, <3>1 DEF BootSlot
      <4>2. \A b, f, o : Starts(b, f, o)' <=> Starts(b, f, o)
        BY <4>1, SameSystem, SameReady
      <4> QED BY <2>3, <4>2 DEF UpdateInv, AllStart
    <3>2. CASE active # booted
      <4>1. ~ValidAt(base, final, old)
        BY <1>1, <3>2 DEF LauncherInv, Valid, ValidAt
      <4> QED BY <1>1, <2>3, <4>1 DEF AllStart, Starts, Sound, ValidAt
    <3> QED BY <3>1, <3>2
  <2>6. LauncherInv'
    BY <2>1, <2>2, <2>3 DEF LauncherInv
  <2> QED BY <1>2, <1>3, <2>1, <2>2, <2>4, <2>5, <2>6 DEF UpdateInv
<1>5. CASE Launch /\ Valid
  <2>1. /\ boot = "launch" /\ boot' = "moved" /\ old' = base /\ base' = NoTree /\ final' = final
        /\ Unsynced /\ UNCHANGED osVars /\ final.flag /\ base # NoTree /\ Snaps = {}
    BY <1>1, <1>5 DEF Launch, Valid, LauncherInv
  <2>2. OsInv' /\ OsVersion' = OsVersion
        /\ UNCHANGED << content, hash, active, booted, flashing >>
    BY <1>1, <2>1, OsRests DEF osVars
  <2>3. trail' \in Seq(Trees) /\ Snaps' = {<< base, final, old >>}
    BY <1>1, <2>1, SnapsAre
  <2>4. TreesOK'
    BY <1>1, <2>1, <2>3, NoTreeIsEmpty DEF TreesOK
  <2>5. Starts(base, final, old)'
    BY <1>1, <2>1, NoTreeIsEmpty DEF Starts, Sound, ValidAt
  <2>6. AllStart'
    BY <2>2, <2>3, <2>5, SameReady DEF UpdateInv, AllStart
  <2>7. LauncherInv'
    BY <1>1, <2>1, <2>2, <2>3 DEF LauncherInv
  <2> QED BY <1>2, <1>3, <2>1, <2>2, <2>4, <2>6, <2>7 DEF UpdateInv
<1>6. CASE Launch /\ ~Valid
  <2>1. boot = "launch" /\ boot' = "agnos" /\ UNCHANGED trees /\ UNCHANGED osVars
    BY <1>6 DEF Launch, trees
  <2>2. OsInv' /\ OsVersion' = OsVersion /\ UNCHANGED slots
        /\ UNCHANGED << content, hash, active, booted, flashing >>
    BY <1>1, <2>1, OsRests DEF osVars, slots
  <2>3. TreesOK' /\ AllStart' /\ Snaps' = Snaps /\ UNCHANGED << base, final, old >>
    BY <2>1, <2>2, TreesRest
  <2>4. LauncherInv'
    BY <1>1, <1>6, <2>1, <2>2, <2>3 DEF LauncherInv, Valid
  <2> QED BY <1>2, <1>3, <2>1, <2>2, <2>3, <2>4 DEF UpdateInv
<1>7. CASE Move
  <2>1. /\ boot = "moved" /\ boot' \in {"launch", "swap"} /\ base' = final /\ final' = NoTree /\ old' = old
        /\ Unsynced /\ UNCHANGED osVars /\ final.flag
        /\ boot' = "swap" => VerifiedAll(OsOf[final.v])
    BY <1>1, <1>7 DEF Move, LauncherInv
  <2>2. OsInv' /\ OsVersion' = OsVersion
        /\ UNCHANGED << content, hash, active, booted, flashing >>
    BY <1>1, <2>1, OsRests DEF osVars
  <2>3. trail' \in Seq(Trees) /\ Snaps' = Snaps \cup {<< base, final, old >>}
    BY <1>1, <2>1, SnapsAre
  <2>4. TreesOK'
    BY <1>1, <2>1, <2>3, NoTreeIsEmpty DEF TreesOK
  <2>5. base' # NoTree
    BY <1>1, <2>1, NoTreeIsEmpty DEF Sound
  <2>6. Starts(base, final, old)'
    BY <1>1, <2>1, <2>5, NoTreeIsEmpty DEF Starts, Sound, ValidAt
  <2>7. AllStart'
    BY <2>2, <2>3, <2>6, SameReady DEF UpdateInv, AllStart
  <2>8. boot' = "swap" => VerifiedAll(OsOf[base.v])'
    BY <2>1, <2>2 DEF VerifiedAll, Verified, Target
  <2>9. LauncherInv'
    BY <1>1, <2>1, <2>2, <2>3, <2>5, <2>8, NoTreeIsEmpty DEF LauncherInv, Valid
  <2> QED BY <1>2, <1>3, <2>1, <2>2, <2>4, <2>7, <2>9 DEF UpdateInv
<1>8. CASE AgnosInit
  <2>1. /\ boot = "agnos" /\ UNCHANGED trees /\ UNCHANGED osVars
        /\ boot' \in {"running", "swap", "foreground"}
        /\ boot' = "swap" => VerifiedAll(OsOf[base.v])
        /\ boot' = "foreground" => ~OsReady(base.v)
    BY <1>8 DEF AgnosInit, OsReady
  <2>2. OsInv' /\ OsVersion' = OsVersion /\ UNCHANGED slots
        /\ UNCHANGED << content, hash, active, booted, flashing >>
    BY <1>1, <2>1, OsRests DEF osVars, slots
  <2>3. TreesOK' /\ AllStart' /\ Snaps' = Snaps /\ UNCHANGED << base, final, old >>
    BY <2>1, <2>2, TreesRest
  <2>4. VerifiedAll(OsOf[base.v])' <=> VerifiedAll(OsOf[base.v])
    BY <2>2, <2>3 DEF VerifiedAll, Verified, Target
  <2>5. boot' = "foreground" => \A s \in Snaps : ~ValidAt(s[1], s[2], s[3])
    BY <1>1, <2>1 DEF LauncherInv, UpdateInv, AllStart, Starts
  <2>6. LauncherInv'
    BY <1>1, <2>1, <2>2, <2>3, <2>4, <2>5 DEF LauncherInv, Valid
  <2> QED BY <1>2, <1>3, <2>1, <2>2, <2>3, <2>6 DEF UpdateInv
<1>9. CASE Swap
  <2>1. /\ boot = "swap" /\ boot' = "activate" /\ ClearHashes /\ Sync(base, final, old)
        /\ base # NoTree /\ ~ValidAt(base, final, old) /\ flashing = 0
        /\ VerifiedAll(OsOf[base.v])
    BY <1>1, <1>9 DEF Swap, LauncherInv, Valid, ValidAt
  <2>2. /\ OsInv' /\ UNCHANGED << content, active, booted, flashing >>
    BY <1>1, <2>1, ClearKeeps
  <2>3. /\ base' = base /\ old' = old /\ Snaps' = {} /\ TreesOK' /\ final'.flag = final.flag
        /\ Sound(base', final', old')
    BY <2>1, SyncKeeps
  <2>4. ~ValidAt(base', final', old')
    BY <2>1, <2>3 DEF ValidAt
  <2>5. AllStart'
    BY <2>3, <2>4 DEF AllStart, Starts, Sound, ValidAt
  <2>6. Whole(Target, OsOf[base.v])
    <3>1. OsOf[base.v] \in OsVersions
      BY <1>1, <2>1, OsOfIsVersion DEF Sound
    <3> QED BY <1>1, <2>1, <3>1, VerifiedIsWhole
  <2>7. Whole(Target, OsOf[base.v])'
    BY <2>2, <2>3, <2>6 DEF Whole, Target
  <2>8. LauncherInv'
    BY <1>1, <2>1, <2>2, <2>3, <2>4, <2>7 DEF LauncherInv, Valid, ValidAt
  <2> QED BY <1>2, <1>3, <2>1, <2>2, <2>3, <2>5, <2>8 DEF UpdateInv
<1>10. CASE Activate
  <2>1. /\ boot = "activate" /\ boot' = "boot" /\ SetActive /\ Sync(base, final, old)
        /\ base # NoTree /\ ~ValidAt(base, final, old) /\ flashing = 0
        /\ Whole(Target, OsOf[base.v])
    BY <1>1, <1>10 DEF Activate, LauncherInv, Valid, ValidAt
  <2>2. OsInv' /\ UNCHANGED << content, hash, booted, flashing >>
    <3>1. OsOf[base.v] \in OsVersions
      BY <1>1, <2>1, OsOfIsVersion DEF Sound
    <3> QED BY <1>1, <2>1, <3>1, ActivateKeeps
  <2>3. /\ base' = base /\ old' = old /\ Snaps' = {} /\ TreesOK' /\ final'.flag = final.flag
        /\ Sound(base', final', old')
    BY <2>1, SyncKeeps
  <2>4. ~ValidAt(base', final', old')
    BY <2>1, <2>3 DEF ValidAt
  <2>5. AllStart'
    BY <2>3, <2>4 DEF AllStart, Starts, Sound, ValidAt
  <2>6. LauncherInv'
    BY <2>1, <2>3, <2>4 DEF LauncherInv, Valid, ValidAt
  <2> QED BY <1>2, <1>3, <2>1, <2>2, <2>3, <2>5, <2>6 DEF UpdateInv
<1>11. CASE Foreground
  <2>1. /\ boot = "foreground" /\ UNCHANGED trees /\ active = booted /\ base # NoTree
        /\ ~ValidAt(base, final, old) /\ \A s \in Snaps : ~ValidAt(s[1], s[2], s[3])
    BY <1>1, <1>11 DEF Foreground, LauncherInv, Valid, ValidAt
  <2>2. /\ OsInv' /\ active' = active /\ booted' = booted
        /\ boot' = "swap" => VerifiedAll(OsOf[base.v])' /\ flashing' = 0
        /\ boot' \in {"foreground", "swap"}
    <3>1. CASE flashing = 0 /\ StartFlash(OsOf[base.v]) /\ UNCHANGED boot
      <4>1. OsOf[base.v] \in OsVersions
        BY <1>1, <2>1, OsOfIsVersion DEF Sound
      <4> QED BY <1>1, <2>1, <3>1, <4>1, FlashTurns DEF slots
    <3>2. CASE FlashStep /\ UNCHANGED boot
      BY <1>1, <2>1, <3>2, FlashStepKeeps
    <3>3. CASE Flashed /\ VerifiedAll(OsOf[base.v]) /\ StopFlash /\ boot' = "swap"
      <4>1. /\ OsInv' /\ UNCHANGED << content, hash, active, booted >> /\ flashing' = 0
        BY <1>1, <3>3, FlashTurns DEF slots, StopFlash
      <4>2. VerifiedAll(OsOf[base.v])'
        BY <2>1, <3>3, <4>1 DEF VerifiedAll, Verified, Target, trees
      <4> QED BY <3>3, <4>1, <4>2
    <3> QED BY <1>11, <3>1, <3>2, <3>3 DEF Foreground
  <2>3. UNCHANGED << base, final, old, trail >> /\ Snaps' = Snaps
    BY <2>1 DEF trees, Snaps
  <2>4. TreesOK'
    BY <1>1, <2>3 DEF TreesOK
  <2>5. AllStart'
    BY <2>1, <2>3 DEF UpdateInv, AllStart, Starts, Sound, ValidAt
  <2>6. LauncherInv'
    BY <2>1, <2>2, <2>3 DEF LauncherInv, Valid, ValidAt
  <2> QED BY <1>2, <1>3, <2>2, <2>4, <2>5, <2>6 DEF UpdateInv
<1> QED BY <1>4, <1>5, <1>6, <1>7, <1>8, <1>9, <1>10, <1>11 DEF Launcher, Launch

LEMMA RebootKeeps == UpdateInv /\ Reboot => UpdateInv'
<1> SUFFICES ASSUME UpdateInv, Reboot PROVE UpdateInv'
  OBVIOUS
<1>1. /\ Running /\ Sync(base, final, old) /\ merged' = NoTree /\ upd' = "off" /\ boot' = "boot"
      /\ UNCHANGED << head, metered >> /\ UNCHANGED osVars
      /\ Fault \/ UNCHANGED faults
      /\ PlacesOK /\ OsInv /\ active = booted
  BY DEF Reboot, outside, UpdateInv, LauncherInv, Running
<1>2. OsInv' /\ OsVersion' = OsVersion /\ UNCHANGED << content, hash, active, booted >>
  BY <1>1, OsRests DEF osVars
<1>3. /\ base' = base /\ old' = old /\ Snaps' = {} /\ TreesOK'
      /\ final'.v = final.v /\ final'.flag = final.flag /\ Sound(base', final', old')
  BY <1>1, SyncKeeps
<1>4. ValidAt(base', final', old') => OsReady(final'.v)
  BY <1>3 DEF ValidAt, UpdateInv, AllStart, Starts
<1>5. AllStart'
  <2>1. Starts(base', final', old')
    BY <1>3, <1>4 DEF Starts
  <2>2. Starts(base, final, old)'
    BY <1>2, <2>1, SameReady
  <2> QED BY <1>3, <2>2 DEF AllStart
<1>6. PlacesOK' /\ UpdatedInv'
  <2>1. faults' \in 0 .. MaxFaults
    BY <1>1, FaultCounts DEF PlacesOK
  <2> QED BY <1>1, <2>1, NoTreeIsEmpty DEF PlacesOK, UpdatedInv, InPreparation
<1>7. LauncherInv'
  BY <1>1, <1>2, <1>3 DEF LauncherInv
<1> QED BY <1>2, <1>3, <1>5, <1>6, <1>7 DEF UpdateInv

\* What is not synced may be incomplete after a power cut, and only that.
LEMMA MayBeKeeps ==
  ASSUME NEW t \in TreeType, NEW u \in MayBe(t)
  PROVE  /\ u \in TreeType /\ u.v = t.v /\ u.init = t.init /\ u.flag = t.flag
         /\ u.edited = t.edited /\ (t.data = "synced" => u = t)
<1>1. CASE u = t
  BY <1>1
<1>2. CASE t.data = "copied" /\ u = [t EXCEPT !.data = "partial"]
  BY <1>2 DEF TreeType
<1> QED BY <1>1, <1>2 DEF MayBe

LEMMA PowerCutKeeps == UpdateInv /\ PowerCut => UpdateInv'
<1> SUFFICES ASSUME UpdateInv, PowerCut PROVE UpdateInv'
  OBVIOUS
<1> DEFINE cur == << base, final, old >>
<1>1. /\ merged' = NoTree /\ upd' = "off" /\ boot' = "boot" /\ trail' = << >>
      /\ UNCHANGED << head, metered >> /\ UNCHANGED osVars /\ Fault
      /\ PlacesOK /\ OsInv /\ TreesOK
  BY DEF PowerCut, outside, UpdateInv
<1>2. OsInv' /\ OsVersion' = OsVersion /\ UNCHANGED << content, hash, active, booted >>
  BY <1>1, OsRests DEF osVars
<1>3. PICK i \in 1 .. Len(trail) + 1 :
        LET t == Append(trail, cur)[i] IN
        base' \in MayBe(t[1]) /\ final' \in MayBe(t[2]) /\ old' \in MayBe(t[3])
  BY DEF PowerCut
<1> DEFINE t == Append(trail, cur)[i]
<1>4. base' \in MayBe(t[1]) /\ final' \in MayBe(t[2]) /\ old' \in MayBe(t[3])
  BY <1>3
<1>5. t = cur \/ t \in Snaps
  <2>1. trail \in Seq(Trees)
    BY <1>1 DEF TreesOK
  <2> HIDE DEF cur
  <2> QED BY <2>1 DEF Snaps
<1> HIDE DEF t
<1>6. Starts(t[1], t[2], t[3]) /\ t[1] \in TreeType /\ t[2] \in TreeType /\ t[3] \in TreeType
  BY <1>1, <1>5, SnapsAre DEF UpdateInv, AllStart, TreesOK
<1>7. /\ base' = t[1] /\ old' = t[3] /\ final' \in TreeType
      /\ final'.v = t[2].v /\ final'.flag = t[2].flag
      /\ (t[2].data = "synced" => final' = t[2])
  BY <1>4, <1>6, MayBeKeeps DEF Starts, Sound
<1>8. Starts(base', final', old')
  BY <1>6, <1>7 DEF Starts, Sound, ValidAt
<1>9. Snaps' = {} /\ TreesOK'
  BY <1>1, <1>6, <1>7, SnapsAre DEF TreesOK
<1>10. AllStart'
  BY <1>2, <1>8, <1>9, SameReady DEF AllStart
<1>11. PlacesOK' /\ UpdatedInv'
  <2>1. faults' \in 0 .. MaxFaults
    BY <1>1, FaultCounts DEF PlacesOK
  <2> QED BY <1>1, <2>1, NoTreeIsEmpty DEF PlacesOK, UpdatedInv, InPreparation
<1>12. active' # booted' => ~Valid'
  <2>1. ASSUME active # booted PROVE ~ValidAt(t[1], t[2], t[3])
    BY <1>5, <2>1 DEF UpdateInv, LauncherInv, Valid, ValidAt
  <2> QED BY <1>2, <1>7, <2>1 DEF Valid, ValidAt
<1>13. LauncherInv'
  BY <1>1, <1>9, <1>12 DEF LauncherInv
<1> QED BY <1>2, <1>9, <1>10, <1>11, <1>13 DEF UpdateInv

\* Nothing but what the server offers and what the network costs changes.
LEMMA OutsideKeeps ==
  ASSUME UpdateInv, UNCHANGED << trees, merged, boot, upd, osVars >>,
         head' \in 1 .. Latest, metered' \in BOOLEAN, faults' \in 0 .. MaxFaults
  PROVE  UpdateInv'
<1>1. /\ OsInv' /\ OsVersion' = OsVersion /\ UNCHANGED slots
      /\ UNCHANGED << content, hash, active, booted, flashing >>
  BY OsRests DEF UpdateInv, osVars, slots
<1>2. /\ TreesOK' /\ AllStart' /\ (NoFlags' <=> NoFlags) /\ Snaps' = Snaps
      /\ UNCHANGED << base, final, old >>
  BY <1>1, TreesRest
<1>3. PlacesOK'
  BY DEF UpdateInv, PlacesOK
<1>4. UpdatedInv'
  <2>1. OsReady(merged.v)' <=> OsReady(merged.v)
    BY <1>1, SameReady
  <2> QED BY <1>1, <1>2, <2>1 DEF UpdateInv, UpdatedInv, InPreparation, Running
<1>5. LauncherInv'
  <2>1. /\ VerifiedAll(OsOf[base.v])' <=> VerifiedAll(OsOf[base.v])
        /\ Whole(Target, OsOf[base.v])' <=> Whole(Target, OsOf[base.v])
    BY <1>1, <1>2 DEF VerifiedAll, Verified, Whole, Target
  <2> QED BY <1>1, <1>2, <2>1 DEF UpdateInv, LauncherInv, Valid
<1> QED BY <1>1, <1>2, <1>3, <1>4, <1>5 DEF UpdateInv

LEMMA UserWorksKeeps == UpdateInv /\ UserWorks => UpdateInv'
<1> SUFFICES ASSUME UpdateInv, UserWorks PROVE UpdateInv'
  OBVIOUS
<1>1. /\ Running /\ UNCHANGED << final, old, trail, merged, head, metered, boot, upd >>
      /\ UNCHANGED osVars /\ Fault
      /\ PlacesOK /\ OsInv /\ TreesOK /\ active = booted
  BY DEF UserWorks, outside, UpdateInv, LauncherInv, Running
<1>2. PICK v \in 1 .. Latest : base' = [base EXCEPT !.v = v, !.edited = TRUE]
  BY DEF UserWorks
<1>3. /\ base \in TreeType /\ final \in TreeType /\ old \in TreeType /\ Sound(base, final, old)
  BY <1>1 DEF TreesOK, UpdateInv, AllStart, Starts
<1>4. /\ base' \in TreeType /\ base'.v # 0 /\ base'.data = base.data /\ base'.edited
      /\ base'.flag = base.flag
  <2>1. v \in 0 .. Latest /\ v # 0
    BY HeadAssumption
  <2> QED BY <1>2, <1>3, <2>1 DEF TreeType
<1>5. OsInv' /\ OsVersion' = OsVersion /\ UNCHANGED << content, hash, active, booted, flashing >>
  BY <1>1, OsRests DEF osVars
<1>6. Snaps' = Snaps /\ TreesOK' /\ (NoFlags' <=> NoFlags) /\ base' # NoTree
  BY <1>1, <1>4, NoTreeIsEmpty DEF Snaps, TreesOK, NoFlags
<1>7. AllStart'
  <2>1. Sound(base', final', old') /\ ~ValidAt(base', final', old')
    BY <1>1, <1>3, <1>4, <1>6 DEF Sound, ValidAt
  <2>2. \A s \in Snaps' : Starts(s[1], s[2], s[3])'
    BY <1>5, <1>6, SameReady DEF UpdateInv, AllStart
  <2> QED BY <2>1, <2>2 DEF AllStart, Starts, Sound, ValidAt
<1>8. PlacesOK'
  BY <1>1, FaultCounts DEF PlacesOK
<1>9. UpdatedInv'
  <2>1. OsReady(merged.v)' <=> OsReady(merged.v)
    BY <1>1, <1>5, SameReady
  <2> QED BY <1>1, <1>4, <1>5, <1>6, <2>1 DEF UpdateInv, UpdatedInv, InPreparation, Running
<1> QED BY <1>1, <1>5, <1>6, <1>7, <1>8, <1>9, RunningKeeps

LEMMA UpdateStep == UpdateInv /\ [UpdateNext]_vars => UpdateInv'
<1> SUFFICES ASSUME UpdateInv, [UpdateNext]_vars PROVE UpdateInv'
  OBVIOUS
<1>1. head \in 1 .. Latest /\ metered \in BOOLEAN /\ faults \in 0 .. MaxFaults
  BY DEF UpdateInv, PlacesOK
<1>2. CASE NewVersion
  <2>1. head' \in 1 .. Latest
    BY <1>1, <1>2, HeadAssumption DEF NewVersion
  <2> QED BY <1>1, <1>2, <2>1, OutsideKeeps DEF NewVersion, trees
<1>3. CASE SelectBranch
  BY <1>1, <1>3, FaultCounts, OutsideKeeps DEF SelectBranch, trees
<1>4. CASE NetworkChanges
  BY <1>1, <1>4, OutsideKeeps DEF NetworkChanges, trees
<1>5. CASE UNCHANGED vars
  BY <1>1, <1>5, OutsideKeeps DEF vars, updVars, trees
<1>6. CASE Updater
  BY <1>6, UpdatedStartsKeeps, OverlayKeeps, DownloadKeeps, StageKeeps, UpdatedRestKeeps
     DEF Updater
<1> QED
  BY <1>2, <1>3, <1>4, <1>5, <1>6, UpdatedRestKeeps, LauncherKeeps, RebootKeeps, PowerCutKeeps,
     UserWorksKeeps DEF UpdateNext

LEMMA UpdateStart == UpdateInit => UpdateInv
<1> SUFFICES ASSUME UpdateInit PROVE UpdateInv
  OBVIOUS
<1>1. 1 \in 1 .. Latest /\ OsOf[1] \in OsVersions
  BY HeadAssumption
<1>2. OsInv /\ active = booted
  BY <1>1, OsStart DEF UpdateInit
<1>3. /\ base \in TreeType /\ base.v = 1 /\ base.data = "synced"
  BY <1>1, HeadAssumption DEF UpdateInit, Tree, TreeType
<1>4. /\ final = NoTree /\ old = NoTree /\ merged = NoTree /\ trail = << >> /\ head = 1
      /\ boot = "boot" /\ upd = "off" /\ faults = MaxFaults /\ metered \in BOOLEAN
  BY DEF UpdateInit
<1>5. TreesOK /\ Snaps = {}
  BY <1>3, <1>4, NoTreeIsEmpty DEF TreesOK, Snaps
<1>6. PlacesOK
  BY <1>1, <1>4, HeadAssumption, NoTreeIsEmpty DEF PlacesOK
<1>7. base # NoTree
  BY <1>3, NoTreeIsEmpty
<1>8. AllStart
  BY <1>3, <1>4, <1>5, <1>7, NoTreeIsEmpty DEF AllStart, Starts, Sound, ValidAt
<1>9. UpdatedInv /\ LauncherInv
  BY <1>2, <1>4, <1>5, NoTreeIsEmpty DEF UpdatedInv, LauncherInv, InPreparation
<1> QED BY <1>2, <1>5, <1>6, <1>8, <1>9 DEF UpdateInv

\* However often, and at whichever step, the power is cut, updated is killed or one of its
\* commands fails: there is a whole version to start from, the operating system it is
\* started on was flashed as a whole, and the update that the next start would swap in is
\* whole and has the system it needs, which runs or is verified in the other slot.
THEOREM UpdatesKeepTheDiskWhole == UpdateSpec => []DiskIsWhole
<1>1. UpdateInv => DiskIsWhole
  <2> SUFFICES ASSUME UpdateInv PROVE DiskIsWhole
    OBVIOUS
  <2>1. UpdateTypeOK
    BY DEF UpdateInv, OsInv, TreesOK, PlacesOK, UpdateTypeOK, Trees
  <2>2. BaseIsWhole /\ NothingLost
    BY DEF UpdateInv, AllStart, Starts, Sound, BaseIsWhole, NothingLost
  <2>3. FlagMeansReady
    BY DEF UpdateInv, AllStart, Starts, Sound, ValidAt, OsReady, FlagMeansReady, Valid
  <2>4. ActiveIsWhole
    BY DEF UpdateInv, OsInv
  <2> QED BY <2>1, <2>2, <2>3, <2>4 DEF DiskIsWhole
<1> QED BY <1>1, UpdateStart, UpdateStep, PTL DEF UpdateSpec

=============================================================================
