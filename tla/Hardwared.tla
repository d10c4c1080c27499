------------------------------- MODULE Hardwared -------------------------------
(***************************************************************************)
(* hardwared (system/hardware/hardwared.py): from the ignition that panda  *)
(* reports, the temperature, the user's switches and the state of the      *)
(* device it decides whether openpilot is started, and from the battery    *)
(* when to shut the device down (power_monitoring.py).                     *)
(*                                                                         *)
(* A temperature stands for the range of the bands it is in:               *)
(*   0: < 88   1: 88 .. 94   2: 94 .. 96   3: 96 .. 107   4: > 107         *)
(* A step is a pass of the loop that is not cut short; the passes that are *)
(* change nothing that the next does not read again.                       *)
(***************************************************************************)
EXTENDS Naturals

CONSTANTS
    CyclePasses     \* ONROAD_CYCLE_TIME in passes, which come at 2 Hz

ASSUME CycleAssumption == CyclePasses \in Nat \ {0}

VARIABLES
    ign,        \* the ignition of the car
    panda,      \* panda speaks, is silent, or has been for DISCONNECT_TIMEOUT
    temp,       \* the temperature of all sources
    hot,        \* that of the sources for offroad is above OFFROAD_DANGER_TEMP
    allowed,    \* the conditions to start, without the temperature
    forced,     \* OffroadMode
    cycleReq,   \* OnroadCycleRequested
    battery,    \* it is good, or low or empty
    powerDown,  \* in a car, and DisablePowerDown is not set
    forceDown,  \* ForcePowerDown
    up,         \* the device has been up for MIN_ON_TIME_S
    ignSeen,    \* onroad_conditions["ignition"]
    cycle,      \* passes until not_onroad_cycle holds again
    thermal,    \* thermal_status
    started,    \* started_ts is set
    startedSeen,\* started_seen
    off,        \* the age of off_ts
    doShutdown  \* DoShutdown

world == <<ign, panda, temp, hot, allowed, forced, battery, powerDown, forceDown>>
kept == <<ignSeen, cycle, thermal, started, startedSeen, off, doShutdown>>
hwVars == <<world, cycleReq, up, kept>>

Bands == <<"ok", "overheated", "critical">>
Ages == {"none", "short", "long", "max"}    \* "long" is DELAY_SHUTDOWN_TIME_S, five minutes

HwTypeOK ==
    /\ ign \in BOOLEAN /\ panda \in {"speaks", "silent", "timed out"}
    /\ temp \in 0 .. 4 /\ hot \in BOOLEAN /\ allowed \in BOOLEAN /\ forced \in BOOLEAN
    /\ cycleReq \in BOOLEAN /\ battery \in {"good", "weak"}
    /\ powerDown \in BOOLEAN /\ forceDown \in BOOLEAN /\ up \in BOOLEAN
    /\ ignSeen \in BOOLEAN /\ cycle \in 0 .. CyclePasses /\ thermal \in 1 .. 3
    /\ started \in BOOLEAN /\ startedSeen \in BOOLEAN /\ off \in Ages /\ doShutdown \in BOOLEAN
    /\ started => off = "none"

HwInit ==
    /\ ign \in BOOLEAN /\ panda \in {"speaks", "silent"} /\ temp = 0 /\ hot = FALSE
    /\ allowed \in BOOLEAN /\ forced = FALSE /\ cycleReq = FALSE
    /\ battery = "good" /\ powerDown \in BOOLEAN /\ forceDown = FALSE /\ up = FALSE
    /\ ignSeen = FALSE /\ cycle = 0 /\ thermal = 1 /\ started = FALSE
    /\ startedSeen = FALSE /\ off = "none" /\ doShutdown = FALSE

-----------------------------------------------------------------------------
\* a panda that is silent for too long counts as ignition off
Ignition ==
    CASE panda = "speaks" -> ign
      [] panda = "silent" -> ignSeen
      [] OTHER -> FALSE

\* a request keeps the device offroad for a while
CycleLeft ==
    IF cycleReq THEN CyclePasses ELSE IF cycle > 0 THEN cycle - 1 ELSE 0

OffroadForFiveMinutes == ~started /\ (startedSeen => off \in {"none", "long", "max"})

BelowBand == CASE thermal = 1 -> FALSE [] thermal = 2 -> temp = 0 [] OTHER -> temp < 2
AboveBand == CASE thermal = 1 -> temp > 2 [] thermal = 2 -> temp > 3 [] OTHER -> FALSE

\* the next thermal_status: one band a pass
Thermal ==
    IF OffroadForFiveMinutes /\ hot THEN 3
    ELSE IF BelowBand THEN thermal - 1
    ELSE IF AboveBand THEN thermal + 1
    ELSE thermal

\* mutant: it may start in the band in which it may run
ShouldStartInBand ==
    /\ Ignition /\ CycleLeft = 0 /\ Thermal < 3 /\ ~forced
    /\ started \/ allowed

\* onroad_conditions, and startup_conditions unless it is started
ShouldStart ==
    /\ Ignition /\ CycleLeft = 0 /\ Thermal < 3 /\ ~forced
    /\ started \/ (allowed /\ Thermal = 1)

OffTs == IF ShouldStart THEN "none" ELSE IF off = "none" THEN "short" ELSE off

\* should_shutdown
ShouldShutdown ==
    /\ OffTs # "none"
    /\ \/ (OffTs = "max" \/ battery = "weak") /\ ~Ignition /\ powerDown /\ OffTs \in {"long", "max"}
       \/ forceDown
    /\ startedSeen \/ up

\* a pass of hardware_thread
HardwarePass ==
    /\ ignSeen' = Ignition /\ cycle' = CycleLeft /\ cycleReq' = FALSE /\ thermal' = Thermal
    /\ started' = ShouldStart /\ startedSeen' = (startedSeen \/ ShouldStart)
    /\ off' = OffTs /\ doShutdown' = (doShutdown \/ ShouldShutdown)
    /\ UNCHANGED <<world, up>>

-----------------------------------------------------------------------------
\* five minutes, or the longest time offroad, or the first hour go by
TimePasses ==
    /\ \/ off = "short" /\ off' = "long" /\ UNCHANGED up
       \/ off = "long" /\ off' = "max" /\ UNCHANGED up
       \/ ~up /\ up' = TRUE /\ UNCHANGED off
    /\ UNCHANGED <<world, cycleReq, ignSeen, cycle, thermal, started, startedSeen, doShutdown>>

IgnitionTurns == ign' = ~ign /\ UNCHANGED <<panda, temp, hot, allowed, forced, battery, powerDown, forceDown>>

PandaGoes ==
    /\ panda' \in CASE panda = "speaks" -> {"silent"}
                    [] panda = "silent" -> {"speaks", "timed out"}
                    [] OTHER -> {"speaks"}
    /\ UNCHANGED <<ign, temp, hot, allowed, forced, battery, powerDown, forceDown>>

TemperatureMoves ==
    /\ temp' \in {temp - 1, temp + 1} \cap 0 .. 4 /\ hot' \in BOOLEAN
    /\ UNCHANGED <<ign, panda, allowed, forced, battery, powerDown, forceDown>>

BatteryMoves ==
    /\ battery' \in {"good", "weak"}
    /\ UNCHANGED <<ign, panda, temp, hot, allowed, forced, powerDown, forceDown>>

\* the user: a condition to start, OffroadMode, DisablePowerDown or the harness
UserSwitches ==
    /\ \/ allowed' = ~allowed /\ UNCHANGED <<forced, powerDown>>
       \/ forced' = ~forced /\ UNCHANGED <<allowed, powerDown>>
       \/ powerDown' = ~powerDown /\ UNCHANGED <<allowed, forced>>
    /\ UNCHANGED <<ign, panda, temp, hot, battery, forceDown>>

PowerDownForced ==
    /\ ~forceDown /\ forceDown' = TRUE
    /\ UNCHANGED <<ign, panda, temp, hot, allowed, forced, battery, powerDown>>

CycleRequested == cycleReq' = TRUE /\ UNCHANGED <<world, up, kept>>

WorldMoves ==
    /\ IgnitionTurns \/ PandaGoes \/ TemperatureMoves \/ BatteryMoves \/ UserSwitches \/ PowerDownForced
    /\ UNCHANGED <<cycleReq, up, kept>>

\* what happens around hardwared between two passes
Around == WorldMoves \/ CycleRequested \/ TimePasses

HwNext == HardwarePass \/ Around
HwSpec == HwInit /\ [][HwNext]_hwVars

-----------------------------------------------------------------------------
(* A drive is ended for the temperature only above 107 degrees, and none     *)
(* begins above 96, however the temperature moves in between.                *)
HeatDecides ==
    [][/\ started /\ ~started' /\ thermal' = 3 => temp = 4
       /\ ~started /\ started' => temp <= 2]_hwVars

(* What was too hot to run does not start again before it has been measured  *)
(* below 88 degrees.                                                         *)
RestsUntilCool == [][thermal # 1 /\ thermal' = 1 => temp = 0]_hwVars

(* The device never decides to shut down while it drives, and not while      *)
(* panda reports the ignition on, unless it is forced to.                    *)
ShutdownIsForParked ==
    [][doShutdown' /\ ~doShutdown =>
        ~started' /\ (forceDown \/ (~(panda = "speaks" /\ ign) /\ off \in {"long", "max"}))]_hwVars

(* The temperature ends a drive or keeps one from beginning only in the      *)
(* bands that say so, from whichever side it comes, and neither it nor       *)
(* anything else shuts a car down that is in use.                            *)
HardwareRules == HeatDecides /\ RestsUntilCool /\ ShutdownIsForParked

(* A device that stays in a parked car shuts itself down in the end, whether *)
(* or not it has ever been started.                                          *)
Parked == ~ign /\ panda = "speaks" /\ powerDown
ShutsDownInTheEnd == <>[]Parked => <>doShutdown

(* A drive ends when the ignition goes off, when panda falls silent for good *)
(* and when it stays too hot.                                                *)
DriveEnds ==
    /\ <>[](panda = "speaks" /\ ~ign) => <>[]~started
    /\ <>[](panda = "timed out") => <>[]~started
    /\ <>[](temp = 4) => <>[]~started

(* A device that may start does, also after it was too hot.                  *)
Ready == ign /\ panda = "speaks" /\ allowed /\ ~forced /\ ~cycleReq /\ temp = 0 /\ ~hot
StartsInTheEnd == <>[]Ready => <>[]started
===============================================================================
