------------------------------- MODULE MCSystem -------------------------------
(***************************************************************************)
(* The device around the driving, checked in four parts of one run; a      *)
(* behaviour belongs to one:                                               *)
(*   update:   the update of the software and the operating system;        *)
(*   heat:     hardwared, the temperature and what the user switches;      *)
(*   battery:  hardwared and the shutdown;                                 *)
(*   procs:    hardwared and manager.                                      *)
(***************************************************************************)
EXTENDS Update, Device

VARIABLE part
mcVars == <<updVars, osVars, devVars, part>>

OsOfDef == <<1, 2, 4>>

MCInit ==
    /\ UpdateInit /\ DeviceInit
    /\ part \in {"update", "heat", "battery", "procs"}
    /\ part \in {"update", "procs"} => ign /\ allowed /\ powerDown /\ panda = "speaks"
    /\ part # "update" => ~metered
    /\ part # "procs" => stubborn = {}
    /\ part = "heat" => ~powerDown

Heat ==
    /\ part = "heat" /\ UNCHANGED <<battery, powerDown, forceDown>>
    /\ HwNext /\ off' # "max" /\ ~up'

Battery ==
    /\ part = "battery" /\ UNCHANGED <<temp, hot, allowed, forced>>
    /\ HwNext /\ ~cycleReq'

\* what a driver can do to the device within a second
WithManager ==
    /\ part = "procs" /\ UNCHANGED <<panda, temp, hot, allowed, forced, battery, powerDown, up>>
    /\ DeviceNext /\ off' \notin {"long", "max"}

MCNext ==
    /\ UNCHANGED part
    /\ \/ part = "update" /\ UpdateNext /\ UNCHANGED devVars
       \/ (Heat \/ Battery) /\ UNCHANGED <<updVars, osVars, manVars, missed>>
       \/ WithManager /\ UNCHANGED <<updVars, osVars>>

HwOnly == part \in {"heat", "battery"}
MCFairness ==
    /\ WF_vars(part = "update" /\ Updater) /\ WF_vars(part = "update" /\ Launcher)
    /\ SF_vars(part = "update" /\ Reboot /\ upd = "sleep" /\ final.flag)
    /\ WF_hwVars(HwOnly /\ HardwarePass) /\ WF_hwVars(part = "battery" /\ TimePasses)
    /\ WF_hwVars(part = "heat" /\ TimePasses /\ off' # "max" /\ ~up')
    /\ WF_devVars(part = "procs" /\ Publish) /\ WF_devVars(part = "procs" /\ ManagerStep)
    /\ WF_devVars(part = "procs" /\ Processes)

MCSpec == MCInit /\ [][MCNext]_mcVars /\ MCFairness

\* What must happen in the end: the newest version is installed, drives start and end
\* when they should, a parked car is shut down, and manager reaches every mode and its
\* own end.
MCInTheEnd ==
    /\ part = "update" => NewestInstalled
    /\ HwOnly => DriveEnds
    /\ part = "heat" => StartsInTheEnd
    /\ part = "battery" => ShutsDownInTheEnd
    /\ part = "procs" => ModeReached /\ EndsInTheEnd
===============================================================================
