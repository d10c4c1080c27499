--------------------------------- MODULE Device ---------------------------------
(***************************************************************************)
(* hardwared and manager together.  hardwared publishes deviceState, the   *)
(* manager keeps the latest only.  A loop of manager takes less time than  *)
(* a pass of hardwared unless it waits for a process, up to five seconds:  *)
(* meanwhile hardwared goes on.                                            *)
(***************************************************************************)
EXTENDS Hardwared, Manager

VARIABLE missed \* history: a drive has ended and another begun that manager takes for the same

devVars == <<hwVars, manVars, missed>>

DeviceInit == HwInit /\ ManInit /\ missed = FALSE

\* hardwared decides and publishes; the fresh processes of the next drive are those it will start
Publish ==
    /\ (pc \in {"poll", "ended"} /\ ~unread) \/ Joining
    /\ HardwarePass /\ unread' = TRUE
    /\ fresh' = IF started' /\ ~started THEN {} ELSE fresh
    /\ missed' = (missed \/ (started' /\ ~started /\ mStarted))
    /\ UNCHANGED <<pc, todo, mStarted, proc, stopping, stubborn>>

ManagerStep ==
    /\ UNCHANGED hwVars
    /\ \/ Poll(started) /\ missed' = (missed /\ started)
       \/ (StopUnwanted \/ StartWanted(doShutdown) \/ Cleanup) /\ UNCHANGED missed

Processes == (\E p \in Procs : Ends(p)) /\ UNCHANGED <<hwVars, missed>>
Crash == (\E p \in Procs : Crashes(p)) /\ UNCHANGED <<hwVars, missed>>

DeviceNext == Publish \/ ManagerStep \/ Processes \/ Crash \/ (Around /\ UNCHANGED <<manVars, missed>>)
DeviceSpec == DeviceInit /\ [][DeviceNext]_devVars

-----------------------------------------------------------------------------
(* What runs for a drive when manager has been through its processes was     *)
(* started for that drive: one that is still ending, or does not listen, is  *)
(* waited for or killed, and started again.  This is for drives whose        *)
(* beginning manager has seen: one that ends and starts within the seconds   *)
(* that manager waits for some process goes on with the processes it had.    *)
FreshProcess ==
    pc = "poll" /\ mStarted /\ ~missed => \A p \in Onroad : proc[p] = "alive" => p \in fresh

(* When manager has ended no process is left.                                *)
CleanedUp == pc = "ended" => \A p \in Procs : proc[p] = "none"

(* The processes are the ones the drive needs, and none is left at the end.  *)
ProcessesAreRight == missed \in BOOLEAN /\ HwTypeOK /\ ManTypeOK /\ FreshProcess /\ CleanedUp

(* Processes of the other mode stop in the end, also those that do not       *)
(* listen, and those of this mode run, or are reported as crashed.           *)
Ending == pc \in {"signal", "kill", "ended"}
InMode(on, rest) ==
    Ending \/ ((\A p \in rest : proc[p] = "none") /\ (\A p \in on : proc[p] # "none" /\ p \notin stopping))
ModeReached ==
    /\ <>[]started => <>[]InMode(Onroad, Offroad)
    /\ <>[]~started => <>[]InMode(Offroad, Onroad)

(* manager ends when it is told to, whatever its processes do.               *)
EndsInTheEnd == [](doShutdown => <>(pc = "ended"))
===============================================================================
