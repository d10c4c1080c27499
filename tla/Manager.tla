-------------------------------- MODULE Manager --------------------------------
(***************************************************************************)
(* manager (system/manager/manager.py, process.py): with each deviceState  *)
(* it stops the processes that should not run and starts those that        *)
(* should.  A stop does not wait the first time; the next one of the same  *)
(* process waits for five seconds and then kills it.                       *)
(***************************************************************************)
EXTENDS Naturals, FiniteSets

CONSTANTS
    Onroad, Offroad, Always     \* the processes, by their should_run

ASSUME ProcAssumption ==
    /\ Onroad \cup Offroad \cup Always \subseteq Nat
    /\ Onroad \cap (Offroad \cup Always) = {}

Procs == Onroad \cup Offroad \cup Always

VARIABLES
    pc,         \* where manager is
    todo,       \* the processes that the loop at pc has not been through
    mStarted,   \* started
    unread,     \* there is a deviceState that manager has not read
    proc,       \* "none", "alive", or "gone": proc is set but has exited
    stopping,   \* shutting_down
    fresh,      \* those started since the device last went onroad
    stubborn    \* those that do not end at SIGINT

handles == <<proc, stopping, fresh>>
manVars == <<pc, todo, mStarted, unread, handles, stubborn>>

ManTypeOK ==
    /\ pc \in {"poll", "stop", "start", "signal", "kill", "ended"}
    /\ todo \subseteq Procs /\ mStarted \in BOOLEAN /\ unread \in BOOLEAN
    /\ proc \in [Procs -> {"none", "alive", "gone"}] /\ stopping \subseteq Procs
    /\ fresh \subseteq Procs /\ stubborn \subseteq Procs
    /\ \A p \in stopping : proc[p] # "none"

ManInit ==
    /\ pc = "stop" /\ todo = Procs /\ mStarted = FALSE /\ unread = FALSE
    /\ proc = [p \in Procs |-> "none"] /\ stopping = {} /\ fresh = {}
    /\ stubborn \in {{}, Onroad, Offroad}

Wanted(p) == p \in Always \/ (IF mStarted THEN p \in Onroad ELSE p \in Offroad)
First == CHOOSE p \in todo : \A q \in todo : p <= q
GoOn == todo' = todo \ {First} /\ UNCHANGED pc
Set(p, s) == proc' = [proc EXCEPT ![p] = s]

-----------------------------------------------------------------------------
(* stop *)

\* it has exited: the handle is dropped
Drop(p) == proc[p] = "gone" /\ Set(p, "none") /\ stopping' = stopping \ {p} /\ UNCHANGED fresh

Signal(p) == proc[p] = "alive" /\ stopping' = stopping \cup {p} /\ UNCHANGED <<proc, fresh>>

\* mutant: manager waits without end
KillItNever(p) == p \in {} /\ UNCHANGED handles

\* the five seconds are over: SIGKILL
KillIt(p) ==
    /\ proc[p] = "alive" /\ p \in stubborn /\ Set(p, "none") /\ stopping' = stopping \ {p}
    /\ UNCHANGED fresh

\* join_process waits for one that is stopping
Stop(p, block) ==
    \/ proc[p] = "none" /\ GoOn /\ UNCHANGED handles
    \/ Drop(p) /\ GoOn
    \/ p \notin stopping /\ Signal(p) /\ (IF block THEN UNCHANGED <<pc, todo>> ELSE GoOn)
    \/ p \in stopping /\ KillIt(p) /\ GoOn

Joining ==
    /\ todo # {} /\ First \in stopping /\ proc[First] = "alive"
    /\ pc = "stop" => ~Wanted(First)
    /\ pc = "start" => Wanted(First)

\* mutant: a process that is still stopping counts as started
StartAlready(p) ==
    \/ proc[p] # "none" /\ GoOn /\ UNCHANGED handles
    \/ proc[p] = "none" /\ Set(p, "alive") /\ fresh' = fresh \cup {p} /\ UNCHANGED stopping /\ GoOn

\* start: a stop that did not wait is completed, and what is there is left alone, also if it crashed
Start(p) ==
    \/ p \in stopping /\ (Drop(p) \/ KillIt(p)) /\ UNCHANGED <<pc, todo>>
    \/ p \notin stopping /\ proc[p] # "none" /\ GoOn /\ UNCHANGED handles
    \/ proc[p] = "none" /\ Set(p, "alive") /\ fresh' = fresh \cup {p} /\ UNCHANGED stopping /\ GoOn

-----------------------------------------------------------------------------
\* manager_thread: deviceState is read, the latest if there are several
Poll(isStarted) ==
    /\ pc = "poll" /\ unread /\ unread' = FALSE /\ mStarted' = isStarted
    /\ pc' = "stop" /\ todo' = Procs /\ UNCHANGED <<handles, stubborn>>

\* ensure_running
StopUnwanted ==
    /\ pc = "stop" /\ UNCHANGED <<mStarted, unread, stubborn>>
    /\ \/ todo = {} /\ pc' = "start" /\ todo' = Procs /\ UNCHANGED handles
       \/ todo # {} /\ (IF Wanted(First) THEN GoOn /\ UNCHANGED handles ELSE Stop(First, FALSE))

\* and the end of the loop, if DoShutdown, DoReboot or DoUninstall is set
StartWanted(end) ==
    /\ pc = "start" /\ UNCHANGED <<mStarted, unread, stubborn>>
    /\ \/ todo = {} /\ UNCHANGED handles
          /\ IF end THEN pc' = "signal" /\ todo' = Procs ELSE pc' = "poll" /\ UNCHANGED todo
       \/ todo # {} /\ (IF Wanted(First) THEN Start(First) ELSE GoOn /\ UNCHANGED handles)

\* manager_cleanup: all are signalled, then waited for
Cleanup ==
    /\ pc \in {"signal", "kill"} /\ UNCHANGED <<mStarted, unread, stubborn>>
    /\ \/ todo = {} /\ pc = "signal" /\ pc' = "kill" /\ todo' = Procs /\ UNCHANGED handles
       \/ todo = {} /\ pc = "kill" /\ pc' = "ended" /\ UNCHANGED <<todo, handles>>
       \/ todo # {} /\ Stop(First, pc = "kill")

\* a process ends at SIGINT, or crashes
Ends(p) ==
    /\ proc[p] = "alive" /\ p \in stopping /\ p \notin stubborn /\ Set(p, "gone")
    /\ UNCHANGED <<pc, todo, mStarted, unread, stopping, fresh, stubborn>>
Crashes(p) ==
    /\ proc[p] = "alive" /\ p \notin stopping /\ Set(p, "gone")
    /\ UNCHANGED <<pc, todo, mStarted, unread, stopping, fresh, stubborn>>
===============================================================================
