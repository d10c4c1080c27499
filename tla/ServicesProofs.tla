--------------------------- MODULE ServicesProofs ---------------------------
(***************************************************************************)
(* Services beside the driving, for every number of SIMs, keys, processes, *)
(* callers, sessions, segments, encoders and faults: the cellular          *)
(* connection, the store of parameters, the sessions of webrtcd, the       *)
(* directories of recorded segments with loggerd, uploader and deleter at  *)
(* work, and the rotation of loggerd.                                      *)
(*                                                                         *)
(* ConnectionIsWhole is not inductive. That SEARCHING begins clean needs   *)
(* that the wait for the SIM's identity, from which it is entered, is      *)
(* clean too; that pppd is dialled anew only after its exit needs that a   *)
(* redial belongs to CONNECTED; that the routes of a link are its own      *)
(* needs that nothing is believed of a link that is still being dialled;   *)
(* and the count of failures stays in its range because a session that is  *)
(* still connected has not given up (Steady).                              *)
(***************************************************************************)
EXTENDS Modem, Params, Livestream, LogStorage, Loggerd, TLAPS, FiniteSetTheorems, WellFoundedInduction

Steady ==
    /\ mst = "INITIALIZING" => ~shown
    /\ phase = "adopt" => mst = "INITIALIZING" /\ ~PppdRuns /\ routes = "none"
    /\ phase = "redial" => mst = "CONNECTED"
    /\ mst = "CONNECTED" => fails < MaxFails
    /\ pppd = "dialing" => ~peer

ModemInv == ConnectionIsWhole /\ Steady

Clean == SearchingIsClean /\ RedialsAlone /\ RoutesFitTheLink /\ Steady

LEMMA ModemStarts == ModemInit => ModemInv
<1> SUFFICES ASSUME ModemInit PROVE ModemInv
  OBVIOUS
<1>1. FlagsOK
  BY DEF ModemInit, FlagsOK
<1>2. ValuesOK
  BY DEF ModemInit, ValuesOK, Registered
<1>3. CountsOK
  BY FailsAssumption DEF ModemInit, CountsOK
<1>4. SearchingIsClean /\ RedialsAlone /\ RoutesFitTheLink /\ Steady
  BY DEF ModemInit, SearchingIsClean, RedialsAlone, RoutesFitTheLink, Steady, PppdRuns
<1> QED BY <1>1, <1>2, <1>3, <1>4 DEF ModemInv, ConnectionIsWhole, ModemTypeOK

-----------------------------------------------------------------------------
(* The steps of a pass.                                                      *)

LEMMA PassKeepsFlags == FlagsOK /\ ModemPass => FlagsOK'
<1> SUFFICES ASSUME FlagsOK, ModemPass PROVE FlagsOK'
  OBVIOUS
<1> USE DEF FlagsOK, worldVars, pppVars, memVars, Enters, Stays, KillPppd, Dial, PppdRuns
<1>1. CASE CheckIccid
  BY <1>1 DEF CheckIccid
<1>2. CASE Initializing
  BY <1>2 DEF Initializing, Read
<1>3. CASE Adopt
  BY <1>3 DEF Adopt, Allowed
<1>4. CASE Searching
  BY <1>4 DEF Searching, SearchingIdle, Allowed
<1>5. CASE Connecting
  BY <1>5 DEF Connecting
<1>6. CASE PppdExited
  BY <1>6 DEF PppdExited
<1>7. CASE Redial
  BY <1>7 DEF Redial
<1>8. CASE Connected
  BY <1>8 DEF Connected, InstallRoutes
<1>9. CASE Disconnecting
  BY <1>9 DEF Disconnecting
<1> QED BY <1>1, <1>2, <1>3, <1>4, <1>5, <1>6, <1>7, <1>8, <1>9 DEF ModemPass

LEMMA PassKeepsValues == ValuesOK /\ ModemPass => ValuesOK'
<1> SUFFICES ASSUME ValuesOK, ModemPass PROVE ValuesOK'
  OBVIOUS
<1> USE DEF ValuesOK, worldVars, pppVars, memVars, Enters, Stays,
        KillPppd, Dial, PppdRuns, Registered
<1>1. CASE CheckIccid
  BY <1>1 DEF CheckIccid
<1>2. CASE Initializing
  BY <1>2 DEF Initializing, Read
<1>3. CASE Adopt
  BY <1>3 DEF Adopt, Allowed
<1>4. CASE Searching
  BY <1>4 DEF Searching, SearchingIdle, Allowed
<1>5. CASE Connecting
  BY <1>5 DEF Connecting
<1>6. CASE PppdExited
  BY <1>6 DEF PppdExited
<1>7. CASE Redial
  BY <1>7 DEF Redial
<1>8. CASE Connected
  BY <1>8 DEF Connected, InstallRoutes
<1>9. CASE Disconnecting
  BY <1>9 DEF Disconnecting
<1> QED BY <1>1, <1>2, <1>3, <1>4, <1>5, <1>6, <1>7, <1>8, <1>9 DEF ModemPass

LEMMA PassKeepsCounts == CountsOK /\ Steady /\ ModemPass => CountsOK'
<1> SUFFICES ASSUME CountsOK, Steady, ModemPass PROVE CountsOK'
  OBVIOUS
<1> USE FailsAssumption DEF CountsOK, worldVars, pppVars, memVars, Enters, Stays,
        KillPppd, Dial, PppdRuns
<1>1. CASE CheckIccid
  BY <1>1 DEF CheckIccid
<1>2. CASE Initializing
  BY <1>2 DEF Initializing, Read
<1>3. CASE Adopt
  BY <1>3 DEF Adopt, Allowed
<1>4. CASE Searching
  BY <1>4 DEF Searching, SearchingIdle, Allowed
<1>5. CASE Connecting
  BY <1>5 DEF Connecting
<1>6. CASE PppdExited
  BY <1>6 DEF PppdExited, Steady
<1>7. CASE Redial
  BY <1>7 DEF Redial
<1>8. CASE Connected
  BY <1>8 DEF Connected, InstallRoutes
<1>9. CASE Disconnecting
  BY <1>9 DEF Disconnecting
<1> QED BY <1>1, <1>2, <1>3, <1>4, <1>5, <1>6, <1>7, <1>8, <1>9 DEF ModemPass

LEMMA PassKeepsClean == ModemInv /\ ModemPass => Clean'
<1> SUFFICES ASSUME ModemInv, ModemPass PROVE Clean'
  OBVIOUS
<1> USE DEF Clean, SearchingIsClean, RedialsAlone, RoutesFitTheLink, Steady, PppdRuns, worldVars,
        pppVars, memVars, Enters, Stays, KillPppd, Dial
<1>0. Clean /\ ModemTypeOK
  BY DEF ModemInv, ConnectionIsWhole
<1>1. CASE CheckIccid
  BY <1>0, <1>1 DEF CheckIccid
<1>2. CASE Initializing
  BY <1>0, <1>2 DEF Initializing, Read, Answers
<1>3. CASE Adopt
  BY <1>0, <1>3 DEF Adopt
<1>4. CASE Searching
  BY <1>0, <1>4 DEF Searching, SearchingIdle
<1>5. CASE Connecting
  BY <1>0, <1>5, FailsAssumption DEF Connecting
<1>6. CASE PppdExited
  BY <1>0, <1>6, FailsAssumption DEF PppdExited, ModemTypeOK, CountsOK
<1>7. CASE Redial
  BY <1>0, <1>7 DEF Redial
<1>8. CASE Connected
  BY <1>0, <1>8 DEF Connected, InstallRoutes
<1>9. CASE Disconnecting
  BY <1>0, <1>9 DEF Disconnecting
<1> QED BY <1>1, <1>2, <1>3, <1>4, <1>5, <1>6, <1>7, <1>8, <1>9 DEF ModemPass

-----------------------------------------------------------------------------
(* What goes wrong, and what the world does.                                 *)
Meanwhile == ModemTroubles \/ PortComes \/ Registers \/ LinkComes \/ PppdEnds

LEMMA OthersKeepFlags == FlagsOK /\ Meanwhile => FlagsOK'
<1> SUFFICES ASSUME FlagsOK, Meanwhile PROVE FlagsOK'
  OBVIOUS
<1> USE DEF FlagsOK, worldVars, pppVars, memVars, Trouble, SettingsRest,
        MachineRests, LinkGoes
<1>1. CASE InstallFails
  BY <1>1 DEF InstallFails, InstallRoutes, DnsFails, KillPppd, PppdRuns, Stays, Enters
<1>2. CASE Raises
  BY <1>2 DEF Raises, Enters
<1>3. CASE Restarts
  BY <1>3 DEF Restarts, Enters
<1>4. CASE PortGoes \/ PortComes \/ LinkDrops
  BY <1>4 DEF PortGoes, PortComes, LinkDrops
<1>5. CASE SimChanges \/ Deafens
  BY <1>5 DEF SimChanges, Deafens
<1>6. CASE Roams \/ Registers
  BY <1>6 DEF Roams, Registers
<1>7. CASE UserSets
  BY <1>7 DEF UserSets
<1>8. CASE LinkComes \/ PppdEnds
  BY <1>8 DEF LinkComes, PppdEnds
<1> QED BY <1>1, <1>2, <1>3, <1>4, <1>5, <1>6, <1>7, <1>8 DEF Meanwhile, ModemTroubles

LEMMA OthersKeepValues == ValuesOK /\ Meanwhile => ValuesOK'
<1> SUFFICES ASSUME ValuesOK, Meanwhile PROVE ValuesOK'
  OBVIOUS
<1> USE DEF ValuesOK, worldVars, pppVars, memVars, Trouble, SettingsRest,
        MachineRests, LinkGoes, Registered
<1>1. CASE InstallFails
  BY <1>1 DEF InstallFails, InstallRoutes, DnsFails, KillPppd, PppdRuns, Stays, Enters
<1>2. CASE Raises
  BY <1>2 DEF Raises, Enters
<1>3. CASE Restarts
  BY <1>3 DEF Restarts, Enters
<1>4. CASE PortGoes \/ PortComes \/ LinkDrops
  BY <1>4 DEF PortGoes, PortComes, LinkDrops
<1>5. CASE SimChanges \/ Deafens
  BY <1>5 DEF SimChanges, Deafens
<1>6. CASE Roams \/ Registers
  BY <1>6 DEF Roams, Registers
<1>7. CASE UserSets
  BY <1>7 DEF UserSets
<1>8. CASE LinkComes \/ PppdEnds
  BY <1>8 DEF LinkComes, PppdEnds
<1> QED BY <1>1, <1>2, <1>3, <1>4, <1>5, <1>6, <1>7, <1>8 DEF Meanwhile, ModemTroubles

LEMMA OthersKeepCounts == CountsOK /\ Meanwhile => CountsOK'
<1> SUFFICES ASSUME CountsOK, Meanwhile PROVE CountsOK'
  OBVIOUS
<1> USE FailsAssumption DEF CountsOK, worldVars, pppVars, memVars, Trouble, SettingsRest,
        MachineRests, LinkGoes
<1>1. CASE InstallFails
  BY <1>1 DEF InstallFails, InstallRoutes, DnsFails, KillPppd, PppdRuns, Stays, Enters
<1>2. CASE Raises
  BY <1>2 DEF Raises, Enters
<1>3. CASE Restarts
  BY <1>3 DEF Restarts, Enters
<1>4. CASE PortGoes \/ PortComes \/ LinkDrops
  BY <1>4 DEF PortGoes, PortComes, LinkDrops
<1>5. CASE SimChanges \/ Deafens
  BY <1>5 DEF SimChanges, Deafens
<1>6. CASE Roams \/ Registers
  BY <1>6 DEF Roams, Registers
<1>7. CASE UserSets
  BY <1>7 DEF UserSets
<1>8. CASE LinkComes \/ PppdEnds
  BY <1>8 DEF LinkComes, PppdEnds
<1> QED BY <1>1, <1>2, <1>3, <1>4, <1>5, <1>6, <1>7, <1>8 DEF Meanwhile, ModemTroubles

LEMMA OthersKeepClean == ModemInv /\ Meanwhile => Clean'
<1> SUFFICES ASSUME ModemInv, Meanwhile PROVE Clean'
  OBVIOUS
<1> USE DEF Clean, SearchingIsClean, RedialsAlone, RoutesFitTheLink, Steady, PppdRuns
<1>0. Clean /\ ModemTypeOK
  BY DEF ModemInv, ConnectionIsWhole
<1>1. CASE InstallFails
  BY <1>0, <1>1 DEF InstallFails, InstallRoutes, DnsFails, KillPppd, Stays, Enters,
     SettingsRest, memVars
<1>2. CASE Raises
  BY <1>0, <1>2 DEF Raises, Enters, pppVars, memVars
<1>3. CASE Restarts
  BY <1>0, <1>3, FailsAssumption DEF Restarts, Enters
\* a link only goes, comes where it is dialled, or ends in an exit
<1>4. CASE /\ MachineRests
           /\ \/ LinkGoes
              \/ UNCHANGED <<pppd, routes>>
              \/ pppd = "dialing" /\ pppd' = "up" /\ UNCHANGED routes
              \/ pppd' = "exited" /\ UNCHANGED routes
  BY <1>0, <1>4 DEF MachineRests, memVars, LinkGoes
<1>5. CASE PortGoes \/ PortComes \/ LinkDrops \/ SimChanges \/ Deafens \/ Roams \/ UserSets
           \/ Registers \/ LinkComes \/ PppdEnds
  BY <1>4, <1>5 DEF PortGoes, PortComes, LinkDrops, SimChanges, Deafens, Roams, UserSets,
     Registers, LinkComes, PppdEnds
<1> QED BY <1>1, <1>2, <1>3, <1>5 DEF Meanwhile, ModemTroubles

-----------------------------------------------------------------------------
(* Whatever breaks a session off, nothing of it is left while the modem      *)
(* searches, pppd is dialled only when none runs, and a link that is         *)
(* believed to be routed has its own routes.                                 *)
THEOREM ConnectionIsAlwaysWhole == ModemSpec => []ConnectionIsWhole
<1>1. ModemInv /\ [ModemNext]_modemVars => ModemInv'
  <2> SUFFICES ASSUME ModemInv, [ModemNext]_modemVars PROVE ModemInv'
    OBVIOUS
  <2>1. CASE ModemPass
    BY <2>1, PassKeepsFlags, PassKeepsValues, PassKeepsCounts, PassKeepsClean
    DEF ModemInv, ConnectionIsWhole, ModemTypeOK, Clean
  <2>2. CASE Meanwhile
    BY <2>2, OthersKeepFlags, OthersKeepValues, OthersKeepCounts, OthersKeepClean
    DEF ModemInv, ConnectionIsWhole, ModemTypeOK, Clean
  <2>3. CASE UNCHANGED modemVars
    BY <2>3 DEF modemVars, worldVars, pppVars, memVars, ModemInv, ConnectionIsWhole, ModemTypeOK,
       FlagsOK, ValuesOK, CountsOK, SearchingIsClean, RedialsAlone, RoutesFitTheLink, Steady, PppdRuns
  <2> QED BY <2>1, <2>2, <2>3 DEF ModemNext, Meanwhile
<1>2. ModemInv => ConnectionIsWhole
  BY DEF ModemInv
<1> QED BY <1>1, <1>2, ModemStarts, PTL DEF ModemSpec

-----------------------------------------------------------------------------
(* The store of parameters.  What a caller relies on is not inductive: that  *)
(* an acknowledged call is not among the entries a power cut may take back   *)
(* needs that numbers of calls are never shared, by calls, queue and files   *)
(* (IdsApart, LogsPast); that nothing is torn needs that a put reaches the   *)
(* rename with its data synced (Fits); that what is seen is kept needs to    *)
(* say when a file may be ahead of the disk, which is only while a call that *)
(* has changed something goes on (Kept); and one reader's moment needs that  *)
(* a call that has the lock is in the middle alone, unless a lock failed for *)
(* one that has crossed it (Holders).  The order of the queue is that of the *)
(* numbers (InOrder).                                                        *)

\* A call that nobody without the lock has met is alone in the lock's section, and has it.
Holders ==
    /\ \A t \in Threads : lock = t => at[t] \in {"locked", "changed"}
    /\ \A t \in Threads \ crossed : at[t] \in {"locked", "changed"} =>
           lock = t /\ \A u \in Threads : at[u] \in {"locked", "changed"} => u = t

Fits(t) ==
    /\ at[t] = "idle" => job[t] = NoJob
    /\ at[t] # "idle" => job[t].id \in 1 .. nextId - 1
    /\ at[t] = "pushed" => job[t].op = "none"
    /\ at[t] = "tmp" => job[t].op = "put"
    /\ at[t] \in {"ready", "locked", "changed"} => job[t].op # "none"
    /\ at[t] = "changed" => job[t].op # "read"
    /\ at[t] = "ready" /\ job[t].op = "read" => job[t].todo = Keys
    /\ at[t] \in {"ready", "locked", "changed"} /\ job[t].op = "put" => job[t].id \in synced
    /\ t = Async /\ at[t] # "idle" => job[t].op = "put"
    /\ job[t].op = "remove" => \A k, q \in job[t].todo : k = q
JobsFit == \A t \in Threads : Fits(t)

IdsApart ==
    /\ \A t, u \in Threads : t # u /\ job[t].op # "none" /\ job[u].op # "none" => job[t].id # job[u].id
    /\ \A t \in Threads : job[t].op # "none" =>
           /\ \A i \in DOMAIN queue : job[t].id # queue[i].id
           /\ \A k \in Keys : job[t].id # acked[k]
    /\ \A i \in DOMAIN queue : queue[i].id < nextId /\ \A k \in Keys : queue[i].id # acked[k]
    /\ \A k \in Keys : acked[k] < nextId

LogsPast == \A k \in Keys : \A n \in DOMAIN log[k] : log[k][n].id < nextId

InOrder ==
    /\ \A i, j \in DOMAIN queue : i < j => queue[i].id < queue[j].id
    /\ at[Async] # "idle" => \A i \in DOMAIN queue : job[Async].id < queue[i].id
    /\ \A k \in Keys : \A n \in DOMAIN log[k] : log[k][n].by = Async =>
           /\ \A i \in DOMAIN queue : log[k][n].id < queue[i].id
           /\ at[Async] \in {"tmp", "ready", "locked"} => log[k][n].id < job[Async].id

Changes(t) == at[t] = "changed" \/ (at[t] = "locked" /\ job[t].op = "clear")
Kept == slip \/ (\E t \in Threads : Changes(t)) \/ \A k \in Keys : Len(log[k]) = 1

Books == IdsApart /\ LogsPast /\ InOrder
Files == DurableOnReturn /\ NeverTorn /\ Kept /\ SnapshotIsOneMoment
ParamsInv == ParamsTypeOK /\ Holders /\ JobsFit /\ Books /\ Files

LEMMA Jobs ==
  ASSUME ParamsTypeOK, NEW t \in Threads
  PROVE  /\ job[t].op \in {"none", "put", "remove", "clear", "read"}
         /\ job[t].id \in 0 .. MaxOps /\ job[t].todo \subseteq Keys
BY DEF ParamsTypeOK

LEMMA Entries ==
  ASSUME ParamsTypeOK, NEW k \in Keys
  PROVE  /\ log[k] \in Seq(Entry) /\ Len(log[k]) \in Nat \ {0} /\ DOMAIN log[k] = 1 .. Len(log[k])
         /\ Current(k) \in Entry
         /\ \A n \in DOMAIN log[k] : log[k][n] \in Entry /\ log[k][n].id \in 0 .. MaxOps
<1>1. log[k] \in Seq(Entry) /\ log[k] # <<>>
  BY DEF ParamsTypeOK
<1>2. Len(log[k]) \in Nat \ {0} /\ DOMAIN log[k] = 1 .. Len(log[k])
  BY <1>1
<1>3. \A n \in DOMAIN log[k] : log[k][n] \in Entry
  BY <1>1
<1> QED BY <1>1, <1>2, <1>3 DEF Current, Entry

LEMMA Members == ASSUME NEW S, NEW s \in Seq(S) PROVE \A i \in DOMAIN s : s[i] \in S
OBVIOUS

LEMMA Queued ==
  ASSUME ParamsTypeOK
  PROVE  /\ Len(queue) \in Nat /\ DOMAIN queue = 1 .. Len(queue)
         /\ \A i \in DOMAIN queue : queue[i].id \in 1 .. MaxOps /\ queue[i].key \in Keys
<1> DEFINE Item == [id : 1 .. MaxOps, key : Keys]
<1>1. queue \in Seq(Item)
  BY DEF ParamsTypeOK
<1>2. \A q \in Item : q.id \in 1 .. MaxOps /\ q.key \in Keys
  OBVIOUS
<1> HIDE DEF Item
<1>3. \A i \in DOMAIN queue : queue[i] \in Item
  BY <1>1, Members
<1>4. Len(queue) \in Nat /\ DOMAIN queue = 1 .. Len(queue)
  BY <1>1
<1> QED BY <1>2, <1>3, <1>4

LEMMA AtWork ==
  ASSUME ParamsTypeOK, JobsFit, NEW t \in Threads, job[t].op # "none"
  PROVE  at[t] # "idle" /\ job[t].id < nextId /\ job[t].id \in 1 .. MaxOps
<1>1. at[t] # "idle"
  BY DEF JobsFit, Fits, NoJob
<1>2. job[t].id \in 1 .. nextId - 1 /\ nextId \in 1 .. MaxOps + 1
  BY <1>1 DEF JobsFit, Fits, ParamsTypeOK
<1> QED BY <1>1, <1>2, OpAssumption

LEMMA StartParams == ParamsInit => ParamsInv
<1> SUFFICES ASSUME ParamsInit PROVE ParamsInv
  OBVIOUS
<1>1. \A k \in Keys : Len(log[k]) = 1 /\ DOMAIN log[k] = {1} /\ log[k][1] = [id |-> 0, here |-> FALSE, by |-> App]
  <2> DEFINE e == [id |-> 0, here |-> FALSE, by |-> App]
  <2>1. \A k \in Keys : log[k] = << e >>
    BY DEF ParamsInit
  <2>2. Len(<< e >>) = 1 /\ DOMAIN << e >> = {1} /\ << e >>[1] = e
    <3> HIDE DEF e
    <3> QED OBVIOUS
  <2> HIDE DEF e
  <2>3. \A k \in Keys : Len(log[k]) = 1 /\ DOMAIN log[k] = {1} /\ log[k][1] = e
    BY <2>1, <2>2
  <2> QED BY <2>3 DEF e
<1>2. ParamsTypeOK
  <2>1. log \in [Keys -> Seq(Entry)] /\ \A k \in Keys : log[k] # <<>>
    <3>1. [id |-> 0, here |-> FALSE, by |-> App] \in Entry
      BY OpAssumption DEF Entry, Threads
    <3> QED BY <3>1 DEF ParamsInit
  <2>2. job \in [Threads -> [op : {"none", "put", "remove", "clear", "read"}, id : 0 .. MaxOps,
                            todo : SUBSET Keys]]
    <3>1. 0 \in 0 .. MaxOps
      BY OpAssumption
    <3> QED BY <3>1 DEF ParamsInit, NoJob
  <2>3. acked \in [Keys -> 0 .. MaxOps] /\ seen \in [Threads -> [Keys -> 0 .. MaxOps]]
    BY OpAssumption DEF ParamsInit
  <2>4. nextId \in 1 .. MaxOps + 1 /\ faults \in 0 .. MaxFaults
    BY OpAssumption DEF ParamsInit
  <2>5. /\ synced \subseteq 1 .. MaxOps /\ lock \in Threads \cup {Nobody} /\ crossed \subseteq Threads
        /\ at \in [Threads -> {"idle", "tmp", "ready", "locked", "changed", "pushed"}]
        /\ open \in BOOLEAN /\ slip \in BOOLEAN
        /\ future \in {"none", "running", "returning", "ready"}
    BY Zenon DEF ParamsInit
  <2>6. queue \in Seq([id : 1 .. MaxOps, key : Keys])
    BY SMT DEF ParamsInit
  <2> QED BY <2>1, <2>2, <2>3, <2>4, <2>5, <2>6 DEF ParamsTypeOK
<1>3. Holders /\ JobsFit
  BY ThreadAssumption DEF ParamsInit, Holders, JobsFit, Fits, NoJob, Threads
<1>4. IdsApart /\ LogsPast /\ InOrder
  BY <1>1, ThreadAssumption DEF ParamsInit, IdsApart, LogsPast, InOrder, NoJob, Threads
<1>5. DurableOnReturn /\ NeverTorn /\ Kept /\ SnapshotIsOneMoment
  BY <1>1 DEF ParamsInit, DurableOnReturn, NeverTorn, Kept, Changes, SnapshotIsOneMoment
<1> QED BY <1>2, <1>3, <1>4, <1>5 DEF ParamsInv, Books, Files

LEMMA StaysFit ==
  ASSUME ParamsTypeOK, JobsFit, NEW u \in Threads, at'[u] = at[u], job'[u] = job[u],
         nextId' = nextId \/ nextId' = nextId + 1, synced \subseteq synced'
  PROVE  Fits(u)'
<1>1. Fits(u) /\ nextId \in Nat
  BY OpAssumption DEF JobsFit, ParamsTypeOK
<1>2. at[u] # "idle" => job'[u].id \in 1 .. nextId' - 1
  BY <1>1 DEF Fits
<1> QED BY <1>1, <1>2 DEF Fits

\* Nothing is put, taken up or done: the numbers stay as they are.
LEMMA BooksRest ==
  ASSUME Books, UNCHANGED << log, acked, nextId >>, queue' = queue \/ queue' = << >>,
         \A u \in Threads : job'[u].op # "none" => job[u].op # "none" /\ job'[u].id = job[u].id,
         at'[Async] # "idle" => at[Async] # "idle" /\ job'[Async].id = job[Async].id,
         at'[Async] \in {"tmp", "ready", "locked"} => at[Async] \in {"tmp", "ready", "locked"}
  PROVE  Books'
<1>1. DOMAIN queue' \subseteq DOMAIN queue /\ \A i \in DOMAIN queue' : queue'[i] = queue[i]
  OBVIOUS
<1>2. IdsApart'
  BY <1>1 DEF Books, IdsApart
<1>3. LogsPast'
  BY DEF Books, LogsPast
<1>4. InOrder'
  BY <1>1 DEF Books, InOrder
<1> QED BY <1>2, <1>3, <1>4 DEF Books

LEMMA FilesRest ==
  ASSUME Files, UNCHANGED << log, acked >>, synced \subseteq synced'
  PROVE  DurableOnReturn' /\ NeverTorn'
BY DEF Files, DurableOnReturn, NeverTorn

\* Nobody enters the lock's section or leaves it.
LEMMA SectionRests ==
  ASSUME Holders, UNCHANGED << lock, crossed >>,
         \A u \in Threads : at'[u] \in {"locked", "changed"} <=> at[u] \in {"locked", "changed"}
  PROVE  Holders'
BY DEF Holders

\* Some leave it.
LEMMA SectionLeft ==
  ASSUME Holders, NEW ts \in SUBSET Threads,
         lock' = IF lock \in ts THEN Nobody ELSE lock, crossed' = crossed \ ts,
         \A u \in Threads : IF u \in ts THEN at'[u] = "idle" ELSE at'[u] = at[u]
  PROVE  Holders'
<1>1. \A u \in Threads : lock' = u => lock = u /\ u \notin ts
  BY ThreadAssumption DEF Threads
<1>2. \A u \in Threads : at'[u] \in {"locked", "changed"} => u \notin ts /\ at'[u] = at[u]
  OBVIOUS
<1> QED BY <1>1, <1>2 DEF Holders

LEMMA SectionLeftByOne ==
  ASSUME ParamsTypeOK, Holders, NEW t \in Threads, Unlocks(t), at' = [at EXCEPT ![t] = "idle"]
  PROVE  Holders' /\ lock' \in Threads \cup {Nobody} /\ crossed' \subseteq Threads
<1>1. \A u \in Threads : IF u \in {t} THEN at'[u] = "idle" ELSE at'[u] = at[u]
  BY DEF ParamsTypeOK
<1>2. /\ lock' = (IF lock \in {t} THEN Nobody ELSE lock) /\ crossed' = crossed \ {t}
      /\ lock' \in Threads \cup {Nobody} /\ crossed' \subseteq Threads
  BY DEF Unlocks, ParamsTypeOK
<1>3. {t} \in SUBSET Threads
  OBVIOUS
<1> QED BY <1>1, <1>2, <1>3, SectionLeft

LEMMA KeptRests ==
  ASSUME Files, UNCHANGED << log, slip >>, \A u \in Threads : Changes(u) => Changes(u)'
  PROVE  Kept'
BY DEF Files, Kept

\* A read that goes on has seen what it had seen.
LEMMA ReadsRest ==
  ASSUME Files, UNCHANGED << log >>,
         \A u \in Threads \ crossed' : job'[u].op = "read" /\ at'[u] = "locked" =>
             \/ u \notin crossed /\ job'[u] = job[u] /\ at'[u] = at[u] /\ seen'[u] = seen[u]
             \/ job'[u].todo = Keys
  PROVE  SnapshotIsOneMoment'
BY DEF Files, SnapshotIsOneMoment, Current

-----------------------------------------------------------------------------
\* A call begins.
LEMMA Begins ==
  ASSUME ParamsInv, NEW t \in Threads, t # Async, at[t] = "idle",
         NEW op \in {"put", "remove", "clear", "read"}, NEW keys \in SUBSET Keys,
         NEW l \in {"tmp", "ready"}, l = "tmp" <=> op = "put", op = "read" => keys = Keys,
         op = "remove" => \A k, q \in keys : k = q,
         Starts(t, op, keys, l), UNCHANGED <<files, locks, seen, async, faults>>
  PROVE  ParamsInv'
<1> DEFINE new == [op |-> op, id |-> nextId, todo |-> keys]
<1>1. /\ nextId \in Nat /\ nextId \in 1 .. MaxOps /\ nextId' = nextId + 1
      /\ at' = [at EXCEPT ![t] = l] /\ job' = [job EXCEPT ![t] = new]
      /\ UNCHANGED <<log, synced, acked, slip, lock, crossed, seen, queue, future, open, faults>>
  BY OpAssumption DEF locks, Starts, At, ParamsInv, ParamsTypeOK, files, async
<1>2. /\ ParamsTypeOK /\ Holders /\ JobsFit /\ Books /\ Files /\ lock # t
  BY DEF ParamsInv, Holders
<1>3. /\ at'[t] = l /\ job'[t].op = op /\ job'[t].id = nextId /\ job'[t].todo = keys
      /\ \A u \in Threads : u # t => at'[u] = at[u] /\ job'[u] = job[u]
  BY <1>1, <1>2 DEF ParamsTypeOK
<1>4. ParamsTypeOK'
  <2>1. new \in [op : {"none", "put", "remove", "clear", "read"}, id : 0 .. MaxOps, todo : SUBSET Keys]
    BY <1>1, OpAssumption
  <2>2. nextId' \in 1 .. MaxOps + 1
    BY <1>1, OpAssumption
  <2> QED BY <1>1, <1>2, <2>1, <2>2 DEF ParamsTypeOK
<1> HIDE DEF new
<1>5. Holders'
  BY <1>1, <1>2, <1>3, SectionRests
<1>6. JobsFit'
  <2>1. Fits(t)'
    BY <1>1, <1>3 DEF Fits
  <2>2. ASSUME NEW u \in Threads, u # t PROVE Fits(u)'
    BY <1>1, <1>2, <1>3, <2>2, StaysFit
  <2> QED BY <2>1, <2>2 DEF JobsFit
<1>7. \A u \in Threads : job'[u].op # "none" /\ u # t =>
        job[u].op # "none" /\ job[u].id < nextId
  <2>1. ASSUME NEW u \in Threads, job'[u].op # "none", u # t
        PROVE  job[u].op # "none" /\ job[u].id < nextId
    <3>1. job[u].op # "none"
      BY <1>3, <2>1
    <3> QED BY <1>2, <3>1, AtWork
  <2> QED BY <2>1
<1>8. IdsApart'
  <2>1. IdsApart
    BY <1>2 DEF Books
  <2>2. \A u, v \in Threads : u # v /\ job'[u].op # "none" /\ job'[v].op # "none" =>
            job'[u].id # job'[v].id
    BY <1>1, <1>3, <1>7, <2>1 DEF IdsApart
  <2>3. /\ \A i \in DOMAIN queue : queue[i].id < nextId /\ queue[i].id \in Nat
        /\ \A k \in Keys : acked[k] < nextId /\ acked[k] \in Nat
    <3>1. queue \in Seq([id : 1 .. MaxOps, key : Keys]) /\ acked \in [Keys -> 0 .. MaxOps]
      BY <1>2 DEF ParamsTypeOK
    <3> QED BY <1>2, <2>1, <3>1, Queued DEF IdsApart
  <2>4. ASSUME NEW u \in Threads, job'[u].op # "none"
        PROVE  /\ \A i \in DOMAIN queue : job'[u].id # queue[i].id
               /\ \A k \in Keys : job'[u].id # acked[k]
    <3>1. CASE u = t
      BY <1>1, <1>3, <2>3, <3>1
    <3>2. CASE u # t
      BY <1>3, <2>1, <2>4, <3>2 DEF IdsApart
    <3> QED BY <3>1, <3>2
  <2>5. \A i \in DOMAIN queue : queue[i].id < nextId' /\ \A k \in Keys : queue[i].id # acked[k]
    BY <1>1, <2>1, <2>3 DEF IdsApart
  <2>6. \A k \in Keys : acked[k] < nextId'
    BY <1>1, <2>3
  <2> QED BY <1>1, <2>2, <2>4, <2>5, <2>6 DEF IdsApart
<1>9. LogsPast'
  BY <1>1, <1>2, Entries DEF Books, LogsPast
<1>10. InOrder'
  BY <1>1, <1>2, <1>3, ThreadAssumption DEF Books, InOrder, Threads
<1>11. DurableOnReturn' /\ NeverTorn'
  BY <1>1, <1>2 DEF Files, DurableOnReturn, NeverTorn
<1>12. Kept'
  BY <1>1, <1>2, <1>3, KeptRests DEF Changes
<1>13. SnapshotIsOneMoment'
  BY <1>1, <1>2, <1>3 DEF Files, SnapshotIsOneMoment, Current
<1> QED BY <1>4, <1>5, <1>6, <1>8, <1>9, <1>10, <1>11, <1>12, <1>13 DEF ParamsInv, Books, Files


-----------------------------------------------------------------------------
(* The steps of a call.                                                      *)

\* One thread moves.
LEMMA Moves ==
  ASSUME ParamsTypeOK, NEW t \in Threads, NEW l, NEW j,
         at' = [at EXCEPT ![t] = l], job' = [job EXCEPT ![t] = j]
  PROVE  /\ at'[t] = l /\ job'[t] = j
         /\ \A u \in Threads : u # t => at'[u] = at[u] /\ job'[u] = job[u]
BY DEF ParamsTypeOK

JobType == [op : {"none", "put", "remove", "clear", "read"}, id : 0 .. MaxOps, todo : SUBSET Keys]

LEMMA NoJobType == NoJob \in JobType /\ NoJob.op = "none"
BY OpAssumption DEF NoJob, JobType

LEMMA WriteTmpKeeps ==
  ASSUME ParamsInv, NEW t \in Threads, WriteTmp(t) PROVE ParamsInv'
<1>1. /\ at[t] = "tmp" /\ synced' = synced \cup {job[t].id} /\ at' = [at EXCEPT ![t] = "ready"]
      /\ UNCHANGED << log, acked, slip, lock, crossed, job, seen, async, queue, nextId, faults >>
  BY DEF WriteTmp, At, async, locks
<1>2. /\ ParamsTypeOK /\ Holders /\ JobsFit /\ Books /\ Files /\ job[t].op = "put"
      /\ job[t].id \in 1 .. MaxOps /\ job = [job EXCEPT ![t] = job[t]]
  <2>1. ParamsTypeOK /\ Holders /\ JobsFit /\ Books /\ Files
    BY DEF ParamsInv
  <2>2. job[t].op = "put"
    BY <1>1, <2>1 DEF JobsFit, Fits
  <2> QED BY <2>1, <2>2, AtWork DEF ParamsTypeOK
<1>3. at'[t] = "ready" /\ job' = job /\ \A u \in Threads : u # t => at'[u] = at[u]
  BY <1>1, <1>2 DEF ParamsTypeOK
<1>4. ParamsTypeOK'
  <2>1. at' \in [Threads -> {"idle", "tmp", "ready", "locked", "changed", "pushed"}]
    BY <1>1, <1>2 DEF ParamsTypeOK
  <2>2. synced' \subseteq 1 .. MaxOps
    BY <1>1, <1>2 DEF ParamsTypeOK
  <2> QED BY <1>1, <1>2, <2>1, <2>2 DEF ParamsTypeOK, async
<1>5. Holders'
  BY <1>1, <1>2, <1>3, SectionRests
<1>6. JobsFit'
  <2>1. Fits(t)'
    BY <1>1, <1>2, <1>3 DEF JobsFit, Fits
  <2>2. ASSUME NEW u \in Threads, u # t PROVE Fits(u)'
    BY <1>1, <1>2, <1>3, <2>2, StaysFit
  <2> QED BY <2>1, <2>2 DEF JobsFit
<1>7. Books'
  BY <1>1, <1>2, <1>3, BooksRest, ThreadAssumption DEF Threads
<1>8. DurableOnReturn' /\ NeverTorn'
  BY <1>1, <1>2, FilesRest
<1>9. Kept'
  BY <1>1, <1>2, <1>3, KeptRests DEF Changes
<1>10. SnapshotIsOneMoment'
  BY <1>1, <1>2, <1>3, ReadsRest
<1> QED BY <1>4, <1>5, <1>6, <1>7, <1>8, <1>9, <1>10 DEF ParamsInv, Files

LEMMA WriteFailsKeeps ==
  ASSUME ParamsInv, NEW t \in Threads, WriteFails(t) PROVE ParamsInv'
<1>1. /\ at[t] \in {"tmp", "locked"} /\ job[t].op = "put"
      /\ at' = [at EXCEPT ![t] = "idle"] /\ job' = [job EXCEPT ![t] = NoJob]
      /\ Unlocks(t) /\ faults' = faults - 1 /\ faults > 0
      /\ UNCHANGED << log, synced, acked, slip, seen, queue, future, open, nextId >>
  BY DEF WriteFails, At, Returns, Fault, files, async
<1>2. ParamsTypeOK /\ Holders /\ JobsFit /\ Books /\ Files
  BY DEF ParamsInv
<1>3. /\ at'[t] = "idle" /\ job'[t] = NoJob
      /\ \A u \in Threads : u # t => at'[u] = at[u] /\ job'[u] = job[u]
  BY <1>1, <1>2, Moves
<1>4. ParamsTypeOK'
  <2>1. faults' \in 0 .. MaxFaults
    BY <1>1, <1>2, OpAssumption DEF ParamsTypeOK
  <2>2. job' \in [Threads -> JobType]
    BY <1>1, <1>2, NoJobType DEF ParamsTypeOK, JobType
  <2>3. /\ at' \in [Threads -> {"idle", "tmp", "ready", "locked", "changed", "pushed"}]
        /\ lock' \in Threads \cup {Nobody} /\ crossed' \subseteq Threads
    BY <1>1, <1>2, SectionLeftByOne DEF ParamsTypeOK
  <2> QED BY <1>1, <1>2, <2>1, <2>2, <2>3 DEF ParamsTypeOK, JobType
<1>5. Holders'
  BY <1>1, <1>2, SectionLeftByOne
<1>6. JobsFit'
  <2>1. Fits(t)'
    BY <1>3, NoJobType DEF Fits
  <2>2. ASSUME NEW u \in Threads, u # t PROVE Fits(u)'
    BY <1>1, <1>2, <1>3, <2>2, StaysFit
  <2> QED BY <2>1, <2>2 DEF JobsFit
<1>7. Books'
  BY <1>1, <1>2, <1>3, BooksRest, ThreadAssumption, NoJobType DEF Threads
<1>8. DurableOnReturn' /\ NeverTorn'
  BY <1>1, <1>2, FilesRest
<1>9. Kept'
  BY <1>1, <1>2, <1>3, KeptRests DEF Changes
<1>10. SnapshotIsOneMoment'
  BY <1>1, <1>2, <1>3, ReadsRest, NoJobType DEF Unlocks
<1> QED BY <1>4, <1>5, <1>6, <1>7, <1>8, <1>9, <1>10 DEF ParamsInv, Files

LEMMA LockKeeps ==
  ASSUME ParamsInv, NEW t \in Threads, Lock(t) \/ LockFails(t) PROVE ParamsInv'
<1>1. /\ at[t] = "ready" /\ at' = [at EXCEPT ![t] = "locked"]
      /\ UNCHANGED << log, synced, acked, slip, job, seen, queue, future, open, nextId >>
      /\ faults' = faults \/ Fault
  BY DEF Lock, LockFails, TakesLock, At, files, async
<1>2. ParamsTypeOK /\ Holders /\ JobsFit /\ Books /\ Files /\ Fits(t)
  BY DEF ParamsInv, JobsFit
<1>3. /\ at'[t] = "locked" /\ job' = job /\ \A u \in Threads : u # t => at'[u] = at[u]
  BY <1>1, <1>2 DEF ParamsTypeOK
<1>4. /\ lock' \in Threads \cup {Nobody} /\ crossed' \subseteq Threads /\ crossed \subseteq crossed'
      /\ Holders'
  <2>1. CASE Lock(t)
    <3>1. lock = Nobody /\ lock' = t /\ crossed' = IF Inside \ {lock} # {} THEN crossed \cup {t} ELSE crossed
      BY <2>1 DEF Lock, TakesLock
    <3>2. \A u \in Threads : u # Nobody
      BY ThreadAssumption DEF Threads
    <3>3. \A u \in Threads \ crossed : at[u] \notin {"locked", "changed"}
      BY <1>2, <3>1, <3>2 DEF Holders
    <3>4. t \notin crossed' => \A u \in Threads : at[u] \notin {"locked", "changed"}
      BY <3>1, <3>2 DEF Inside
    <3> QED BY <1>2, <1>3, <3>1, <3>3, <3>4 DEF Holders, ParamsTypeOK
  <2>2. CASE LockFails(t)
    <3>1. lock' = lock /\ crossed' = crossed \cup Inside \cup {t}
      BY <2>2 DEF LockFails
    <3>2. \A u \in Threads \ crossed' : at'[u] \notin {"locked", "changed"}
      BY <1>3, <3>1 DEF Inside
    <3> QED BY <1>2, <1>3, <3>1, <3>2 DEF Holders, ParamsTypeOK, Inside
  <2> QED BY <2>1, <2>2
<1>5. ParamsTypeOK'
  <2>1. faults' \in 0 .. MaxFaults
    BY <1>1, <1>2, OpAssumption DEF ParamsTypeOK, Fault
  <2>2. at' \in [Threads -> {"idle", "tmp", "ready", "locked", "changed", "pushed"}]
    BY <1>1, <1>2 DEF ParamsTypeOK
  <2> QED BY <1>1, <1>2, <1>4, <2>1, <2>2 DEF ParamsTypeOK
<1>6. JobsFit'
  <2>1. Fits(t)'
    BY <1>1, <1>2, <1>3 DEF Fits
  <2>2. ASSUME NEW u \in Threads, u # t PROVE Fits(u)'
    BY <1>1, <1>2, <1>3, <2>2, StaysFit
  <2> QED BY <2>1, <2>2 DEF JobsFit
<1>7. Books'
  BY <1>1, <1>2, <1>3, BooksRest, ThreadAssumption DEF Threads
<1>8. DurableOnReturn' /\ NeverTorn'
  BY <1>1, <1>2, FilesRest
<1>9. Kept'
  BY <1>1, <1>2, <1>3, KeptRests DEF Changes
<1>10. SnapshotIsOneMoment'
  BY <1>1, <1>2, <1>3, <1>4, ReadsRest DEF Fits
<1> QED BY <1>4, <1>5, <1>6, <1>7, <1>8, <1>9, <1>10 DEF ParamsInv, Files

LEMMA ReadOneKeeps ==
  ASSUME ParamsInv, NEW t \in Threads, ReadOne(t) PROVE ParamsInv'
<1>1. PICK k \in job[t].todo :
          /\ seen' = [seen EXCEPT ![t][k] = Current(k).id]
          /\ job' = [job EXCEPT ![t].todo = @ \ {k}]
  BY DEF ReadOne
<1>2. /\ at[t] = "locked" /\ job[t].op = "read"
      /\ UNCHANGED << log, synced, acked, slip, lock, crossed, at, queue, future, open, nextId, faults >>
  BY DEF ReadOne, files, async, locks
<1>3. ParamsTypeOK /\ Holders /\ JobsFit /\ Books /\ Files /\ Fits(t) /\ k \in Keys
  BY <1>1, Jobs DEF ParamsInv, JobsFit
<1>4. /\ job'[t].op = "read" /\ job'[t].id = job[t].id /\ job'[t].todo = job[t].todo \ {k}
      /\ \A u \in Threads : u # t => job'[u] = job[u] /\ seen'[u] = seen[u]
      /\ seen'[t][k] = Current(k).id /\ \A q \in Keys : q # k => seen'[t][q] = seen[t][q]
  BY <1>1, <1>2, <1>3 DEF ParamsTypeOK
<1>5. ParamsTypeOK'
  <2>1. job' \in [Threads -> JobType]
    BY <1>1, <1>3 DEF ParamsTypeOK, JobType
  <2>2. seen' \in [Threads -> [Keys -> 0 .. MaxOps]]
    <3>1. Current(k).id \in 0 .. MaxOps
      BY <1>3, Entries DEF Entry
    <3> QED BY <1>1, <1>3, <3>1 DEF ParamsTypeOK
  <2> QED BY <1>2, <1>3, <2>1, <2>2 DEF ParamsTypeOK, JobType
<1>6. Holders'
  BY <1>2, <1>3, SectionRests
<1>7. JobsFit'
  <2>1. Fits(t)'
    BY <1>2, <1>3, <1>4 DEF Fits
  <2>2. ASSUME NEW u \in Threads, u # t PROVE Fits(u)'
    BY <1>2, <1>3, <1>4, <2>2, StaysFit
  <2> QED BY <2>1, <2>2 DEF JobsFit
<1>8. Books'
  <2>1. \A u \in Threads : job'[u].op # "none" => job[u].op # "none" /\ job'[u].id = job[u].id
    BY <1>2, <1>4
  <2>2. Async # t
    BY <1>2, <1>3 DEF Fits
  <2> QED BY <1>2, <1>3, <1>4, <2>1, <2>2, BooksRest, ThreadAssumption DEF Threads
<1>9. DurableOnReturn' /\ NeverTorn'
  BY <1>2, <1>3, FilesRest
<1>10. Kept'
  BY <1>2, <1>3, <1>4, KeptRests DEF Changes
<1>11. SnapshotIsOneMoment'
  BY <1>2, <1>3, <1>4 DEF Files, SnapshotIsOneMoment, Current
<1> QED BY <1>5, <1>6, <1>7, <1>8, <1>9, <1>10, <1>11 DEF ParamsInv, Files

LEMMA ReadDoneKeeps ==
  ASSUME ParamsInv, NEW t \in Threads, ReadDone(t) PROVE ParamsInv'
<1>1. /\ at[t] = "locked" /\ job[t].op = "read" /\ Unlocks(t)
      /\ at' = [at EXCEPT ![t] = "idle"] /\ job' = [job EXCEPT ![t] = NoJob]
      /\ seen' = [seen EXCEPT ![t] = [k \in Keys |-> 0]]
      /\ UNCHANGED << log, synced, acked, slip, queue, future, open, nextId, faults >>
  BY DEF ReadDone, At, Returns, files, async
<1>2. ParamsTypeOK /\ Holders /\ JobsFit /\ Books /\ Files
  BY DEF ParamsInv
<1>3. /\ at'[t] = "idle" /\ job'[t] = NoJob
      /\ \A u \in Threads : u # t => at'[u] = at[u] /\ job'[u] = job[u] /\ seen'[u] = seen[u]
  BY <1>1, <1>2 DEF ParamsTypeOK
<1>4. ParamsTypeOK'
  <2>1. job' \in [Threads -> JobType]
    BY <1>1, <1>2, NoJobType DEF ParamsTypeOK, JobType
  <2>2. seen' \in [Threads -> [Keys -> 0 .. MaxOps]]
    BY <1>1, <1>2, OpAssumption DEF ParamsTypeOK
  <2>3. /\ at' \in [Threads -> {"idle", "tmp", "ready", "locked", "changed", "pushed"}]
        /\ lock' \in Threads \cup {Nobody} /\ crossed' \subseteq Threads
    BY <1>1, <1>2, SectionLeftByOne DEF ParamsTypeOK
  <2> QED BY <1>1, <1>2, <2>1, <2>2, <2>3 DEF ParamsTypeOK, JobType
<1>5. Holders'
  BY <1>1, <1>2, SectionLeftByOne
<1>6. JobsFit'
  <2>1. Fits(t)'
    BY <1>3, NoJobType DEF Fits
  <2>2. ASSUME NEW u \in Threads, u # t PROVE Fits(u)'
    BY <1>1, <1>2, <1>3, <2>2, StaysFit
  <2> QED BY <2>1, <2>2 DEF JobsFit
<1>7. Books'
  BY <1>1, <1>2, <1>3, BooksRest, ThreadAssumption, NoJobType DEF Threads
<1>8. DurableOnReturn' /\ NeverTorn'
  BY <1>1, <1>2, FilesRest
<1>9. Kept'
  BY <1>1, <1>2, <1>3, KeptRests DEF Changes
<1>10. SnapshotIsOneMoment'
  BY <1>1, <1>2, <1>3, ReadsRest, NoJobType DEF Unlocks
<1> QED BY <1>4, <1>5, <1>6, <1>7, <1>8, <1>9, <1>10 DEF ParamsInv, Files

\* What an entry that is added to a file does to the files.
LEMMA Adds ==
  ASSUME ParamsInv, NEW t \in Threads, NEW k \in Keys, NEW h \in BOOLEAN,
         at[t] = "locked", job[t].op \in {"put", "remove", "clear"}, h => job[t].op = "put",
         log' = [log EXCEPT ![k] = Append(@, [id |-> job[t].id, here |-> h, by |-> t])],
         UNCHANGED << synced, acked, queue, nextId >>,
         \A u \in Threads : job'[u].op # "none" => job[u].op # "none" /\ job'[u].id = job[u].id,
         at'[Async] # "idle" => at[Async] # "idle" /\ job'[Async].id = job[Async].id,
         at'[Async] \in {"tmp", "ready", "locked"} =>
             at[Async] \in {"tmp", "ready", "locked"} /\ t # Async
  PROVE  /\ log' \in [Keys -> Seq(Entry)] /\ \A q \in Keys : log'[q] # << >>
         /\ Books' /\ DurableOnReturn' /\ NeverTorn'
<1> DEFINE e == [id |-> job[t].id, here |-> h, by |-> t]
<1>1. /\ ParamsTypeOK /\ Books /\ Files /\ JobsFit /\ Fits(t) /\ e \in Entry
      /\ e.id = job[t].id /\ e.here = h /\ e.by = t
  BY Jobs DEF ParamsInv, JobsFit, Entry
<1> HIDE DEF e
<1>2. /\ log' \in [Keys -> Seq(Entry)] /\ \A q \in Keys : q # k => log'[q] = log[q]
      /\ log'[k] = Append(log[k], e) /\ log[k] \in Seq(Entry) /\ log[k] # << >>
  BY <1>1 DEF ParamsTypeOK, e
<1>3. /\ DOMAIN log'[k] = 1 .. Len(log[k]) + 1 /\ log'[k][Len(log[k]) + 1] = e
      /\ DOMAIN log[k] = 1 .. Len(log[k]) /\ Len(log[k]) \in Nat
      /\ \A n \in DOMAIN log[k] : log'[k][n] = log[k][n]
  BY <1>1, <1>2
<1>4. ASSUME NEW q \in Keys, NEW n \in DOMAIN log'[q]
      PROVE  \/ log'[q][n] = e /\ q = k
             \/ n \in DOMAIN log[q] /\ log'[q][n] = log[q][n]
  BY <1>2, <1>3
<1>5. e.id < nextId /\ \A q \in Keys : e.id # acked[q]
  <2>1. job[t].id < nextId
    BY <1>1, AtWork
  <2> QED BY <1>1, <2>1 DEF Books, IdsApart
<1>6. \A q \in Keys : log'[q] # << >>
  BY <1>1, <1>2, <1>3 DEF ParamsTypeOK
<1>7. IdsApart'
  BY <1>1 DEF Books, IdsApart
<1>8. LogsPast'
  BY <1>1, <1>4, <1>5 DEF Books, LogsPast
<1>9. InOrder'
  <2>1. InOrder
    BY <1>1 DEF Books
  <2>2. ASSUME NEW q \in Keys, NEW n \in DOMAIN log'[q], log'[q][n].by = Async
        PROVE  /\ \A i \in DOMAIN queue : log'[q][n].id < queue[i].id
               /\ at'[Async] \in {"tmp", "ready", "locked"} => log'[q][n].id < job'[Async].id
    <3>1. CASE log'[q][n] = e
      BY <1>1, <2>1, <2>2, <3>1 DEF InOrder
    <3>2. CASE n \in DOMAIN log[q] /\ log'[q][n] = log[q][n]
      BY <2>1, <2>2, <3>2 DEF InOrder
    <3> QED BY <1>4, <3>1, <3>2
  <2>3. /\ \A i, j \in DOMAIN queue : i < j => queue[i].id < queue[j].id
        /\ at'[Async] # "idle" => \A i \in DOMAIN queue : job'[Async].id < queue[i].id
    BY <2>1 DEF InOrder
  <2> QED BY <2>2, <2>3 DEF InOrder
<1>10. DurableOnReturn'
  <2> SUFFICES ASSUME NEW q \in Keys, NEW n \in 2 .. Len(log'[q]), acked[q] # 0
               PROVE  log'[q][n].id # acked[q]
    BY DEF DurableOnReturn
  <2>1. n \in DOMAIN log'[q]
    BY <1>2
  <2>2. CASE log'[q][n] = e
    BY <1>5, <2>2
  <2>3. CASE n \in DOMAIN log[q] /\ log'[q][n] = log[q][n]
    <3>1. n \in 2 .. Len(log[q])
      BY <1>1, <2>3, Entries
    <3> QED BY <1>1, <2>3, <3>1 DEF Files, DurableOnReturn
  <2> QED BY <1>4, <2>1, <2>2, <2>3
<1>11. NeverTorn'
  BY <1>1, <1>4 DEF Files, NeverTorn, Fits
<1> QED BY <1>2, <1>6, <1>7, <1>8, <1>9, <1>10, <1>11 DEF Books

LEMMA RenameKeeps ==
  ASSUME ParamsInv, NEW t \in Threads, Rename(t) PROVE ParamsInv'
<1>1. PICK k \in job[t].todo : Appends(t, k, TRUE)
  BY DEF Rename
<1>2. /\ at[t] = "locked" /\ job[t].op = "put" /\ at' = [at EXCEPT ![t] = "changed"]
      /\ log' = [log EXCEPT ![k] = Append(@, [id |-> job[t].id, here |-> TRUE, by |-> t])]
      /\ UNCHANGED << synced, acked, slip, lock, crossed, job, seen, queue, future, open, nextId, faults >>
  BY <1>1 DEF Rename, At, Appends, async, locks
<1>3. ParamsTypeOK /\ Holders /\ JobsFit /\ Books /\ Files /\ k \in Keys /\ Fits(t)
  BY <1>1, <1>2, Jobs DEF ParamsInv, JobsFit
<1>4. /\ at'[t] = "changed" /\ job' = job /\ \A u \in Threads : u # t => at'[u] = at[u]
  BY <1>2, <1>3 DEF ParamsTypeOK
<1>5. /\ log' \in [Keys -> Seq(Entry)] /\ \A q \in Keys : log'[q] # << >>
      /\ Books' /\ DurableOnReturn' /\ NeverTorn'
  <2>1. at'[Async] \in {"tmp", "ready", "locked"} =>
            at[Async] \in {"tmp", "ready", "locked"} /\ t # Async
    BY <1>4, ThreadAssumption DEF Threads
  <2>2. at'[Async] # "idle" => at[Async] # "idle" /\ job'[Async].id = job[Async].id
    BY <1>2, <1>4, ThreadAssumption DEF Threads
  <2> QED BY <1>2, <1>3, <1>4, <2>1, <2>2, Adds
<1>6. ParamsTypeOK'
  BY <1>2, <1>3, <1>5 DEF ParamsTypeOK
<1>7. Holders'
  BY <1>2, <1>3, <1>4, SectionRests
<1>8. JobsFit'
  <2>1. Fits(t)'
    BY <1>2, <1>3, <1>4 DEF Fits
  <2>2. ASSUME NEW u \in Threads, u # t PROVE Fits(u)'
    BY <1>2, <1>3, <1>4, <2>2, StaysFit
  <2> QED BY <2>1, <2>2 DEF JobsFit
<1>9. Kept'
  BY <1>4 DEF Kept, Changes
<1>10. SnapshotIsOneMoment'
  BY <1>2, <1>3, <1>4 DEF SnapshotIsOneMoment, Holders
<1> QED BY <1>5, <1>6, <1>7, <1>8, <1>9, <1>10 DEF ParamsInv, Files

LEMMA UnlinkKeeps ==
  ASSUME ParamsInv, NEW t \in Threads, Unlink(t) PROVE ParamsInv'
<1>1. PICK k \in job[t].todo :
        /\ IF Current(k).here THEN Appends(t, k, FALSE) ELSE UNCHANGED log
        /\ IF job[t].op = "remove" /\ ~Current(k).here
           THEN Returns(t) /\ Unlocks(t)
           ELSE /\ job' = [job EXCEPT ![t].todo = IF job[t].op = "clear" THEN @ \ {k} ELSE @]
                /\ At(t, IF job'[t].todo \ {k} = {} THEN "changed" ELSE "locked")
                /\ UNCHANGED locks
  BY DEF Unlink
<1>2. /\ at[t] = "locked" /\ job[t].op \in {"remove", "clear"}
      /\ UNCHANGED << synced, acked, slip, seen, queue, future, open, nextId, faults >>
  BY DEF Unlink, async
<1>3. ParamsTypeOK /\ Holders /\ JobsFit /\ Books /\ Files /\ k \in Keys /\ Fits(t) /\ t # Async
  BY <1>1, <1>2, Jobs DEF ParamsInv, JobsFit, Fits
<1>4. PICK l \in {"idle", "changed", "locked"}, j \in JobType :
          /\ at' = [at EXCEPT ![t] = l] /\ job' = [job EXCEPT ![t] = j]
          /\ l = "idle" => /\ j = NoJob /\ Unlocks(t) /\ UNCHANGED log
                           /\ job[t].op = "remove"
          /\ l # "idle" => /\ j.op = job[t].op /\ j.id = job[t].id /\ UNCHANGED << lock, crossed >>
                           /\ j.todo \subseteq job[t].todo
          /\ l = "locked" => job[t].op = "clear"
  <2>1. CASE job[t].op = "remove" /\ ~Current(k).here
    BY <1>1, <2>1, NoJobType DEF Returns, At
  <2>2. CASE ~(job[t].op = "remove" /\ ~Current(k).here)
    <3> DEFINE j == [job[t] EXCEPT !.todo = IF job[t].op = "clear" THEN @ \ {k} ELSE @]
               l == IF j.todo \ {k} = {} THEN "changed" ELSE "locked"
    <3>1. /\ job' = [job EXCEPT ![t] = j] /\ job[t] \in JobType
      BY <1>1, <1>3, <2>2 DEF ParamsTypeOK, JobType
    <3>2. /\ j \in JobType /\ j.op = job[t].op /\ j.id = job[t].id /\ j.todo \subseteq job[t].todo
          /\ job[t].op = "remove" => j.todo = job[t].todo
      BY <1>2, <3>1 DEF JobType
    <3> HIDE DEF j
    <3>3. job'[t] = j
      BY <1>3, <3>1 DEF ParamsTypeOK
    <3>4. at' = [at EXCEPT ![t] = l] /\ UNCHANGED << lock, crossed >>
      BY <1>1, <2>2, <3>3 DEF At, locks
    <3>5. job[t].op = "remove" => j.todo \ {k} = {}
      BY <1>1, <1>3, <3>2 DEF Fits
    <3>6. l \in {"idle", "changed", "locked"} /\ l # "idle" /\ (l = "locked" => job[t].op = "clear")
      BY <1>2, <3>5
    <3> HIDE DEF l
    <3> QED BY <3>1, <3>2, <3>4, <3>6
  <2> QED BY <2>1, <2>2
<1>5. /\ at'[t] = l /\ job'[t] = j /\ \A u \in Threads : u # t => at'[u] = at[u] /\ job'[u] = job[u]
  BY <1>3, <1>4, Moves
<1>6. /\ \A u \in Threads : job'[u].op # "none" => job[u].op # "none" /\ job'[u].id = job[u].id
      /\ at'[Async] = at[Async] /\ job'[Async] = job[Async]
  BY <1>2, <1>3, <1>4, <1>5, NoJobType, ThreadAssumption DEF Threads
<1>7. /\ log' \in [Keys -> Seq(Entry)] /\ \A q \in Keys : log'[q] # << >>
      /\ Books' /\ DurableOnReturn' /\ NeverTorn'
  <2>1. CASE Current(k).here
    <3>1. log' = [log EXCEPT ![k] = Append(@, [id |-> job[t].id, here |-> FALSE, by |-> t])]
      BY <1>1, <2>1 DEF Appends
    <3> QED BY <1>2, <1>3, <1>6, <3>1, Adds
  <2>2. CASE ~Current(k).here
    <3>1. UNCHANGED log
      BY <1>1, <2>2
    <3>2. Books'
      BY <1>2, <1>3, <1>6, <3>1, BooksRest
    <3>3. DurableOnReturn' /\ NeverTorn'
      BY <1>2, <1>3, <3>1, FilesRest
    <3> QED BY <1>3, <3>1, <3>2, <3>3 DEF ParamsTypeOK
  <2> QED BY <2>1, <2>2
<1>8. ParamsTypeOK'
  <2>1. job' \in [Threads -> JobType]
    BY <1>3, <1>4 DEF ParamsTypeOK, JobType
  <2>2. /\ at' \in [Threads -> {"idle", "tmp", "ready", "locked", "changed", "pushed"}]
        /\ lock' \in Threads \cup {Nobody} /\ crossed' \subseteq Threads
    BY <1>3, <1>4, SectionLeftByOne DEF ParamsTypeOK
  <2> QED BY <1>2, <1>3, <1>7, <2>1, <2>2 DEF ParamsTypeOK, JobType
<1>9. Holders'
  <2>1. CASE l = "idle"
    BY <1>3, <1>4, <2>1, SectionLeftByOne
  <2>2. CASE l # "idle"
    BY <1>2, <1>3, <1>4, <1>5, <2>2, SectionRests
  <2> QED BY <2>1, <2>2
<1>10. JobsFit'
  <2>1. Fits(t)'
    BY <1>2, <1>3, <1>4, <1>5, NoJobType DEF Fits
  <2>2. ASSUME NEW u \in Threads, u # t PROVE Fits(u)'
    BY <1>2, <1>3, <1>5, <2>2, StaysFit
  <2> QED BY <2>1, <2>2 DEF JobsFit
<1>11. Kept'
  <2>1. CASE l = "idle"
    <3>1. UNCHANGED << log, slip >>
      BY <1>2, <1>4, <2>1
    <3>2. \A u \in Threads : Changes(u) => Changes(u)'
      BY <1>2, <1>4, <1>5, <2>1 DEF Changes
    <3> QED BY <1>3, <3>1, <3>2, KeptRests
  <2>2. CASE l = "changed"
    BY <1>5, <2>2 DEF Kept, Changes
  <2>3. CASE l = "locked"
    BY <1>4, <1>5, <2>3 DEF Kept, Changes
  <2> QED BY <2>1, <2>2, <2>3
<1>12. SnapshotIsOneMoment'
  <2>1. crossed' = crossed \ {t} \/ crossed' = crossed
    BY <1>4 DEF Unlocks
  <2>2. \A u \in Threads \ crossed' : ~(job'[u].op = "read" /\ at'[u] = "locked")
    BY <1>2, <1>3, <1>4, <1>5, <2>1, NoJobType DEF Holders
  <2> QED BY <2>2 DEF SnapshotIsOneMoment
<1> QED BY <1>7, <1>8, <1>9, <1>10, <1>11, <1>12 DEF ParamsInv, Files

\* What a sync, or a power cut, leaves of the files.
LEMMA Singles ==
  ASSUME ParamsTypeOK, Books, Files, NEW n \in [Keys -> Nat],
         \A k \in Keys : n[k] \in DOMAIN log[k],
         log' = [k \in Keys |-> << log[k][n[k]] >>], synced' = synced, nextId' = nextId
  PROVE  /\ log' \in [Keys -> Seq(Entry)] /\ \A k \in Keys : log'[k] # << >>
         /\ \A k \in Keys : Len(log'[k]) = 1 /\ DOMAIN log'[k] = {1} /\ log'[k][1] = log[k][n[k]]
         /\ LogsPast' /\ DurableOnReturn' /\ NeverTorn'
<1>1. ASSUME NEW k \in Keys
      PROVE  /\ log'[k] \in Seq(Entry) /\ Len(log'[k]) = 1 /\ DOMAIN log'[k] = {1}
             /\ log'[k][1] = log[k][n[k]]
  <2>1. log'[k] = << log[k][n[k]] >> /\ log[k][n[k]] \in Entry
    BY Entries
  <2> QED BY <2>1
<1>2. log' \in [Keys -> Seq(Entry)] /\ \A k \in Keys : log'[k] # << >>
  <2>1. DOMAIN log' = Keys /\ log' = [k \in Keys |-> log'[k]]
    OBVIOUS
  <2>2. \A k \in Keys : log'[k] # << >>
    BY <1>1
  <2> QED BY <1>1, <2>1, <2>2
<1>3. LogsPast'
  BY <1>1 DEF Books, LogsPast
<1>4. DurableOnReturn' /\ NeverTorn'
  BY <1>1 DEF Files, DurableOnReturn, NeverTorn
<1> QED BY <1>1, <1>2, <1>3, <1>4

LEMMA SyncDirKeeps ==
  ASSUME ParamsInv, NEW t \in Threads, SyncDir(t) PROVE ParamsInv'
<1>1. /\ at[t] = "changed" /\ Unlocks(t)
      /\ at' = [at EXCEPT ![t] = "idle"] /\ job' = [job EXCEPT ![t] = NoJob]
      /\ UNCHANGED << synced, seen, queue, future, open, nextId >>
  BY DEF SyncDir, At, Returns, async
<1>2. ParamsTypeOK /\ Holders /\ JobsFit /\ Books /\ Files /\ Fits(t)
  BY DEF ParamsInv, JobsFit
<1>3. /\ at'[t] = "idle" /\ job'[t] = NoJob
      /\ \A u \in Threads : u # t => at'[u] = at[u] /\ job'[u] = job[u]
  BY <1>1, <1>2, Moves
<1>4. /\ job' \in [Threads -> JobType]
      /\ at' \in [Threads -> {"idle", "tmp", "ready", "locked", "changed", "pushed"}]
      /\ lock' \in Threads \cup {Nobody} /\ crossed' \subseteq Threads
  BY <1>1, <1>2, NoJobType, SectionLeftByOne DEF ParamsTypeOK, JobType
<1>5. Holders'
  BY <1>1, <1>2, SectionLeftByOne
<1>6. JobsFit'
  <2>1. Fits(t)'
    BY <1>3, NoJobType DEF Fits
  <2>2. ASSUME NEW u \in Threads, u # t PROVE Fits(u)'
    BY <1>1, <1>2, <1>3, <2>2, StaysFit
  <2> QED BY <2>1, <2>2 DEF JobsFit
<1>7. SnapshotIsOneMoment'
  <2>1. \A u \in Threads \ crossed' : ~(job'[u].op = "read" /\ at'[u] = "locked")
    BY <1>1, <1>2, <1>3, NoJobType DEF Holders, Unlocks
  <2> QED BY <2>1 DEF SnapshotIsOneMoment
<1>8. \A u \in Threads : job'[u].op # "none" =>
          u # t /\ job[u].op # "none" /\ job'[u].id = job[u].id
  BY <1>1, <1>2, <1>3, NoJobType
<1>9. at'[Async] # "idle" => Async # t /\ at'[Async] = at[Async] /\ job'[Async] = job[Async]
  BY <1>3, ThreadAssumption DEF Threads
<1>10. CASE slip' = TRUE /\ UNCHANGED << log, acked >> /\ Fault
  <2>1. faults' \in 0 .. MaxFaults
    BY <1>2, <1>10, OpAssumption DEF ParamsTypeOK, Fault
  <2>2. ParamsTypeOK'
    BY <1>1, <1>2, <1>4, <1>10, <2>1 DEF ParamsTypeOK, JobType
  <2>3. Books'
    BY <1>1, <1>2, <1>8, <1>9, <1>10, BooksRest
  <2>4. DurableOnReturn' /\ NeverTorn'
    BY <1>1, <1>2, <1>10, FilesRest
  <2> QED BY <1>5, <1>6, <1>7, <1>10, <2>2, <2>3, <2>4 DEF ParamsInv, Files, Kept
<1>11. CASE /\ log' = [k \in Keys |-> << Current(k) >>] /\ slip' = FALSE /\ UNCHANGED faults
            /\ acked' = [k \in Keys |-> IF k \in job[t].todo THEN job[t].id ELSE acked[k]]
  <2> DEFINE n == [k \in Keys |-> Len(log[k])]
  <2>1. n \in [Keys -> Nat] /\ \A k \in Keys : n[k] \in DOMAIN log[k]
    BY <1>2, Entries
  <2>2. log' = [k \in Keys |-> << log[k][n[k]] >>]
    BY <1>11 DEF Current
  <2> HIDE DEF n
  <2>3. /\ log' \in [Keys -> Seq(Entry)] /\ \A k \in Keys : log'[k] # << >>
        /\ \A k \in Keys : Len(log'[k]) = 1 /\ DOMAIN log'[k] = {1} /\ log'[k][1] = log[k][n[k]]
        /\ LogsPast' /\ DurableOnReturn' /\ NeverTorn'
    BY <1>1, <1>2, <2>1, <2>2, Singles
  <2>4. job[t].op # "none" /\ job[t].id \in 1 .. MaxOps /\ job[t].id < nextId
    BY <1>1, <1>2, AtWork DEF Fits
  <2>5. acked' \in [Keys -> 0 .. MaxOps]
    BY <1>2, <1>11, <2>4, OpAssumption DEF ParamsTypeOK
  <2>6. ParamsTypeOK'
    BY <1>1, <1>2, <1>4, <1>11, <2>3, <2>5 DEF ParamsTypeOK, JobType
  <2>7. IdsApart'
    <3>1. IdsApart
      BY <1>2 DEF Books
    <3>2. \A k \in Keys : acked'[k] = job[t].id \/ acked'[k] = acked[k]
      BY <1>11
    <3>3. \A u \in Threads : job'[u].op # "none" => job'[u].id # job[t].id
      BY <1>8, <2>4, <3>1 DEF IdsApart
    <3>4. \A i \in DOMAIN queue : queue[i].id # job[t].id
      BY <2>4, <3>1 DEF IdsApart
    <3> QED BY <1>1, <1>8, <2>4, <3>1, <3>2, <3>3, <3>4 DEF IdsApart
  <2>8. InOrder'
    BY <1>1, <1>2, <1>9, <2>1, <2>3 DEF Books, InOrder
  <2> QED BY <1>5, <1>6, <1>7, <2>3, <2>6, <2>7, <2>8 DEF ParamsInv, Books, Files, Kept
<1> QED BY <1>10, <1>11 DEF SyncDir

-----------------------------------------------------------------------------
(* The queue and its thread.                                                 *)

LEMMA PushKeeps ==
  ASSUME ParamsInv, NEW key \in Keys, Push(key) PROVE ParamsInv'
<1> DEFINE item == [id |-> nextId, key |-> key]
           new == [op |-> "none", id |-> nextId, todo |-> {}]
<1>1. /\ at[App] = "idle" /\ nextId \in 1 .. MaxOps /\ nextId' = nextId + 1
      /\ at' = [at EXCEPT ![App] = "pushed"] /\ job' = [job EXCEPT ![App] = new]
      /\ queue' = Append(queue, item)
      /\ UNCHANGED << log, synced, acked, slip, lock, crossed, seen, future, open, faults >>
  BY OpAssumption DEF Push, Idles, Starts, At, ParamsInv, ParamsTypeOK, files, locks
<1>2. ParamsTypeOK /\ Holders /\ JobsFit /\ Books /\ Files /\ App \in Threads /\ App # Async /\ lock # App
  BY <1>1, ThreadAssumption DEF ParamsInv, Holders, Threads
<1>3. /\ at'[App] = "pushed" /\ job'[App] = new
      /\ \A u \in Threads : u # App => at'[u] = at[u] /\ job'[u] = job[u]
  BY <1>1, <1>2, Moves
<1>4. item \in [id : 1 .. MaxOps, key : Keys] /\ item.id = nextId /\ new \in JobType
      /\ new.op = "none" /\ new.id = nextId /\ new.todo = {}
  BY <1>1, OpAssumption DEF JobType
<1> HIDE DEF item, new
<1>5. /\ queue' \in Seq([id : 1 .. MaxOps, key : Keys]) /\ DOMAIN queue' = 1 .. Len(queue) + 1
      /\ queue'[Len(queue) + 1] = item /\ \A i \in DOMAIN queue : queue'[i] = queue[i]
      /\ DOMAIN queue = 1 .. Len(queue) /\ Len(queue) \in Nat
  <2> DEFINE Item == [id : 1 .. MaxOps, key : Keys]
  <2>1. queue \in Seq(Item) /\ item \in Item
    BY <1>2, <1>4 DEF ParamsTypeOK
  <2> HIDE DEF Item
  <2>2. queue' \in Seq(Item) /\ Len(queue) \in Nat /\ DOMAIN queue = 1 .. Len(queue)
    BY <1>1, <2>1
  <2>3. DOMAIN queue' = 1 .. Len(queue) + 1 /\ queue'[Len(queue) + 1] = item
        /\ \A i \in DOMAIN queue : queue'[i] = queue[i]
    BY <1>1, <2>1
  <2> QED BY <2>2, <2>3 DEF Item
<1>6. ParamsTypeOK'
  <2>1. nextId' \in 1 .. MaxOps + 1
    BY <1>1, OpAssumption
  <2>2. /\ job' \in [Threads -> JobType]
        /\ at' \in [Threads -> {"idle", "tmp", "ready", "locked", "changed", "pushed"}]
    BY <1>1, <1>2, <1>4 DEF ParamsTypeOK, JobType
  <2> QED BY <1>1, <1>2, <1>5, <2>1, <2>2 DEF ParamsTypeOK, JobType
<1>7. Holders'
  BY <1>1, <1>2, <1>3, SectionRests
<1>8. JobsFit'
  <2>1. Fits(App)'
    BY <1>1, <1>2, <1>3, <1>4 DEF Fits
  <2>2. ASSUME NEW u \in Threads, u # App PROVE Fits(u)'
    BY <1>1, <1>2, <1>3, <2>2, StaysFit
  <2> QED BY <2>1, <2>2 DEF JobsFit
<1>9. \A u \in Threads : job'[u].op # "none" =>
          job[u].op # "none" /\ job'[u].id = job[u].id /\ job[u].id < nextId
  <2> SUFFICES ASSUME NEW u \in Threads, job'[u].op # "none"
               PROVE  job[u].op # "none" /\ job'[u].id = job[u].id /\ job[u].id < nextId
    OBVIOUS
  <2>1. job[u].op # "none" /\ job'[u].id = job[u].id
    BY <1>3, <1>4
  <2> QED BY <1>2, <2>1, AtWork
<1>10. /\ \A i \in DOMAIN queue : queue[i].id < nextId /\ queue[i].id \in Nat
       /\ \A k \in Keys : acked[k] < nextId /\ acked[k] \in Nat
  <2>1. acked \in [Keys -> 0 .. MaxOps] /\ IdsApart
    BY <1>2 DEF Books, ParamsTypeOK
  <2> QED BY <1>2, <2>1, Queued DEF IdsApart
<1>11. \A i \in DOMAIN queue' : \/ i \in DOMAIN queue /\ queue'[i] = queue[i]
                                \/ i = Len(queue) + 1 /\ queue'[i].id = nextId
  BY <1>4, <1>5
<1>12. IdsApart'
  <2>1. IdsApart
    BY <1>2 DEF Books
  <2>2. \A u, v \in Threads : u # v /\ job'[u].op # "none" /\ job'[v].op # "none" =>
            job'[u].id # job'[v].id
    BY <1>9, <2>1 DEF IdsApart
  <2>3. ASSUME NEW u \in Threads, job'[u].op # "none"
        PROVE  /\ \A i \in DOMAIN queue' : job'[u].id # queue'[i].id
               /\ \A k \in Keys : job'[u].id # acked[k]
    BY <1>1, <1>9, <1>11, <2>1, <2>3 DEF IdsApart
  <2>4. \A i \in DOMAIN queue' : queue'[i].id < nextId' /\ \A k \in Keys : queue'[i].id # acked[k]
    BY <1>1, <1>10, <1>11, <2>1 DEF IdsApart
  <2>5. \A k \in Keys : acked[k] < nextId'
    BY <1>1, <1>10
  <2> QED BY <1>1, <2>2, <2>3, <2>4, <2>5 DEF IdsApart
<1>13. LogsPast'
  BY <1>1, <1>2, Entries DEF Books, LogsPast
<1>14. InOrder'
  <2>1. InOrder
    BY <1>2 DEF Books
  <2>2. \A i, j \in DOMAIN queue' : i < j => queue'[i].id < queue'[j].id
    BY <1>5, <1>10, <1>11, <2>1 DEF InOrder
  <2>3. at[Async] # "idle" => job[Async].id < nextId
    BY <1>1, <1>2, ThreadAssumption DEF JobsFit, Fits, Threads
  <2>4. at'[Async] # "idle" => \A i \in DOMAIN queue' : job'[Async].id < queue'[i].id
    BY <1>2, <1>3, <1>11, <2>1, <2>3, ThreadAssumption DEF InOrder, Threads
  <2>5. ASSUME NEW k \in Keys, NEW n \in DOMAIN log[k], log[k][n].by = Async
        PROVE  /\ \A i \in DOMAIN queue' : log[k][n].id < queue'[i].id
               /\ at'[Async] \in {"tmp", "ready", "locked"} => log[k][n].id < job'[Async].id
    <3>1. log[k][n].id < nextId
      BY <1>2 DEF Books, LogsPast
    <3> QED BY <1>2, <1>3, <1>11, <2>1, <2>5, <3>1, ThreadAssumption DEF InOrder, Threads
  <2> QED BY <1>1, <2>2, <2>4, <2>5 DEF InOrder
<1>15. DurableOnReturn' /\ NeverTorn'
  BY <1>1, <1>2, FilesRest
<1>16. Kept'
  BY <1>1, <1>2, <1>3, KeptRests DEF Changes
<1>17. SnapshotIsOneMoment'
  BY <1>1, <1>2, <1>3, <1>4, ReadsRest
<1> QED BY <1>6, <1>7, <1>8, <1>12, <1>13, <1>14, <1>15, <1>16, <1>17 DEF ParamsInv, Books, Files

LEMMA StartThreadKeeps ==
  ASSUME ParamsInv, StartThread PROVE ParamsInv'
<1>1. /\ at[App] = "pushed" /\ at' = [at EXCEPT ![App] = "idle"] /\ job' = [job EXCEPT ![App] = NoJob]
      /\ future' = IF future \in {"none", "ready"} THEN "running" ELSE future
      /\ UNCHANGED << log, synced, acked, slip, lock, crossed, seen, queue, open, nextId, faults >>
  BY DEF StartThread, Returns, At, files, locks
<1>2. ParamsTypeOK /\ Holders /\ JobsFit /\ Books /\ Files /\ App \in Threads /\ App # Async /\ lock # App
  BY <1>1, ThreadAssumption DEF ParamsInv, Holders, Threads
<1>3. /\ at'[App] = "idle" /\ job'[App] = NoJob
      /\ \A u \in Threads : u # App => at'[u] = at[u] /\ job'[u] = job[u]
  BY <1>1, <1>2, Moves
<1>4. ParamsTypeOK'
  <2>1. /\ job' \in [Threads -> JobType]
        /\ at' \in [Threads -> {"idle", "tmp", "ready", "locked", "changed", "pushed"}]
        /\ future' \in {"none", "running", "returning", "ready"}
    BY <1>1, <1>2, NoJobType DEF ParamsTypeOK, JobType
  <2> QED BY <1>1, <1>2, <2>1 DEF ParamsTypeOK, JobType
<1>5. Holders'
  BY <1>1, <1>2, <1>3, SectionRests
<1>6. JobsFit'
  <2>1. Fits(App)'
    BY <1>3, NoJobType DEF Fits
  <2>2. ASSUME NEW u \in Threads, u # App PROVE Fits(u)'
    BY <1>1, <1>2, <1>3, <2>2, StaysFit
  <2> QED BY <2>1, <2>2 DEF JobsFit
<1>7. Books'
  BY <1>1, <1>2, <1>3, BooksRest, NoJobType, ThreadAssumption DEF Threads
<1>8. DurableOnReturn' /\ NeverTorn'
  BY <1>1, <1>2, FilesRest
<1>9. Kept'
  BY <1>1, <1>2, <1>3, KeptRests DEF Changes
<1>10. SnapshotIsOneMoment'
  BY <1>1, <1>2, <1>3, ReadsRest, NoJobType
<1> QED BY <1>4, <1>5, <1>6, <1>7, <1>8, <1>9, <1>10 DEF ParamsInv, Files

\* The thread returns, or the object is destroyed.
LEMMA EndsKeep ==
  ASSUME ParamsInv, UNCHANGED << files, lock, crossed, at, job, seen, queue, nextId, faults >>,
         future' \in {"none", "running", "returning", "ready"}, open' \in BOOLEAN
  PROVE  ParamsInv'
<1>1. ParamsTypeOK /\ Holders /\ JobsFit /\ Books /\ Files
  BY DEF ParamsInv
<1>2. UNCHANGED << log, synced, acked, slip, lock, crossed, at, job, seen, queue, nextId, faults >>
  BY DEF files
<1>3. ParamsTypeOK'
  BY <1>1, <1>2 DEF ParamsTypeOK
<1>4. Holders' /\ JobsFit'
  BY <1>1, <1>2 DEF Holders, JobsFit, Fits
<1>5. Books'
  BY <1>1, <1>2, BooksRest
<1>6. Files'
  BY <1>1, <1>2 DEF Files, DurableOnReturn, NeverTorn, Kept, Changes, SnapshotIsOneMoment, Current
<1> QED BY <1>3, <1>4, <1>5, <1>6 DEF ParamsInv

LEMMA TryPopKeeps ==
  ASSUME ParamsInv, TryPop, queue # << >> PROVE ParamsInv'
<1> DEFINE j == [op |-> "put", id |-> Head(queue).id, todo |-> {Head(queue).key}]
<1>1. /\ at[Async] = "idle" /\ queue' = Tail(queue)
      /\ job' = [job EXCEPT ![Async] = j] /\ at' = [at EXCEPT ![Async] = "tmp"]
      /\ UNCHANGED << log, synced, acked, slip, lock, crossed, seen, future, open, nextId, faults >>
  BY DEF TryPop, At, files, locks
<1>2. /\ ParamsTypeOK /\ Holders /\ JobsFit /\ Books /\ Files /\ IdsApart /\ InOrder
      /\ Async \in Threads /\ lock # Async
  BY <1>1 DEF ParamsInv, Holders, Threads, Books
<1>3. /\ at'[Async] = "tmp" /\ job'[Async] = j
      /\ \A u \in Threads : u # Async => at'[u] = at[u] /\ job'[u] = job[u]
  BY <1>1, <1>2, Moves
<1>4. /\ 1 \in DOMAIN queue /\ Head(queue) = queue[1] /\ DOMAIN queue' = 1 .. Len(queue) - 1
      /\ queue' \in Seq([id : 1 .. MaxOps, key : Keys]) /\ Len(queue) \in Nat
      /\ \A i \in DOMAIN queue' : i + 1 \in DOMAIN queue /\ queue'[i] = queue[i + 1]
  <2> DEFINE Item == [id : 1 .. MaxOps, key : Keys]
  <2>1. queue \in Seq(Item)
    BY <1>2 DEF ParamsTypeOK
  <2> HIDE DEF Item
  <2>2. 1 \in DOMAIN queue /\ Head(queue) = queue[1] /\ Len(queue) \in Nat
    BY <2>1
  <2>3. DOMAIN queue' = 1 .. Len(queue) - 1 /\ queue' \in Seq(Item)
    BY <1>1, <2>1
  <2>4. \A i \in DOMAIN queue' : i + 1 \in DOMAIN queue /\ queue'[i] = queue[i + 1]
    BY <1>1, <2>1, <2>3
  <2> QED BY <2>2, <2>3, <2>4 DEF Item
<1>5. /\ j \in JobType /\ j.op = "put" /\ j.id = queue[1].id /\ j.id \in 1 .. nextId - 1
      /\ j.id < nextId
  <2>1. queue[1].id \in 1 .. MaxOps /\ queue[1].key \in Keys /\ queue[1].id < nextId
    BY <1>2, <1>4, Queued DEF IdsApart
  <2>2. nextId \in Nat /\ 1 .. MaxOps \subseteq 0 .. MaxOps
    BY <1>2, OpAssumption DEF ParamsTypeOK
  <2> QED BY <1>4, <2>1, <2>2 DEF JobType
<1> HIDE DEF j
<1>6. ParamsTypeOK'
  <2>1. /\ job' \in [Threads -> JobType]
        /\ at' \in [Threads -> {"idle", "tmp", "ready", "locked", "changed", "pushed"}]
    BY <1>1, <1>2, <1>5 DEF ParamsTypeOK, JobType
  <2> QED BY <1>1, <1>2, <1>4, <2>1 DEF ParamsTypeOK, JobType
<1>7. Holders'
  BY <1>1, <1>2, <1>3, SectionRests
<1>8. JobsFit'
  <2>1. Fits(Async)'
    BY <1>1, <1>3, <1>5 DEF Fits
  <2>2. ASSUME NEW u \in Threads, u # Async PROVE Fits(u)'
    BY <1>1, <1>2, <1>3, <2>2, StaysFit
  <2> QED BY <2>1, <2>2 DEF JobsFit
<1>9. \A i \in DOMAIN queue' : queue'[i].id > j.id /\ queue'[i].id # j.id
  <2> SUFFICES ASSUME NEW i \in DOMAIN queue' PROVE queue[1].id < queue[i + 1].id
    BY <1>2, <1>4, <1>5, Queued
  <2>1. 1 < i + 1
    BY <1>4
  <2> QED BY <1>2, <1>4, <2>1 DEF InOrder
<1>10. IdsApart'
  <2>1. ASSUME NEW u \in Threads, u # Async, job'[u].op # "none"
        PROVE  /\ job'[u].id # j.id /\ job[u].op # "none" /\ job'[u].id = job[u].id
    BY <1>2, <1>3, <1>4, <1>5, <2>1 DEF IdsApart
  <2>2. \A u, v \in Threads : u # v /\ job'[u].op # "none" /\ job'[v].op # "none" =>
            job'[u].id # job'[v].id
    BY <1>2, <1>3, <2>1 DEF IdsApart
  <2>3. ASSUME NEW u \in Threads, job'[u].op # "none"
        PROVE  /\ \A i \in DOMAIN queue' : job'[u].id # queue'[i].id
               /\ \A k \in Keys : job'[u].id # acked[k]
    <3>1. CASE u = Async
      BY <1>2, <1>3, <1>4, <1>5, <1>9, <3>1 DEF IdsApart
    <3>2. CASE u # Async
      BY <1>2, <1>4, <2>1, <2>3, <3>2 DEF IdsApart
    <3> QED BY <3>1, <3>2
  <2>4. \A i \in DOMAIN queue' : queue'[i].id < nextId /\ \A k \in Keys : queue'[i].id # acked[k]
    BY <1>2, <1>4 DEF IdsApart
  <2> QED BY <1>1, <1>2, <2>2, <2>3, <2>4 DEF IdsApart
<1>11. LogsPast'
  BY <1>1, <1>2 DEF Books, LogsPast
<1>12. InOrder'
  <2>1. \A i, m \in DOMAIN queue' : i < m => queue'[i].id < queue'[m].id
    <3> SUFFICES ASSUME NEW i \in DOMAIN queue', NEW m \in DOMAIN queue', i < m
                 PROVE  queue[i + 1].id < queue[m + 1].id
      BY <1>4
    <3>1. i + 1 < m + 1
      BY <1>4
    <3> QED BY <1>2, <1>4, <3>1 DEF InOrder
  <2>2. \A i \in DOMAIN queue' : job'[Async].id < queue'[i].id
    BY <1>2, <1>3, <1>9
  <2>3. ASSUME NEW k \in Keys, NEW n \in DOMAIN log[k], log[k][n].by = Async
        PROVE  /\ \A i \in DOMAIN queue' : log[k][n].id < queue'[i].id
               /\ log[k][n].id < job'[Async].id
    BY <1>2, <1>3, <1>4, <1>5, <2>3 DEF InOrder
  <2> QED BY <1>1, <2>1, <2>2, <2>3 DEF InOrder
<1>13. DurableOnReturn' /\ NeverTorn'
  BY <1>1, <1>2, FilesRest
<1>14. Kept'
  BY <1>1, <1>2, <1>3, KeptRests DEF Changes
<1>15. SnapshotIsOneMoment'
  BY <1>1, <1>2, <1>3, <1>5, ReadsRest
<1> QED BY <1>6, <1>7, <1>8, <1>10, <1>11, <1>12, <1>13, <1>14, <1>15 DEF ParamsInv, Books, Files

-----------------------------------------------------------------------------
(* Kills and power cuts.                                                     *)

\* Threads die: what dies holds nothing, what lives goes on.
LEMMA DeathsKeep ==
  ASSUME ParamsInv, NEW ts \in SUBSET Threads, Dies(ts), Fault, nextId' = nextId
  PROVE  /\ at' \in [Threads -> {"idle", "tmp", "ready", "locked", "changed", "pushed"}]
         /\ job' \in [Threads -> JobType] /\ seen' \in [Threads -> [Keys -> 0 .. MaxOps]]
         /\ lock' \in Threads \cup {Nobody} /\ faults' \in 0 .. MaxFaults
         /\ queue' \in Seq([id : 1 .. MaxOps, key : Keys]) /\ (queue' = queue \/ queue' = << >>)
         /\ future' \in {"none", "running", "returning", "ready"} /\ open' \in BOOLEAN
         /\ \A u \in ts : at'[u] = "idle" /\ job'[u] = NoJob
         /\ \A u \in Threads \ ts : at'[u] = at[u] /\ job'[u] = job[u] /\ seen'[u] = seen[u]
         /\ crossed' = crossed \ ts
         /\ Holders' /\ (synced' = synced => JobsFit')
<1>1. ParamsTypeOK /\ Holders /\ JobsFit
  BY DEF ParamsInv
<1>2. /\ at' \in [Threads -> {"idle", "tmp", "ready", "locked", "changed", "pushed"}]
      /\ job' \in [Threads -> JobType]
  BY <1>1, NoJobType DEF Dies, ParamsTypeOK, JobType
<1>3. seen' \in [Threads -> [Keys -> 0 .. MaxOps]]
  BY <1>1, OpAssumption DEF Dies, ParamsTypeOK
<1>4. /\ lock' \in Threads \cup {Nobody} /\ lock' = (IF lock \in ts THEN Nobody ELSE lock)
      /\ crossed' = crossed \ ts
  BY <1>1 DEF Dies, ParamsTypeOK
<1>5. faults' \in 0 .. MaxFaults
  BY <1>1, OpAssumption DEF Fault, ParamsTypeOK
<1>6. queue' = queue \/ queue' = << >>
  BY DEF Dies, async
<1>7. queue' \in Seq([id : 1 .. MaxOps, key : Keys])
  <2>1. << >> \in Seq([id : 1 .. MaxOps, key : Keys])
    OBVIOUS
  <2>2. queue \in Seq([id : 1 .. MaxOps, key : Keys])
    BY <1>1 DEF ParamsTypeOK
  <2> QED BY <1>6, <2>1, <2>2
<1>8. future' \in {"none", "running", "returning", "ready"} /\ open' \in BOOLEAN
  BY <1>1 DEF Dies, async, ParamsTypeOK
<1>9. /\ \A u \in ts : at'[u] = "idle" /\ job'[u] = NoJob
      /\ \A u \in Threads \ ts : at'[u] = at[u] /\ job'[u] = job[u] /\ seen'[u] = seen[u]
  BY DEF Dies
<1>10. Holders'
  <2>1. \A u \in Threads : IF u \in ts THEN at'[u] = "idle" ELSE at'[u] = at[u]
    BY <1>9
  <2> QED BY <1>1, <1>4, <2>1, SectionLeft
<1>11. ASSUME synced' = synced PROVE JobsFit'
  <2>1. ASSUME NEW u \in ts PROVE Fits(u)'
    BY <1>9, NoJobType DEF Fits, NoJob
  <2>2. ASSUME NEW u \in Threads \ ts PROVE Fits(u)'
    BY <1>1, <1>9, <1>11, StaysFit
  <2> QED BY <2>1, <2>2 DEF JobsFit
<1> QED BY <1>2, <1>3, <1>4, <1>5, <1>6, <1>7, <1>8, <1>9, <1>10, <1>11

LEMMA KillKeeps == ASSUME ParamsInv, Kill PROVE ParamsInv'
<1>1. PICK ts \in {{App, Async}} \cup {{t} : t \in Others} :
          Dies(ts) /\ slip' = (slip \/ ts \cap Inside # {})
  BY DEF Kill
<1>2. UNCHANGED << log, synced, acked, nextId >> /\ Fault /\ ts \in SUBSET Threads
  BY DEF Kill, Threads
<1>3. ParamsTypeOK /\ Holders /\ JobsFit /\ Books /\ Files
  BY DEF ParamsInv
<1>4. /\ at' \in [Threads -> {"idle", "tmp", "ready", "locked", "changed", "pushed"}]
      /\ job' \in [Threads -> JobType] /\ seen' \in [Threads -> [Keys -> 0 .. MaxOps]]
      /\ lock' \in Threads \cup {Nobody} /\ faults' \in 0 .. MaxFaults
      /\ queue' \in Seq([id : 1 .. MaxOps, key : Keys]) /\ (queue' = queue \/ queue' = << >>)
      /\ future' \in {"none", "running", "returning", "ready"} /\ open' \in BOOLEAN
      /\ \A u \in ts : at'[u] = "idle" /\ job'[u] = NoJob
      /\ \A u \in Threads \ ts : at'[u] = at[u] /\ job'[u] = job[u] /\ seen'[u] = seen[u]
      /\ crossed' = crossed \ ts
      /\ Holders' /\ JobsFit'
  BY <1>1, <1>2, DeathsKeep
<1>5. ParamsTypeOK'
  <2>1. slip' \in BOOLEAN /\ crossed' \subseteq Threads
    BY <1>1, <1>3, <1>4 DEF ParamsTypeOK
  <2> QED BY <1>2, <1>3, <1>4, <2>1 DEF ParamsTypeOK, JobType
<1>6. Books'
  <2>1. \A u \in Threads : job'[u].op # "none" => job[u].op # "none" /\ job'[u].id = job[u].id
    BY <1>4, NoJobType
  <2>2. at'[Async] # "idle" => at'[Async] = at[Async] /\ job'[Async] = job[Async]
    BY <1>4 DEF Threads
  <2> QED BY <1>2, <1>3, <1>4, <2>1, <2>2, BooksRest
<1>7. DurableOnReturn' /\ NeverTorn'
  BY <1>2, <1>3, FilesRest
<1>8. Kept'
  <2>1. CASE ts \cap Inside # {}
    BY <1>1, <2>1 DEF Kept
  <2>2. CASE ts \cap Inside = {}
    <3>1. \A u \in Threads : Changes(u) => u \notin ts
      BY <2>2 DEF Changes, Inside
    <3>2. UNCHANGED << log, slip >>
      <4>1. slip' = slip /\ log' = log
        BY <1>1, <1>2, <1>3, <2>2, Zenon DEF ParamsTypeOK
      <4> QED BY <4>1
    <3>3. \A u \in Threads : Changes(u) => Changes(u)'
      BY <1>4, <3>1 DEF Changes
    <3> QED BY <1>3, <3>2, <3>3, KeptRests
  <2> QED BY <2>1, <2>2
<1>9. SnapshotIsOneMoment'
  BY <1>2, <1>3, <1>4, ReadsRest, NoJobType
<1> QED BY <1>4, <1>5, <1>6, <1>7, <1>8, <1>9 DEF ParamsInv, Files

LEMMA PowerCutKeeps == ASSUME ParamsInv, PowerCut PROVE ParamsInv'
<1>1. PICK n \in [Keys -> 1 .. MaxOps + 1] :
        /\ \A k \in Keys : n[k] <= Len(log[k])
        /\ log' = [k \in Keys |-> << log[k][n[k]] >>]
  BY DEF PowerCut
<1>2. UNCHANGED << synced, acked, nextId >> /\ Fault /\ Dies(Threads) /\ slip' = FALSE
  BY DEF PowerCut
<1>3. ParamsTypeOK /\ Holders /\ JobsFit /\ Books /\ Files
  BY DEF ParamsInv
<1>4. /\ at' \in [Threads -> {"idle", "tmp", "ready", "locked", "changed", "pushed"}]
      /\ job' \in [Threads -> JobType] /\ seen' \in [Threads -> [Keys -> 0 .. MaxOps]]
      /\ lock' \in Threads \cup {Nobody} /\ faults' \in 0 .. MaxFaults
      /\ queue' \in Seq([id : 1 .. MaxOps, key : Keys]) /\ (queue' = queue \/ queue' = << >>)
      /\ future' \in {"none", "running", "returning", "ready"} /\ open' \in BOOLEAN
      /\ \A u \in Threads : at'[u] = "idle" /\ job'[u] = NoJob
      /\ Holders' /\ JobsFit' /\ crossed' = crossed \ Threads
  BY <1>2, DeathsKeep
<1>5. n \in [Keys -> Nat] /\ \A k \in Keys : n[k] \in DOMAIN log[k]
  <2>1. \A k \in Keys : n[k] \in 1 .. MaxOps + 1 /\ n[k] \in Nat
    BY <1>1, OpAssumption
  <2>2. \A k \in Keys : n[k] \in DOMAIN log[k]
    BY <1>1, <1>3, <2>1, Entries
  <2> QED BY <1>1, <2>1, <2>2
<1>6. /\ log' \in [Keys -> Seq(Entry)] /\ \A k \in Keys : log'[k] # << >>
      /\ \A k \in Keys : Len(log'[k]) = 1 /\ DOMAIN log'[k] = {1} /\ log'[k][1] = log[k][n[k]]
      /\ LogsPast' /\ DurableOnReturn' /\ NeverTorn'
  BY <1>1, <1>2, <1>3, <1>5, Singles
<1>7. ParamsTypeOK'
  BY <1>2, <1>3, <1>4, <1>6 DEF ParamsTypeOK, JobType
<1>8. IdsApart'
  <2>1. DOMAIN queue' \subseteq DOMAIN queue /\ \A i \in DOMAIN queue' : queue'[i] = queue[i]
    BY <1>4
  <2>2. \A u \in Threads : job'[u].op = "none"
    BY <1>4, NoJobType
  <2> QED BY <1>2, <1>3, <2>1, <2>2 DEF Books, IdsApart
<1>9. InOrder'
  <2>1. DOMAIN queue' \subseteq DOMAIN queue /\ \A i \in DOMAIN queue' : queue'[i] = queue[i]
    BY <1>4
  <2>2. at'[Async] = "idle"
    BY <1>4 DEF Threads
  <2> QED BY <1>3, <1>5, <1>6, <2>1, <2>2 DEF Books, InOrder
<1>10. Kept'
  BY <1>6 DEF Kept
<1>11. SnapshotIsOneMoment'
  BY <1>4, NoJobType DEF SnapshotIsOneMoment
<1> QED BY <1>4, <1>6, <1>7, <1>8, <1>9, <1>10, <1>11 DEF ParamsInv, Books, Files

-----------------------------------------------------------------------------
LEMMA CallsKeep ==
  ASSUME ParamsInv, NEW t \in Threads, Calls(t) PROVE ParamsInv'
<1>1. t # Async /\ at[t] = "idle"
  BY DEF Calls, Put, Remove, ClearAll, ReadAll, Idles
<1>2. CASE Put(t)
  <2>1. PICK k \in Keys : Starts(t, "put", {k}, "tmp")
    BY <1>2 DEF Put
  <2>2. UNCHANGED <<files, locks, seen, async, faults>>
    BY <1>2 DEF Put
  <2> QED BY <1>1, <2>1, <2>2, Begins
<1>3. CASE Remove(t)
  <2>1. PICK k \in Keys : Starts(t, "remove", {k}, "ready")
    BY <1>3 DEF Remove
  <2>2. UNCHANGED <<files, locks, seen, async, faults>>
    BY <1>3 DEF Remove
  <2> QED BY <1>1, <2>1, <2>2, Begins
<1>4. CASE ClearAll(t)
  <2>1. Starts(t, "clear", Cleared, "ready") /\ UNCHANGED <<files, locks, seen, async, faults>>
    BY <1>4 DEF ClearAll
  <2> QED BY <1>1, <2>1, Begins, KeyAssumption
<1>5. CASE ReadAll(t)
  <2>1. Starts(t, "read", Keys, "ready") /\ UNCHANGED <<files, locks, seen, async, faults>>
    BY <1>5 DEF ReadAll
  <2> QED BY <1>1, <2>1, Begins
<1> QED BY <1>2, <1>3, <1>4, <1>5 DEF Calls

LEMMA ParamsStep == ParamsInv /\ [ParamsNext]_paramVars => ParamsInv'
<1> SUFFICES ASSUME ParamsInv, [ParamsNext]_paramVars PROVE ParamsInv'
  OBVIOUS
<1>0. ParamsTypeOK
  BY DEF ParamsInv
<1>1. ASSUME NEW t \in Threads, Goes(t) \/ Lock(t) \/ LockFails(t) \/ WriteFails(t) \/ Calls(t) PROVE ParamsInv'
  BY <1>1, WriteTmpKeeps, RenameKeeps, UnlinkKeeps, ReadOneKeeps, ReadDoneKeeps, SyncDirKeeps,
     LockKeeps, WriteFailsKeeps, CallsKeep DEF Goes
<1>2. CASE StartThread
  BY <1>2, StartThreadKeeps
<1>3. CASE TryPop
  <2>1. CASE queue = << >>
    <3>1. UNCHANGED << files, lock, crossed, at, job, seen, queue, nextId, faults, open >> /\ future' = "returning"
      BY <1>3, <2>1 DEF TryPop, locks
    <3> QED BY <1>0, <3>1, EndsKeep DEF ParamsTypeOK
  <2> QED BY <1>3, <2>1, TryPopKeeps
<1>4. CASE ThreadEnds
  BY <1>0, <1>4, EndsKeep DEF ThreadEnds, locks, ParamsTypeOK
<1>5. CASE Destroy
  BY <1>0, <1>5, EndsKeep DEF Destroy, locks, ParamsTypeOK
<1>6. CASE Kill
  BY <1>6, KillKeeps
<1>7. CASE PowerCut
  BY <1>7, PowerCutKeeps
<1>8. ASSUME NEW k \in Keys, Push(k) PROVE ParamsInv'
  BY <1>8, PushKeeps
<1>9. CASE UNCHANGED paramVars
  BY <1>0, <1>9, EndsKeep DEF paramVars, files, ParamsTypeOK
<1> QED BY <1>1, <1>2, <1>3, <1>4, <1>5, <1>6, <1>7, <1>8, <1>9 DEF ParamsNext, AsyncGoes

LEMMA ParamsAlways == ParamsSpec => []ParamsInv
BY StartParams, ParamsStep, PTL DEF ParamsSpec

(* Kills, failures, of the lock too, and power cuts leave every file whole   *)
(* and take nothing back that a caller or a reader relies on.                *)
THEOREM StoreIsAlwaysDurable == ParamsSpec => []StoreIsDurable
<1>1. ParamsInv => StoreIsDurable
  BY DEF ParamsInv, Files, StoreIsDurable, SeenIsKept, Kept, Changes, Inside
<1> QED BY <1>1, ParamsAlways, PTL

(* No call that gets the lock sees the middle of another one that does, and  *)
(* none is kept out for ever by one.                                         *)
THEOREM CallsAreAlwaysIsolated == ParamsSpec => []CallsAreIsolated
<1>1. ParamsInv => CallsAreIsolated
  BY DEF ParamsInv, ParamsTypeOK, Files, CallsAreIsolated, LockIsHeld, Holders
<1> QED BY <1>1, ParamsAlways, PTL

(* The values of putNonBlocking appear in the order of the calls.            *)
THEOREM PutsAppearInOrder == ParamsSpec => AsyncFifo
<1>1. ASSUME ParamsInv, at[Async] = "locked"
      PROVE  /\ \A k \in Keys : Current(k).by = Async => Current(k).id < job[Async].id
             /\ \A i \in DOMAIN queue : job[Async].id < queue[i].id
  BY <1>1, Entries DEF ParamsInv, Books, InOrder, Current
<1>2. ParamsInv /\ [ParamsNext]_paramVars =>
        [at[Async] = "locked" /\ at'[Async] = "changed" =>
          /\ \A k \in Keys : Current(k).by = Async => Current(k).id < job[Async].id
          /\ \A i \in DOMAIN queue : job[Async].id < queue[i].id]_paramVars
  BY <1>1
<1> QED BY <1>2, ParamsAlways, PTL DEF ParamsSpec, AsyncFifo

-----------------------------------------------------------------------------
(* The sessions of webrtcd.  One session at a time needs that only the last  *)
(* one made may still go on, that it is then in the dict or in the hand of   *)
(* the request that has the lock (LastOnly, HoldersFit), and that no call    *)
(* that still waits has posted (WaitsFit); that nothing stays held needs     *)
(* what each stage of post_run_cleanup has already let go of (StagesFit).    *)

Serving == {"stopping", "answering", "failing"}
ServesFit(c) ==
    /\ request[c] \in Serving <=> streamLock = c
    /\ request[c] \notin Serving => mine[c] = 0
    /\ request[c] = "stopping" => mine[c] \in {0, made} /\ (mine[c] = 0 => streams = {})
    /\ request[c] \in {"answering", "failing"} =>
          /\ mine[c] = made /\ made # 0 /\ made \in streams /\ task[made] = "none"
          /\ request[c] = "answering" <=> cleanup[made] = "no"
HoldersFit == \A c \in Callers : ServesFit(c)

LastOnly ==
    /\ streams \subseteq {made} \ {0}
    /\ \A s \in 1 .. made : s # made => Over(s)
    /\ \A s \in Streams : s > made => task[s] = "none" /\ cleanup[s] = "no"
    /\ made # 0 /\ Running(made) => made \in streams
    /\ made # 0 /\ ~Running(made) => Over(made) \/ \E c \in Callers : mine[c] = made

StageFits(s) ==
    /\ task[s] \in {"new", "connecting", "connected"} => cleanup[s] = "no"
    /\ task[s] = "cleaning" => cleanup[s] \in Stages
    /\ cleanup[s] = "no" => ("bitrate" \in held[s] <=> "bridge" \in held[s])
    /\ cleanup[s] = "bridge" => "bitrate" \notin held[s]
    /\ cleanup[s] \in {"peer", "cut"} => held[s] \subseteq {"peer"}
    /\ cleanup[s] = "done" => held[s] = {}
StagesFit == \A s \in Streams : StageFits(s)

\* A call that waits for webrtcd has posted nothing yet.
WaitsFit == \A c \in Callers : call[c] = "waiting" => request[c] = "none"

StreamInv == StreamTypeOK /\ HoldersFit /\ LastOnly /\ StagesFit

Tasks == {"none", "new", "connecting", "connected", "cleaning", "done"}
Things == {"bitrate", "bridge", "tracks", "peer"}

LEMMA SessionTypes ==
  ASSUME StreamTypeOK
  PROVE  /\ task \in [Streams -> Tasks] /\ cleanup \in [Streams -> Stages \cup {"no", "done", "cut"}]
         /\ held \in [Streams -> SUBSET Things] /\ made \in Nat /\ made \in 0 .. MaxStreams
         /\ \A s \in 1 .. made : s \in Streams
BY CallerAssumption DEF StreamTypeOK, Tasks, Things, Streams

\* One session moves; nothing changes of the requests.
LEMMA OneMoves ==
  ASSUME StreamInv, NEW s \in 1 .. made, UNCHANGED << request, mine, streamLock, made >>,
         \A u \in Streams : u # s =>
             task'[u] = task[u] /\ cleanup'[u] = cleanup[u] /\ held'[u] = held[u],
         StageFits(s)',
         streams' = streams \/ (task[s] = "done" /\ streams' = streams \ {s} /\ ~Running(s)'),
         s = made /\ (\E c \in Callers : request[c] \in {"answering", "failing"}) =>
             task'[s] = "none" /\ (cleanup'[s] = "no" <=> cleanup[s] = "no"),
         Over(s) => Over(s)',
         Running(s)' => Running(s),
         ~Running(s)' => Over(s)' \/ (~Running(s) /\ ~Over(s))
  PROVE  HoldersFit' /\ LastOnly' /\ StagesFit'
<1>1. StreamTypeOK /\ HoldersFit /\ LastOnly /\ StagesFit /\ s \in Streams /\ made \in Streams /\ s # 0
  BY SessionTypes DEF StreamInv, Streams
<1>2. \A u \in Streams : u # s => (Over(u)' <=> Over(u)) /\ (Running(u)' <=> Running(u))
  BY DEF Over, Running
<1>3. HoldersFit'
  <2> SUFFICES ASSUME NEW c \in Callers PROVE ServesFit(c)'
    BY DEF HoldersFit
  <2>1. ServesFit(c)
    BY <1>1 DEF HoldersFit
  <2>2. CASE request[c] \in {"answering", "failing"}
    <3>1. task'[made] = "none" /\ (cleanup'[made] = "no" <=> cleanup[made] = "no")
      BY <1>1, <2>1, <2>2 DEF ServesFit
    <3>2. made \in streams'
      BY <1>1, <2>1, <2>2 DEF ServesFit
    <3> QED BY <2>1, <2>2, <3>1, <3>2 DEF ServesFit
  <2>3. CASE request[c] \notin {"answering", "failing"}
    BY <2>1, <2>3 DEF ServesFit
  <2> QED BY <2>2, <2>3
<1>4. LastOnly'
  <2>1. streams' \subseteq {made} \ {0}
    BY <1>1 DEF LastOnly
  <2>2. \A u \in 1 .. made : u # made => Over(u)'
    BY <1>1, <1>2, SessionTypes DEF LastOnly
  <2>3. \A u \in Streams : u > made => task'[u] = "none" /\ cleanup'[u] = "no"
    BY <1>1, SessionTypes DEF LastOnly
  <2>4. Running(made)' => made \in streams'
    BY <1>1, <1>2 DEF LastOnly
  <2>5. ~Running(made)' => Over(made)' \/ \E c \in Callers : mine[c] = made
    BY <1>1, <1>2 DEF LastOnly
  <2> QED BY <2>1, <2>2, <2>3, <2>4, <2>5 DEF LastOnly
<1>5. StagesFit'
  <2> SUFFICES ASSUME NEW u \in Streams, u # s PROVE StageFits(u)'
    BY <1>1 DEF StagesFit
  <2> QED BY <1>1 DEF StagesFit, StageFits
<1> QED BY <1>3, <1>4, <1>5

\* The first stage of post_run_cleanup.
LEMMA CleansFits ==
  ASSUME StreamInv, NEW s \in Streams, cleanup[s] = "no", Cleans(s)
  PROVE  /\ cleanup' \in [Streams -> Stages \cup {"no", "done", "cut"}]
         /\ held' \in [Streams -> SUBSET Things]
         /\ cleanup'[s] \in {"bitrate", "peer"}
         /\ cleanup'[s] = "peer" => held'[s] \subseteq {"peer"}
         /\ \A u \in Streams : u # s => cleanup'[u] = cleanup[u] /\ held'[u] = held[u]
<1>1. /\ cleanup \in [Streams -> Stages \cup {"no", "done", "cut"}]
      /\ held \in [Streams -> SUBSET Things] /\ StageFits(s)
  BY SessionTypes DEF StreamInv, StagesFit
<1>2. /\ cleanup' = [cleanup EXCEPT ![s] = FirstStage(s)]
      /\ held' = [held EXCEPT ![s] = Released(s, FirstStage(s))]
  BY DEF Cleans
<1>3. /\ FirstStage(s) \in {"bitrate", "peer"} /\ Released(s, FirstStage(s)) \subseteq Things
      /\ FirstStage(s) = "peer" => Released(s, FirstStage(s)) \subseteq {"peer"}
  BY <1>1 DEF FirstStage, Released, StageFits, Things
<1> QED BY <1>1, <1>2, <1>3 DEF Stages

-----------------------------------------------------------------------------
(* The sessions.                                                             *)

LEMMA SessionKeeps ==
  ASSUME StreamInv, NEW s \in Streams,
         SessionBegins(s) \/ SessionConnects(s) \/ SessionEnds(s) \/ SessionRemoved(s)
  PROVE  StreamInv'
<1>1. /\ StreamTypeOK /\ StageFits(s) /\ LastOnly /\ HoldersFit /\ task[s] # "none"
      /\ task \in [Streams -> Tasks] /\ held \in [Streams -> SUBSET Things]
      /\ cleanup \in [Streams -> Stages \cup {"no", "done", "cut"}]
  BY SessionTypes DEF StreamInv, StagesFit, SessionBegins, SessionConnects, SessionEnds, SessionRemoved
<1>2. s \in 1 .. made /\ ~(s = made /\ \E c \in Callers : request[c] \in {"answering", "failing"})
  <2>1. s \in Nat /\ s >= 1 /\ made \in Nat /\ ~(s > made)
    BY <1>1, SessionTypes, CallerAssumption DEF LastOnly, Streams
  <2> QED BY <1>1, <2>1 DEF HoldersFit, ServesFit
<1>3. CASE SessionBegins(s)
  <2>1. /\ task' = [task EXCEPT ![s] = "connecting"] /\ task[s] = "new"
        /\ UNCHANGED << callVars, cleanup, held, shows, serverVars >>
    BY <1>3 DEF SessionBegins
  <2>2. StreamTypeOK'
    BY <1>1, <2>1 DEF StreamTypeOK, callVars, serverVars, Tasks
  <2>3. task'[s] = "connecting" /\ StageFits(s)'
    BY <1>1, <2>1 DEF StageFits
  <2>4. HoldersFit' /\ LastOnly' /\ StagesFit'
    BY <1>1, <1>2, <2>1, <2>3, OneMoves DEF callVars, serverVars, Over, Running
  <2> QED BY <2>2, <2>4 DEF StreamInv
<1>4. CASE SessionConnects(s)
  <2>1. /\ task' = [task EXCEPT ![s] = "connected"] /\ task[s] = "connecting"
        /\ held' = [held EXCEPT ![s] = @ \cup {"bitrate", "bridge"}]
        /\ UNCHANGED << callVars, cleanup, shows, serverVars >>
    BY <1>4 DEF SessionConnects
  <2>2. StreamTypeOK'
    <3>1. task' \in [Streams -> Tasks] /\ held' \in [Streams -> SUBSET Things]
      BY <1>1, <2>1 DEF Tasks, Things
    <3> QED BY <1>1, <2>1, <3>1 DEF StreamTypeOK, callVars, serverVars, Tasks, Things
  <2>3. task'[s] = "connected" /\ StageFits(s)'
    BY <1>1, <2>1 DEF StageFits
  <2>4. HoldersFit' /\ LastOnly' /\ StagesFit'
    BY <1>1, <1>2, <2>1, <2>3, OneMoves DEF callVars, serverVars, Over, Running
  <2> QED BY <2>2, <2>4 DEF StreamInv
<1>5. CASE SessionEnds(s)
  <2>1. /\ task' = [task EXCEPT ![s] = "cleaning"] /\ task[s] \in {"connecting", "connected"}
        /\ cleanup[s] = "no" /\ Cleans(s) /\ UNCHANGED << callVars, shows, serverVars >>
    BY <1>1, <1>5 DEF SessionEnds, EndsRun, StageFits
  <2>2. /\ cleanup' \in [Streams -> Stages \cup {"no", "done", "cut"}]
        /\ held' \in [Streams -> SUBSET Things]
        /\ cleanup'[s] \in {"bitrate", "peer"}
        /\ cleanup'[s] = "peer" => held'[s] \subseteq {"peer"}
        /\ \A u \in Streams : u # s => cleanup'[u] = cleanup[u] /\ held'[u] = held[u]
    BY <2>1, CleansFits
  <2>3. StreamTypeOK'
    BY <1>1, <2>1, <2>2 DEF StreamTypeOK, callVars, serverVars, Tasks, Things
  <2>4. task'[s] = "cleaning" /\ StageFits(s)'
    BY <1>1, <2>1, <2>2 DEF StageFits, Stages
  <2>5. HoldersFit' /\ LastOnly' /\ StagesFit'
    BY <1>1, <1>2, <2>1, <2>2, <2>4, OneMoves DEF callVars, serverVars, Over, Running
  <2> QED BY <2>3, <2>5 DEF StreamInv
<1>6. CASE SessionRemoved(s)
  <2>1. /\ task' = [task EXCEPT ![s] = "none"] /\ task[s] = "done"
        /\ streams' = streams \ {s} /\ teardown' = TRUE
        /\ UNCHANGED << callVars, cleanup, held, shows, liveParam, server, made, toggles, orphaned >>
    BY <1>6 DEF SessionRemoved
  <2>2. StreamTypeOK'
    BY <1>1, <2>1 DEF StreamTypeOK, callVars, Tasks
  <2>3. task'[s] = "none" /\ StageFits(s)'
    BY <1>1, <2>1 DEF StageFits
  <2>4. HoldersFit' /\ LastOnly' /\ StagesFit'
    BY <1>1, <1>2, <2>1, <2>3, OneMoves DEF callVars, Over, Running
  <2> QED BY <2>2, <2>4 DEF StreamInv
<1> QED BY <1>3, <1>4, <1>5, <1>6

LEMMA CleansOnKeeps ==
  ASSUME StreamInv, NEW s \in Streams, CleansOn(s) PROVE StreamInv'
<1> DEFINE next == CASE cleanup[s] = "bitrate" -> "bridge" [] cleanup[s] = "bridge" -> "peer"
                     [] OTHER -> "done"
<1>1. /\ StreamTypeOK /\ StageFits(s) /\ LastOnly /\ HoldersFit /\ cleanup[s] \in Stages
      /\ task \in [Streams -> Tasks] /\ held \in [Streams -> SUBSET Things]
      /\ cleanup \in [Streams -> Stages \cup {"no", "done", "cut"}]
  BY SessionTypes DEF StreamInv, StagesFit, CleansOn
<1>2. /\ cleanup' = [cleanup EXCEPT ![s] = next]
      /\ held' = [held EXCEPT ![s] = Released(s, next) \ {cleanup[s]}]
      /\ task' = [task EXCEPT ![s] = IF next = "done" /\ @ = "cleaning" THEN "done" ELSE @]
      /\ UNCHANGED << callVars, shows, serverVars >>
  BY DEF CleansOn
<1>3. /\ next \in {"bridge", "peer", "done"} /\ next \in Stages \cup {"done"}
      /\ Released(s, next) \ {cleanup[s]} \in SUBSET Things
      /\ next = "bridge" => "bitrate" \notin Released(s, next) \ {cleanup[s]}
      /\ next = "peer" => Released(s, next) \ {cleanup[s]} \subseteq {"peer"}
      /\ next = "done" => Released(s, next) \ {cleanup[s]} = {}
  <2>1. CASE cleanup[s] = "bitrate"
    BY <1>1, <2>1 DEF Released, Stages
  <2>2. CASE cleanup[s] = "bridge"
    BY <1>1, <2>2 DEF Released, Stages, StageFits, Things
  <2>3. CASE cleanup[s] = "peer"
    BY <1>1, <2>3 DEF Released, Stages, StageFits
  <2> QED BY <1>1, <2>1, <2>2, <2>3 DEF Stages
<1> HIDE DEF next
<1>4. /\ cleanup'[s] = next /\ held'[s] = Released(s, next) \ {cleanup[s]}
      /\ task'[s] = IF next = "done" /\ task[s] = "cleaning" THEN "done" ELSE task[s]
      /\ \A u \in Streams : u # s =>
            task'[u] = task[u] /\ cleanup'[u] = cleanup[u] /\ held'[u] = held[u]
  BY <1>1, <1>2
<1>5. StreamTypeOK'
  <2>1. /\ task' \in [Streams -> Tasks] /\ held' \in [Streams -> SUBSET Things]
        /\ cleanup' \in [Streams -> Stages \cup {"no", "done", "cut"}]
    BY <1>1, <1>2, <1>3 DEF Tasks
  <2> QED BY <1>1, <1>2, <2>1 DEF StreamTypeOK, callVars, serverVars, Tasks, Things
<1>6. StageFits(s)'
  BY <1>1, <1>3, <1>4 DEF StageFits, Stages
<1>7. s \in 1 .. made
  <2>1. s \in Nat /\ s >= 1 /\ made \in Nat /\ ~(s > made)
    BY <1>1, SessionTypes, CallerAssumption DEF LastOnly, Streams, Stages
  <2> QED BY <2>1
<1>8. s = made /\ (\E c \in Callers : request[c] \in {"answering", "failing"}) => task[s] = "none"
  BY <1>1 DEF HoldersFit, ServesFit
<1>9. HoldersFit' /\ LastOnly' /\ StagesFit'
  BY <1>1, <1>2, <1>3, <1>4, <1>6, <1>7, <1>8, OneMoves DEF callVars, serverVars, Over, Running, Stages, StageFits
<1> QED BY <1>5, <1>9 DEF StreamInv

-----------------------------------------------------------------------------
(* The requests.                                                             *)

\* One request at a time holds the lock, and only that one has a session in hand.
LEMMA OneServes ==
  ASSUME StreamInv, NEW c \in Callers, streamLock \in {c, NoCall}
  PROVE  \A d \in Callers : d # c => request[d] \notin Serving /\ mine[d] = 0
BY CallerAssumption DEF StreamInv, HoldersFit, ServesFit

LEMMA CallTypes ==
  ASSUME StreamTypeOK
  PROVE  /\ call \in [Callers -> {"idle", "waiting", "posted"}] /\ wants \in [Callers -> BOOLEAN]
         /\ request \in [Callers -> Serving \cup {"none", "queued"}]
         /\ mine \in [Callers -> Streams \cup {0}] /\ streamLock \in Callers \cup {NoCall}
BY DEF StreamTypeOK, Serving

\* stop(), up to its first await.
LEMMA StopBegins ==
  ASSUME StreamInv, NEW s \in Streams, BeginsStop(s)
  PROVE  /\ task' \in [Streams -> Tasks] /\ held' \in [Streams -> SUBSET Things]
         /\ cleanup' \in [Streams -> Stages \cup {"no", "done", "cut"}]
         /\ StageFits(s)' /\ (Running(s)' => Running(s))
         /\ \A u \in Streams : u # s =>
               task'[u] = task[u] /\ cleanup'[u] = cleanup[u] /\ held'[u] = held[u]
<1>1. /\ StageFits(s) /\ task \in [Streams -> Tasks] /\ held \in [Streams -> SUBSET Things]
      /\ cleanup \in [Streams -> Stages \cup {"no", "done", "cut"}]
  BY SessionTypes DEF StreamInv, StagesFit
<1>2. CASE Running(s) /\ task[s] = "new"
  <2>1. task' = [task EXCEPT ![s] = "done"] /\ UNCHANGED << cleanup, held >>
    <3>1. CancelTask(s) /\ cleanup[s] = "no"
      BY <1>1, <1>2 DEF BeginsStop, StageFits
    <3> QED BY <1>2, <3>1 DEF CancelTask
  <2> QED BY <1>1, <1>2, <2>1 DEF StageFits, Running, Tasks
<1>3. CASE Running(s) /\ task[s] \in {"connecting", "connected"}
  <2>1. task' = [task EXCEPT ![s] = "cleaning"] /\ Cleans(s)
    <3>1. CancelTask(s) /\ task[s] # "new" /\ cleanup[s] = "no"
      BY <1>1, <1>3 DEF BeginsStop, StageFits
    <3>2. EndsRun(s)
      BY <1>3, <3>1 DEF CancelTask
    <3> QED BY <3>2 DEF EndsRun
  <2>2. cleanup[s] = "no"
    BY <1>1, <1>3 DEF StageFits
  <2>3. /\ cleanup' \in [Streams -> Stages \cup {"no", "done", "cut"}]
        /\ held' \in [Streams -> SUBSET Things]
        /\ cleanup'[s] \in {"bitrate", "peer"}
        /\ cleanup'[s] = "peer" => held'[s] \subseteq {"peer"}
        /\ \A u \in Streams : u # s => cleanup'[u] = cleanup[u] /\ held'[u] = held[u]
    BY <2>1, <2>2, CleansFits
  <2> QED BY <1>1, <1>3, <2>1, <2>3 DEF StageFits, Running, Tasks, Stages
<1>4. CASE Running(s) /\ task[s] \notin {"new", "connecting", "connected"} /\ cleanup[s] = "peer"
  <2>1. /\ task' = [task EXCEPT ![s] = "done"] /\ cleanup' = [cleanup EXCEPT ![s] = "cut"]
        /\ UNCHANGED held
    BY <1>4 DEF BeginsStop, CancelTask
  <2> QED BY <1>1, <1>4, <2>1 DEF StageFits, Running, Tasks
<1>5. CASE Running(s) /\ task[s] \notin {"new", "connecting", "connected"} /\ cleanup[s] # "peer"
  <2>1. UNCHANGED << task, cleanup, held >>
    BY <1>5 DEF BeginsStop, CancelTask
  <2> QED BY <1>1, <2>1 DEF StageFits, Running
<1>6. CASE ~Running(s) /\ cleanup[s] = "no"
  <2>1. UNCHANGED task /\ Cleans(s)
    BY <1>6 DEF BeginsStop
  <2>2. /\ cleanup' \in [Streams -> Stages \cup {"no", "done", "cut"}]
        /\ held' \in [Streams -> SUBSET Things]
        /\ cleanup'[s] \in {"bitrate", "peer"}
        /\ cleanup'[s] = "peer" => held'[s] \subseteq {"peer"}
        /\ \A u \in Streams : u # s => cleanup'[u] = cleanup[u] /\ held'[u] = held[u]
    BY <1>6, <2>1, CleansFits
  <2> QED BY <1>1, <1>6, <2>1, <2>2 DEF StageFits, Running
<1>7. CASE ~Running(s) /\ cleanup[s] # "no"
  <2>1. UNCHANGED << task, cleanup, held >>
    BY <1>7 DEF BeginsStop
  <2> QED BY <1>1, <2>1 DEF StageFits, Running
<1> QED BY <1>2, <1>3, <1>4, <1>5, <1>6, <1>7

LEMMA AcquiresKeeps ==
  ASSUME StreamInv, NEW c \in Callers, Acquires(c) PROVE StreamInv'
<1>1. StreamTypeOK /\ HoldersFit /\ LastOnly /\ StagesFit
  BY DEF StreamInv
<1>2. request[c] = "queued" /\ streamLock = NoCall /\ UNCHANGED << wants, shows, serverVars >>
  BY DEF Acquires
<1>3. mine[c] = 0 /\ \A d \in Callers : d # c => request[d] \notin Serving /\ mine[d] = 0
  BY <1>1, <1>2, OneServes DEF HoldersFit, ServesFit, Serving
<1>4. CASE Replies(c) /\ UNCHANGED << streamLock, mine, task, cleanup, held >>
  <2>1. request' = [request EXCEPT ![c] = "none"] /\ call' = [call EXCEPT ![c] = "idle"]
    BY <1>4 DEF Replies
  <2>2. StreamTypeOK'
    <3>1. /\ call' \in [Callers -> {"idle", "waiting", "posted"}]
          /\ request' \in [Callers -> Serving \cup {"none", "queued"}]
      BY <1>1, <2>1, CallTypes
    <3> QED BY <1>1, <1>2, <1>4, <3>1 DEF StreamTypeOK, Serving, serverVars
  <2>3. HoldersFit'
    BY <1>1, <1>2, <1>4, <2>1, CallTypes DEF HoldersFit, ServesFit, Serving, serverVars
  <2>4. LastOnly' /\ StagesFit'
    BY <1>1, <1>2, <1>4 DEF LastOnly, StagesFit, StageFits, serverVars, Over, Running
  <2> QED BY <2>2, <2>3, <2>4 DEF StreamInv
<1>5. CASE /\ request' = [request EXCEPT ![c] = "stopping"] /\ streamLock' = c /\ UNCHANGED call
           /\ streams = {} /\ UNCHANGED << mine, task, cleanup, held >>
  <2>1. StreamTypeOK'
    <3>1. request' \in [Callers -> Serving \cup {"none", "queued"}]
      BY <1>1, <1>5, CallTypes DEF Serving
    <3> QED BY <1>1, <1>2, <1>5, <3>1 DEF StreamTypeOK, Serving, serverVars
  <2>2. HoldersFit'
    <3>1. \A d \in Callers : request'[d] = IF d = c THEN "stopping" ELSE request[d]
      BY <1>1, <1>5, CallTypes
    <3> QED BY <1>1, <1>2, <1>3, <1>5, <3>1 DEF HoldersFit, ServesFit, Serving, serverVars
  <2>3. LastOnly' /\ StagesFit'
    BY <1>1, <1>2, <1>5 DEF LastOnly, StagesFit, StageFits, serverVars, Over, Running
  <2> QED BY <2>1, <2>2, <2>3 DEF StreamInv
<1>6. CASE /\ request' = [request EXCEPT ![c] = "stopping"] /\ streamLock' = c /\ UNCHANGED call
           /\ \E s \in streams : mine' = [mine EXCEPT ![c] = s] /\ BeginsStop(s)
  <2>1. PICK s \in streams : mine' = [mine EXCEPT ![c] = s] /\ BeginsStop(s)
    BY <1>6
  <2>2. s = made /\ s \in Streams /\ made # 0
    BY <1>1, SessionTypes DEF LastOnly, StreamTypeOK
  <2>3. /\ task' \in [Streams -> Tasks] /\ held' \in [Streams -> SUBSET Things]
        /\ cleanup' \in [Streams -> Stages \cup {"no", "done", "cut"}]
        /\ StageFits(s)' /\ (Running(s)' => Running(s))
        /\ \A u \in Streams : u # s =>
              task'[u] = task[u] /\ cleanup'[u] = cleanup[u] /\ held'[u] = held[u]
    BY <2>1, <2>2, StopBegins
  <2>4. \A d \in Callers : /\ request'[d] = IF d = c THEN "stopping" ELSE request[d]
                           /\ mine'[d] = IF d = c THEN made ELSE mine[d]
    BY <1>1, <1>6, <2>1, <2>2, CallTypes
  <2>5. StreamTypeOK'
    <3>1. /\ request' \in [Callers -> Serving \cup {"none", "queued"}]
          /\ mine' \in [Callers -> Streams \cup {0}]
      BY <1>1, <1>6, <2>1, <2>2, CallTypes DEF Serving
    <3> QED BY <1>1, <1>2, <1>6, <2>3, <3>1 DEF StreamTypeOK, Serving, serverVars, Tasks, Things
  <2>6. HoldersFit'
    BY <1>1, <1>2, <1>3, <1>6, <2>2, <2>4 DEF HoldersFit, ServesFit, Serving, serverVars
  <2>7. LastOnly'
    <3>1. \A u \in Streams : u # made => (Over(u)' <=> Over(u))
      BY <2>2, <2>3 DEF Over, Running
    <3>2. \A u \in 1 .. made : u # made => Over(u)'
      BY <1>1, <3>1, SessionTypes DEF LastOnly
    <3>3. \A u \in Streams : u > made => task'[u] = "none" /\ cleanup'[u] = "no"
      BY <1>1, <2>2, <2>3, SessionTypes DEF LastOnly
    <3>4. \E d \in Callers : mine'[d] = made
      BY <2>4
    <3> QED BY <1>1, <1>2, <2>2, <2>3, <3>2, <3>3, <3>4 DEF LastOnly, serverVars
  <2>8. StagesFit'
    BY <1>1, <2>3 DEF StagesFit, StageFits
  <2> QED BY <2>5, <2>6, <2>7, <2>8 DEF StreamInv
<1> QED BY <1>4, <1>5, <1>6 DEF Acquires

LEMMA StopsOnKeeps ==
  ASSUME StreamInv, NEW c \in Callers, StopsOn(c) PROVE StreamInv'
<1>0. /\ StreamTypeOK /\ HoldersFit /\ LastOnly /\ request[c] = "stopping" /\ mine[c] # 0
      /\ ~Running(mine[c]) /\ cleanup[mine[c]] = "no" /\ Cleans(mine[c])
      /\ UNCHANGED << callVars, task, shows, serverVars >>
  BY DEF StreamInv, StopsOn
<1>2. PICK s \in Streams : s = mine[c] /\ s = made /\ s \in 1 .. made
  BY <1>0, SessionTypes DEF HoldersFit, ServesFit, Streams
<1>1. /\ StreamTypeOK /\ HoldersFit /\ LastOnly /\ request[c] = "stopping"
      /\ ~Running(s) /\ cleanup[s] = "no" /\ Cleans(s) /\ UNCHANGED << callVars, task, shows, serverVars >>
  BY <1>0, <1>2
<1>3. ~\E d \in Callers : request[d] \in {"answering", "failing"}
  BY <1>1, OneServes DEF HoldersFit, ServesFit, Serving
<1>4. /\ cleanup' \in [Streams -> Stages \cup {"no", "done", "cut"}]
      /\ held' \in [Streams -> SUBSET Things]
      /\ cleanup'[s] \in {"bitrate", "peer"}
      /\ cleanup'[s] = "peer" => held'[s] \subseteq {"peer"}
      /\ \A u \in Streams : u # s => cleanup'[u] = cleanup[u] /\ held'[u] = held[u]
  BY <1>1, <1>2, CleansFits
<1>5. StreamTypeOK'
  BY <1>1, <1>4 DEF StreamTypeOK, callVars, serverVars, Things
<1>6. StageFits(s)'
  BY <1>1, <1>2, <1>4 DEF StageFits, Stages, Running
<1>7. HoldersFit' /\ LastOnly' /\ StagesFit'
  BY <1>1, <1>2, <1>3, <1>4, <1>6, OneMoves DEF callVars, serverVars, Over, Running
<1> QED BY <1>5, <1>7 DEF StreamInv

\* A request ends, and lets go of the session it had in hand.
LEMMA RequestEnds ==
  ASSUME StreamInv, NEW c \in Callers, request[c] \in Serving, Replies(c), streamLock' = NoCall,
         mine' = [mine EXCEPT ![c] = 0], streams' = streams \ {mine[c]},
         mine[c] # 0 => Over(mine[c]), orphaned' = TRUE,
         UNCHANGED << wants, sessionVars, liveParam, server, teardown, made, toggles >>
  PROVE  StreamInv'
<1>1. /\ StreamTypeOK /\ HoldersFit /\ LastOnly /\ StagesFit /\ streamLock = c
      /\ request' = [request EXCEPT ![c] = "none"] /\ call' = [call EXCEPT ![c] = "idle"]
      /\ UNCHANGED << task, cleanup, held, shows >>
  BY DEF StreamInv, HoldersFit, ServesFit, Replies, sessionVars
<1>2. \A d \in Callers : /\ d # c => request[d] \notin Serving /\ mine[d] = 0
                         /\ request'[d] = IF d = c THEN "none" ELSE request[d]
                         /\ mine'[d] = IF d = c THEN 0 ELSE mine[d]
  BY <1>1, OneServes, CallTypes
<1>3. StreamTypeOK'
  <2>1. /\ call' \in [Callers -> {"idle", "waiting", "posted"}]
        /\ request' \in [Callers -> Serving \cup {"none", "queued"}]
        /\ mine' \in [Callers -> Streams \cup {0}]
    BY <1>1, CallTypes
  <2> QED BY <1>1, <2>1 DEF StreamTypeOK, Serving
<1>4. HoldersFit'
  BY <1>1, <1>2, CallerAssumption DEF HoldersFit, ServesFit, Serving
<1>5. LastOnly'
  <2>1. mine[c] \in {0, made}
    BY <1>1 DEF HoldersFit, ServesFit, Serving
  <2>2. made # 0 /\ Running(made) => made \in streams'
    BY <1>1, <2>1 DEF LastOnly, Over
  <2>3. made # 0 /\ ~Running(made) => Over(made)
    BY <1>1, <1>2, <2>1 DEF LastOnly
  <2> QED BY <1>1, <2>2, <2>3 DEF LastOnly, Over, Running
<1>6. StagesFit'
  BY <1>1 DEF StagesFit, StageFits
<1> QED BY <1>3, <1>4, <1>5, <1>6 DEF StreamInv

LEMMA MakesKeeps ==
  ASSUME StreamInv, NEW c \in Callers, Makes(c) PROVE StreamInv'
<1> DEFINE s == made + 1
<1>1. /\ StreamTypeOK /\ HoldersFit /\ LastOnly /\ StagesFit /\ request[c] = "stopping"
      /\ (mine[c] # 0 => Over(mine[c])) /\ made < MaxStreams /\ made' = s
      /\ mine' = [mine EXCEPT ![c] = s] /\ streams' = (streams \ {mine[c]}) \cup {s}
      /\ shows' = [shows EXCEPT ![s] = wants[c]] /\ held' = [held EXCEPT ![s] = {"tracks", "peer"}]
      /\ request' = [request EXCEPT ![c] = "answering"]
      /\ UNCHANGED << call, wants, streamLock, task, cleanup, liveParam, server, teardown, toggles, orphaned >>
  BY DEF StreamInv, Makes, Stopped
<1>2. /\ made \in Nat /\ s \in Streams /\ s \in 1 .. MaxStreams /\ s > made /\ s # 0
      /\ task \in [Streams -> Tasks] /\ held \in [Streams -> SUBSET Things]
      /\ cleanup \in [Streams -> Stages \cup {"no", "done", "cut"}]
  BY <1>1, SessionTypes, CallerAssumption DEF Streams
<1>3. /\ streamLock = c /\ mine[c] \in {0, made} /\ (mine[c] = 0 => streams = {})
      /\ task[s] = "none" /\ cleanup[s] = "no" /\ \A u \in 1 .. made : u # made => Over(u)
  BY <1>1, <1>2 DEF HoldersFit, ServesFit, Serving, LastOnly
<1> HIDE DEF s
<1>4. \A d \in Callers : /\ d # c => request[d] \notin Serving /\ mine[d] = 0
                         /\ request'[d] = IF d = c THEN "answering" ELSE request[d]
                         /\ mine'[d] = IF d = c THEN s ELSE mine[d]
  BY <1>1, <1>3, OneServes, CallTypes
<1>5. held'[s] = {"tracks", "peer"} /\ \A u \in Streams : u # s => held'[u] = held[u]
  BY <1>1, <1>2
<1>6. StreamTypeOK'
  <2>1. /\ request' \in [Callers -> Serving \cup {"none", "queued"}]
        /\ mine' \in [Callers -> Streams \cup {0}] /\ shows' \in [Streams -> BOOLEAN]
        /\ held' \in [Streams -> SUBSET Things] /\ streams' \subseteq Streams
    <3>1. wants[c] \in BOOLEAN /\ shows \in [Streams -> BOOLEAN] /\ streams \subseteq Streams
      BY <1>1 DEF StreamTypeOK
    <3>2. shows' \in [Streams -> BOOLEAN]
      BY <1>1, <3>1
    <3> QED BY <1>1, <1>2, <3>1, <3>2, CallTypes DEF Serving, Things
  <2>2. made' \in 0 .. MaxStreams
    BY <1>1, <1>2, CallerAssumption DEF s
  <2> QED BY <1>1, <2>1, <2>2 DEF StreamTypeOK, Serving, Things
<1>7. HoldersFit'
  <2>1. ServesFit(c)'
    BY <1>1, <1>2, <1>3, <1>4 DEF ServesFit, Serving
  <2>2. ASSUME NEW d \in Callers, d # c PROVE ServesFit(d)'
    BY <1>1, <1>3, <1>4, <2>2 DEF ServesFit, Serving, HoldersFit
  <2> QED BY <2>1, <2>2 DEF HoldersFit
<1>8. LastOnly'
  <2>1. streams \subseteq {made} \ {0}
    BY <1>1 DEF LastOnly
  <2>2. streams' \subseteq {s} \ {0} /\ s \in streams'
    BY <1>1, <1>2, <1>3, <2>1
  <2>3. made # 0 => Over(made)
    <3>1. CASE mine[c] = 0
      BY <1>1, <1>3, <1>4, <3>1 DEF LastOnly
    <3>2. CASE mine[c] = made
      BY <1>1, <3>2
    <3> QED BY <1>3, <3>1, <3>2
  <2>4. \A u \in 1 .. made : Over(u)
    BY <1>3, <2>3
  <2>5. \A u \in 1 .. s : u # s => Over(u)'
    <3>1. \A u \in 1 .. s : u # s => u \in 1 .. made
      BY <1>2 DEF s
    <3> QED BY <1>1, <2>4, <3>1 DEF Over, Running
  <2>6. \A u \in Streams : u > s => task[u] = "none" /\ cleanup[u] = "no"
    <3>1. \A u \in Streams : u > s => u > made
      BY <1>2 DEF s, Streams
    <3> QED BY <1>1, <3>1 DEF LastOnly
  <2>7. \E d \in Callers : mine'[d] = s
    BY <1>4
  <2> QED BY <1>1, <2>2, <2>5, <2>6, <2>7 DEF LastOnly
<1>9. StagesFit'
  <2> SUFFICES ASSUME NEW u \in Streams PROVE StageFits(u)'
    BY DEF StagesFit
  <2>1. CASE u = s
    BY <1>1, <1>2, <1>3, <1>5, <2>1 DEF StageFits
  <2>2. CASE u # s
    BY <1>1, <1>5, <2>2 DEF StageFits, StagesFit
  <2> QED BY <2>1, <2>2
<1> QED BY <1>6, <1>7, <1>8, <1>9 DEF StreamInv

LEMMA StartsKeeps ==
  ASSUME StreamInv, NEW c \in Callers, StreamStarts(c) PROVE StreamInv'
<1>1. /\ StreamTypeOK /\ HoldersFit /\ LastOnly /\ StagesFit /\ request[c] = "answering"
      /\ task' = [task EXCEPT ![mine[c]] = "new"] /\ orphaned' = FALSE
      /\ request' = [request EXCEPT ![c] = "none"] /\ call' = [call EXCEPT ![c] = "idle"]
      /\ mine' = [mine EXCEPT ![c] = 0] /\ streamLock' = NoCall
      /\ UNCHANGED << wants, cleanup, held, shows, liveParam, server, teardown, streams, made, toggles >>
  BY DEF StreamInv, StreamStarts, Replies
<1>2. /\ streamLock = c /\ mine[c] = made /\ made # 0 /\ made \in streams /\ cleanup[made] = "no"
      /\ made \in Streams /\ task \in [Streams -> Tasks]
  BY <1>1, SessionTypes DEF HoldersFit, ServesFit, Serving, StreamTypeOK
<1>3. \A d \in Callers : /\ d # c => request[d] \notin Serving /\ mine[d] = 0
                         /\ request'[d] = IF d = c THEN "none" ELSE request[d]
                         /\ mine'[d] = IF d = c THEN 0 ELSE mine[d]
  BY <1>1, <1>2, OneServes, CallTypes
<1>4. task'[made] = "new" /\ \A u \in Streams : u # made => task'[u] = task[u]
  BY <1>1, <1>2
<1>5. StreamTypeOK'
  <2>1. /\ call' \in [Callers -> {"idle", "waiting", "posted"}]
        /\ request' \in [Callers -> Serving \cup {"none", "queued"}]
        /\ mine' \in [Callers -> Streams \cup {0}] /\ task' \in [Streams -> Tasks]
    BY <1>1, <1>2, CallTypes DEF Tasks
  <2> QED BY <1>1, <2>1 DEF StreamTypeOK, Serving, Tasks
<1>6. HoldersFit'
  BY <1>1, <1>3, CallerAssumption DEF HoldersFit, ServesFit, Serving
<1>7. LastOnly'
  <2>1. \A u \in 1 .. made : u # made => Over(u)'
    BY <1>1, <1>4, SessionTypes DEF LastOnly, Over, Running
  <2>2. \A u \in Streams : u > made => task'[u] = "none" /\ cleanup[u] = "no"
    <3>1. \A u \in Streams : u > made => u # made
      BY <1>1, SessionTypes DEF Streams
    <3> QED BY <1>1, <1>4, <3>1 DEF LastOnly
  <2>3. Running(made)'
    BY <1>1, <1>4 DEF Running
  <2> QED BY <1>1, <1>2, <2>1, <2>2, <2>3 DEF LastOnly
<1>8. StagesFit'
  BY <1>1, <1>2, <1>4 DEF StagesFit, StageFits
<1> QED BY <1>5, <1>6, <1>7, <1>8 DEF StreamInv

LEMMA AnswerFailsKeeps ==
  ASSUME StreamInv, NEW c \in Callers, AnswerFails(c) PROVE StreamInv'
<1>1. /\ StreamTypeOK /\ HoldersFit /\ LastOnly /\ StagesFit /\ request[c] = "answering"
      /\ request' = [request EXCEPT ![c] = "failing"] /\ Cleans(mine[c])
      /\ UNCHANGED << call, wants, mine, streamLock, task, shows, serverVars >>
  BY DEF StreamInv, AnswerFails
<1>2. /\ streamLock = c /\ mine[c] = made /\ made # 0 /\ made \in streams /\ cleanup[made] = "no"
      /\ made \in Streams /\ task[made] = "none"
  BY <1>1, SessionTypes DEF HoldersFit, ServesFit, Serving, StreamTypeOK
<1>3. /\ cleanup' \in [Streams -> Stages \cup {"no", "done", "cut"}]
      /\ held' \in [Streams -> SUBSET Things]
      /\ cleanup'[made] \in {"bitrate", "peer"}
      /\ cleanup'[made] = "peer" => held'[made] \subseteq {"peer"}
      /\ \A u \in Streams : u # made => cleanup'[u] = cleanup[u] /\ held'[u] = held[u]
  BY <1>1, <1>2, CleansFits
<1>4. \A d \in Callers : /\ d # c => request[d] \notin Serving /\ mine[d] = 0
                         /\ request'[d] = IF d = c THEN "failing" ELSE request[d]
  BY <1>1, <1>2, OneServes, CallTypes
<1>5. StreamTypeOK'
  <2>1. request' \in [Callers -> Serving \cup {"none", "queued"}]
    BY <1>1, CallTypes DEF Serving
  <2> QED BY <1>1, <1>3, <2>1 DEF StreamTypeOK, Serving, serverVars, Things
<1>6. HoldersFit'
  BY <1>1, <1>2, <1>3, <1>4 DEF HoldersFit, ServesFit, Serving, serverVars
<1>7. LastOnly'
  <2>1. \A u \in 1 .. made : u # made => Over(u)'
    BY <1>1, <1>3, SessionTypes DEF LastOnly, Over, Running
  <2>2. \A u \in Streams : u > made => task[u] = "none" /\ cleanup'[u] = "no"
    <3>1. \A u \in Streams : u > made => u # made
      BY <1>1, SessionTypes DEF Streams
    <3> QED BY <1>1, <1>3, <3>1 DEF LastOnly
  <2> QED BY <1>1, <1>2, <2>1, <2>2 DEF LastOnly, serverVars, Running
<1>8. StagesFit'
  BY <1>1, <1>2, <1>3 DEF StagesFit, StageFits, Stages
<1> QED BY <1>5, <1>6, <1>7, <1>8 DEF StreamInv

-----------------------------------------------------------------------------
(* athenad, manager and the car.                                             *)

\* What leaves sessions and requests alone.
LEMMA OthersLeave ==
  ASSUME StreamInv, StreamTypeOK',
         UNCHANGED << request, mine, streamLock, streams, made, task, cleanup, held >>
  PROVE  StreamInv'
BY DEF StreamInv, HoldersFit, ServesFit, LastOnly, StagesFit, StageFits, Over, Running

LEMMA PostKeeps ==
  ASSUME StreamInv, WaitsFit, NEW c \in Callers, PostStream(c) PROVE StreamInv'
<1>1. /\ StreamTypeOK /\ HoldersFit /\ LastOnly /\ StagesFit /\ request[c] = "none"
      /\ call' = [call EXCEPT ![c] = "posted"] /\ request' = [request EXCEPT ![c] = "queued"]
      /\ UNCHANGED << wants, mine, streamLock, task, cleanup, held, shows, serverVars >>
  BY DEF StreamInv, PostStream, WaitsFit, sessionVars
<1>2. StreamTypeOK'
  <2>1. /\ call' \in [Callers -> {"idle", "waiting", "posted"}]
        /\ request' \in [Callers -> Serving \cup {"none", "queued"}]
    BY <1>1, CallTypes
  <2> QED BY <1>1, <2>1 DEF StreamTypeOK, Serving, serverVars
<1>3. HoldersFit'
  <2>1. \A d \in Callers : request'[d] = IF d = c THEN "queued" ELSE request[d]
    BY <1>1, CallTypes
  <2> QED BY <1>1, <2>1 DEF HoldersFit, ServesFit, Serving, serverVars
<1>4. LastOnly' /\ StagesFit'
  BY <1>1 DEF LastOnly, StagesFit, StageFits, Over, Running, serverVars
<1> QED BY <1>2, <1>3, <1>4 DEF StreamInv

LEMMA ServerEndsKeeps ==
  ASSUME StreamInv, ServerEnds PROVE StreamInv'
<1>1. StreamTypeOK /\ made \in 0 .. MaxStreams /\ made \in Nat
  BY SessionTypes DEF StreamInv
<1>2. /\ server' = "off" /\ teardown' = FALSE /\ streams' = {}
      /\ task' = [s \in Streams |-> "none"]
      /\ cleanup' = [s \in Streams |-> IF s <= made THEN "done" ELSE "no"]
      /\ held' = [s \in Streams |-> {}] /\ orphaned' = (orphaned \/ liveParam)
      /\ call' = [c \in Callers |-> IF call[c] = "posted" THEN "idle" ELSE call[c]]
      /\ request' = [c \in Callers |-> "none"] /\ mine' = [c \in Callers |-> 0]
      /\ streamLock' = NoCall
      /\ UNCHANGED << wants, shows, liveParam, made, toggles >>
  BY DEF ServerEnds
<1>3. StreamTypeOK'
  <2>1. task' \in [Streams -> Tasks] /\ held' \in [Streams -> SUBSET Things]
    BY <1>2 DEF Tasks, Things
  <2>2. cleanup' \in [Streams -> Stages \cup {"no", "done", "cut"}]
    BY <1>2
  <2>3. call' \in [Callers -> {"idle", "waiting", "posted"}]
    BY <1>1, <1>2, CallTypes
  <2>4. request' \in [Callers -> Serving \cup {"none", "queued"}] /\ mine' \in [Callers -> Streams \cup {0}]
    BY <1>2
  <2>5. {liveParam', teardown', orphaned'} \subseteq BOOLEAN
    BY <1>1, <1>2 DEF StreamTypeOK
  <2> QED BY <1>1, <1>2, <2>1, <2>2, <2>3, <2>4, <2>5 DEF StreamTypeOK, Serving, Tasks, Things
<1>4. HoldersFit'
  BY <1>2, CallerAssumption DEF HoldersFit, ServesFit, Serving
<1>5. LastOnly'
  <2>1. \A u \in 1 .. made : u \in Streams /\ u <= made
    BY <1>1, SessionTypes
  <2>2. \A u \in 1 .. made : Over(u)'
    BY <1>2, <2>1 DEF Over, Running
  <2>3. \A u \in Streams : u > made => task'[u] = "none" /\ cleanup'[u] = "no"
    BY <1>1, <1>2 DEF Streams
  <2>4. made # 0 => made \in 1 .. made
    BY <1>1
  <2> QED BY <1>2, <2>2, <2>3, <2>4 DEF LastOnly, Over
<1>6. StagesFit'
  BY <1>2 DEF StagesFit, StageFits
<1> QED BY <1>3, <1>4, <1>5, <1>6 DEF StreamInv

LEMMA AthenaKeeps ==
  ASSUME StreamInv, NEW c \in Callers, StartStream(c) \/ CallFails(c) PROVE StreamInv'
<1>1. /\ StreamTypeOK
      /\ UNCHANGED << request, mine, streamLock, streams, made, task, cleanup, held, shows, toggles,
                      server, teardown >>
  BY DEF StreamInv, StartStream, CallFails, sessionVars
<1>2. /\ call' \in [Callers -> {"idle", "waiting", "posted"}] /\ wants' \in [Callers -> BOOLEAN]
      /\ liveParam' \in BOOLEAN /\ orphaned' \in BOOLEAN
  <2>1. CASE StartStream(c)
    <3>1. PICK e \in BOOLEAN : wants' = [wants EXCEPT ![c] = e]
      BY <2>1 DEF StartStream
    <3>2. call' = [call EXCEPT ![c] = "waiting"] /\ liveParam' = TRUE /\ orphaned' = orphaned
      BY <2>1 DEF StartStream
    <3> QED BY <1>1, <3>1, <3>2, CallTypes DEF StreamTypeOK
  <2>2. CASE CallFails(c)
    <3>1. call' = [call EXCEPT ![c] = "idle"] /\ UNCHANGED << wants, liveParam >>
          /\ (orphaned' = TRUE \/ orphaned' = orphaned)
      BY <2>2 DEF CallFails
    <3> QED BY <1>1, <3>1, CallTypes DEF StreamTypeOK
  <2> QED BY <2>1, <2>2
<1>3. StreamTypeOK'
  BY <1>1, <1>2 DEF StreamTypeOK
<1> QED BY <1>1, <1>3, OthersLeave

LEMMA VideoKeeps ==
  ASSUME StreamInv, NEW s \in Streams, VideoEnable(s) PROVE StreamInv'
<1>1. /\ StreamTypeOK /\ toggles < MaxToggles /\ toggles' = toggles + 1
      /\ shows' = [shows EXCEPT ![s] = ~@]
      /\ UNCHANGED << callVars, task, cleanup, held, liveParam, server, teardown, streams, made, orphaned >>
  BY DEF StreamInv, VideoEnable
<1>2. toggles' \in 0 .. MaxToggles
  BY <1>1, CallerAssumption DEF StreamTypeOK
<1>3. shows' \in [Streams -> BOOLEAN]
  <2>1. shows \in [Streams -> BOOLEAN]
    BY <1>1 DEF StreamTypeOK
  <2> QED BY <1>1, <2>1
<1>4. StreamTypeOK'
  BY <1>1, <1>2, <1>3 DEF StreamTypeOK, callVars
<1> QED BY <1>1, <1>4, OthersLeave DEF callVars

LEMMA WorldKeeps ==
  ASSUME StreamInv, Teardown \/ ServerStarts \/ ServerToEnd \/ IgnitionOn \/ UNCHANGED streamVars
  PROVE  StreamInv'
<1>1. StreamTypeOK
  BY DEF StreamInv
<1>2. /\ UNCHANGED << request, mine, streamLock, streams, made, task, cleanup, held, shows, toggles,
                      call, wants, orphaned >>
      /\ server' \in {server, "up", "ending"}
  BY DEF Teardown, ServerStarts, ServerToEnd, IgnitionOn, streamVars, callVars, sessionVars, serverVars
<1>3. liveParam' \in BOOLEAN /\ teardown' \in BOOLEAN
  BY <1>1 DEF StreamTypeOK, Teardown, ServerStarts, ServerToEnd, IgnitionOn, streamVars, serverVars
<1>4. StreamTypeOK'
  BY <1>1, <1>2, <1>3 DEF StreamTypeOK
<1> QED BY <1>2, <1>4, OthersLeave

LEMMA WaitsKept == StreamInv /\ WaitsFit /\ [StreamNext]_streamVars => WaitsFit'
<1> SUFFICES ASSUME StreamInv, WaitsFit, [StreamNext]_streamVars PROVE WaitsFit'
  OBVIOUS
<1>0. StreamTypeOK
  BY DEF StreamInv
<1>1. ASSUME NEW c \in Callers, call' = [call EXCEPT ![c] = "waiting"], request[c] = "none",
             request' = request
      PROVE  WaitsFit'
  BY <1>0, <1>1, CallTypes DEF WaitsFit
<1>2. ASSUME NEW c \in Callers, NEW r, call[c] # "waiting" \/ call'[c] # "waiting",
             request' = request \/ request' = [request EXCEPT ![c] = r],
             call' = call \/ call' = [call EXCEPT ![c] = "idle"] \/ call' = [call EXCEPT ![c] = "posted"]
      PROVE  WaitsFit'
  BY <1>0, <1>2, CallTypes DEF WaitsFit
<1>3. ASSUME UNCHANGED << call, request >> PROVE WaitsFit'
  BY <1>3 DEF WaitsFit
<1>4. ASSUME NEW c \in Callers, StartStream(c) PROVE WaitsFit'
  BY <1>1, <1>4 DEF StartStream
<1>5. ASSUME NEW c \in Callers, PostStream(c) PROVE WaitsFit'
  <2>1. call'[c] # "waiting"
    BY <1>0, <1>5, CallTypes DEF PostStream
  <2> QED BY <1>2, <1>5, <2>1 DEF PostStream
<1>6. ASSUME NEW c \in Callers, CallFails(c) PROVE WaitsFit'
  <2>1. call'[c] # "waiting"
    BY <1>0, <1>6, CallTypes DEF CallFails
  <2> QED BY <1>2, <1>6, <2>1 DEF CallFails
<1>7. ASSUME NEW c \in Callers,
             Acquires(c) \/ Makes(c) \/ MakeFails(c) \/ StreamStarts(c) \/ AnswerFails(c) \/ Drops(c)
      PROVE  WaitsFit'
  <2>1. request[c] # "none" /\ call[c] # "waiting"
    BY <1>7 DEF WaitsFit, Acquires, Makes, MakeFails, Stopped, StreamStarts, AnswerFails, Drops
  <2>2. \/ request' = [request EXCEPT ![c] = "none"]
        \/ request' = [request EXCEPT ![c] = "stopping"]
        \/ request' = [request EXCEPT ![c] = "answering"]
        \/ request' = [request EXCEPT ![c] = "failing"]
    BY <1>7 DEF Acquires, Makes, MakeFails, StreamStarts, AnswerFails, Drops, Replies
  <2>3. call' = call \/ call' = [call EXCEPT ![c] = "idle"]
    BY <1>7 DEF Acquires, Makes, MakeFails, StreamStarts, AnswerFails, Drops, Replies,
       serverVars
  <2> QED BY <1>2, <2>1, <2>2, <2>3
<1>8. ASSUME NEW c \in Callers, StopsOn(c) PROVE WaitsFit'
  BY <1>3, <1>8 DEF StopsOn, callVars
<1>9. ASSUME Sessions \/ Teardown \/ ServerStarts \/ ServerToEnd \/ IgnitionOn
             \/ (\E s \in Streams : SessionConnects(s) \/ VideoEnable(s)) \/ UNCHANGED streamVars
      PROVE  WaitsFit'
  <2>1. UNCHANGED callVars
    BY <1>9 DEF Sessions, SessionBegins, SessionEnds, CleansOn, SessionRemoved, Teardown,
       ServerStarts, ServerToEnd, IgnitionOn, SessionConnects, VideoEnable, streamVars
  <2> QED BY <1>3, <2>1 DEF callVars
<1>10. CASE ServerEnds
  BY <1>10 DEF ServerEnds, WaitsFit
<1> QED BY <1>4, <1>5, <1>6, <1>7, <1>8, <1>9, <1>10
        DEF StreamNext, StreamingWorks, AthenaWorks, Requests, ManagerWorks

LEMMA StreamStep == StreamInv /\ WaitsFit /\ [StreamNext]_streamVars => StreamInv'
<1> SUFFICES ASSUME StreamInv, WaitsFit, [StreamNext]_streamVars PROVE StreamInv'
  OBVIOUS
<1>1. ASSUME NEW c \in Callers, MakeFails(c) \/ Drops(c) PROVE StreamInv'
  <2>1. /\ request[c] \in Serving /\ Replies(c) /\ streamLock' = NoCall
        /\ mine' = [mine EXCEPT ![c] = 0] /\ streams' = streams \ {mine[c]} /\ orphaned' = TRUE
        /\ (mine[c] # 0 => Over(mine[c]))
        /\ UNCHANGED << wants, sessionVars, liveParam, server, teardown, made, toggles >>
    BY <1>1 DEF MakeFails, Drops, Stopped, Serving
  <2> QED BY <2>1, RequestEnds
<1>2. ASSUME NEW c \in Callers,
             \/ Acquires(c) \/ Makes(c) \/ StreamStarts(c) \/ AnswerFails(c) \/ StopsOn(c)
             \/ PostStream(c) \/ CallFails(c) \/ StartStream(c)
      PROVE  StreamInv'
  BY <1>2, AcquiresKeeps, MakesKeeps, StartsKeeps, AnswerFailsKeeps, StopsOnKeeps, PostKeeps, AthenaKeeps
<1>3. ASSUME NEW s \in Streams,
             \/ SessionBegins(s) \/ SessionConnects(s) \/ SessionEnds(s) \/ SessionRemoved(s)
             \/ CleansOn(s) \/ VideoEnable(s)
      PROVE  StreamInv'
  BY <1>3, SessionKeeps, CleansOnKeeps, VideoKeeps
<1>4. CASE Teardown \/ ServerStarts \/ ServerToEnd \/ IgnitionOn \/ UNCHANGED streamVars
  BY <1>4, WorldKeeps
<1>5. CASE ServerEnds
  BY <1>5, ServerEndsKeeps
<1> QED BY <1>1, <1>2, <1>3, <1>4, <1>5
        DEF StreamNext, StreamingWorks, AthenaWorks, Requests, Sessions, ManagerWorks

LEMMA StreamsStart == StreamInit => StreamInv /\ WaitsFit
<1> SUFFICES ASSUME StreamInit PROVE StreamInv /\ WaitsFit
  OBVIOUS
<1>1. StreamTypeOK
  <2>1. /\ call \in [Callers -> {"idle", "waiting", "posted"}] /\ wants \in [Callers -> BOOLEAN]
        /\ request \in [Callers -> {"none", "queued", "stopping", "answering", "failing"}]
        /\ mine \in [Callers -> Streams \cup {0}]
    BY DEF StreamInit
  <2>2. /\ task \in [Streams -> {"none", "new", "connecting", "connected", "cleaning", "done"}]
        /\ cleanup \in [Streams -> Stages \cup {"no", "done", "cut"}]
        /\ held \in [Streams -> SUBSET {"bitrate", "bridge", "tracks", "peer"}]
        /\ shows \in [Streams -> BOOLEAN]
    BY DEF StreamInit
  <2>3. made \in 0 .. MaxStreams /\ toggles \in 0 .. MaxToggles
    BY CallerAssumption DEF StreamInit
  <2>4. /\ {liveParam, teardown, orphaned} \subseteq BOOLEAN /\ server \in {"off", "up", "ending"}
        /\ streams \subseteq Streams /\ streamLock \in Callers \cup {NoCall}
    BY DEF StreamInit
  <2> QED BY <2>1, <2>2, <2>3, <2>4 DEF StreamTypeOK
<1>2. HoldersFit /\ StagesFit /\ WaitsFit
  BY CallerAssumption DEF StreamInit, HoldersFit, ServesFit, Serving, StagesFit, StageFits, WaitsFit
<1>3. LastOnly
  BY DEF StreamInit, LastOnly
<1> QED BY <1>1, <1>2, <1>3 DEF StreamInv

(* One session at a time reads the cameras, and one that is over has let go  *)
(* of what it had, however requests, time-outs, cancellations and the end of *)
(* webrtcd interleave.                                                       *)
THEOREM StreamsAreAlwaysWhole == StreamSpec => []StreamsAreWhole
<1>1. StreamInv => OneViewer
  <2> SUFFICES ASSUME StreamInv, NEW s \in 1 .. made, NEW u \in 1 .. made, s # u PROVE Over(s) \/ Over(u)
    BY DEF OneViewer
  <2> QED BY DEF StreamInv, LastOnly
<1>2. StreamInv => NothingHeld
  BY SessionTypes DEF StreamInv, NothingHeld, StagesFit, StageFits, Over
<1>3. StreamInv => StreamsAreWhole
  BY <1>1, <1>2 DEF StreamInv, StreamsAreWhole
<1>4. StreamInv /\ WaitsFit /\ [StreamNext]_streamVars => (StreamInv /\ WaitsFit)'
  BY StreamStep, WaitsKept
<1> QED BY <1>3, <1>4, StreamsStart, PTL DEF StreamSpec
-----------------------------------------------------------------------------
(* The segments. Loggerd keeps a lock on what is not whole, and what the     *)
(* deleter has found without a lock is not recorded from then on.            *)

RecorderFits ==
    /\ closing = "stopped" => current = NoSeg
    /\ closing \in {"recording", "stopping"} => current = New
    /\ closing = "unlocked" => opened <= LastSeg /\ (current = NoSeg => opened \in starts)
    /\ closing \in {"made", "locked"} => (\A s \in logged : s < New) /\ (current = NoSeg => New \in starts)
    /\ opened > 0 /\ \A s \in Segs : place[s] = "none" <=> s >= opened
    /\ whole \subseteq logged /\ \A s \in logged : s < opened
    /\ current # NoSeg =>
        current \in logged \ whole /\ \A s \in logged : s = current \/ s \in whole \/ Older(s)

LocksHold ==
    /\ closing = "recording" /\ current \notin early \cup glimpsed => place[current] = "here"
    /\ closing \in {"unlocked", "made", "locked", "stopping"} /\ current # NoSeg /\ current \notin early =>
           current \in vlock
    /\ closing = "recording" /\ current \notin early => current \in rlock
    /\ closing = "locked" /\ New \notin early => New \in rlock
    /\ \A s \in logged : s \in rlock \/ s \in vlock \/ s \in early \/ s \in whole

UploadsFit ==
    /\ SentWhole
    /\ \A s \in Segs : upCache[s] = "no" \/ sending = s => s \notin tagged
    /\ \A s \in Segs : times[s] > 0 => s \in tagged \cup untagged \/ (answered /\ sending = s)
    /\ \A s \in Segs : times[s] > 1 => s \in untagged
    /\ answered => sending \in Segs

SeenMarks == {s \in Here : delCache[s] = "yes"}
PassFits ==
    /\ \A s \in Segs : place[s] = "none" => delCache[s] = "unread"
    /\ \A s \in Segs : delCache[s] = "yes" => s \in preserve
    /\ plan \subseteq Here /\ \A s \in plan : delCache[s] # "unread"
    /\ plan # {} => spared = SparedBy(Newest(SeenMarks))

\* what is about to be taken is closed, or had no lock yet or no more when it was looked at
CheckFits ==
    checked => /\ plan # {}
               /\ Candidate \in early \cup glimpsed \/ (Candidate \in logged /\ Candidate # current)

StoreInv == StoreTypeOK /\ RecorderFits /\ LocksHold /\ UploadsFit /\ PassFits /\ CheckFits

LEMMA StoreStarts == StoreInit => StoreInv
<1> SUFFICES ASSUME StoreInit PROVE StoreInv
  OBVIOUS
<1>1. StoreTypeOK
  <2>1. 0 \in Segs /\ NoSeg \in 0 .. NoSeg /\ 0 \in 0 .. NoSeg /\ 1 \in 0 .. NoSeg /\ MaxUpsets \in 0 .. MaxUpsets
    BY SegmentAssumption DEF Segs, NoSeg
  <2>2. cameras \in BOOLEAN /\ answered \in BOOLEAN /\ checked \in BOOLEAN
    BY DEF StoreInit
  <2> QED BY <2>1, <2>2 DEF StoreInit, StoreTypeOK, Cached
<1>2. RecorderFits /\ LocksHold
  BY SegmentAssumption DEF StoreInit, RecorderFits, LocksHold, Segs, NoSeg, New
<1>3. UploadsFit /\ PassFits /\ CheckFits
  BY SegmentAssumption DEF StoreInit, UploadsFit, PassFits, CheckFits, SentWhole, Segs, NoSeg, Here
<1> QED BY <1>1, <1>2, <1>3 DEF StoreInv

\* The oldest of some segments is one of them, and none is older.
LEMMA OldestIsIn ==
  ASSUME NEW S \in SUBSET Segs, S # {}
  PROVE  Min(S) \in S /\ \A s \in S : Min(S) <= s
<1>0. S \subseteq Nat
  BY DEF Segs
<1>1. PICK x \in S : \A y \in S : << y, x >> \notin OpToRel(<, Nat)
  BY <1>0, NatLessThanWellFounded, WFMin
<1>2. ASSUME NEW q \in S PROVE x <= q
  <2>1. q \in Nat /\ x \in Nat
    BY <1>0
  <2>2. q < x => << q, x >> \in OpToRel(<, Nat)
    BY <2>1 DEF OpToRel
  <2>3. x <= q \/ q < x
    BY <2>1
  <2> QED BY <1>1, <2>2, <2>3
<1> QED BY <1>2 DEF Min

LEMMA CandidateIsPlanned ==
  ASSUME StoreInv, plan # {} PROVE Candidate \in plan /\ Candidate \in Here
<1> plan \subseteq Segs
  BY DEF StoreInv, StoreTypeOK
<1> plan \ spared \subseteq Segs
  OBVIOUS
<1>1. Candidate \in plan
  BY OldestIsIn DEF Candidate
<1> QED BY <1>1 DEF StoreInv, PassFits

\* What the preserved segments spare is the same as long as the routes and the marks are.
LEMMA SparedStays ==
  ASSUME UNCHANGED starts, SeenMarks' = SeenMarks
  PROVE  SparedBy(Newest(SeenMarks))' = SparedBy(Newest(SeenMarks))
<1>1. Newest(SeenMarks)' = Newest(SeenMarks)
  BY DEF Newest
<1>2. \A r, s : SameRoute(r, s)' <=> SameRoute(r, s)
  BY DEF SameRoute
<1> QED BY <1>1, <1>2 DEF SparedBy

\* What the deleter goes by while no directory is taken away and no segment is taken up again.
LEMMA PassStays ==
  ASSUME StoreInv, UNCHANGED deleter, preserve \subseteq preserve',
         early \subseteq early', logged \subseteq logged',
         current' = current \/ current' = NoSeg \/ current' \notin logged,
         \/ UNCHANGED place
         \/ \E s \in Segs : place[s] = "none" /\ SetPlace(s, "here"),
         \/ UNCHANGED starts
         \/ starts' = starts \cup {opened}
  PROVE  PassFits' /\ CheckFits'
<1>1. CheckFits'
  <2> SUFFICES ASSUME checked PROVE CheckFits'
    BY DEF deleter, CheckFits
  <2>1. plan # {} /\ (Candidate \in early \cup glimpsed \/ (Candidate \in logged /\ Candidate # current))
    BY DEF StoreInv, CheckFits
  <2>2. Candidate # NoSeg
    BY <2>1, CandidateIsPlanned, SegmentAssumption DEF Here, Segs, NoSeg
  <2>3. Candidate' = Candidate /\ plan' = plan /\ glimpsed' = glimpsed
    BY DEF deleter, Candidate
  <2> QED BY <2>1, <2>2, <2>3 DEF CheckFits
<1>2. Here \subseteq Here' /\ SeenMarks' = SeenMarks /\ \A r \in Segs : place'[r] = "none" => place[r] = "none"
  <2>1. CASE UNCHANGED place
    BY <2>1 DEF deleter, Here, SeenMarks
  <2>2. ASSUME NEW s \in Segs, place[s] = "none", SetPlace(s, "here")
        PROVE  Here \subseteq Here' /\ SeenMarks' = SeenMarks /\ \A r \in Segs : place'[r] = "none" => place[r] = "none"
    <3>1. Here' = Here \cup {s} /\ delCache[s] = "unread"
      BY <2>2 DEF StoreInv, StoreTypeOK, SetPlace, Here, PassFits
    <3>2. SeenMarks' = SeenMarks
      BY <3>1 DEF SeenMarks, deleter
    <3>3. \A r \in Segs : place'[r] = "none" => place[r] = "none"
      BY <2>2 DEF StoreInv, StoreTypeOK, SetPlace
    <3> QED BY <3>1, <3>2, <3>3
  <2> QED BY <2>1, <2>2
<1>3. Newest(SeenMarks)' = Newest(SeenMarks)
  BY <1>2 DEF Newest
<1>4. \A r \in Segs, s \in Newest(SeenMarks) : SameRoute(r, s)' <=> SameRoute(r, s)
  <2>1. ASSUME NEW r \in Segs, NEW s \in Newest(SeenMarks) PROVE ~(r < opened /\ opened <= s)
    <3>1. s \in Segs /\ place[s] = "here"
      BY DEF Newest, SeenMarks, Here
    <3> QED BY <3>1, SegmentAssumption DEF StoreInv, StoreTypeOK, RecorderFits, Segs, NoSeg
  <2> QED BY <2>1 DEF SameRoute
<1>5. SparedBy(Newest(SeenMarks))' = SparedBy(Newest(SeenMarks))
  BY <1>3, <1>4 DEF SparedBy
<1>6. PassFits'
  BY <1>2, <1>5 DEF StoreInv, PassFits, deleter
<1> QED BY <1>1, <1>6

LEMMA RemoveLockKeeps == ASSUME StoreInv, RemoveLock PROVE StoreInv'
<1>1. StoreTypeOK'
  BY SegmentAssumption DEF StoreInv, RemoveLock, StoreTypeOK, RecorderFits, uploader, deleter, New, Segs, NoSeg
<1>2. RecorderFits' /\ LocksHold'
  BY SegmentAssumption DEF StoreInv, RemoveLock, StoreTypeOK, RecorderFits, LocksHold, deleter, New, Older, Segs, NoSeg
<1>3. UploadsFit'
  BY DEF StoreInv, RemoveLock, UploadsFit, SentWhole, uploader
<1>4. PassFits' /\ CheckFits'
  BY PassStays DEF RemoveLock
<1> QED BY <1>1, <1>2, <1>3, <1>4 DEF StoreInv

LEMMA MakeDirectoryKeeps == ASSUME StoreInv, MakeDirectory PROVE StoreInv'
<1> opened \in Segs /\ place[opened] = "none" /\ New' = opened /\ opened' = opened + 1 /\ opened \in Nat
  BY SegmentAssumption DEF StoreInv, StoreTypeOK, MakeDirectory, RecorderFits, New, Segs, NoSeg
<1>1. StoreTypeOK'
  BY SegmentAssumption DEF StoreInv, MakeDirectory, SetPlace, StoreTypeOK, uploader, deleter, Segs, NoSeg
<1>2. RecorderFits' /\ LocksHold'
  BY SegmentAssumption
     DEF StoreInv, MakeDirectory, SetPlace, StoreTypeOK, RecorderFits, LocksHold, deleter, Older, Segs, NoSeg
<1>3. UploadsFit'
  BY DEF StoreInv, MakeDirectory, UploadsFit, SentWhole, uploader
<1>4. PassFits' /\ CheckFits'
  BY PassStays DEF MakeDirectory
<1> QED BY <1>1, <1>2, <1>3, <1>4 DEF StoreInv

LEMMA LockNewKeeps == ASSUME StoreInv, LockNew \/ NewIsGone \/ NoVideo PROVE StoreInv'
<1> New \in Segs
  BY SegmentAssumption DEF StoreInv, StoreTypeOK, RecorderFits, New, Segs, NoSeg
<1>1. StoreTypeOK'
  <2>1. current' \in 0 .. NoSeg
    BY SegmentAssumption DEF StoreInv, LockNew, NewIsGone, NoVideo, StoreTypeOK, NoSeg
  <2> QED BY <2>1 DEF StoreInv, LockNew, NewIsGone, NoVideo, StoreTypeOK, uploader, deleter
<1>2. RecorderFits' /\ LocksHold'
  BY DEF StoreInv, LockNew, NewIsGone, NoVideo, StoreTypeOK, RecorderFits, LocksHold, deleter, New, Older
<1>3. UploadsFit'
  BY DEF StoreInv, LockNew, NewIsGone, NoVideo, UploadsFit, SentWhole, uploader
<1>4. PassFits' /\ CheckFits'
  BY PassStays DEF LockNew, NewIsGone, NoVideo
<1> QED BY <1>1, <1>2, <1>3, <1>4 DEF StoreInv

LEMMA CloseLogsKeeps == ASSUME StoreInv, CloseLogs PROVE StoreInv'
<1> New \in Segs /\ New # NoSeg /\ New' = New /\ New < opened /\ New \notin logged
  BY SegmentAssumption DEF StoreInv, StoreTypeOK, RecorderFits, CloseLogs, New, Segs, NoSeg
<1>1. StoreTypeOK'
  BY SegmentAssumption DEF StoreInv, CloseLogs, StoreTypeOK, uploader, deleter, Segs, NoSeg
<1>2. RecorderFits'
  <2>1. ASSUME NEW s \in logged PROVE s = current \/ s \in whole \/ Older(s)
    BY <2>1 DEF StoreInv, CloseLogs, RecorderFits, Older
  <2>2. \A s : Older(s)' <=> Older(s)
    BY DEF CloseLogs, Older
  <2> QED BY <2>1, <2>2 DEF StoreInv, CloseLogs, StoreTypeOK, RecorderFits
<1>3. LocksHold'
  BY DEF StoreInv, CloseLogs, StoreTypeOK, RecorderFits, LocksHold, deleter
<1>4. UploadsFit'
  BY DEF StoreInv, CloseLogs, UploadsFit, SentWhole, uploader
<1>5. PassFits' /\ CheckFits'
  BY PassStays DEF CloseLogs
<1> QED BY <1>1, <1>2, <1>3, <1>4, <1>5 DEF StoreInv

LEMMA NextVideoKeeps ==
  ASSUME StoreInv, NextVideo \/ CamerasDie \/ Preserve PROVE StoreInv'
<1>1. StoreTypeOK'
  <2>1. closing = "recording" => current \in Segs
    BY SegmentAssumption DEF StoreInv, StoreTypeOK, RecorderFits, New, Segs, NoSeg
  <2>2. upsets' \in 0 .. MaxUpsets
    BY SegmentAssumption DEF StoreInv, NextVideo, CamerasDie, Preserve, Upset, StoreTypeOK
  <2>3. cameras' \in BOOLEAN
    BY DEF StoreInv, NextVideo, CamerasDie, Preserve, StoreTypeOK
  <2> QED BY <2>1, <2>2, <2>3 DEF StoreInv, NextVideo, CamerasDie, Preserve, StoreTypeOK, uploader, deleter
<1>2. ASSUME NextVideo PROVE RecorderFits' /\ LocksHold'
  <2>1. current = New /\ current # NoSeg /\ current \in logged
    BY <1>2, SegmentAssumption DEF StoreInv, NextVideo, StoreTypeOK, RecorderFits, New, NoSeg
  <2>2. RecorderFits'
    BY <1>2 DEF StoreInv, NextVideo, RecorderFits, New, Older
  <2>3. LocksHold'
    BY <1>2, <2>1 DEF StoreInv, NextVideo, RecorderFits, LocksHold, deleter
  <2> QED BY <2>2, <2>3
<1>2a. ASSUME CamerasDie \/ Preserve PROVE RecorderFits' /\ LocksHold'
  BY <1>2a DEF StoreInv, CamerasDie, Preserve, RecorderFits, LocksHold, deleter, New, Older
<1>3. UploadsFit'
  BY DEF StoreInv, StoreTypeOK, NextVideo, CamerasDie, Preserve, Upset, UploadsFit, SentWhole, uploader
<1>4. PassFits' /\ CheckFits'
  BY PassStays DEF NextVideo, CamerasDie, Preserve
<1> QED BY <1>1, <1>2, <1>2a, <1>3, <1>4 DEF StoreInv

LEMMA StopKeeps == ASSUME StoreInv, Stop \/ CloseAll \/ LoggerDies \/ LoggerStarts PROVE StoreInv'
<1> closing \in {"recording", "stopping"} => current \in Segs
  BY SegmentAssumption DEF StoreInv, StoreTypeOK, RecorderFits, New, Segs, NoSeg
<1>1. StoreTypeOK'
  <2>1. current' \in 0 .. NoSeg /\ upsets' \in 0 .. MaxUpsets /\ (closing = "stopped" /\ opened <= LastSeg => opened \in Segs)
    BY SegmentAssumption DEF StoreInv, Stop, CloseAll, LoggerDies, LoggerStarts, Upset, StoreTypeOK, Segs, NoSeg
  <2>2. cameras' \in BOOLEAN
    BY DEF StoreInv, Stop, CloseAll, LoggerDies, LoggerStarts, StoreTypeOK
  <2> QED BY <2>1, <2>2 DEF StoreInv, Stop, CloseAll, LoggerDies, LoggerStarts, StoreTypeOK, uploader, deleter
<1>2. ASSUME Stop \/ LoggerDies PROVE RecorderFits' /\ LocksHold'
  BY <1>2 DEF StoreInv, Stop, LoggerDies, RecorderFits, LocksHold, deleter, New, Older
<1>2a. ASSUME CloseAll PROVE RecorderFits' /\ LocksHold'
  <2>1. current # NoSeg /\ closing = "stopping" /\ current \in logged
    BY <1>2a, SegmentAssumption DEF StoreInv, CloseAll, RecorderFits, Segs, NoSeg
  <2>2. RecorderFits'
    BY <1>2a, <2>1 DEF StoreInv, CloseAll, RecorderFits, Older
  <2>3. LocksHold'
    BY <1>2a, <2>1 DEF StoreInv, CloseAll, RecorderFits, LocksHold, deleter, Older
  <2> QED BY <2>2, <2>3
<1>2b. ASSUME LoggerStarts PROVE RecorderFits' /\ LocksHold'
  BY <1>2b DEF StoreInv, LoggerStarts, RecorderFits, LocksHold, deleter
<1>3. UploadsFit'
  BY DEF StoreInv, StoreTypeOK, Stop, CloseAll, LoggerDies, LoggerStarts, Upset, RecorderFits, UploadsFit, SentWhole,
         uploader
<1>4. PassFits' /\ CheckFits'
  BY PassStays DEF Stop, CloseAll, LoggerDies, LoggerStarts
<1> QED BY <1>1, <1>2, <1>2a, <1>2b, <1>3, <1>4 DEF StoreInv

\* The steps of the uploader leave what the recorder goes by.
LEMMA RecorderStays ==
  ASSUME StoreInv, UNCHANGED <<place, recorder, deleter, early>>
  PROVE  RecorderFits' /\ LocksHold' /\ PassFits' /\ CheckFits'
<1>1. RecorderFits' /\ LocksHold'
  BY DEF StoreInv, recorder, deleter, RecorderFits, LocksHold, New, Older
<1>2. UNCHANGED <<place, preserve, early, logged, current, starts>> /\ UNCHANGED deleter
  BY DEF recorder
<1> QED BY <1>1, <1>2, PassStays

LEMMA NextFileKeeps == ASSUME StoreInv, NextFile PROVE StoreInv'
<1> DEFINE left == {s \in Unlocked : upCache'[s] = "no"}
<1>0. left \subseteq Segs /\ left # {} /\ sending' = Min(left)
  BY DEF NextFile, Unlocked, Here
<1>1. sending' \in left
  BY <1>0, OldestIsIn
<1>2. sending' \in Segs /\ sending' \in logged /\ sending' \notin rlock /\ sending' \notin vlock
      /\ upCache'[sending'] = "no"
  BY <1>1 DEF Unlocked, Here, Locked
<1> HIDE DEF left
<1>3. /\ upCache' \in [Segs -> Cached]
      /\ \A s \in Segs : upCache'[s] = "no" => s \notin tagged
  BY DEF NextFile, Reads, StoreInv, StoreTypeOK, Cached, UploadsFit
<1>4. StoreTypeOK'
  <2>1. sending' \in 0 .. NoSeg
    BY <1>2, SegmentAssumption DEF Segs, NoSeg
  <2> QED BY <1>3, <2>1 DEF StoreInv, NextFile, StoreTypeOK, recorder, deleter
<1>5. RecorderFits' /\ LocksHold' /\ PassFits' /\ CheckFits'
  BY RecorderStays DEF NextFile
<1>6. UploadsFit'
  <2>1. SentWhole'
    BY <1>2 DEF StoreInv, LocksHold, UploadsFit, SentWhole, NextFile, recorder
  <2>2. ~answered
    BY SegmentAssumption DEF StoreInv, UploadsFit, NextFile, Segs, NoSeg
  <2> QED BY <2>1, <2>2, <1>2, <1>3 DEF StoreInv, UploadsFit, NextFile
<1> QED BY <1>4, <1>5, <1>6 DEF StoreInv

LEMMA SendKeeps == ASSUME StoreInv, Accepted \/ Tag \/ TagFails \/ Refused PROVE StoreInv'
<1>1. StoreTypeOK'
  <2>1. sending' \in 0 .. NoSeg /\ upsets' \in 0 .. MaxUpsets
    BY SegmentAssumption DEF StoreInv, Accepted, Tag, TagFails, Forgets, Refused, Upset, StoreTypeOK, NoSeg
  <2>2. upCache' \in [Segs -> Cached]
    BY DEF StoreInv, Accepted, Tag, TagFails, Forgets, Refused, StoreTypeOK, Cached
  <2>3. times' \in [Segs -> 0 .. 2] /\ tagged' \subseteq Segs /\ untagged' \subseteq Segs
    BY DEF StoreInv, Accepted, Tag, TagFails, Forgets, Refused, Sent, StoreTypeOK, UploadsFit, Here
  <2>4. answered' \in BOOLEAN
    BY DEF StoreInv, Accepted, Tag, TagFails, Forgets, Refused, StoreTypeOK
  <2> QED BY <2>1, <2>2, <2>3, <2>4
          DEF StoreInv, Accepted, Tag, TagFails, Forgets, Refused, StoreTypeOK, recorder, deleter
<1>2. RecorderFits' /\ LocksHold' /\ PassFits' /\ CheckFits'
  BY RecorderStays DEF Accepted, Tag, TagFails, Refused
<1>3. UploadsFit'
  <2>0. NoSeg \notin Segs /\ whole' = whole /\ early' = early
    BY SegmentAssumption DEF NoSeg, Segs, Accepted, Tag, TagFails, Refused, recorder
  <2>1. CASE Accepted
    <3>1. sending \in Segs /\ sending \notin tagged
      BY <2>1, SegmentAssumption DEF StoreInv, StoreTypeOK, UploadsFit, Accepted, NoSeg, Segs
    <3>2. SentWhole'
      BY <2>0, <2>1, <3>1 DEF StoreInv, StoreTypeOK, UploadsFit, SentWhole, Accepted, Sent
    <3> QED BY <2>1, <3>1, <3>2 DEF StoreInv, StoreTypeOK, UploadsFit, Accepted, Sent
  <2>2. CASE Tag \/ TagFails
    <3>1. answered /\ sending \in Segs /\ sending' \notin Segs /\ answered' = FALSE
      BY <2>0, <2>2 DEF StoreInv, UploadsFit, Tag, TagFails, Forgets
    <3>2. SentWhole'
      BY <2>0, <2>2, <3>1 DEF StoreInv, StoreTypeOK, UploadsFit, SentWhole, Tag, TagFails
    <3> QED BY <2>2, <3>1, <3>2 DEF StoreInv, StoreTypeOK, UploadsFit, Tag, TagFails, Forgets
  <2>3. CASE Refused
    BY <2>0, <2>3 DEF StoreInv, UploadsFit, SentWhole, Refused
  <2> QED BY <2>1, <2>2, <2>3
<1> QED BY <1>1, <1>2, <1>3 DEF StoreInv

LEMMA UploaderStartsKeeps == ASSUME StoreInv, UploaderStarts PROVE StoreInv'
<1>1. StoreTypeOK'
  <2>1. sending' \in 0 .. NoSeg /\ upsets' \in 0 .. MaxUpsets
    BY SegmentAssumption DEF StoreInv, UploaderStarts, Upset, StoreTypeOK, NoSeg
  <2>2. untagged' \subseteq Segs /\ early' \subseteq Segs /\ answered' = FALSE
    BY DEF StoreInv, UploaderStarts, StoreTypeOK, UploadsFit, Locked
  <2>3. upCache' \in [Segs -> Cached]
    BY DEF UploaderStarts, Cached
  <2> QED BY <2>1, <2>2, <2>3 DEF StoreInv, UploaderStarts, StoreTypeOK, deleter
<1>2. RecorderFits'
  BY DEF StoreInv, UploaderStarts, RecorderFits, New, Older
<1>3. LocksHold'
  <2>1. closing = "locked" => New \notin whole
    BY SegmentAssumption DEF StoreInv, StoreTypeOK, RecorderFits, New, Segs, NoSeg
  <2> QED BY <2>1 DEF StoreInv, StoreTypeOK, UploaderStarts, RecorderFits, LocksHold, Locked, deleter, New
<1>4. UploadsFit'
  BY SegmentAssumption
     DEF StoreInv, StoreTypeOK, UploaderStarts, Upset, UploadsFit, SentWhole, Segs, NoSeg
<1>5. PassFits' /\ CheckFits'
  BY PassStays DEF UploaderStarts
<1> QED BY <1>1, <1>2, <1>3, <1>4, <1>5 DEF StoreInv

LEMMA ScanKeeps == ASSUME StoreInv, Scan PROVE StoreInv'
<1>1. /\ delCache' \in [Segs -> Cached]
      /\ \A s \in Segs : /\ delCache'[s] = "yes" => s \in preserve
                         /\ s \in Here => delCache'[s] # "unread"
                         /\ s \notin Here => delCache'[s] = delCache[s]
  BY DEF Scan, Reads, StoreInv, StoreTypeOK, Cached, PassFits
<1>2. spared' \subseteq Segs /\ spared' = SparedBy(Newest(SeenMarks))'
  <2>1. SeenMarks' = {s \in Here : delCache'[s] = "yes"} /\ starts' = starts
    BY DEF Scan, recorder, SeenMarks, Here
  <2>2. Newest(SeenMarks)' = Newest({s \in Here : delCache'[s] = "yes"})
    BY <2>1 DEF Newest
  <2>3. \A r, s : SameRoute(r, s)' <=> SameRoute(r, s)
    BY <2>1 DEF SameRoute
  <2>4. SparedBy(Newest(SeenMarks))' = SparedBy(Newest({s \in Here : delCache'[s] = "yes"}))
    BY <2>2, <2>3 DEF SparedBy
  <2>5. spared' = SparedBy(Newest({s \in Here : delCache'[s] = "yes"}))
    BY DEF Scan
  <2> QED BY <2>4, <2>5 DEF SparedBy
<1>3. StoreTypeOK'
  BY <1>1, <1>2 DEF StoreInv, Scan, StoreTypeOK, recorder, uploader, Here, Segs
<1>4. RecorderFits' /\ LocksHold' /\ UploadsFit'
  BY DEF StoreInv, Scan, recorder, uploader, RecorderFits, LocksHold, UploadsFit, SentWhole, New, Older
<1>5. PassFits'
  <2>1. Here' = Here /\ plan' = Here /\ place' = place /\ preserve' = preserve
    BY DEF Scan, recorder, Here
  <2>2. \A s \in Segs : place[s] = "none" => delCache'[s] = "unread"
    BY <1>1 DEF StoreInv, PassFits, Here
  <2>3. \A s \in Here : s \in Segs
    BY DEF Here
  <2> QED BY <1>1, <1>2, <2>1, <2>2, <2>3 DEF PassFits
<1>6. CheckFits'
  BY DEF StoreInv, Scan, CheckFits
<1> QED BY <1>3, <1>4, <1>5, <1>6 DEF StoreInv

LEMMA PassesOverKeeps ==
  ASSUME StoreInv, PassesOver \/ EndsPass, UNCHANGED <<place, preserve, starts>>,
         \/ UNCHANGED delCache
         \/ EndsPass /\ delCache' = [s \in Segs |-> "unread"]
  PROVE  /\ PassFits' /\ CheckFits' /\ plan' \subseteq Segs /\ spared' \subseteq Segs
         /\ delCache' \in [Segs -> Cached] /\ checked' = FALSE
<1>1. plan' \subseteq plan /\ spared' \subseteq Segs /\ (plan' # {} => spared' = spared) /\ checked' = FALSE
  BY DEF PassesOver, EndsPass, StoreInv, StoreTypeOK
<1>2. CASE UNCHANGED delCache
  <2>1. Here' = Here /\ SeenMarks' = SeenMarks
    BY <1>2 DEF Here, SeenMarks
  <2> QED BY <1>1, <1>2, <2>1, SparedStays DEF StoreInv, StoreTypeOK, PassFits, CheckFits
<1>3. CASE EndsPass /\ delCache' = [s \in Segs |-> "unread"]
  BY <1>1, <1>3 DEF StoreInv, StoreTypeOK, PassFits, CheckFits, EndsPass, Cached
<1> QED BY <1>2, <1>3

LEMMA DeleterMovesOn ==
  ASSUME StoreInv, SkipLocked \/ DeleteFails \/ DeleterRestarts PROVE StoreInv'
<1>1. PassFits' /\ CheckFits' /\ plan' \subseteq Segs /\ spared' \subseteq Segs /\ delCache' \in [Segs -> Cached]
      /\ checked' = FALSE
  BY PassesOverKeeps DEF SkipLocked, DeleteFails, DeleterRestarts, recorder
<1>2. StoreTypeOK'
  <2>1. upsets' \in 0 .. MaxUpsets
    BY SegmentAssumption DEF StoreInv, SkipLocked, DeleteFails, DeleterRestarts, Upset, StoreTypeOK
  <2>2. glimpsed' = glimpsed
    BY DEF SkipLocked, DeleteFails, DeleterRestarts
  <2> QED BY <1>1, <2>1, <2>2
          DEF StoreInv, SkipLocked, DeleteFails, DeleterRestarts, StoreTypeOK, recorder, uploader
<1>3. RecorderFits' /\ LocksHold'
  BY DEF StoreInv, SkipLocked, DeleteFails, DeleterRestarts, recorder, uploader,
         RecorderFits, LocksHold, New, Older
<1>4. UploadsFit'
  BY DEF StoreInv, StoreTypeOK, SkipLocked, DeleteFails, DeleterRestarts, Upset, recorder, uploader,
         UploadsFit, SentWhole
<1> QED BY <1>1, <1>2, <1>3, <1>4 DEF StoreInv

LEMMA CheckKeeps == ASSUME StoreInv, Check PROVE StoreInv'
<1> DEFINE c == Candidate
<1>1. c \in Segs /\ c \notin rlock /\ c \notin vlock /\ c' = c
  BY CandidateIsPlanned DEF Check, Locked, Here, Candidate
<1>2. glimpsed' = glimpsed \cup ({c} \ logged) /\ checked' = TRUE /\ plan' = plan /\ plan # {}
  BY DEF Check
<1>3. c \in early \cup glimpsed' \/ (c \in logged /\ c # current)
  <2>1. c = current => c \in early \cup glimpsed
    <3>1. c # NoSeg
      BY <1>1, SegmentAssumption DEF Segs, NoSeg
    <3> QED BY <1>1, <3>1 DEF StoreInv, StoreTypeOK, RecorderFits, LocksHold
  <2> QED BY <1>2, <2>1
<1>4. CheckFits'
  BY <1>1, <1>2, <1>3 DEF CheckFits, Check, recorder
<1> HIDE DEF c
<1>5. StoreTypeOK'
  BY <1>1, <1>2 DEF StoreInv, Check, StoreTypeOK, recorder, uploader
<1>6. RecorderFits' /\ LocksHold' /\ UploadsFit'
  BY <1>2 DEF StoreInv, Check, recorder, uploader, RecorderFits, LocksHold, UploadsFit, SentWhole, New, Older
<1>7. PassFits'
  <2>1. Here' = Here /\ SeenMarks' = SeenMarks /\ starts' = starts
    BY DEF Check, recorder, Here, SeenMarks
  <2> QED BY <1>2, <2>1, SparedStays DEF StoreInv, Check, recorder, PassFits
<1> QED BY <1>4, <1>5, <1>6, <1>7 DEF StoreInv

LEMMA DeleteKeeps == ASSUME StoreInv, Delete PROVE StoreInv'
<1> DEFINE c == Candidate
<1>1. c \in Segs /\ place[c] = "here" /\ (c \in early \cup glimpsed \/ (c \in logged /\ c # current))
  BY CandidateIsPlanned DEF Delete, StoreInv, CheckFits, Here
<1>2. place' = [place EXCEPT ![c] = "gone"] /\ plan' = {} /\ spared' = {} /\ checked' = FALSE
  BY DEF Delete, SetPlace, EndsPass
<1> HIDE DEF c
<1>3. StoreTypeOK'
  BY <1>1, <1>2 DEF StoreInv, Delete, StoreTypeOK, recorder, uploader
<1>4. RecorderFits' /\ LocksHold'
  BY <1>1, <1>2, SegmentAssumption
     DEF StoreInv, StoreTypeOK, Delete, recorder, RecorderFits, LocksHold, New, Older, Segs, NoSeg
<1>5. UploadsFit' /\ PassFits' /\ CheckFits'
  BY <1>1, <1>2
     DEF StoreInv, StoreTypeOK, Delete, recorder, uploader, UploadsFit, SentWhole, PassFits, CheckFits
<1> QED BY <1>3, <1>4, <1>5 DEF StoreInv

LEMMA StoreStep == StoreInv /\ [StoreNext]_storeVars => StoreInv'
<1>1. CASE Logger \/ Preserve \/ CamerasDie \/ LoggerDies \/ LoggerStarts
  BY <1>1, RemoveLockKeeps, MakeDirectoryKeeps, LockNewKeeps, CloseLogsKeeps, NextVideoKeeps, StopKeeps
     DEF Logger
<1>2. CASE NextFile \/ Accepted \/ Tag \/ TagFails \/ Refused \/ UploaderStarts
  BY <1>2, NextFileKeeps, SendKeeps, UploaderStartsKeeps
<1>3. CASE Pass \/ DeleteFails \/ DeleterRestarts
  BY <1>3, ScanKeeps, DeleterMovesOn, CheckKeeps, DeleteKeeps DEF Pass
<1>4. ASSUME StoreInv, UNCHANGED storeVars PROVE StoreInv'
  <2>1. UNCHANGED <<place, recorder, deleter, early>>
    BY <1>4 DEF storeVars, recorder, deleter
  <2>2. RecorderFits' /\ LocksHold' /\ PassFits' /\ CheckFits'
    BY <1>4, <2>1, RecorderStays
  <2>3. StoreTypeOK' /\ UploadsFit'
    BY <1>4 DEF storeVars, StoreInv, StoreTypeOK, UploadsFit, SentWhole
  <2> QED BY <2>2, <2>3 DEF StoreInv
<1> QED BY <1>1, <1>2, <1>3, <1>4 DEF StoreNext

\* Fewer segments above it: what is among the newest of many is so among some.
LEMMA NewestOfFewer ==
  ASSUME NEW S \in SUBSET Segs, NEW T \in SUBSET S, NEW s \in T, NEW r \in S,
         s \in Newest(S), s <= r
  PROVE  s \in Newest(T) /\ r \in Newest(S)
<1> DEFINE Above(U, x) == {q \in U : q > x}
<1>1. IsFiniteSet(Segs)
  BY FS_Interval, SegmentAssumption DEF Segs
<1>2. IsFiniteSet(Above(S, s))
  BY <1>1, FS_Subset
<1>3. Above(T, s) \subseteq Above(S, s) /\ Above(S, r) \subseteq Above(S, s)
  <2>1. \A q \in S : q \in Nat
    BY DEF Segs
  <2>2. \A q \in S : q > r => q > s
    BY <2>1
  <2> QED BY <2>2
<1>4. /\ Cardinality(Above(T, s)) <= Cardinality(Above(S, s))
      /\ Cardinality(Above(S, r)) <= Cardinality(Above(S, s))
  BY <1>2, <1>3, FS_Subset
<1>5. /\ Cardinality(Above(T, s)) \in Nat /\ Cardinality(Above(S, s)) \in Nat
      /\ Cardinality(Above(S, r)) \in Nat
  BY <1>2, <1>3, FS_Subset, FS_CardinalityType
<1>6. Cardinality(Above(S, s)) < PreserveCount
  BY DEF Newest
<1> QED BY <1>4, <1>5, <1>6, SegmentAssumption DEF Newest

\* The deleter takes a preserved segment only when nothing but such is left.
LEMMA SeenMarkStep ==
  ASSUME StoreInv, Delete, NEW s \in Newest(preserve \cap Here), Takes(s), delCache[s] # "no"
  PROVE  NothingElse
<1> DEFINE M == preserve \cap Here
<1>1. s \in Segs /\ s = Candidate /\ s \in plan /\ s \in M
  BY CandidateIsPlanned
     DEF Delete, SetPlace, Takes, Newest, Here, StoreInv, StoreTypeOK, CheckFits
<1>2. SeenMarks \subseteq M /\ s \in SeenMarks /\ M \subseteq Segs
  BY <1>1 DEF SeenMarks, StoreInv, StoreTypeOK, PassFits, Here, Cached
<1>3. s \in Newest(SeenMarks)
  BY <1>1, <1>2, NewestOfFewer, SegmentAssumption DEF Segs
<1>4. s \in spared /\ spared = SparedBy(Newest(SeenMarks))
  <2>1. s <= s /\ s <= s + 2 /\ SameRoute(s, s)
    BY <1>1, SegmentAssumption DEF StoreInv, StoreTypeOK, SameRoute, Segs
  <2> QED BY <1>1, <1>3, <2>1 DEF StoreInv, PassFits, SparedBy
<1>5. plan \subseteq spared
  <2>1. plan \ spared \subseteq Segs
    BY DEF StoreInv, StoreTypeOK
  <2> QED BY <1>1, <1>4, <2>1, OldestIsIn DEF Candidate
<1>6. \A p \in plan : s <= p
  BY <1>1, <1>5, OldestIsIn DEF Candidate, StoreInv, StoreTypeOK
<1>7. ASSUME NEW p \in plan PROVE p \in SparedBy(Newest(M))
  <2>1. PICK r \in Newest(SeenMarks) : p \in Segs /\ p <= r /\ r <= p + 2 /\ SameRoute(p, r)
    BY <1>4, <1>5 DEF SparedBy
  <2>2. r \in M /\ s <= r
    BY <1>1, <1>2, <1>6, <2>1, SegmentAssumption DEF Newest, Segs
  <2>3. r \in Newest(M)
    BY <1>1, <1>2, <2>2, NewestOfFewer
  <2> QED BY <2>1, <2>3 DEF SparedBy
<1> QED BY <1>7 DEF NothingElse

LEMMA SegmentsAreSafeThen ==
  StoreInv => StoreTypeOK /\ SentWhole /\ SentOnce /\ RecordingStays
<1> SUFFICES ASSUME StoreInv PROVE StoreTypeOK /\ SentWhole /\ SentOnce /\ RecordingStays
  OBVIOUS
<1>1. SentOnce
  BY SegmentAssumption DEF StoreInv, StoreTypeOK, UploadsFit, SentOnce
<1> QED BY <1>1 DEF StoreInv, UploadsFit, LocksHold, RecordingStays

\* A log is sent whole and not again once it is tagged, the segment that is recorded is not
\* removed unless the deleter looked at it before it had a lock, and a preserved one only
\* when there is nothing else to remove: for every number of segments and of preserved ones,
\* with loggerd, the uploader and the deleter at work at once and restarted at any time.
THEOREM SegmentsAreAlwaysSafe == StoreSpec => SegmentsAreSafe
<1> DEFINE MarkKept == \A s \in Newest(preserve \cap Here) :
                       Takes(s) /\ delCache[s] # "no" => NothingElse
<1>1. StoreInv /\ [StoreNext]_storeVars => [MarkKept]_storeVars
  <2> SUFFICES ASSUME StoreInv, StoreNext,
                      NEW s \in Newest(preserve \cap Here), Takes(s), delCache[s] # "no"
               PROVE  NothingElse
    OBVIOUS
  <2>1. CASE Delete
    BY <2>1, SeenMarkStep
  <2>2. CASE ~Delete
    <3>1. UNCHANGED place \/ MakeDirectory
      BY <2>2 DEF StoreNext, Logger, Pass, RemoveLock, LockNew, NewIsGone, CloseLogs, NextVideo,
                  NoVideo, Stop, CloseAll, Preserve, CamerasDie, LoggerDies, LoggerStarts, NextFile, Accepted,
                  Tag, TagFails, Refused, UploaderStarts, Scan, SkipLocked, Check, DeleteFails, DeleterRestarts
    <3>2. MakeDirectory => \A r \in Segs : place[r] = "here" => place'[r] = "here"
      BY DEF MakeDirectory, SetPlace, StoreInv, StoreTypeOK
    <3> QED BY <3>1, <3>2 DEF Takes, Newest, Here
  <2> QED BY <2>1, <2>2
<1>2. StoreSpec => []StoreInv
  BY StoreStarts, StoreStep, PTL DEF StoreSpec
<1>3. StoreSpec => [](StoreTypeOK /\ SentWhole /\ SentOnce /\ RecordingStays)
  BY <1>2, SegmentsAreSafeThen, PTL
<1>4. StoreSpec => [][MarkKept]_storeVars
  BY <1>1, <1>2, PTL DEF StoreSpec
<1> QED BY <1>3, <1>4 DEF SegmentsAreSafe, SeenMarkIsKept

-----------------------------------------------------------------------------
(* The rotation of loggerd. What its counts promise needs that ready is at   *)
(* most the number of encoders that are marked and begin a newer segment     *)
(* (Counted); that packets are in place while nothing fails needs how far    *)
(* each encoder may be from the segment: all ahead of it, with those that    *)
(* have sent waiting, or all level with it, some with a packet that waits.   *)

\* the number of the packet that e sends now, as loggerd counts
Number(e) == num[e] - re[e].offset
Seen == {e \in Encoders : re[e].seen}
Unfailed == failures = MaxFailures

\* who has begun a newer segment and is known to; each is counted once since the rotation
Begun == {e \in Seen : re[e].marked /\ Number(e) > segment}

\* an encoder that writes the segment, one whose next packet begins it, after a rotation
\* that waited for all or one that went by the clock
Settled(e) == re[e].current = segment /\ ~re[e].marked /\ re[e].q = <<>>
Follows(e) ==
    /\ re[e].current = segment - 1 /\ re[e].marked /\ re[e].q = <<segment>>
    /\ (age[e] = 0 /\ sent = Encoders) \/ (age[e] = 1 /\ e \notin sent)
Opens(e) == re[e].current = segment - 1 /\ ~re[e].marked /\ re[e].q = <<>> /\ e \notin sent /\ age[e] = 0

\* the encoders have rolled over, and loggerd has not
Ahead(e) ==
    /\ age[e] = 0 /\ Number(e) = segment + 1 /\ re[e].current = segment
    /\ (re[e].marked <=> e \in sent) /\ re[e].q = IF e \in sent THEN <<segment + 1>> ELSE <<>>

AllAhead == Seen = Encoders /\ sent # Encoders /\ ready = Cardinality(sent) /\ elapsed <= SegLength
            /\ \A e \in Encoders : Ahead(e)
AllLevel == ready = 0
            /\ \A e \in Seen : /\ Number(e) = segment /\ elapsed <= age[e]
                               /\ Settled(e) \/ Follows(e) \/ Opens(e)

Quiet(e) == silence[e] <= IF re[e].seen /\ Follows(e) THEN age[e] + 1
                          ELSE IF e \in sent /\ Number(e) = segment THEN 0 ELSE 1

InLockstep ==
    Unfailed =>
      /\ alive = Encoders /\ mic /\ (AllAhead \/ AllLevel)
      /\ \A e, f \in Encoders : num[e] = num[f] /\ age[e] = age[f]
      /\ \A e \in Encoders : age[e] < SegLength /\ Quiet(e) /\ written[e] # "wrong"
      /\ Seen # Encoders => segment = 0 /\ elapsed = 0 /\ \A e \in Encoders \ Seen : re[e] = Fresh

\* an encoder that has reached SEGMENT_LENGTH begins a new segment
AgedBelow == \A e \in Encoders : age[e] < SegLength

Counted == MaxFailures - failures <= 1 => ready <= Cardinality(Begun)

RemoteEncoder == [seen : BOOLEAN, offset : Int, current : Int, q : Seq(Int), marked : BOOLEAN, audio : BOOLEAN]

LogInv ==
    /\ LogTypeOK /\ re \in [Encoders -> RemoteEncoder]
    /\ sent \subseteq Seen /\ waiting = Cardinality(Seen)
    /\ AgedBelow /\ InLockstep /\ Counted

-----------------------------------------------------------------------------
LEMMA LoggedFinite ==
  ASSUME NEW S \in SUBSET Encoders
  PROVE  IsFiniteSet(S) /\ Cardinality(S) \in Nat /\ Cardinality(S) <= Cardinality(Encoders)
         /\ (Cardinality(S) = Cardinality(Encoders) => S = Encoders)
<1>1. IsFiniteSet(Encoders)
  BY LoggerdAssumption
<1> QED BY <1>1, FS_Subset, FS_CardinalityType

LEMMA KeptQueue ==
  ASSUME NEW q \in Seq(Int), Len(q) <= MaxQueue + 1, NEW n \in Int
  PROVE  Keep(q, n) \in Seq(Int) /\ Len(Keep(q, n)) <= MaxQueue + 1
         /\ (q = <<>> => Keep(q, n) = <<n>>)
<1>1. MaxQueue \in Nat
  BY LoggerdAssumption
<1>2. Len(q) \in Nat /\ Append(q, n) \in Seq(Int) /\ Len(Append(q, n)) = Len(q) + 1
  OBVIOUS
<1>3. Len(<<>>) = 0 /\ Append(<<>>, n) = <<n>>
  OBVIOUS
<1>4. CASE q = <<>>
  <2>1. ~(Len(q) > MaxQueue) /\ Append(q, n) = <<n>>
    BY <1>1, <1>3, <1>4
  <2>2. Keep(q, n) = Append(q, n)
    BY <2>1 DEF Keep
  <2>3. Len(q) = 0
    BY <1>3, <1>4
  <2>4. Len(Append(q, n)) <= MaxQueue + 1
    BY <1>1, <1>2, <2>3
  <2> QED BY <1>2, <2>1, <2>2, <2>4
<1>5. CASE q # <<>>
  BY <1>1, <1>2, <1>5 DEF Keep
<1> QED BY <1>4, <1>5

LEMMA AppendedOne ==
  ASSUME NEW n \in Int, NEW q \in Seq(Int)
  PROVE  /\ Append(q, n) \in Seq(Int) /\ Len(Append(q, n)) = Len(q) + 1
         /\ Append(q, n)[Len(q) + 1] = n
         /\ \A i \in 1 .. Len(q) : Append(q, n)[i] = q[i]
  OBVIOUS

LEMMA AppendedSame ==
  ASSUME NEW n \in Int, NEW q \in Seq(Int), Len(q) = 1, q[1] = n
  PROVE  \A i \in DOMAIN Append(q, n) : Append(q, n)[i] = n
<1>1. /\ Append(q, n) \in Seq(Int) /\ Len(Append(q, n)) = Len(q) + 1
      /\ Append(q, n)[Len(q) + 1] = n
      /\ \A i \in 1 .. Len(q) : Append(q, n)[i] = q[i]
  BY AppendedOne
<1>2. DOMAIN Append(q, n) = 1 .. 2
  BY <1>1
<1>3. Append(q, n)[1] = n /\ Append(q, n)[2] = n
  BY <1>1
<1> QED BY <1>2, <1>3

\* What rotate_if_needed leaves.
LEMMA Rotated ==
  ASSUME NEW r, NEW w, NEW c, RotateIfNeeded(r, w, c)
  PROVE  \/ segment' = segment + 1 /\ elapsed' = 0 /\ ready' = 0 /\ (AllReady(r, w) \/ MayTimeOut(c))
         \/ /\ segment' = segment /\ elapsed' = elapsed /\ ready' = r
            /\ ~AllReady(r, w) /\ ~MustTimeOut(c)
BY DEF RotateIfNeeded, Rotates

\* What a packet of e does to what loggerd knows of e: f is the RemoteEncoder that
\* handle_encoder_msg works on.
First(e) == IF re[e].seen THEN re[e] ELSE [re[e] EXCEPT !.seen = TRUE, !.offset = num[e]]
Newer(e) == num[e] - First(e).offset > segment
Newly(e) == IF Newer(e) /\ ~re[e].marked THEN 1 ELSE 0

LEMMA PacketEffect ==
  ASSUME LogInv, NEW e \in Encoders, Packet(e)
  PROVE  LET f == First(e)
             n == num[e] - f.offset
         IN  /\ f \in RemoteEncoder /\ f.seen /\ f.offset = (IF re[e].seen THEN re[e].offset ELSE num[e])
             /\ f.current = re[e].current /\ f.marked = re[e].marked /\ f.q = re[e].q
             /\ n \in Int /\ (~re[e].seen => n = 0)
             /\ e \in alive \ sent /\ sent' = sent \cup {e} /\ UNCHANGED encoderd
             /\ Seen' = Seen \cup {e} /\ waiting' = Cardinality(Seen')
             /\ re' \in [Encoders -> RemoteEncoder] /\ (\A x \in Encoders \ {e} : re'[x] = re[x])
             /\ re'[e].seen /\ re'[e].current \in {segment, re[e].current} /\ Len(re'[e].q) <= MaxQueue + 1
             /\ n = segment => /\ re'[e].offset = f.offset /\ re'[e].current = segment
                               /\ re'[e].marked <=> (re[e].current = segment /\ re[e].marked)
                               /\ mic => /\ re'[e].q = <<>>
                                         /\ written' = [written EXCEPT ![e] = InPlace(Append(re[e].q, n))]
                                         /\ silence' = [silence EXCEPT ![e] = 0]
             /\ n > segment => /\ re'[e].offset = f.offset /\ re'[e].current = re[e].current
                               /\ re'[e].marked /\ re'[e].q = Keep(re[e].q, n) /\ NotWritten
             /\ n < segment => /\ re'[e].marked = re[e].marked
             /\ \/ silence' = silence \/ silence' = [silence EXCEPT ![e] = 0]
             /\ RotateIfNeeded(ready + Newly(e), Cardinality(Seen'), TRUE)
<1> DEFINE f == First(e)
           n == num[e] - f.offset
<1>1. /\ re[e] \in RemoteEncoder /\ re \in [Encoders -> RemoteEncoder] /\ num[e] \in Nat /\ segment \in Nat
      /\ Len(re[e].q) <= MaxQueue + 1 /\ mic \in BOOLEAN
  BY DEF LogInv, LogTypeOK
<1>2. /\ f \in RemoteEncoder /\ f.seen /\ f.offset = (IF re[e].seen THEN re[e].offset ELSE num[e])
      /\ f.current = re[e].current /\ f.marked = re[e].marked /\ f.q = re[e].q /\ f.audio = re[e].audio
  <2>1. CASE re[e].seen
    BY <1>1, <2>1 DEF First
  <2>2. CASE ~re[e].seen
    <3>1. f = [re[e] EXCEPT !.seen = TRUE, !.offset = num[e]]
      BY <2>2 DEF First
    <3>2. num[e] \in Int
      BY <1>1
    <3> QED BY <1>1, <2>2, <3>1, <3>2 DEF RemoteEncoder
  <2> QED BY <2>1, <2>2
<1>3. n \in Int /\ (~re[e].seen => n = 0)
  BY <1>1, <1>2 DEF RemoteEncoder
<1>4. /\ e \in alive \ sent /\ sent' = sent \cup {e} /\ waiting' = waiting + IF re[e].seen THEN 0 ELSE 1
      /\ \/ n = segment /\ SameSegment(e, f, n)
         \/ n > segment /\ NewerSegment(e, f, n)
         \/ n < segment /\ OlderSegment(e, f)
      /\ RotateIfNeeded(ready + IF n > segment /\ FirstOfNewer(e) THEN 1 ELSE 0,
                        waiting + IF re[e].seen THEN 0 ELSE 1, TRUE)
      /\ UNCHANGED encoderd
  BY DEF Packet, First
<1> HIDE DEF f, n
<1>5. Newly(e) = IF n > segment /\ FirstOfNewer(e) THEN 1 ELSE 0
  BY DEF Newly, Newer, FirstOfNewer, f, n
<1> DEFINE Effect(g) ==
             /\ g \in RemoteEncoder /\ g.seen /\ Len(g.q) <= MaxQueue + 1
             /\ g.current \in {segment, re[e].current}
             /\ n = segment => /\ g.offset = f.offset /\ g.current = segment
                               /\ g.marked <=> (re[e].current = segment /\ re[e].marked)
                               /\ mic => g.q = <<>>
             /\ n > segment => g.offset = f.offset /\ g.current = re[e].current /\ g.marked /\ g.q = Keep(re[e].q, n)
             /\ n < segment => g.marked = re[e].marked
<1>6. \E g : /\ re' = [re EXCEPT ![e] = g] /\ Effect(g)
             /\ \/ NotWritten
                \/ n = segment /\ Write(e, InPlace(Append(re[e].q, n)))
             /\ mic /\ n = segment => Write(e, InPlace(Append(re[e].q, n)))
  <2>0. re[e].marked \in BOOLEAN /\ re[e].q \in Seq(Int) /\ segment \in Int /\ f.offset \in Int
        /\ re[e].audio \in BOOLEAN /\ f.audio \in BOOLEAN /\ re[e].current \in Int
    BY <1>1, <1>2 DEF RemoteEncoder
  <2>k. /\ Keep(re[e].q, n) \in Seq(Int) /\ Len(Keep(re[e].q, n)) <= MaxQueue + 1
    BY <1>1, <1>3, <2>0, KeptQueue
  <2>1. CASE n = segment /\ SameSegment(e, f, n)
    <3> DEFINE new == f.current # segment
               s == [f EXCEPT !.current = segment, !.marked = IF new THEN FALSE ELSE @,
                              !.audio = IF new THEN mic ELSE @ \/ mic]
    <3>1. /\ s \in RemoteEncoder /\ s.seen /\ s.offset = f.offset /\ s.current = segment /\ s.q = re[e].q
          /\ (s.marked <=> (re[e].current = segment /\ re[e].marked)) /\ (mic => s.audio)
      <4>1. s.offset = f.offset /\ s.current = segment /\ s.q = f.q /\ s.seen = f.seen
            /\ s.marked = (IF new THEN FALSE ELSE f.marked) /\ s.audio = (IF new THEN mic ELSE f.audio \/ mic)
        BY <1>2 DEF RemoteEncoder
      <4>2. s.marked \in BOOLEAN /\ (s.marked <=> (re[e].current = segment /\ re[e].marked))
        <5>1. CASE new
          BY <1>2, <4>1, <5>1
        <5>2. CASE ~new
          BY <1>2, <2>0, <4>1, <5>2
        <5> QED BY <5>1, <5>2
      <4>3. s.audio \in BOOLEAN /\ (mic => s.audio)
        BY <1>1, <2>0, <4>1, Zenon
      <4>4. s \in RemoteEncoder
        BY <1>2, <2>0, <4>2, <4>3, <4>1 DEF RemoteEncoder
      <4> QED BY <1>2, <4>1, <4>2, <4>3, <4>4
    <3>2. IF s.audio \/ e \notin WithAudio
          THEN re' = [re EXCEPT ![e] = [s EXCEPT !.q = <<>>]] /\ Write(e, InPlace(Append(s.q, n)))
          ELSE re' = [re EXCEPT ![e] = [s EXCEPT !.q = Keep(@, n)]] /\ NotWritten
      BY <2>1, Zenon DEF SameSegment
    <3> HIDE DEF s
    <3>3. ASSUME NEW q \in Seq(Int), Len(q) <= MaxQueue + 1, mic => q = <<>>
          PROVE  Effect([s EXCEPT !.q = q])
      <4>1. [s EXCEPT !.q = q] \in RemoteEncoder /\ [s EXCEPT !.q = q].seen /\ [s EXCEPT !.q = q].q = q
            /\ [s EXCEPT !.q = q].offset = s.offset /\ [s EXCEPT !.q = q].current = s.current
            /\ [s EXCEPT !.q = q].marked = s.marked
        BY <3>1, <3>3 DEF RemoteEncoder
      <4>2. ~(n > segment) /\ ~(n < segment)
        BY <1>1, <1>3, <2>1
      <4>3. n = segment
        BY <2>1
      <4>4. [s EXCEPT !.q = q].marked <=> (re[e].current = segment /\ re[e].marked)
        <5>1. s.marked <=> (re[e].current = segment /\ re[e].marked)
          BY <3>1
        <5>2. [s EXCEPT !.q = q].marked = s.marked
          BY <4>1
        <5> HIDE DEF Effect
        <5> QED BY <5>1, <5>2
      <4>5. [s EXCEPT !.q = q].current = segment /\ [s EXCEPT !.q = q].offset = f.offset /\ [s EXCEPT !.q = q].q = q
        BY <3>1, <4>1
      <4> QED BY <3>3, <4>1, <4>2, <4>4, <4>5
    <3>4. CASE s.audio \/ e \notin WithAudio
      <4>1. <<>> \in Seq(Int) /\ Len(<<>>) <= MaxQueue + 1
        BY LoggerdAssumption
      <4>2. Effect([s EXCEPT !.q = <<>>])
        BY <3>3, <4>1
      <4> QED BY <2>1, <3>1, <3>2, <3>4, <4>2
    <3>5. CASE ~(s.audio \/ e \notin WithAudio)
      <4>1. ~mic
        <5>1. ~s.audio
          BY <3>5
        <5>2. mic => s.audio
          BY <3>1
        <5> QED BY <5>1, <5>2
      <4>2. Effect([s EXCEPT !.q = Keep(re[e].q, n)])
        BY <2>k, <3>3, <4>1
      <4> QED BY <3>1, <3>2, <3>5, <4>1, <4>2
    <3> QED BY <3>4, <3>5
  <2>2. CASE n > segment /\ NewerSegment(e, f, n)
    <3> DEFINE g == [f EXCEPT !.marked = TRUE, !.q = Keep(@, n)]
    <3>1. re' = [re EXCEPT ![e] = g] /\ NotWritten
      BY <2>2 DEF NewerSegment
    <3>2. g \in RemoteEncoder /\ g.seen /\ g.q = Keep(re[e].q, n) /\ g.marked /\ g.offset = f.offset
          /\ g.current = re[e].current
      BY <1>2, <2>k DEF RemoteEncoder
    <3> HIDE DEF g
    <3>3. n # segment /\ ~(n < segment)
      BY <1>1, <1>3, <2>2
    <3>4. Effect(g)
      BY <2>k, <3>2, <3>3, Zenon
    <3> QED BY <3>1, <3>3, <3>4, Zenon
  <2>3. CASE n < segment /\ OlderSegment(e, f)
    <3> DEFINE g == [f EXCEPT !.offset = -segment]
    <3>1. re' = [re EXCEPT ![e] = g] /\ NotWritten
      BY <2>3 DEF OlderSegment
    <3>2. g \in RemoteEncoder /\ g.seen /\ g.q = re[e].q /\ g.marked = re[e].marked /\ g.current = re[e].current
      <4>1. -segment \in Int
        BY <1>1
      <4> QED BY <1>2, <4>1 DEF RemoteEncoder
    <3> HIDE DEF g
    <3>3. n # segment /\ ~(n > segment)
      BY <1>1, <1>3, <2>3
    <3>4. Effect(g)
      BY <1>1, <3>2, <3>3, Zenon
    <3> QED BY <3>1, <3>3, <3>4, Zenon
  <2> QED BY <1>4, <2>1, <2>2, <2>3
<1>7. PICK g : /\ re' = [re EXCEPT ![e] = g] /\ Effect(g)
               /\ \/ NotWritten
                  \/ n = segment /\ Write(e, InPlace(Append(re[e].q, n)))
               /\ mic /\ n = segment => Write(e, InPlace(Append(re[e].q, n)))
  BY <1>6, Zenon
<1>8. re'[e] = g /\ re' \in [Encoders -> RemoteEncoder] /\ (\A x \in Encoders \ {e} : re'[x] = re[x])
  BY <1>1, <1>7
<1>9. Seen' = Seen \cup {e}
  BY <1>7, <1>8 DEF Seen
<1>10. waiting' = Cardinality(Seen')
  <2>1. waiting = Cardinality(Seen) /\ Seen \in SUBSET Encoders /\ (e \in Seen <=> re[e].seen)
    BY DEF LogInv, Seen
  <2>2. Cardinality(Seen \cup {e}) = IF e \in Seen THEN Cardinality(Seen) ELSE Cardinality(Seen) + 1
    BY <2>1, LoggedFinite, FS_AddElement
  <2>3. Cardinality(Seen) \in Nat
    BY <2>1, LoggedFinite
  <2> QED BY <1>4, <1>9, <2>1, <2>2, <2>3
<1>11. silence' = silence \/ silence' = [silence EXCEPT ![e] = 0]
  BY <1>7 DEF NotWritten, Write
<1>12. RotateIfNeeded(ready + Newly(e), Cardinality(Seen'), TRUE)
  BY <1>4, <1>5, <1>10
<1>13. /\ (n > segment => NotWritten)
       /\ mic /\ n = segment => written' = [written EXCEPT ![e] = InPlace(Append(re[e].q, n))]
                                /\ silence' = [silence EXCEPT ![e] = 0]
  BY <1>1, <1>3, <1>7 DEF Write
<1>14. Effect(re'[e])
  BY <1>7, <1>8
<1>15. f = First(e) /\ n = num[e] - First(e).offset
  BY DEF f, n
<1> QED BY <1>2, <1>3, <1>4, <1>8, <1>9, <1>10, <1>11, <1>12, <1>13, <1>14, <1>15

LEMMA PacketTypes ==
  ASSUME LogInv, NEW e \in Encoders, Packet(e)
  PROVE  LogTypeOK' /\ re' \in [Encoders -> RemoteEncoder] /\ sent' \subseteq Seen' /\ waiting' = Cardinality(Seen')
<1>1. /\ re'[e].current \in {segment, re[e].current} /\ Len(re'[e].q) <= MaxQueue + 1
      /\ re' \in [Encoders -> RemoteEncoder] /\ (\A x \in Encoders \ {e} : re'[x] = re[x])
      /\ sent' = sent \cup {e} /\ UNCHANGED encoderd
      /\ Seen' = Seen \cup {e} /\ waiting' = Cardinality(Seen')
      /\ silence' = silence \/ silence' = [silence EXCEPT ![e] = 0]
      /\ RotateIfNeeded(ready + Newly(e), Cardinality(Seen'), TRUE)
  BY PacketEffect
<1>2. LogTypeOK /\ sent \subseteq Seen
  BY DEF LogInv
<1>3. segment' \in Nat /\ elapsed' \in Nat /\ ready' \in Nat /\ segment <= segment' /\ segment \in Nat
  <2>1. segment \in Nat /\ elapsed \in Nat /\ ready \in Nat
    BY <1>2 DEF LogTypeOK
  <2>2. Newly(e) \in Nat
    BY DEF Newly
  <2>3. \/ segment' = segment + 1 /\ elapsed' = 0 /\ ready' = 0
        \/ segment' = segment /\ elapsed' = elapsed /\ ready' = ready + Newly(e)
    BY <1>1, Rotated
  <2> QED BY <2>1, <2>2, <2>3
<1>4. waiting' \in 0 .. Cardinality(Encoders)
  <2>1. Seen' \in SUBSET Encoders
    BY DEF Seen
  <2> QED BY <1>1, <2>1, LoggedFinite
<1>5. ASSUME NEW x \in Encoders
      PROVE  /\ re'[x].seen \in BOOLEAN /\ re'[x].offset \in Int
             /\ re'[x].current \in -1 .. segment' /\ Len(re'[x].q) <= MaxQueue + 1
             /\ re'[x].marked \in BOOLEAN /\ re'[x].audio \in BOOLEAN
  <2>1. re'[x] \in RemoteEncoder
    BY <1>1
  <2>2. re[x].current \in -1 .. segment /\ Len(re[x].q) <= MaxQueue + 1
    BY <1>2 DEF LogTypeOK
  <2>3. re'[x].current \in {segment, re[x].current} /\ Len(re'[x].q) <= MaxQueue + 1
    BY <1>1, <2>2
  <2> QED BY <1>3, <2>1, <2>2, <2>3 DEF RemoteEncoder
<1>6. silence' \in [Encoders -> Nat]
  <2>1. silence \in [Encoders -> Nat]
    BY <1>2 DEF LogTypeOK
  <2> QED BY <1>1, <2>1
<1>7. /\ num' \in [Encoders -> Nat] /\ age' \in [Encoders -> 0 .. SegLength]
      /\ alive' \subseteq Encoders /\ sent' \subseteq Encoders /\ mic' \in BOOLEAN
      /\ time' \in 0 .. MaxTime /\ failures' \in 0 .. MaxFailures
  BY <1>1, <1>2 DEF LogTypeOK, encoderd
<1> QED BY <1>1, <1>2, <1>3, <1>4, <1>5, <1>6, <1>7 DEF LogTypeOK

\* The first packet of a newer segment is counted when the encoder is marked.
LEMMA PacketCounts ==
  ASSUME LogInv, NEW e \in Encoders, Packet(e), MaxFailures - failures <= 1
  PROVE  /\ Counted'
         /\ segment' # segment /\ ~MayTimeOut(sent' # {}) => \A x \in Encoders : re'[x].seen => re'[x].marked
<1> DEFINE n == num[e] - First(e).offset
           Known == IF Newly(e) = 1 THEN Begun \cup {e} ELSE Begun
<1>1. /\ First(e).offset = (IF re[e].seen THEN re[e].offset ELSE num[e]) /\ n \in Int
      /\ re' \in [Encoders -> RemoteEncoder] /\ (\A x \in Encoders \ {e} : re'[x] = re[x]) /\ re'[e].seen
      /\ n > segment => re'[e].offset = First(e).offset /\ re'[e].marked
      /\ n < segment => re'[e].marked = re[e].marked
      /\ sent' = sent \cup {e} /\ UNCHANGED encoderd /\ Seen' = Seen \cup {e}
      /\ RotateIfNeeded(ready + Newly(e), Cardinality(Seen'), TRUE)
  BY PacketEffect
<1>2. LogTypeOK /\ ready <= Cardinality(Begun) /\ re \in [Encoders -> RemoteEncoder] /\ ready \in Nat /\ segment \in Nat
  BY DEF LogInv, Counted, LogTypeOK
<1>3. num' = num /\ failures' = failures
  BY <1>1 DEF encoderd
<1>4. Begun \in SUBSET Encoders /\ Begun' \in SUBSET Encoders /\ Seen' \in SUBSET Encoders /\ Seen \in SUBSET Encoders
  BY DEF Begun, Seen
<1>5. ready + Newly(e) <= Cardinality(Known) /\ Known \in SUBSET Encoders
  <2>1. CASE Newly(e) = 1
    <3>1. e \notin Begun
      BY <2>1 DEF Newly, Begun
    <3>2. Cardinality(Begun \cup {e}) = Cardinality(Begun) + 1
      BY <1>4, <3>1, LoggedFinite, FS_AddElement
    <3> QED BY <1>2, <1>4, <2>1, <3>2, LoggedFinite
  <2>2. CASE Newly(e) # 1
    <3>1. Newly(e) = 0
      BY <2>2 DEF Newly
    <3> QED BY <1>2, <1>4, <2>2, <3>1, LoggedFinite
  <2> QED BY <2>1, <2>2
<1>6. ASSUME NEW x \in Known
      PROVE  /\ x \in Seen' /\ re'[x].marked
             /\ num[x] - re'[x].offset > segment
  <2>1. CASE x = e
    <3>1. n > segment
      <4>1. CASE Newly(e) = 1
        BY <4>1 DEF Newly, Newer
      <4>2. CASE Newly(e) # 1
        BY <1>1, <1>6, <2>1, <4>2 DEF Begun, Seen, Number
      <4> QED BY <4>1, <4>2
    <3> QED BY <1>1, <2>1, <3>1
  <2>2. CASE x # e
    <3>1. x \in Begun /\ x \in Encoders
      BY <1>4, <1>6, <2>2
    <3> QED BY <1>1, <2>2, <3>1 DEF Begun, Seen, Number
  <2> QED BY <2>1, <2>2
<1> HIDE DEF Known, n
<1>7. \/ segment' = segment + 1 /\ ready' = 0 /\ (AllReady(ready + Newly(e), Cardinality(Seen')) \/ MayTimeOut(TRUE))
      \/ segment' = segment /\ ready' = ready + Newly(e)
  BY <1>1, Rotated
<1>8. Counted'
  <2>1. Cardinality(Begun') \in Nat
    BY <1>4, LoggedFinite
  <2>2. CASE ready' = 0
    BY <2>1, <2>2 DEF Counted
  <2>3. CASE segment' = segment /\ ready' = ready + Newly(e)
    <3>1. \A x \in Known : x \in Begun'
      BY <1>3, <1>5, <1>6, <2>3 DEF Begun, Number
    <3>2. Known \in SUBSET Begun'
      BY <3>1
    <3>3. Cardinality(Known) <= Cardinality(Begun')
      BY <1>4, <3>2, LoggedFinite, FS_Subset
    <3>4. Cardinality(Known) \in Nat /\ Newly(e) \in Nat
      BY <1>5, LoggedFinite DEF Newly
    <3> QED BY <1>2, <1>5, <2>1, <2>3, <3>3, <3>4 DEF Counted
  <2> QED BY <1>7, <2>2, <2>3
<1>9. ASSUME segment' # segment, ~MayTimeOut(sent' # {})
      PROVE  \A x \in Encoders : re'[x].seen => re'[x].marked
  <2>1. (sent' # {}) = TRUE
    BY <1>1
  <2>2. AllReady(ready + Newly(e), Cardinality(Seen'))
    BY <1>7, <1>9, <2>1
  <2>3. Known \in SUBSET Seen'
    BY <1>6
  <2>4. Cardinality(Known) = Cardinality(Seen')
    <3>1. ready + Newly(e) = Cardinality(Seen')
      BY <2>2 DEF AllReady
    <3>2. Cardinality(Known) <= Cardinality(Seen') /\ Cardinality(Known) \in Nat /\ Cardinality(Seen') \in Nat
      BY <1>4, <1>5, <2>3, LoggedFinite, FS_Subset
    <3> QED BY <1>5, <3>1, <3>2
  <2>5. Known = Seen'
    BY <1>4, <2>3, <2>4, LoggedFinite, FS_Subset
  <2> QED BY <1>6, <2>5 DEF Seen
<1> QED BY <1>8, <1>9

\* While nothing fails the encoders roll over together.
LEMMA PacketInLockstep ==
  ASSUME LogInv, NEW e \in Encoders, Packet(e), Unfailed
  PROVE  InLockstep'
<1> DEFINE n == num[e] - First(e).offset
<1>1. /\ First(e).offset = (IF re[e].seen THEN re[e].offset ELSE num[e]) /\ n \in Int /\ (~re[e].seen => n = 0)
      /\ e \in alive \ sent /\ sent' = sent \cup {e} /\ UNCHANGED encoderd
      /\ Seen' = Seen \cup {e}
      /\ re' \in [Encoders -> RemoteEncoder] /\ (\A x \in Encoders \ {e} : re'[x] = re[x]) /\ re'[e].seen
      /\ n = segment => /\ re'[e].offset = First(e).offset /\ re'[e].current = segment
                        /\ re'[e].marked <=> (re[e].current = segment /\ re[e].marked)
                        /\ mic => /\ re'[e].q = <<>>
                                  /\ written' = [written EXCEPT ![e] = InPlace(Append(re[e].q, n))]
                                  /\ silence' = [silence EXCEPT ![e] = 0]
      /\ n > segment => /\ re'[e].offset = First(e).offset /\ re'[e].current = re[e].current
                        /\ re'[e].marked /\ re'[e].q = Keep(re[e].q, n) /\ NotWritten
      /\ RotateIfNeeded(ready + Newly(e), Cardinality(Seen'), TRUE)
  BY PacketEffect
<1>2. num' = num /\ age' = age /\ alive' = alive /\ mic' = mic /\ failures' = failures
  BY <1>1 DEF encoderd
<1>3. /\ LogTypeOK /\ segment \in Nat /\ elapsed \in Nat /\ ready \in Nat /\ re \in [Encoders -> RemoteEncoder]
      /\ num \in [Encoders -> Nat] /\ age \in [Encoders -> 0 .. SegLength] /\ silence \in [Encoders -> Nat]
      /\ sent \subseteq Seen /\ Seen \in SUBSET Encoders /\ Seen' \in SUBSET Encoders /\ sent \in SUBSET Encoders
  BY DEF LogInv, LogTypeOK, Seen
<1>4. /\ alive = Encoders /\ mic /\ (AllAhead \/ AllLevel)
      /\ \A x, y \in Encoders : num[x] = num[y] /\ age[x] = age[y]
      /\ \A x \in Encoders : age[x] < SegLength /\ Quiet(x) /\ written[x] # "wrong"
      /\ Seen # Encoders => segment = 0 /\ elapsed = 0 /\ \A x \in Encoders \ Seen : re[x] = Fresh
  BY DEF LogInv, InLockstep
<1>5. SegLength \in Nat /\ LongLength \in Nat /\ LongLength > SegLength
  BY LengthAssumption
<1>6. ASSUME elapsed <= SegLength PROVE ~MayTimeOut(TRUE)
  BY <1>3, <1>5, <1>6 DEF MayTimeOut
<1> HIDE DEF n
<1>7. \/ segment' = segment + 1 /\ elapsed' = 0 /\ ready' = 0 /\ (AllReady(ready + Newly(e), Cardinality(Seen')) \/ MayTimeOut(TRUE))
      \/ segment' = segment /\ elapsed' = elapsed /\ ready' = ready + Newly(e)
         /\ ~AllReady(ready + Newly(e), Cardinality(Seen'))
  BY <1>1, Rotated
<1>a. CASE AllAhead
  <2>1. /\ Seen = Encoders /\ sent # Encoders /\ ready = Cardinality(sent) /\ elapsed <= SegLength
        /\ \A x \in Encoders : Ahead(x)
    BY <1>a DEF AllAhead
  <2>2. /\ re[e].seen /\ First(e).offset = re[e].offset /\ n = segment + 1 /\ ~re[e].marked /\ re[e].q = <<>>
        /\ re[e].current = segment
    <3>1. re[e].seen
      BY <2>1 DEF Seen
    <3>2. First(e).offset = re[e].offset
      BY <1>1, <3>1
    <3> QED BY <1>1, <2>1, <3>1, <3>2 DEF Ahead, Number, n
  <2>3. Newly(e) = 1
    BY <1>3, <2>2 DEF Newly, Newer, n
  <2>4. /\ re'[e].offset = re[e].offset /\ re'[e].current = segment /\ re'[e].marked
        /\ re'[e].q = Keep(<<>>, segment + 1) /\ NotWritten
    <3>1. n > segment
      BY <1>3, <2>2
    <3> QED BY <1>1, <2>2, <3>1
  <2>5. re'[e].q = <<segment + 1>>
    <3>1. <<>> \in Seq(Int) /\ Len(<<>>) <= MaxQueue + 1 /\ segment + 1 \in Int
      BY <1>3, LoggerdAssumption
    <3> QED BY <2>4, <3>1, KeptQueue
  <2>6. Seen' = Encoders
    BY <1>1, <2>1
  <2>7. Cardinality(sent') = Cardinality(sent) + 1 /\ (sent' # Encoders => Cardinality(sent') # Cardinality(Encoders))
        /\ Cardinality(Encoders) \in Nat /\ Cardinality(sent) \in Nat
    <3>1. sent' \in SUBSET Encoders /\ Encoders \in SUBSET Encoders
      BY <1>1, <1>3
    <3> QED BY <1>1, <1>3, <3>1, LoggedFinite, FS_AddElement
  \* what holds for each of them
  <2>8. ASSUME NEW x \in Encoders
        PROVE  /\ num'[x] - re'[x].offset = segment + 1 /\ age'[x] = 0 /\ re'[x].current = segment /\ re'[x].seen
               /\ (re'[x].marked <=> x \in sent') /\ re'[x].q = IF x \in sent' THEN <<segment + 1>> ELSE <<>>
               /\ silence'[x] <= 1 /\ written'[x] # "wrong"
    <3>1. Ahead(x)
      BY <2>1
    <3>2. silence'[x] = silence[x] /\ written'[x] = written[x]
      BY <2>4 DEF NotWritten
    <3>3. silence[x] <= 1
      <4>1. ~Follows(x)
        BY <1>3, <3>1 DEF Ahead, Follows
      <4>2. silence[x] <= IF x \in sent /\ Number(x) = segment THEN 0 ELSE 1
        BY <1>4, <4>1 DEF Quiet
      <4> QED BY <1>3, <4>2
    <3>4. CASE x = e
      BY <1>1, <1>2, <1>4, <2>4, <2>5, <3>1, <3>2, <3>3, <3>4 DEF Ahead, Number
    <3>5. CASE x # e
      <4>1. re'[x] = re[x] /\ (x \in sent' <=> x \in sent) /\ re[x].seen
        BY <1>1, <2>1, <3>5 DEF Seen
      <4> QED BY <1>2, <1>4, <3>1, <3>2, <3>3, <4>1 DEF Ahead, Number
    <3> QED BY <3>4, <3>5
  <2>9. AllReady(ready + Newly(e), Cardinality(Seen')) <=> sent' = Encoders
    <3>1. ready + Newly(e) = Cardinality(sent')
      BY <1>3, <2>1, <2>3, <2>7
    <3> QED BY <2>6, <2>7, <3>1 DEF AllReady
  <2>10. CASE sent' = Encoders
    <3>1. segment' = segment + 1 /\ elapsed' = 0 /\ ready' = 0
      BY <1>7, <2>9, <2>10
    <3>2. ASSUME NEW x \in Encoders PROVE Number(x)' = segment' /\ elapsed' <= age'[x] /\ Follows(x)' /\ Quiet(x)'
      <4>1. Number(x)' = segment' /\ elapsed' <= age'[x]
        BY <2>8, <3>1 DEF Number
      <4>2. Follows(x)'
        BY <1>3, <2>8, <2>10, <3>1 DEF Follows
      <4> QED BY <2>8, <4>1, <4>2 DEF Quiet
    <3>3. AllLevel'
      BY <3>1, <3>2 DEF AllLevel, Seen
    <3> QED BY <1>2, <1>4, <2>6, <2>8, <3>2, <3>3 DEF InLockstep
  <2>11. CASE sent' # Encoders
    <3>1. segment' = segment /\ elapsed' = elapsed /\ ready' = ready + 1
      BY <1>6, <1>7, <2>1, <2>3, <2>9, <2>11
    <3>2. ASSUME NEW x \in Encoders PROVE Ahead(x)' /\ Quiet(x)'
      <4>1. Ahead(x)'
        BY <2>8, <3>1 DEF Ahead, Number
      <4>2. ~Follows(x)' /\ Number(x)' # segment'
        BY <1>3, <2>8, <3>1 DEF Follows, Number
      <4> QED BY <2>8, <4>1, <4>2 DEF Quiet
    <3>3. AllAhead'
      BY <2>1, <2>6, <2>7, <2>11, <3>1, <3>2 DEF AllAhead
    <3> QED BY <1>2, <1>4, <2>6, <2>8, <3>2, <3>3 DEF InLockstep
  <2> QED BY <2>10, <2>11
<1>b. CASE AllLevel
  <2>1. /\ ready = 0
        /\ \A x \in Seen : /\ Number(x) = segment /\ elapsed <= age[x]
                           /\ Settled(x) \/ Follows(x) \/ Opens(x)
    BY <1>b DEF AllLevel
  <2>2. /\ n = segment /\ elapsed <= age[e] /\ re[e].q \in {<<>>, <<segment>>}
        /\ ~(re[e].current = segment /\ re[e].marked)
        /\ num[e] - First(e).offset = segment
    <3>1. CASE re[e].seen
      <4>1. e \in Seen
        BY <3>1 DEF Seen
      <4>2. Number(e) = segment /\ elapsed <= age[e] /\ (Settled(e) \/ Follows(e) \/ Opens(e))
        BY <2>1, <4>1
      <4>3. n = segment /\ num[e] - First(e).offset = segment
        BY <1>1, <3>1, <4>2 DEF Number, n
      <4>4. re[e].q \in {<<>>, <<segment>>} /\ ~(re[e].current = segment /\ re[e].marked)
        <5>1. CASE Settled(e)
          BY <5>1 DEF Settled
        <5>2. CASE Follows(e)
          BY <1>3, <5>2 DEF Follows
        <5>3. CASE Opens(e)
          BY <1>3, <5>3 DEF Opens
        <5> QED BY <4>2, <5>1, <5>2, <5>3
      <4> QED BY <4>2, <4>3, <4>4
    <3>2. CASE ~re[e].seen
      <4>1. e \notin Seen /\ Seen # Encoders
        BY <3>2 DEF Seen
      <4>2. re[e] = Fresh /\ segment = 0 /\ elapsed = 0
        BY <1>4, <4>1
      <4>3. re[e].q = <<>> /\ re[e].marked = FALSE
        BY <4>2 DEF Fresh
      <4>4. age[e] \in Nat
        BY <1>3
      <4> QED BY <1>1, <3>2, <4>2, <4>3, <4>4 DEF n
    <3> QED BY <3>1, <3>2
  <2>3. Newly(e) = 0
    BY <1>3, <2>2 DEF Newly, Newer, n
  <2>4. segment' = segment /\ elapsed' = elapsed /\ ready' = 0
    <3>1. elapsed <= SegLength
      BY <1>3, <1>4, <1>5, <2>2
    <3>2. ~AllReady(ready + Newly(e), Cardinality(Seen'))
      BY <2>1, <2>3 DEF AllReady
    <3>3. ready + Newly(e) = 0
      BY <2>1, <2>3
    <3> QED BY <1>6, <1>7, <3>1, <3>2, <3>3
  <2>5. /\ re'[e].offset = First(e).offset /\ re'[e].current = segment /\ ~re'[e].marked /\ re'[e].q = <<>>
        /\ written' = [written EXCEPT ![e] = InPlace(Append(re[e].q, segment))]
        /\ silence' = [silence EXCEPT ![e] = 0]
    BY <1>1, <1>4, <2>2
  <2>6. InPlace(Append(re[e].q, segment)) = "right"
    <3>1. \A i \in DOMAIN Append(re[e].q, segment) : Append(re[e].q, segment)[i] = segment
      <4>1. CASE re[e].q = <<>>
        BY <4>1
      <4>2. CASE re[e].q = <<segment>>
        <5> DEFINE one == <<segment>>
        <5>1. one \in Seq(Int) /\ Len(one) = 1 /\ one[1] = segment
          BY <1>3
        <5> HIDE DEF one
        <5>2. \A i \in DOMAIN Append(one, segment) : Append(one, segment)[i] = segment
          <6>1. segment \in Int
            BY <1>3
          <6> QED BY <5>1, <6>1, AppendedSame, Zenon
        <5> QED BY <4>2, <5>2 DEF one
      <4> QED BY <2>2, <4>1, <4>2
    <3> QED BY <3>1 DEF InPlace
  <2>7. Number(e)' = segment' /\ elapsed' <= age'[e] /\ Settled(e)' /\ silence'[e] = 0 /\ written'[e] # "wrong"
    <3>1. Number(e)' = segment'
      BY <1>2, <2>2, <2>4, <2>5 DEF Number
    <3>2. elapsed' <= age'[e] /\ Settled(e)'
      BY <1>2, <2>2, <2>4, <2>5 DEF Settled
    <3>3. silence'[e] = 0
      BY <1>3, <2>5
    <3>4. written'[e] # "wrong"
      BY <1>4, <2>5, <2>6
    <3> QED BY <3>1, <3>2, <3>3, <3>4
  <2>8. ASSUME NEW x \in Encoders, x # e
        PROVE  /\ re'[x] = re[x] /\ (x \in sent' <=> x \in sent) /\ age'[x] = age[x] /\ num'[x] = num[x]
               /\ silence'[x] = silence[x] /\ written'[x] # "wrong" /\ Number(x)' = Number(x)
               /\ Settled(x)' <=> Settled(x)
               /\ Follows(x) => Follows(x)'
               /\ Opens(x)' <=> Opens(x)
    <3>1. re'[x] = re[x] /\ (x \in sent' <=> x \in sent) /\ age'[x] = age[x] /\ num'[x] = num[x]
      BY <1>1, <1>2, <2>8
    <3>2. silence'[x] = silence[x] /\ written'[x] # "wrong"
      BY <1>3, <1>4, <2>5, <2>8
    <3>3. sent # Encoders
      BY <1>1
    <3> QED BY <2>4, <3>1, <3>2, <3>3 DEF Number, Settled, Follows, Opens
  <2>9. ASSUME NEW x \in Encoders PROVE Quiet(x)'
    <3>0. age'[x] \in Nat /\ silence[x] \in Nat
      BY <1>2, <1>3
    <3>1. CASE x = e
      BY <2>7, <3>0, <3>1 DEF Quiet
    <3>2. CASE x # e
      <4>1. Quiet(x)
        BY <1>4
      <4>2. CASE Follows(x)
        BY <2>4, <2>8, <3>2, <4>1, <4>2 DEF Quiet
      <4>3. CASE ~Follows(x)
        <5>1. silence[x] <= IF x \in sent /\ Number(x) = segment THEN 0 ELSE 1
          BY <4>1, <4>3 DEF Quiet
        <5>2. silence'[x] <= IF x \in sent' /\ Number(x)' = segment' THEN 0 ELSE 1
          BY <2>4, <2>8, <3>2, <5>1
        <5>3. silence'[x] <= age'[x] + 1
          BY <2>8, <3>0, <3>2, <5>1
        <5> QED BY <5>2, <5>3 DEF Quiet
      <4> QED BY <4>2, <4>3
    <3> QED BY <3>1, <3>2
  <2>10. AllLevel'
    <3> SUFFICES ASSUME NEW x \in Seen'
                 PROVE  /\ Number(x)' = segment' /\ elapsed' <= age'[x]
                        /\ Settled(x)' \/ Follows(x)' \/ Opens(x)'
      BY <2>4 DEF AllLevel
    <3>1. CASE x = e
      BY <2>7, <3>1
    <3>2. CASE x # e
      <4>1. x \in Seen /\ x \in Encoders
        BY <1>1, <1>3, <3>2
      <4> QED BY <2>1, <2>4, <2>8, <3>2, <4>1
    <3> QED BY <3>1, <3>2
  <2>11. \A x \in Encoders : age'[x] < SegLength /\ Quiet(x)' /\ written'[x] # "wrong"
    BY <1>2, <1>4, <2>7, <2>8, <2>9
  <2>12. Seen' # Encoders => segment' = 0 /\ elapsed' = 0 /\ \A x \in Encoders \ Seen' : re'[x] = Fresh
    BY <1>1, <1>3, <1>4, <2>4
  <2> QED BY <1>2, <1>4, <2>10, <2>11, <2>12 DEF InLockstep
<1> QED BY <1>4, <1>a, <1>b

LEMMA PacketKeeps ==
  ASSUME LogInv, NEW e \in Encoders, Packet(e) PROVE LogInv'
<1>1. LogTypeOK' /\ re' \in [Encoders -> RemoteEncoder] /\ sent' \subseteq Seen' /\ waiting' = Cardinality(Seen')
  BY PacketTypes
<1>2. failures' = failures
  BY DEF Packet, encoderd
<1>3. Counted'
  BY <1>2, PacketCounts DEF Counted
<1>4. InLockstep'
  BY <1>2, PacketInLockstep DEF InLockstep, Unfailed
<1>5. AgedBelow'
  BY DEF Packet, encoderd, LogInv, AgedBelow
<1> QED BY <1>1, <1>3, <1>4, <1>5 DEF LogInv

LEMMA OtherKeeps ==
  ASSUME LogInv, OtherMessage
  PROVE  /\ LogInv'
         /\ segment' # segment /\ ~MayTimeOut(sent' # {}) /\ MaxFailures - failures <= 1
               => \A x \in Encoders : re'[x].seen => re'[x].marked
<1>1. /\ UNCHANGED <<waiting, re, sent, num, age, alive, mic, time, failures, written, silence>>
      /\ RotateIfNeeded(ready, waiting, sent # {})
  BY DEF OtherMessage, encoderd
<1>2. /\ LogTypeOK /\ segment \in Nat /\ elapsed \in Nat /\ ready \in Nat /\ re \in [Encoders -> RemoteEncoder]
      /\ age \in [Encoders -> 0 .. SegLength] /\ sent \subseteq Seen /\ waiting = Cardinality(Seen)
      /\ Seen \in SUBSET Encoders /\ Begun \in SUBSET Seen /\ Seen' = Seen /\ sent \in SUBSET Encoders
  BY <1>1 DEF LogInv, LogTypeOK, Seen, Begun
<1>3. \/ /\ segment' = segment + 1 /\ elapsed' = 0 /\ ready' = 0
         /\ AllReady(ready, waiting) \/ MayTimeOut(sent # {})
      \/ segment' = segment /\ elapsed' = elapsed /\ ready' = ready
  BY <1>1, Rotated
<1>4. LogTypeOK' /\ re' \in [Encoders -> RemoteEncoder] /\ sent' \subseteq Seen' /\ waiting' = Cardinality(Seen')
  <2>1. segment' \in Nat /\ elapsed' \in Nat /\ ready' \in Nat /\ segment <= segment'
    BY <1>2, <1>3
  <2>2. \A x \in Encoders : re[x].current \in -1 .. segment'
    BY <1>2, <2>1 DEF LogTypeOK
  <2> QED BY <1>1, <1>2, <2>1, <2>2 DEF LogTypeOK
<1>5. Counted'
  <2>1. CASE segment' = segment /\ ready' = ready
    <3>1. Begun' = Begun
      BY <1>1, <2>1 DEF Begun, Seen, Number
    <3> QED BY <1>1, <2>1, <3>1 DEF LogInv, Counted
  <2>2. CASE ready' = 0
    <3>1. Begun' \in SUBSET Encoders
      BY DEF Begun, Seen
    <3> QED BY <2>2, <3>1, LoggedFinite DEF Counted
  <2> QED BY <1>3, <2>1, <2>2
<1>6. ASSUME AllReady(ready, waiting), MaxFailures - failures <= 1 PROVE Begun = Seen
  <2>1. ready = Cardinality(Seen) /\ ready <= Cardinality(Begun)
    BY <1>2, <1>6 DEF AllReady, LogInv, Counted
  <2>2. IsFiniteSet(Seen) /\ Cardinality(Begun) <= Cardinality(Seen) /\ Cardinality(Begun) \in Nat /\ Cardinality(Seen) \in Nat
    BY <1>2, LoggedFinite, FS_Subset
  <2>3. Cardinality(Begun) = Cardinality(Seen)
    BY <2>1, <2>2
  <2> QED BY <1>2, <2>2, <2>3, FS_Subset
<1>7. segment' # segment /\ ~MayTimeOut(sent' # {}) /\ MaxFailures - failures <= 1
               => \A x \in Encoders : re'[x].seen => re'[x].marked
  <2> SUFFICES ASSUME segment' # segment, ~MayTimeOut(sent' # {}), MaxFailures - failures <= 1
               PROVE  \A x \in Encoders : re'[x].seen => re'[x].marked
    OBVIOUS
  <2>1. AllReady(ready, waiting)
    BY <1>1, <1>3
  <2> QED BY <1>1, <1>6, <2>1 DEF Begun, Seen
<1>8. InLockstep'
  <2> SUFFICES ASSUME Unfailed PROVE InLockstep'
    BY <1>1 DEF InLockstep, Unfailed
  <2>1. /\ alive = Encoders /\ mic /\ (AllAhead \/ AllLevel)
        /\ \A x, y \in Encoders : num[x] = num[y] /\ age[x] = age[y]
        /\ \A x \in Encoders : age[x] < SegLength /\ Quiet(x) /\ written[x] # "wrong"
        /\ Seen # Encoders => segment = 0 /\ elapsed = 0 /\ \A x \in Encoders \ Seen : re[x] = Fresh
    BY DEF LogInv, InLockstep
  <2>2. SegLength \in Nat /\ LongLength \in Nat /\ LongLength > SegLength
    BY LengthAssumption
  <2>3. CASE segment' = segment /\ elapsed' = elapsed /\ ready' = ready
    BY <1>1, <2>1, <2>3 DEF InLockstep, AllAhead, AllLevel, Ahead, Settled, Follows, Opens, Quiet, Number, Seen, Unfailed
  <2>4. CASE segment' = segment + 1 /\ elapsed' = 0 /\ ready' = 0 /\ (AllReady(ready, waiting) \/ MayTimeOut(sent # {}))
    <3>1. CASE AllLevel
      <4>1. ~AllReady(ready, waiting)
        BY <3>1 DEF AllLevel, AllReady
      <4>2. elapsed < SegLength
        <5>1. CASE Seen = {}
          BY <2>1, <2>2, <5>1, LoggerdAssumption, LengthAssumption
        <5>2. CASE Seen # {}
          <6>1. PICK x \in Seen : TRUE
            BY <5>2
          <6>2. elapsed <= age[x] /\ age[x] < SegLength /\ age[x] \in Nat
            BY <1>2, <2>1, <3>1, <6>1 DEF AllLevel
          <6> QED BY <1>2, <2>2, <6>2
        <5> QED BY <5>1, <5>2
      <4>3. ~MayTimeOut(sent # {})
        BY <1>2, <2>2, <4>2 DEF MayTimeOut
      <4> QED BY <2>4, <4>1, <4>3
    <3>2. CASE AllAhead
      <4>1. /\ Seen = Encoders /\ sent # Encoders /\ ready = Cardinality(sent) /\ elapsed <= SegLength
            /\ \A x \in Encoders : Ahead(x)
        BY <3>2 DEF AllAhead
      <4>2. ~AllReady(ready, waiting)
        BY <1>2, <4>1, LoggedFinite DEF AllReady
      <4>3. sent = {}
        <5>1. MayTimeOut(sent # {})
          BY <2>4, <4>2
        <5> QED BY <1>2, <2>2, <4>1, <5>1 DEF MayTimeOut
      <4>4. ASSUME NEW x \in Encoders
            PROVE  /\ Number(x)' = segment' /\ elapsed' <= age'[x] /\ Opens(x)' /\ ~Follows(x)'
                   /\ Quiet(x)'
        <5>1. Ahead(x) /\ ~re[x].marked
          BY <4>1, <4>3 DEF Ahead
        <5>2. Number(x)' = segment' /\ elapsed' <= age'[x] /\ Opens(x)' /\ ~Follows(x)'
          BY <1>1, <1>2, <2>4, <4>3, <5>1 DEF Ahead, Number, Opens, Follows
        <5>3. silence[x] <= 1
          BY <2>1, <4>3, <5>1 DEF Quiet, Follows
        <5> QED BY <1>1, <4>3, <5>2, <5>3 DEF Quiet
      <4>5. AllLevel'
        BY <1>1, <2>4, <4>4, <4>1 DEF AllLevel, Seen
      <4> QED BY <1>1, <1>2, <2>1, <4>1, <4>4, <4>5 DEF InLockstep
    <3> QED BY <2>1, <3>1, <3>2
  <2> QED BY <1>3, <2>3, <2>4
<1>9. AgedBelow'
  BY <1>1 DEF LogInv, AgedBelow
<1> QED BY <1>4, <1>5, <1>7, <1>8, <1>9 DEF LogInv

LEMMA TickKeeps ==
  ASSUME LogInv, Tick PROVE LogInv'
<1>1. /\ time < MaxTime /\ time' = time + 1 /\ alive \subseteq sent
      /\ ~MustTimeOut(sent # {}) /\ elapsed' = elapsed + 1 /\ sent' = {}
      /\ num' = [x \in Encoders |-> num[x] + IF Rolls(x) THEN 1 ELSE 0]
      /\ age' = [x \in Encoders |-> IF Rolls(x) THEN 0 ELSE IF x \in alive THEN age[x] + 1 ELSE age[x]]
      /\ silence' = [x \in Encoders |-> silence[x] + 1]
      /\ UNCHANGED <<segment, ready, waiting, re, alive, mic, failures, written>>
  BY DEF Tick
<1>2. /\ LogTypeOK /\ segment \in Nat /\ elapsed \in Nat /\ ready \in Nat /\ re \in [Encoders -> RemoteEncoder]
      /\ num \in [Encoders -> Nat] /\ age \in [Encoders -> 0 .. SegLength] /\ silence \in [Encoders -> Nat]
      /\ sent \subseteq Seen /\ waiting = Cardinality(Seen) /\ sent \in SUBSET Encoders /\ time \in 0 .. MaxTime
      /\ SegLength \in Nat \ {0, 1} /\ MaxTime \in Nat
  BY LengthAssumption, LoggerdAssumption DEF LogInv, LogTypeOK
<1>3. ASSUME NEW x \in Encoders
      PROVE  /\ num'[x] = (num[x] + IF Rolls(x) THEN 1 ELSE 0) /\ num'[x] \in Nat /\ num'[x] >= num[x]
             /\ age'[x] = (IF Rolls(x) THEN 0 ELSE IF x \in alive THEN age[x] + 1 ELSE age[x])
             /\ age'[x] \in 0 .. SegLength
             /\ silence'[x] = silence[x] + 1 /\ silence'[x] \in Nat
  <2>1. num[x] \in Nat /\ age[x] \in 0 .. SegLength /\ silence[x] \in Nat
    BY <1>2
  <2>2. x \in alive /\ ~Rolls(x) => age[x] + 1 # SegLength
    BY DEF Rolls
  <2>3. /\ num'[x] = (num[x] + IF Rolls(x) THEN 1 ELSE 0) /\ silence'[x] = silence[x] + 1
        /\ age'[x] = (IF Rolls(x) THEN 0 ELSE IF x \in alive THEN age[x] + 1 ELSE age[x])
    BY <1>1
  <2>4. CASE x \in alive /\ age[x] = SegLength
    BY <1>2, <2>4 DEF LogInv, AgedBelow
  <2> QED BY <1>2, <2>1, <2>2, <2>3, <2>4
<1>4. LogTypeOK' /\ re' \in [Encoders -> RemoteEncoder] /\ sent' \subseteq Seen' /\ waiting' = Cardinality(Seen')
  <2>1. num' \in [Encoders -> Nat] /\ age' \in [Encoders -> 0 .. SegLength] /\ silence' \in [Encoders -> Nat]
    BY <1>1, <1>3
  <2>2. elapsed' \in Nat /\ time' \in 0 .. MaxTime
    BY <1>1, <1>2
  <2>3. Seen' = Seen
    BY <1>1 DEF Seen
  <2> QED BY <1>1, <1>2, <2>1, <2>2, <2>3 DEF LogTypeOK
<1>5. AgedBelow'
  BY <1>1, <1>2, <1>3 DEF LogInv, AgedBelow, Rolls
<1>6. Counted'
  <2> SUFFICES ASSUME MaxFailures - failures <= 1 PROVE ready <= Cardinality(Begun')
    BY <1>1 DEF Counted
  <2>1. ASSUME NEW x \in Begun PROVE x \in Begun'
    <3>1. x \in Encoders /\ re[x].seen /\ re[x].marked /\ num[x] - re[x].offset > segment
      BY DEF Begun, Seen, Number
    <3>2. re[x].offset \in Int /\ num[x] \in Int
      BY <1>2, <3>1 DEF RemoteEncoder
    <3>3. num'[x] - re[x].offset > segment
      BY <1>2, <1>3, <3>1, <3>2
    <3> QED BY <1>1, <3>1, <3>3 DEF Begun, Seen, Number
  <2>2. Begun \in SUBSET Begun' /\ Begun' \in SUBSET Encoders /\ Begun \in SUBSET Encoders
    BY <2>1 DEF Begun, Seen
  <2>3. Cardinality(Begun) <= Cardinality(Begun') /\ Cardinality(Begun) \in Nat /\ Cardinality(Begun') \in Nat
    BY <2>2, LoggedFinite, FS_Subset
  <2>4. ready <= Cardinality(Begun)
    BY DEF LogInv, Counted
  <2> QED BY <1>2, <2>3, <2>4
<1>7. InLockstep'
  <2> SUFFICES ASSUME Unfailed PROVE InLockstep'
    BY <1>1 DEF InLockstep, Unfailed
  <2>1. /\ alive = Encoders /\ mic /\ (AllAhead \/ AllLevel)
        /\ \A x, y \in Encoders : num[x] = num[y] /\ age[x] = age[y]
        /\ \A x \in Encoders : age[x] < SegLength /\ Quiet(x) /\ written[x] # "wrong"
    BY DEF LogInv, InLockstep
  <2>2. sent = Encoders /\ Seen = Encoders /\ Seen' = Encoders
    <3>1. Seen' = Seen /\ Seen \in SUBSET Encoders
      BY <1>1 DEF Seen
    <3> QED BY <1>1, <1>2, <2>1, <3>1
  <2>3. AllLevel
    BY <2>1, <2>2 DEF AllAhead
  <2>4. ASSUME NEW x \in Encoders
        PROVE  /\ ready = 0 /\ Number(x) = segment /\ elapsed <= age[x]
               /\ Settled(x) \/ (Follows(x) /\ age[x] = 0)
               /\ Settled(x) => silence[x] <= 0 /\ ~Follows(x)
               /\ Follows(x) => silence[x] <= 1
               /\ re[x].seen /\ x \notin sent'
    <3>1. ready = 0 /\ Number(x) = segment /\ elapsed <= age[x] /\ (Settled(x) \/ Follows(x) \/ Opens(x))
      BY <2>2, <2>3 DEF AllLevel
    <3>2. ~Opens(x) /\ (Follows(x) => age[x] = 0)
      BY <2>2 DEF Opens, Follows
    <3>3. Settled(x) => ~Follows(x)
      BY <1>2 DEF Settled, Follows
    <3>4. re[x].seen
      BY <2>2 DEF Seen
    <3>5. silence[x] <= IF Follows(x) THEN age[x] + 1 ELSE 0
      BY <2>1, <2>2, <3>1, <3>4 DEF Quiet
    <3> QED BY <1>1, <1>2, <3>1, <3>2, <3>3, <3>4, <3>5
  <2>5. \A x, y \in Encoders : num'[x] = num'[y] /\ age'[x] = age'[y]
    <3>1. \A x, y \in Encoders : Rolls(x) <=> Rolls(y)
      BY <2>1 DEF Rolls
    <3> QED BY <1>3, <2>1, <3>1
  <2>6. \A x \in Encoders : age'[x] < SegLength /\ written'[x] # "wrong"
    BY <1>1, <1>2, <1>3, <2>1 DEF Rolls
  <2>7. CASE \A x \in Encoders : Rolls(x)
    <3>1. ASSUME NEW x \in Encoders PROVE Ahead(x)' /\ Quiet(x)' /\ elapsed' <= SegLength
      <4>1. age[x] + 1 = SegLength /\ age'[x] = 0 /\ num'[x] = num[x] + 1
        BY <1>3, <2>7 DEF Rolls
      <4>2. Settled(x)
        BY <1>2, <2>4, <4>1
      <4>3. re[x].offset \in Int /\ num[x] \in Int
        BY <1>2 DEF RemoteEncoder
      <4>4. Number(x)' = segment' + 1
        BY <1>1, <1>2, <2>4, <4>1, <4>3 DEF Number
      <4>5. Ahead(x)'
        BY <1>1, <2>4, <4>1, <4>2, <4>4 DEF Ahead, Settled
      <4>6. silence'[x] <= 1 /\ ~Follows(x)' /\ x \notin sent'
        <5>1. silence'[x] <= 1
          BY <1>2, <1>3, <2>4, <4>2
        <5> QED BY <1>1, <1>2, <2>4, <4>2, <5>1 DEF Follows, Settled
      <4> QED BY <1>1, <1>2, <2>4, <4>1, <4>5, <4>6 DEF Quiet
    <3>2. AllAhead'
      <4>1. sent' # Encoders /\ Cardinality(sent') = 0 /\ elapsed' <= SegLength /\ ready' = 0
        BY <1>1, <2>4, <3>1, LoggerdAssumption, FS_EmptySet
      <4> QED BY <2>2, <3>1, <4>1 DEF AllAhead
    <3> QED BY <1>1, <2>1, <2>2, <2>5, <2>6, <3>1, <3>2 DEF InLockstep
  <2>8. CASE \A x \in Encoders : ~Rolls(x)
    <3>1. ASSUME NEW x \in Encoders
          PROVE  /\ Number(x)' = segment' /\ elapsed' <= age'[x] /\ (Settled(x)' \/ Follows(x)')
                 /\ Quiet(x)' /\ ready' = 0
      <4>1. age'[x] = age[x] + 1 /\ num'[x] = num[x]
        BY <1>2, <1>3, <2>1, <2>8
      <4>2. Number(x)' = segment' /\ elapsed' <= age'[x] /\ ready' = 0
        BY <1>1, <1>2, <2>4, <4>1 DEF Number
      <4>3. CASE Settled(x)
        <5>1. Settled(x)' /\ ~Follows(x)' /\ x \notin sent'
          BY <1>1, <1>2, <2>4, <4>3 DEF Settled, Follows
        <5>2. silence'[x] <= 1
          BY <1>2, <1>3, <2>4, <4>3
        <5> QED BY <4>2, <5>1, <5>2 DEF Quiet
      <4>4. CASE Follows(x) /\ age[x] = 0
        <5>1. Follows(x)'
          BY <1>1, <2>4, <4>1, <4>4 DEF Follows
        <5>2. silence'[x] <= age'[x] + 1
          BY <1>2, <1>3, <2>4, <4>1, <4>4
        <5>3. re'[x].seen
          BY <1>1, <2>4
        <5> QED BY <4>2, <5>1, <5>2, <5>3 DEF Quiet
      <4> QED BY <2>4, <4>3, <4>4
    <3>2. AllLevel'
      <4>1. ready' = 0
        BY <3>1, LoggerdAssumption
      <4> QED BY <2>2, <3>1, <4>1 DEF AllLevel
    <3> QED BY <1>1, <2>1, <2>2, <2>5, <2>6, <3>1, <3>2 DEF InLockstep
  <2> QED BY <2>1, <2>7, <2>8 DEF Rolls
<1> QED BY <1>4, <1>5, <1>6, <1>7 DEF LogInv

-----------------------------------------------------------------------------
\* Failures end the lockstep; a restart of encoderd, in it, comes between two segments.
LEMMA FailureKeeps ==
  ASSUME LogInv, EncoderdRestarts \/ MicDies \/ \E e \in Encoders : Stops(e) PROVE LogInv'
<1>1. /\ failures > 0 /\ failures' = failures - 1
      /\ UNCHANGED <<segment, elapsed, ready, waiting, re, sent, time, written, silence>>
      /\ alive' \subseteq Encoders
      /\ mic' \in BOOLEAN
  BY DEF LogInv, LogTypeOK, EncoderdRestarts, MicDies, Stops, Fails
<1>2. LogTypeOK /\ failures \in 0 .. MaxFailures /\ MaxFailures \in Nat /\ AgedBelow /\ SegLength \in Nat \ {0, 1}
  BY LoggerdAssumption, LengthAssumption DEF LogInv, LogTypeOK
<1>3. \/ UNCHANGED <<num, age>> /\ alive' \subseteq alive
      \/ /\ num' = [x \in Encoders |-> 0] /\ age' = [x \in Encoders |-> 0]
         /\ sent = {}
  BY DEF EncoderdRestarts, MicDies, Stops
<1>4. ~Unfailed'
  BY <1>1, <1>2 DEF Unfailed
<1>5. LogTypeOK' /\ AgedBelow' /\ Seen' = Seen
  <2>1. num' \in [Encoders -> Nat] /\ age' \in [Encoders -> 0 .. SegLength]
    <3>1. CASE UNCHANGED <<num, age>>
      BY <1>2, <3>1 DEF LogTypeOK
    <3>2. CASE num' = [x \in Encoders |-> 0] /\ age' = [x \in Encoders |-> 0]
      <4>1. 0 \in Nat /\ 0 \in 0 .. SegLength
        BY <1>2
      <4> QED BY <3>2, <4>1
    <3> QED BY <1>3, <3>1, <3>2
  <2>2. failures' \in 0 .. MaxFailures
    BY <1>1, <1>2
  <2>3. AgedBelow' /\ Seen' = Seen
    BY <1>1, <1>2, <1>3 DEF AgedBelow, Seen
  <2> QED BY <1>1, <1>2, <2>1, <2>2, <2>3 DEF LogTypeOK
<1>6. Counted'
  <2> SUFFICES ASSUME MaxFailures - failures' <= 1 PROVE ready <= Cardinality(Begun')
    BY <1>1 DEF Counted
  <2>1. Unfailed /\ MaxFailures - failures <= 1
    BY <1>1, <1>2 DEF Unfailed
  <2>2. Begun' \in SUBSET Encoders
    BY DEF Begun, Seen
  <2>3. CASE UNCHANGED <<num, age>>
    <3>1. Begun' = Begun
      BY <1>1, <1>5, <2>3 DEF Begun, Number
    <3> QED BY <2>1, <3>1 DEF LogInv, Counted
  <2>4. CASE sent = {}
    <3>1. ready = 0
      BY <2>1, <2>4, FS_EmptySet DEF LogInv, InLockstep, AllAhead, AllLevel
    <3> QED BY <2>2, <3>1, LoggedFinite
  <2> QED BY <1>3, <2>3, <2>4
<1> QED BY <1>1, <1>4, <1>5, <1>6 DEF LogInv, InLockstep

LEMMA LogInitially == LogInit => LogInv
<1> SUFFICES ASSUME LogInit PROVE LogInv
  OBVIOUS
<1>1. PICK n \in FirstNum, a \in 0 .. SegLength - 1 : num = [e \in Encoders |-> n] /\ age = [e \in Encoders |-> a]
  BY DEF LogInit
<1>2. /\ segment = 0 /\ elapsed = 0 /\ ready = 0 /\ waiting = 0 /\ re = [e \in Encoders |-> Fresh]
      /\ alive = Encoders /\ sent = {} /\ mic = TRUE /\ time = 0 /\ failures = MaxFailures
      /\ written = [e \in Encoders |-> "none"] /\ silence = [e \in Encoders |-> 0]
  BY DEF LogInit
<1>3. /\ SegLength \in Nat \ {0, 1} /\ FirstNum \subseteq Nat /\ MaxTime \in Nat /\ MaxFailures \in Nat /\ MaxQueue \in Nat
      /\ Encoders # {}
  BY LengthAssumption, LoggerdAssumption
<1>4. /\ Fresh.seen = FALSE /\ Fresh.offset = 0 /\ Fresh.current = -1 /\ Fresh.q = <<>> /\ Fresh.marked = FALSE
      /\ Fresh.audio = FALSE
  BY DEF Fresh
<1>5. Fresh \in RemoteEncoder
  <2>1. <<>> \in Seq(Int)
    OBVIOUS
  <2> QED BY <2>1 DEF Fresh, RemoteEncoder
<1>6. Seen = {} /\ Cardinality(Seen) = 0 /\ Cardinality(Encoders) \in Nat
  <2>1. Seen = {}
    BY <1>2, <1>4 DEF Seen
  <2>2. Encoders \in SUBSET Encoders
    OBVIOUS
  <2> QED BY <2>1, <2>2, FS_EmptySet, LoggedFinite
<1>7. a \in 0 .. SegLength /\ a < SegLength /\ n \in Nat /\ a \in Nat
  BY <1>1, <1>3
<1>8. LogTypeOK
  <2>1. num \in [Encoders -> Nat] /\ age \in [Encoders -> 0 .. SegLength] /\ silence \in [Encoders -> Nat]
    BY <1>1, <1>2, <1>7
  <2>2. ASSUME NEW e \in Encoders
        PROVE  /\ re[e].seen \in BOOLEAN /\ re[e].offset \in Int
               /\ re[e].current \in -1 .. segment /\ Len(re[e].q) <= MaxQueue + 1
               /\ re[e].marked \in BOOLEAN /\ re[e].audio \in BOOLEAN
    <3>1. re[e] = Fresh
      BY <1>2
    <3>2. Len(re[e].q) <= MaxQueue + 1
      BY <1>3, <1>4, <3>1
    <3>3. re[e].current \in -1 .. segment
      BY <1>2, <1>4, <3>1
    <3>4. re[e].offset \in Int
      BY <1>4, <3>1
    <3>5. re[e].seen \in BOOLEAN /\ re[e].marked \in BOOLEAN /\ re[e].audio \in BOOLEAN
      BY <1>4, <3>1, Zenon
    <3> QED BY <3>2, <3>3, <3>4, <3>5
  <2> QED BY <1>2, <1>3, <1>6, <2>1, <2>2 DEF LogTypeOK
<1>9. AllLevel /\ Counted
  <2>1. Begun = {}
    BY <1>6 DEF Begun
  <2> QED BY <1>2, <1>6, <2>1, FS_EmptySet DEF AllLevel, Counted
<1>10. ASSUME NEW e \in Encoders
       PROVE  age[e] < SegLength /\ Quiet(e) /\ written[e] # "wrong" /\ re[e] = Fresh /\ age[e] = a /\ num[e] = n
  <2>1. age[e] = a /\ num[e] = n /\ re[e] = Fresh /\ silence[e] = 0 /\ written[e] = "none"
    BY <1>1, <1>2
  <2>2. Quiet(e)
    BY <1>2, <1>4, <2>1 DEF Quiet
  <2> QED BY <1>7, <2>1, <2>2
<1>11. InLockstep /\ AgedBelow
  BY <1>2, <1>6, <1>9, <1>10 DEF InLockstep, AgedBelow
<1> QED BY <1>2, <1>5, <1>6, <1>8, <1>9, <1>11 DEF LogInv

LEMMA LogStep == LogInv /\ [LogNext]_logVars => LogInv'
<1> SUFFICES ASSUME LogInv, [LogNext]_logVars PROVE LogInv'
  OBVIOUS
<1>1. CASE \E e \in Encoders : Packet(e)
  BY <1>1, PacketKeeps
<1>2. CASE OtherMessage
  BY <1>2, OtherKeeps
<1>3. CASE Tick
  BY <1>3, TickKeeps
<1>4. CASE EncoderdRestarts \/ MicDies \/ \E e \in Encoders : Stops(e)
  BY <1>4, FailureKeeps
<1>5. CASE UNCHANGED logVars
  <2>1. LogTypeOK' /\ re' \in [Encoders -> RemoteEncoder] /\ Seen' = Seen /\ AgedBelow' /\ Begun' = Begun
    BY <1>5 DEF LogInv, LogTypeOK, logVars, Seen, AgedBelow, Begun, Number
  <2>2. InLockstep' <=> InLockstep
    BY <1>5 DEF logVars, InLockstep, AllAhead, AllLevel, Ahead, Settled, Follows, Opens, Quiet, Number, Seen, Unfailed
  <2> QED BY <1>5, <2>1, <2>2 DEF LogInv, Counted, logVars
<1> QED BY <1>1, <1>2, <1>3, <1>4, <1>5 DEF LogNext

LEMMA InStepAndPlace == LogInv => LogTypeOK /\ FiledInPlace /\ InStep
<1> SUFFICES ASSUME LogInv PROVE LogTypeOK /\ FiledInPlace /\ InStep
  OBVIOUS
<1>1. LogTypeOK /\ elapsed \in Nat /\ age \in [Encoders -> 0 .. SegLength] /\ silence \in [Encoders -> Nat] /\ SegLength \in Nat
  BY LengthAssumption DEF LogInv, LogTypeOK
<1>2. ASSUME Unfailed
      PROVE  elapsed <= SegLength /\ \A e \in Encoders : silence[e] <= 2 /\ written[e] # "wrong"
  <2>1. /\ AllAhead \/ AllLevel
        /\ \A e \in Encoders : Quiet(e) /\ written[e] # "wrong"
        /\ Seen # Encoders => elapsed = 0
    BY <1>2 DEF LogInv, InLockstep
  <2>2. elapsed <= SegLength
    <3>1. CASE AllAhead
      BY <3>1 DEF AllAhead
    <3>2. CASE Seen # Encoders
      BY <1>1, <2>1, <3>2
    <3>3. CASE AllLevel /\ Seen = Encoders
      <4>1. PICK e \in Encoders : TRUE
        BY LoggerdAssumption
      <4>2. elapsed <= age[e] /\ age[e] \in 0 .. SegLength
        BY <1>1, <3>3, <4>1 DEF AllLevel
      <4> QED BY <1>1, <4>2
    <3> QED BY <2>1, <3>1, <3>2, <3>3
  <2>3. ASSUME NEW e \in Encoders PROVE silence[e] <= 2
    <3>1. Follows(e) => age[e] <= 1
      BY DEF Follows
    <3> QED BY <1>1, <2>1, <3>1 DEF Quiet
  <2> QED BY <2>1, <2>2, <2>3
<1> QED BY <1>1, <1>2 DEF FiledInPlace, InStep, Unfailed

LEMMA TogetherStep ==
  ASSUME LogInv, [LogNext]_logVars, segment' # segment, ~MayTimeOut(sent' # {}), MaxFailures - failures <= 1
  PROVE  \A e \in Encoders : re'[e].seen => re'[e].marked
<1>1. CASE \E e \in Encoders : Packet(e)
  BY <1>1, PacketCounts
<1>2. CASE OtherMessage
  BY <1>2, OtherKeeps
<1>3. CASE ~OtherMessage /\ ~\E e \in Encoders : Packet(e)
  BY <1>3 DEF LogNext, Stops, Tick, EncoderdRestarts, MicDies, logVars
<1> QED BY <1>1, <1>2, <1>3

\* While no encoder fails, every packet is filed in its segment and no rotation waits for
\* the clock; after one failure too, a rotation that does not go by the clock has seen every
\* encoder begin the next segment (loggerd.cc).
THEOREM PacketsAreAlwaysInPlace == LogSpec => PacketsAreInPlace
<1>1. LogInv /\ [LogNext]_logVars =>
        [segment' # segment /\ ~MayTimeOut(sent' # {}) /\ MaxFailures - failures <= 1 =>
          \A e \in Encoders : re'[e].seen => re'[e].marked]_logVars
  BY TogetherStep
<1> QED BY LogInitially, LogStep, InStepAndPlace, <1>1, PTL DEF LogSpec, PacketsAreInPlace, RotatesTogether
=============================================================================
