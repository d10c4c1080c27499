-------------------------------- MODULE Modem --------------------------------
(***************************************************************************)
(* The cellular connection (common/hardware/comma/modem.py): a state       *)
(* machine that talks to the modem over a serial port it shares with the   *)
(* eSIM tool, dials with pppd and installs the routes of the session. A    *)
(* pass of its loop looks at the SIM and then runs the handler of its      *)
(* state; port, SIM, network, settings and pppd change at any time, also   *)
(* between the steps of a pass. All of modem.py is here but for what is    *)
(* only shown: signal, operator, band, temperatures and traffic.           *)
(***************************************************************************)
EXTENDS Naturals

CONSTANTS
    Sims,           \* the SIM profiles that may be active
    NoSim,          \* none, or one that cannot be read
    Roamers,        \* those with WEBBING_ICCID_PREFIX, which always roam
    Apns,           \* values of GsmApn
    MaxFails,       \* PPPSession.MAX_FAILS
    MaxTroubles     \* bound: how often the world changes in a behaviour

ASSUME SimAssumption == NoSim \notin Sims /\ Roamers \subseteq Sims
ASSUME FailsAssumption == MaxFails \in Nat \ {0} /\ MaxTroubles \in Nat

VARIABLES
    port,           \* AT_PORT exists
    deaf,           \* AT commands fail: a timeout, or the eSIM tool holds AT_LOCK
    sim,            \* the active SIM
    creg, greg,     \* what AT+CREG? and AT+CGREG? would say
    apnParam, roamParam,    \* the params GsmApn and GsmRoaming
    modemApn,       \* the APN of the context that is dialled, kept in the modem
    pppd,           \* the process: none, dialing, up with an address, lost, or exited
    routes,         \* none, those of the link that is up, or left over
    troubles,
    mst,            \* the state of the machine
    phase,          \* where in the pass it is
    ident,          \* the ICCID just read in INITIALIZING
    iccid,          \* S["iccid"]
    simChange, roamingAllowed, apn, \* _sim_change, _roaming_allowed, _apn
    fails, peer,    \* PPPSession: _fails, and whether _peer is set
    shown           \* S["connected"], as published

worldVars == <<port, deaf, sim, creg, greg, apnParam, roamParam, troubles>>
memVars == <<ident, iccid, simChange, roamingAllowed, apn>>
pppVars == <<pppd, routes, fails, peer>>
modemVars == <<worldVars, modemApn, pppVars, mst, phase, memVars, shown>>

Registered == {"home", "roaming"}
Allowed(id) == id \in Roamers \/ roamParam
Answers == port /\ ~deaf
Read == IF Answers THEN sim ELSE NoSim      \* AT+QCCID

FlagsOK ==
    /\ port \in BOOLEAN /\ deaf \in BOOLEAN /\ roamParam \in BOOLEAN
    /\ simChange \in BOOLEAN /\ roamingAllowed \in BOOLEAN /\ peer \in BOOLEAN /\ shown \in BOOLEAN
ValuesOK ==
    /\ sim \in Sims \cup {NoSim} /\ ident \in Sims \cup {NoSim} /\ iccid \in Sims \cup {NoSim}
    /\ creg \in Registered \cup {"searching"} /\ greg \in Registered \cup {"searching"}
    /\ apnParam \in Apns /\ apn \in Apns /\ modemApn \in Apns
    /\ pppd \in {"none", "dialing", "up", "lost", "exited"} /\ routes \in {"none", "here", "left"}
    /\ mst \in {"INITIALIZING", "SEARCHING", "CONNECTING", "CONNECTED", "DISCONNECTING"}
    /\ phase \in {"check", "handle", "adopt", "redial"}
CountsOK == fails \in 0 .. MaxFails /\ troubles \in 0 .. MaxTroubles
ModemTypeOK == FlagsOK /\ ValuesOK /\ CountsOK

\* run: what an earlier process left of pppd is killed, its routes are still there
ModemInit ==
    /\ port = TRUE /\ deaf = FALSE /\ sim \in Sims /\ creg = "searching" /\ greg = "searching"
    /\ apnParam \in Apns /\ modemApn \in Apns /\ roamParam \in BOOLEAN
    /\ pppd = "none" /\ routes \in {"none", "left"} /\ troubles = 0
    /\ mst = "INITIALIZING" /\ phase = "check" /\ ident = NoSim /\ iccid = NoSim
    /\ simChange = FALSE /\ roamingAllowed = TRUE /\ apn = apnParam
    /\ fails = 0 /\ peer = FALSE /\ shown = FALSE

-----------------------------------------------------------------------------
(* PPPSession.                                                               *)
PppdRuns == pppd \in {"dialing", "up", "lost"}
KillPppd == pppd' = (IF PppdRuns THEN "exited" ELSE pppd) /\ peer' = FALSE

\* mutant: a new session believes that the routes are those of the last
DialKeepsPeer == pppd' = "dialing" /\ peer' = peer

Dial == pppd' = "dialing" /\ peer' = FALSE

Enters(s) == mst' = s /\ phase' = "check"
Stays == Enters(mst)

\* maybe_install_routes: any of the commands may fail, which ends the session
InstallRoutes(ok) ==
    /\ routes' = IF ok THEN "here" ELSE "none"
    /\ IF ok THEN peer' = TRUE /\ UNCHANGED pppd ELSE KillPppd

\* and maybe_install_dns after it, which ends the session but leaves its routes
DnsFails == routes' = "left" /\ KillPppd

-----------------------------------------------------------------------------
(* A pass: _check_iccid, then the handler.                                   *)
CheckIccid ==
    /\ phase = "check" /\ phase' = "handle"
    /\ simChange' = (simChange \/ /\ mst \notin {"INITIALIZING", "DISCONNECTING"} /\ iccid # NoSim
                                  /\ Read \notin {NoSim, iccid})
    /\ UNCHANGED <<worldVars, modemApn, pppVars, mst, ident, iccid, roamingAllowed, apn, shown>>

Initializing ==
    /\ phase = "handle" /\ mst = "INITIALIZING"
    /\ IF port
       THEN KillPppd /\ routes' = "none" /\ UNCHANGED fails
       ELSE UNCHANGED pppVars
    /\ IF Read # NoSim
       THEN ident' = Read /\ phase' = "adopt" /\ UNCHANGED mst
       ELSE Stays /\ UNCHANGED ident
    /\ UNCHANGED <<worldVars, modemApn, iccid, simChange, roamingAllowed, apn, shown>>

\* the rest of it: the APN is written whether or not the modem takes it
Adopt ==
    /\ phase = "adopt" /\ Enters("SEARCHING")
    /\ iccid' = ident /\ apn' = apnParam /\ roamingAllowed' = Allowed(ident)
    /\ modemApn' = IF Answers THEN apnParam ELSE modemApn
    /\ simChange' = FALSE /\ ident' = NoSim
    /\ UNCHANGED <<worldVars, pppVars, shown>>

SearchingIdle == Enters(IF simChange \/ ~port THEN "DISCONNECTING" ELSE "SEARCHING")

Searching ==
    /\ phase = "handle" /\ mst = "SEARCHING"
    /\ roamingAllowed' = Allowed(iccid)
    /\ IF Answers /\ creg = "roaming" /\ ~Allowed(iccid) THEN Stays
       ELSE IF Answers /\ creg \in Registered /\ greg \in Registered THEN Enters("CONNECTING")
       ELSE SearchingIdle
    /\ UNCHANGED <<worldVars, modemApn, pppVars, ident, iccid, simChange, apn, shown>>

Connecting ==
    /\ phase = "handle" /\ mst = "CONNECTING" /\ Enters("CONNECTED")
    /\ fails' = 0 /\ simChange' = FALSE /\ Dial
    /\ UNCHANGED <<worldVars, modemApn, routes, ident, iccid, roamingAllowed, apn, shown>>

\* _handle_pppd_exit, up to reset_data_port
PppdExited ==
    /\ phase = "handle" /\ mst = "CONNECTED" /\ pppd = "exited"
    /\ IF simChange \/ ~port
       THEN Enters("DISCONNECTING") /\ UNCHANGED fails
       ELSE /\ fails' = fails + 1
            /\ IF fails' >= MaxFails THEN Enters("DISCONNECTING") ELSE phase' = "redial" /\ UNCHANGED mst
    /\ UNCHANGED <<worldVars, modemApn, memVars, pppd, routes, peer, shown>>

Redial ==
    /\ phase = "redial"
    /\ IF port THEN Dial /\ Stays ELSE Enters("DISCONNECTING") /\ UNCHANGED <<pppd, peer>>
    /\ UNCHANGED <<worldVars, modemApn, memVars, routes, fails, shown>>

\* _do_connected while pppd runs: the settings are compared, then _poll_iface
Changed == simChange \/ ~port \/ apnParam # apn \/ Allowed(iccid) # roamingAllowed

Connected ==
    /\ phase = "handle" /\ mst = "CONNECTED" /\ pppd # "exited"
    /\ IF Changed THEN Enters("DISCONNECTING") /\ UNCHANGED <<pppVars, shown>>
       ELSE /\ Stays /\ shown' = (pppd = "up") /\ UNCHANGED fails
            /\ IF pppd = "up" /\ ~peer THEN InstallRoutes(TRUE) ELSE UNCHANGED <<pppd, routes, peer>>
    /\ UNCHANGED <<worldVars, modemApn, memVars>>

Disconnecting ==
    /\ phase = "handle" /\ mst = "DISCONNECTING" /\ Enters("INITIALIZING")
    /\ iccid' = NoSim /\ shown' = FALSE /\ simChange' = FALSE
    /\ KillPppd /\ routes' = "none"
    /\ UNCHANGED <<worldVars, modemApn, fails, ident, roamingAllowed, apn>>

-----------------------------------------------------------------------------
(* What goes wrong in a pass.                                                *)
Trouble == troubles < MaxTroubles /\ troubles' = troubles + 1
SettingsRest == UNCHANGED <<port, deaf, sim, creg, greg, apnParam, roamParam>>

\* the session is shown as connected all the same
InstallFails ==
    /\ Trouble /\ phase = "handle" /\ mst = "CONNECTED" /\ pppd = "up" /\ ~peer /\ ~Changed
    /\ InstallRoutes(FALSE) \/ DnsFails
    /\ Stays /\ shown' = TRUE /\ SettingsRest /\ UNCHANGED <<modemApn, memVars, fails>>

\* an exception in the handler, before it has done anything
Raises ==
    /\ Trouble /\ phase # "check" /\ Enters("DISCONNECTING")
    /\ SettingsRest /\ UNCHANGED <<modemApn, pppVars, memVars, shown>>

\* the process is killed and started again by manager
Restarts ==
    /\ Trouble /\ Enters("INITIALIZING")
    /\ pppd' = "none" /\ peer' = FALSE /\ fails' = 0 /\ routes' = IF routes = "here" THEN "left" ELSE routes
    /\ iccid' = NoSim /\ ident' = NoSim /\ simChange' = FALSE /\ roamingAllowed' = TRUE
    /\ shown' = FALSE /\ SettingsRest /\ UNCHANGED <<modemApn, apn>>

-----------------------------------------------------------------------------
(* The world.                                                                *)
MachineRests == UNCHANGED <<mst, phase, memVars, fails, peer, shown, modemApn>>

\* the routes of a link that is gone are left over
LinkGoes ==
    /\ pppd' = IF pppd \in {"dialing", "up"} THEN "lost" ELSE pppd
    /\ routes' = IF routes = "here" THEN "left" ELSE routes

PortGoes ==
    /\ Trouble /\ port /\ port' = FALSE /\ creg' = "searching" /\ greg' = "searching" /\ LinkGoes
    /\ UNCHANGED <<deaf, sim, apnParam, roamParam>> /\ MachineRests

PortComes ==
    /\ ~port /\ port' = TRUE
    /\ UNCHANGED <<deaf, sim, creg, greg, apnParam, roamParam, troubles, pppd, routes>> /\ MachineRests

\* a SIM is taken out, put in, or another profile is enabled: the modem has to register anew
SimChanges ==
    /\ Trouble /\ sim' \in (Sims \cup {NoSim}) \ {sim}
    /\ creg' = "searching" /\ greg' = "searching" /\ LinkGoes
    /\ UNCHANGED <<port, deaf, apnParam, roamParam>> /\ MachineRests

Deafens ==
    /\ Trouble /\ deaf' = ~deaf
    /\ UNCHANGED <<port, sim, creg, greg, apnParam, roamParam, pppd, routes>> /\ MachineRests

Registers ==
    /\ port /\ sim # NoSim /\ "searching" \in {creg, greg}
    /\ creg' \in Registered /\ greg' \in {creg', "searching"}
    /\ UNCHANGED <<port, deaf, sim, apnParam, roamParam, troubles, pppd, routes>> /\ MachineRests

\* over a border, or out of reach: a session that is up may last
Roams ==
    /\ Trouble /\ creg # "searching" /\ creg' \in (Registered \cup {"searching"}) \ {creg} /\ greg' = creg'
    /\ UNCHANGED <<port, deaf, sim, apnParam, roamParam, pppd, routes>> /\ MachineRests

UserSets ==
    /\ Trouble /\ \/ apnParam' \in Apns \ {apnParam} /\ UNCHANGED roamParam
                  \/ roamParam' = ~roamParam /\ UNCHANGED apnParam
    /\ UNCHANGED <<port, deaf, sim, creg, greg, pppd, routes>> /\ MachineRests

\* the network takes the call if the APN is the right one
LinkComes ==
    /\ pppd = "dialing" /\ greg \in Registered /\ modemApn = apnParam
    /\ pppd' = "up" /\ UNCHANGED <<worldVars, routes>> /\ MachineRests

\* chat or the negotiation fails, or lcp-echo gets no answer any more
PppdEnds ==
    /\ pppd \in {"dialing", "lost"} /\ pppd' = "exited"
    /\ UNCHANGED <<worldVars, routes>> /\ MachineRests

LinkDrops == Trouble /\ pppd = "up" /\ LinkGoes /\ SettingsRest /\ MachineRests

ModemPass ==
    \/ CheckIccid \/ Initializing \/ Adopt \/ Searching \/ Connecting
    \/ PppdExited \/ Redial \/ Connected \/ Disconnecting
ModemTroubles ==
    \/ InstallFails \/ Raises \/ Restarts \/ PortGoes \/ SimChanges \/ Deafens
    \/ Roams \/ UserSets \/ LinkDrops
ModemNext == ModemPass \/ ModemTroubles \/ PortComes \/ Registers \/ LinkComes \/ PppdEnds

ModemSpec == ModemInit /\ [][ModemNext]_modemVars

-----------------------------------------------------------------------------
(* While the modem searches nothing of an earlier session is left: no pppd,  *)
(* no routes, nothing shown as connected, whatever broke it off: a second    *)
(* pppd would take the port from the first.                                  *)
SearchingIsClean ==
    mst \in {"SEARCHING", "CONNECTING"} => ~PppdRuns /\ routes = "none" /\ ~shown
RedialsAlone == phase = "redial" => ~PppdRuns

(* A session that is up and believed routed has the routes of this session,  *)
(* not those of the one before it over the same peer.                        *)
RoutesFitTheLink == peer /\ pppd = "up" => routes = "here"

ConnectionIsWhole == ModemTypeOK /\ SearchingIsClean /\ RedialsAlone /\ RoutesFitTheLink

(* Once port, SIM, registration and AT channel stay good, the device gets    *)
(* online with the SIM and the APN of now, whatever was lost before: a SIM   *)
(* changed unseen, an APN the modem did not take, routes that failed.        *)
Fine ==
    /\ Answers /\ sim # NoSim /\ greg \in Registered
    /\ creg = "home" \/ (creg = "roaming" /\ roamParam)
Online ==
    /\ mst = "CONNECTED" /\ pppd = "up" /\ peer /\ routes = "here" /\ shown
    /\ iccid = sim /\ modemApn = apnParam
GetsOnline == <>[]Fine => <>[]Online

(* Once roaming is switched off for good, a session that was begun when it   *)
(* was allowed ends, and none is begun again with what was allowed then.     *)
RoamingEnds == <>[]~roamParam => <>[](PppdRuns => ~roamingAllowed \/ iccid \in Roamers)
==============================================================================
