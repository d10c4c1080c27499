---------------------------- MODULE NetworkManager ----------------------------
(***************************************************************************)
(* NetworkManager as the Wi-Fi manager of the UI sees it over D-Bus: one   *)
(* Wi-Fi device, the connections it keeps and the signals it sends, in the *)
(* orders that the tests of the manager record from real devices. It is    *)
(* not code of the repository. A connection is named by its network; the   *)
(* signals that the manager passes over whatever its state are left out.   *)
(***************************************************************************)
EXTENDS Naturals, Sequences

CONSTANTS
    Networks,       \* the networks, by ssid
    NoNetwork,
    MaxNetFaults,   \* bound: connections that fail, calls that NetworkManager refuses
    MaxBus          \* bound: signals on their way

ASSUME NetworkAssumption == NoNetwork \notin Networks /\ {MaxNetFaults, MaxBus} \subseteq Nat

VARIABLES
    device,     \* the state of the device and the network it is connected or connecting to
    saved,      \* the connections NetworkManager has
    volatile,   \* those among them that go with the device: not written to disk yet
    bus,        \* the signals on their way to the manager
    netFaults   \* how much has gone wrong

netVars == <<device, saved, volatile, bus, netFaults>>

\* PREPARE stands for all states of connecting up to ACTIVATED
States == {"DISCONNECTED", "PREPARE", "ACTIVATED"}
Off == [state |-> "DISCONNECTED", net |-> NoNetwork]

\* a signal: the new state (or the other event), the state before, the reason, and the
\* network it is about, which the signal itself does not say
Signal(new, prev, reason, n) == [new |-> new, prev |-> prev, reason |-> reason, of |-> n]
Signals ==
    { s \in [ new : States \cup {"NEED_AUTH", "FAILED", "DEACTIVATING", "NewConnection", "ConnectionRemoved", "PropertiesChanged"},
             prev : States \cup {"CONFIG", "NEED_AUTH", "FAILED", "DEACTIVATING"},
             reason : {"NONE", "NEW_ACTIVATION", "CONNECTION_REMOVED", "SUPPLICANT_DISCONNECT", "NO_SECRETS"},
             of : Networks \cup {NoNetwork} ] :
      s.new \in {"NewConnection", "ConnectionRemoved"} => s.of # NoNetwork }
Event(what, n) == Signal(what, "DISCONNECTED", "NONE", n)

NetTypeOK ==
    /\ device \in [state : States, net : Networks \cup {NoNetwork}]
    /\ volatile \subseteq saved /\ saved \subseteq Networks
    /\ bus \in Seq(Signals) /\ netFaults \in 0 .. MaxNetFaults

\* the active connection of the device, that of a network that is being tried too
ActiveWifi == device.net

Sends(signals) == bus' = bus \o signals /\ Len(bus') <= MaxBus

\* a connection that was never written to disk goes when the device leaves it
GoesWithDevice == volatile \cap {device.net}
Removals(gone) == IF gone = {} THEN <<>> ELSE <<Event("ConnectionRemoved", device.net)>>

Fault == netFaults < MaxNetFaults /\ netFaults' = netFaults + 1

\* leaving a network for another: an authentication that is broken off may still be told
Leaving(late) ==
    IF device = Off THEN <<>>
    ELSE <<Signal("DISCONNECTED", "DEACTIVATING", "NEW_ACTIVATION", device.net)>>
         \o (IF late THEN <<Signal("NEED_AUTH", "DISCONNECTED", "SUPPLICANT_DISCONNECT", device.net)>> ELSE <<>>)

\* ActivateConnection, AddAndActivateConnection2: the device goes over to network n
Activates(n, announced) ==
    LET gone == GoesWithDevice \ {n}
    IN  /\ \E late \in BOOLEAN :
             /\ Sends(announced \o Leaving(late) \o Removals(gone) \o <<Signal("PREPARE", "DISCONNECTED", "NONE", n)>>)
             /\ IF late THEN device # Off /\ Fault ELSE UNCHANGED netFaults
        /\ device' = [state |-> "PREPARE", net |-> n]
        /\ saved' = (saved \ gone) \cup {n}
        /\ volatile' = (IF announced = <<>> THEN volatile ELSE volatile \cup {n}) \ gone

\* Delete of a connection: ConnectionRemoved comes before or after the changes of state
Deletes(n) ==
    /\ n \in saved /\ saved' = saved \ {n} /\ volatile' = volatile \ {n}
    /\ LET removed == <<Event("ConnectionRemoved", n)>>
           off == <<Signal("DEACTIVATING", device.state, "CONNECTION_REMOVED", n),
                    Signal("DISCONNECTED", "DEACTIVATING", "CONNECTION_REMOVED", n)>>
       IN  IF device.net = n THEN (Sends(removed \o off) \/ Sends(off \o removed)) /\ device' = Off
                             ELSE Sends(removed) /\ UNCHANGED device
    /\ UNCHANGED netFaults

\* Save of a connection: written to disk
Saves(n) == volatile' = volatile \ {n} /\ UNCHANGED <<device, saved, netFaults>>

\* NetworkManager connects on its own to a network it knows
AutoConnect == device = Off /\ \E n \in saved : Activates(n, <<>>)

Connected ==
    /\ device.state = "PREPARE" /\ device' = [device EXCEPT !.state = "ACTIVATED"]
    /\ Sends(<<Signal("ACTIVATED", "CONFIG", "NONE", device.net)>>)
    /\ UNCHANGED <<saved, volatile, netFaults>>

GoesOff(before) ==
    /\ Sends(before \o <<Signal("DISCONNECTED", "FAILED", "NONE", device.net)>> \o Removals(GoesWithDevice))
    /\ device' = Off /\ saved' = saved \ GoesWithDevice /\ volatile' = volatile \ {device.net}

\* a strong network refuses the password, a weak one lets the handshake time out
Refuses ==
    LET noSecrets == <<Signal("FAILED", "NEED_AUTH", "NO_SECRETS", device.net)>>
    IN  /\ device.state = "PREPARE" /\ Fault
        /\ \/ GoesOff(<<Signal("NEED_AUTH", "CONFIG", "SUPPLICANT_DISCONNECT", device.net)>> \o noSecrets)
           \/ GoesOff(noSecrets)

\* the network is not found, or not any more
NetworkLost ==
    /\ device.state # "DISCONNECTED" /\ Fault
    /\ GoesOff(<<Signal("FAILED", device.state, "NONE", device.net)>>)
=============================================================================
