------------------------------ MODULE WifiManager ------------------------------
(***************************************************************************)
(* The Wi-Fi manager of the UI (wifi_manager.py). _wifi_state, what the UI *)
(* shows, is written by three kinds of threads without a lock: the UI when *)
(* the user picks a network, the monitor that follows the signals of       *)
(* NetworkManager, and workers that ask NetworkManager anew. Those that    *)
(* wait for an answer of D-Bus compare _user_epoch before they write.      *)
(***************************************************************************)
EXTENDS NetworkManager

CONSTANTS
    Threads,        \* the worker threads that can run at a time
    Monitor,        \* the thread of _monitor_state
    SIGNAL_QUEUE_SIZE,
    MaxTaps         \* bound: what the user does

ASSUME TapsAssumption == {MaxTaps, SIGNAL_QUEUE_SIZE} \subseteq Nat /\ Monitor \notin Threads

VARIABLES
    wifi_state,     \* self._wifi_state
    user_epoch,     \* the threads whose copy of self._user_epoch is the current one
    connections,    \* the keys of self._connections
    state_q,        \* signals of the device that the monitor has received
    conn_q,         \* the networks of removed_conn_q and new_conn_q
    monitor,        \* what the monitor does: the network it found, the state it copied
    worker,         \* what each worker does
    taps,           \* how often the user has done something
    overtaken,      \* history: a worker wrote the state shown from an answer that no longer held
    ignored         \* history: a DISCONNECTED was passed over for a network nobody connects to

history == <<overtaken, ignored>>
wmVars == <<wifi_state, user_epoch, connections, state_q, conn_q, monitor, worker, taps, history>>
wifiVars == <<netVars, wmVars>>

Shown == [ssid : Networks \cup {NoNetwork}, status : {"DISCONNECTED", "CONNECTING", "CONNECTED"}]
Nothing == [ssid |-> NoNetwork, status |-> "DISCONNECTED"]
Connecting(n) == [ssid |-> n, status |-> "CONNECTING"]
NoConn == [removed |-> {}, new |-> {}]
Listening == [at |-> "listen", was |-> Nothing, net |-> NoNetwork]
Done == [op |-> "done", ssid |-> NoNetwork, read |-> Off]

WifiTypeOK ==
    /\ NetTypeOK /\ wifi_state \in Shown /\ connections \subseteq Networks
    /\ user_epoch \subseteq Threads \cup {Monitor}
    /\ state_q \in Seq(Signals) /\ conn_q \in [removed : SUBSET Networks, new : SUBSET Networks]
    /\ monitor \in [at : {"listen", "lookup", "write", "save"}, was : Shown, net : Networks \cup {NoNetwork}]
    /\ worker \in [Threads -> [ op : {"done", "connect", "add", "activate", "forget", "init", "lookup", "write"},
                                ssid : Networks \cup {NoNetwork},
                                read : [state : States, net : Networks \cup {NoNetwork}] ]]
    /\ taps \in 0 .. MaxTaps /\ overtaken \in BOOLEAN /\ ignored \in BOOLEAN

\* after _initialize: the device is off or connected, and shown so
WifiInit ==
    /\ saved \in SUBSET Networks /\ connections = saved /\ volatile = {} /\ bus = <<>> /\ netFaults = 0
    /\ \/ device = Off /\ wifi_state = Nothing
       \/ \E n \in saved : /\ device = [state |-> "ACTIVATED", net |-> n]
                           /\ wifi_state = [ssid |-> n, status |-> "CONNECTED"]
    /\ user_epoch = {} /\ state_q = <<>> /\ conn_q = NoConn /\ monitor = Listening
    /\ worker = [t \in Threads |-> Done] /\ taps = 0 /\ overtaken = FALSE /\ ignored = FALSE

\* _set_connecting: whoever waits for an answer has an old epoch now
SetConnecting(shown) == wifi_state' = shown /\ user_epoch' = {} /\ overtaken' = FALSE /\ ignored' = FALSE

ShowsSame == UNCHANGED <<wifi_state, history, user_epoch>>

-----------------------------------------------------------------------------
\* The UI thread. What the user picks is shown before NetworkManager is asked.
Starts(op, n) ==
    /\ taps < MaxTaps /\ taps' = taps + 1
    /\ \E t \in Threads : worker[t] = Done
    /\ worker' = [worker EXCEPT ![CHOOSE t \in Threads : worker[t] = Done] = [Done EXCEPT !.op = op, !.ssid = n]]
    /\ UNCHANGED <<netVars, connections, state_q, conn_q, monitor>>

ConnectToNetwork(n) == SetConnecting(Connecting(n)) /\ Starts("connect", n)
ActivateConnection(n) == SetConnecting(Connecting(n)) /\ Starts("activate", n)
ForgetConnection(n) == Starts("forget", n) /\ ShowsSame
SetActive == Starts("init", NoNetwork) /\ ShowsSame

\* the screen offers to activate and to forget what is saved, and not to activate what it shows
UserActs ==
    \/ \E n \in Networks : ConnectToNetwork(n)
    \/ \E n \in connections : ForgetConnection(n) \/ (wifi_state.ssid # n /\ ActivateConnection(n))
    \/ SetActive

-----------------------------------------------------------------------------
\* The workers
Does(t, op) == worker[t].op = op
Goes(t, op) == worker' = [worker EXCEPT ![t] = IF op = "done" THEN Done ELSE [@ EXCEPT !.op = op]]
WorkerOnly == UNCHANGED <<connections, state_q, conn_q, monitor, taps>>

\* Delete, if the manager knows a connection; connect_to_network goes on after it
Forget(t) ==
    /\ Does(t, "forget") \/ Does(t, "connect")
    /\ IF worker[t].ssid \in connections \cap saved THEN Deletes(worker[t].ssid) ELSE UNCHANGED netVars
    /\ Goes(t, IF Does(t, "connect") THEN "add" ELSE "done")
    /\ ShowsSame /\ WorkerOnly

AddAndActivate(t) ==
    /\ Does(t, "add") /\ Activates(worker[t].ssid, <<Event("NewConnection", worker[t].ssid)>>)
    /\ Goes(t, "done") /\ ShowsSame /\ WorkerOnly

Activate(t) ==
    /\ Does(t, "activate") /\ worker[t].ssid \in connections \cap saved
    /\ Activates(worker[t].ssid, <<>>)
    /\ Goes(t, "done") /\ ShowsSame /\ WorkerOnly

\* mutant: a call that is refused is only logged
CallFailsQuietly(t) ==
    /\ \/ (Does(t, "add") \/ Does(t, "activate")) /\ Fault
       \/ Does(t, "activate") /\ worker[t].ssid \notin connections \cap saved /\ UNCHANGED netFaults
    /\ Goes(t, "done") /\ ShowsSame /\ WorkerOnly
    /\ UNCHANGED <<device, saved, volatile, bus>>

\* the call is refused, or the connection is not known (any more): NetworkManager is asked
CallFails(t) ==
    /\ \/ (Does(t, "add") \/ Does(t, "activate")) /\ Fault
       \/ Does(t, "activate") /\ worker[t].ssid \notin connections \cap saved /\ UNCHANGED netFaults
    /\ Goes(t, "init") /\ ShowsSame /\ WorkerOnly
    /\ UNCHANGED <<device, saved, volatile, bus>>

\* _init_wifi_state: the state of the device, then its connection, then the write
ReadState(t) ==
    /\ Does(t, "init")
    /\ user_epoch' = user_epoch \cup {t}
    /\ worker' = [worker EXCEPT ![t].op = "lookup", ![t].read = [device EXCEPT !.net = NoNetwork]]
    /\ UNCHANGED <<netVars, wifi_state, history>> /\ WorkerOnly

ReadConnection(t) ==
    /\ Does(t, "lookup")
    /\ worker' = IF t \in user_epoch THEN [worker EXCEPT ![t].op = "write", ![t].read.net = ActiveWifi]
                 ELSE [worker EXCEPT ![t] = Done]
    /\ UNCHANGED netVars /\ ShowsSame /\ WorkerOnly

StatusOf(state) == CASE state = "DISCONNECTED" -> "DISCONNECTED"
                     [] state = "ACTIVATED" -> "CONNECTED"
                     [] OTHER -> "CONNECTING"

Known(n) == IF n \in connections THEN n ELSE NoNetwork

WriteRead(t) ==
    LET read == worker[t].read
    IN  /\ Does(t, "write")
        /\ wifi_state' = [ssid |-> Known(read.net), status |-> StatusOf(read.state)]
        /\ overtaken' = (read # device) /\ ignored' = FALSE
        /\ Goes(t, "done") /\ WorkerOnly /\ UNCHANGED <<netVars, user_epoch>>

WorkerRuns(t) ==
    \/ Forget(t) \/ AddAndActivate(t) \/ Activate(t) \/ CallFails(t)
    \/ ReadState(t) \/ ReadConnection(t) \/ WriteRead(t)

-----------------------------------------------------------------------------
\* The monitor. recv_messages hands it one signal; others may come while it waits for a
\* reply on the same connection, and stay in their queues until the next one is received.
IsState(s) == s.new \notin {"NewConnection", "ConnectionRemoved", "PropertiesChanged"}
StateSignals(s) == IF IsState(s) THEN <<s>> ELSE <<>>
About(s, what) == IF s.new = what THEN {s.of} ELSE {}
ConnSignals(s) == [removed |-> conn_q.removed \cup About(s, "ConnectionRemoved"),
                   new |-> conn_q.new \cup About(s, "NewConnection")]

MonitorOnly == UNCHANGED <<worker, taps>>

\* a new connection is asked for its settings: one that is gone again is not taken
Receive ==
    /\ monitor.at = "listen" /\ state_q = <<>> /\ bus # <<>>
    /\ LET q == ConnSignals(Head(bus))
       IN  connections' = (connections \ q.removed) \cup (q.new \cap saved)
    /\ bus' = Tail(bus) /\ state_q' = StateSignals(Head(bus)) /\ conn_q' = NoConn
    /\ ShowsSame /\ MonitorOnly /\ UNCHANGED <<device, saved, volatile, netFaults, monitor>>

Handles(news) ==
    /\ monitor.at = "listen" /\ state_q # <<>> /\ Head(state_q).new \in news
    /\ state_q' = Tail(state_q) /\ MonitorOnly /\ UNCHANGED <<netVars, connections, conn_q>>

\* mutant: a removal always clears the state
DisconnectedAlways ==
    /\ Handles({"DISCONNECTED"}) /\ UNCHANGED monitor
    /\ IF Head(state_q).reason = "NEW_ACTIVATION" THEN ShowsSame ELSE SetConnecting(Nothing)

\* NetworkManager connects to n, or is going to be asked to
Coming(n) == device.net = n \/ \E t \in Threads : worker[t].ssid = n /\ worker[t].op \in {"connect", "add", "activate"}

Disconnected ==
    LET known == Head(state_q).reason = "CONNECTION_REMOVED" /\ wifi_state.ssid \in connections
    IN  /\ Handles({"DISCONNECTED"}) /\ UNCHANGED monitor
        /\ IF Head(state_q).reason = "NEW_ACTIVATION" \/ known
           THEN /\ UNCHANGED <<wifi_state, user_epoch, overtaken>>
                /\ ignored' = (ignored \/ (known /\ ~Coming(wifi_state.ssid)))
           ELSE SetConnecting(Nothing)

\* what the user picked stays; otherwise NetworkManager is asked what it connects to
Preparing ==
    /\ Handles({"PREPARE"})
    /\ IF wifi_state.ssid # NoNetwork
       THEN /\ wifi_state' = [wifi_state EXCEPT !.status = "CONNECTING"]
            /\ UNCHANGED <<history, user_epoch, monitor>>
       ELSE /\ monitor' = [Listening EXCEPT !.at = "lookup", !.was = Connecting(NoNetwork)]
            /\ user_epoch' = user_epoch \cup {Monitor} /\ UNCHANGED <<wifi_state, history>>

Refused(s) == \/ s.new = "NEED_AUTH" /\ s.reason = "SUPPLICANT_DISCONNECT" /\ s.prev = "CONFIG"
              \/ s.new = "FAILED" /\ s.reason = "NO_SECRETS"

\* the callback need_auth names the network that is shown
WrongPassword ==
    /\ Handles({"NEED_AUTH", "FAILED"}) /\ UNCHANGED monitor
    /\ IF Refused(Head(state_q)) /\ wifi_state.ssid # NoNetwork
       THEN SetConnecting(Nothing) ELSE ShowsSame

Activated ==
    /\ Handles({"ACTIVATED"}) /\ UNCHANGED <<wifi_state, history>>
    /\ monitor' = [Listening EXCEPT !.at = "lookup", !.was = [wifi_state EXCEPT !.status = "CONNECTED"]]
    /\ user_epoch' = user_epoch \cup {Monitor}

Deactivating ==
    /\ Handles({"DEACTIVATING"}) /\ UNCHANGED monitor
    /\ IF Head(state_q).reason = "CONNECTION_REMOVED" /\ wifi_state.status = "CONNECTED"
       THEN SetConnecting(Nothing) ELSE ShowsSame

\* a signal that arrives before the reply. Bound: the queue is not full, when it would drop its oldest
Arrives ==
    /\ monitor.at \in {"lookup", "save"} /\ bus # <<>> /\ bus' = Tail(bus)
    /\ Len(state_q) < SIGNAL_QUEUE_SIZE
    /\ state_q' = state_q \o StateSignals(Head(bus)) /\ conn_q' = ConnSignals(Head(bus))
    /\ ShowsSame /\ MonitorOnly /\ UNCHANGED <<device, saved, volatile, netFaults, connections, monitor>>

Lookup ==
    /\ monitor.at = "lookup"
    /\ monitor' = IF Monitor \in user_epoch THEN [monitor EXCEPT !.at = "write", !.net = ActiveWifi] ELSE Listening
    /\ ShowsSame /\ MonitorOnly /\ UNCHANGED <<netVars, connections, state_q, conn_q>>

WriteFound ==
    /\ monitor.at = "write"
    /\ wifi_state' = IF monitor.net = NoNetwork THEN monitor.was ELSE [monitor.was EXCEPT !.ssid = Known(monitor.net)]
    /\ overtaken' = FALSE /\ ignored' = FALSE
    /\ monitor' = IF monitor.was.status = "CONNECTED" /\ monitor.net # NoNetwork
                  THEN [monitor EXCEPT !.at = "save"] ELSE Listening
    /\ MonitorOnly /\ UNCHANGED <<netVars, user_epoch, connections, state_q, conn_q>>

SaveConnection ==
    /\ monitor.at = "save" /\ Saves(monitor.net) /\ monitor' = Listening
    /\ ShowsSame /\ MonitorOnly /\ UNCHANGED <<bus, connections, state_q, conn_q>>

MonitorRuns ==
    \/ Receive \/ Disconnected \/ Preparing \/ WrongPassword \/ Activated \/ Deactivating
    \/ Arrives \/ Lookup \/ WriteFound \/ SaveConnection

\* the scanner asks for a scan again and again: its result wakes the monitor
ScanDone ==
    /\ bus = <<>> /\ conn_q # NoConn /\ Sends(<<Event("PropertiesChanged", NoNetwork)>>)
    /\ UNCHANGED <<device, saved, volatile, netFaults, wmVars>>

\* joining a network, or failing to, takes seconds: the signals before it are handled by then
Handled == monitor.at = "listen" /\ state_q = <<>> /\ bus = <<>>

NetworkActs ==
    /\ AutoConnect \/ NetworkLost \/ (Handled /\ (Connected \/ Refuses))
    /\ UNCHANGED wmVars

WifiNext == UserActs \/ (\E t \in Threads : WorkerRuns(t)) \/ MonitorRuns \/ ScanDone \/ NetworkActs
WifiSpec == WifiInit /\ [][WifiNext]_wifiVars

Rest ==
    /\ Handled /\ \A t \in Threads : worker[t] = Done
    /\ device.state \in {"DISCONNECTED", "ACTIVATED"}

\* Once every signal is handled and no thread runs, the UI shows what the device does,
\* whatever the threads wrote over each other: what the monitor writes over a newer pick
\* of the user, and a worker over what the monitor wrote, is put right by the signals
\* that follow. Two things the code does not put right. A worker writes an answer that
\* the device has overtaken, when the signals of that are handled: it compares the epoch
\* of the user, which they do not count, and it compares before it writes. And the
\* DISCONNECTED of a removal is passed over for a network that is still known: the UI
\* goes on connecting to a network that nobody connects to, but it never shows one as
\* connected.
ShownAtRest ==
    Rest /\ ~overtaken =>
        \/ wifi_state = [ssid |-> device.net, status |-> StatusOf(device.state)]
        \/ ignored /\ device = Off /\ wifi_state.status # "CONNECTED"

\* The networks the UI offers to activate and to forget are the ones NetworkManager
\* has, whichever queue a signal went through and whatever was removed meanwhile.
KnownAtRest == Rest /\ conn_q = NoConn => connections = saved

\* What the UI shows is true whenever nothing is under way.
TruthfulAtRest == WifiTypeOK /\ ShownAtRest /\ KnownAtRest

\* Forgetting a network while the manager connects to another one it knows never
\* clears that other one, though the signals do not say which network they are about.
PickSurvivesForget ==
    [][ /\ Disconnected \/ Deactivating
        /\ Head(state_q).reason = "CONNECTION_REMOVED" /\ Head(state_q).of # wifi_state.ssid
        /\ wifi_state.status = "CONNECTING" /\ wifi_state.ssid \in connections
        => wifi_state' = wifi_state ]_wifiVars

\* "must be ignored to avoid a false wrong-password callback": need_auth names the
\* network that refused the password.
BlamesRefuser == [][ WrongPassword /\ wifi_state' # wifi_state => wifi_state.ssid = Head(state_q).of ]_wifiVars
=============================================================================
