-------------------------------- MODULE MCWifi --------------------------------
(* The Wi-Fi manager and NetworkManager, with two networks that are known.   *)
EXTENDS WifiManager, TLC

MCInit == WifiInit /\ saved = Networks

MCSpec == MCInit /\ [][WifiNext]_wifiVars

\* networks and worker threads are alike; the properties are safety properties
Alike == Permutations(Networks)
=============================================================================
