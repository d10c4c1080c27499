----------------------------- MODULE MCServices ------------------------------
(***************************************************************************)
(* Services beside the driving, checked in seven parts of one run; a       *)
(* behaviour belongs to one:                                               *)
(*   params:   the store of parameters;                                    *)
(*   rotation: loggerd and its encoders;                                   *)
(*   uploads:  the segments, with loggerd and the uploader;                *)
(*   deletes:  the segments, with loggerd and the deleter;                 *)
(*   both:     the first two segments, with all three;                     *)
(*   modem:    the cellular connection;                                    *)
(*   stream:   startStream and webrtcd.                                    *)
(***************************************************************************)
EXTENDS Params, LogStorage, Loggerd, Modem, Livestream

VARIABLE part
mcVars == <<paramVars, logVars, storeVars, modemVars, streamVars, part>>

MCInit ==
    /\ ParamsInit /\ StoreInit /\ LogInit /\ ModemInit /\ StreamInit
    /\ part \in {"params", "rotation", "uploads", "deletes", "both", "modem", "stream"}
    /\ part # "rotation" => num = [e \in Encoders |-> 0] /\ age = [e \in Encoders |-> 0]
    /\ part # "uploads" => cameras
    /\ part # "modem" => sim \notin Roamers /\ modemApn = "a" /\ ~roamParam /\ routes = "none"
    /\ apnParam = "a"  \* the two APNs are alike

MCStore ==
    /\ StoreNext
    /\ starts' \subseteq {0, 2}  \* bound: there is a second drive, and it begins with segment 2
    /\ part = "uploads" => UNCHANGED deleter /\ preserve' = {}
    /\ part = "deletes" => UNCHANGED <<uploader, early, cameras>> /\ preserve' \subseteq {0, 3}
    /\ part = "both" => preserve' = {} /\ opened' <= 2

\* The keys are alike: the first call that names one of them names this one.
FirstKey == CHOOSE k \in Keys : TRUE
MCParams ==
    /\ ParamsNext
    /\ nextId = 1 => /\ \A t \in Threads : job'[t].todo \in { {}, { FirstKey }, Keys }
                     /\ \A i \in DOMAIN queue' : queue'[i].key = FirstKey

MCNext ==
    /\ UNCHANGED part
    /\ \/ part = "params" /\ MCParams /\ UNCHANGED <<logVars, storeVars, modemVars, streamVars>>
       \/ part = "rotation" /\ LogNext /\ UNCHANGED <<paramVars, storeVars, modemVars, streamVars>>
       \/ part \in {"uploads", "deletes", "both"} /\ MCStore
          /\ UNCHANGED <<paramVars, logVars, modemVars, streamVars>>
       \/ part = "modem" /\ ModemNext /\ UNCHANGED <<paramVars, logVars, storeVars, streamVars>>
       \/ part = "stream" /\ StreamNext /\ UNCHANGED <<paramVars, logVars, storeVars, modemVars>>

\* loggerd and the uploader run, the server takes every file that is offered again and again;
\* the modem is served; a network that is dialled with the right APN again and again
\* answers; athenad, webrtcd and manager work
MCFairness ==
    /\ WF_storeVars(part = "uploads" /\ Logger)
    /\ WF_storeVars(part = "uploads" /\ NextFile)
    /\ SF_storeVars(part = "uploads" /\ Accepted) /\ WF_storeVars(part = "uploads" /\ Tag)
    /\ WF_modemVars(part = "modem" /\ ModemPass) /\ WF_modemVars(part = "modem" /\ PppdEnds)
    /\ SF_modemVars(part = "modem" /\ LinkComes)
    /\ WF_streamVars(part = "stream" /\ StreamingWorks)

MCSpec == MCInit /\ [][MCNext]_mcVars /\ MCFairness

\* What must happen in the end: every log is sent unless it is deleted, the modem gets
\* online, a session begun while roaming was allowed ends once it is switched off, and the
\* cameras go off.
ServicesInTheEnd ==
    /\ part = "uploads" => SentOrDeleted
    /\ part = "modem" => GetsOnline /\ RoamingEnds
    /\ part = "stream" => CamerasGoOff
=============================================================================
