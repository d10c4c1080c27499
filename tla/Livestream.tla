----------------------------- MODULE Livestream ------------------------------
(***************************************************************************)
(* Watching the cameras from afar: startStream of athenad switches the     *)
(* param IsLiveStreaming on, manager then starts webrtcd                   *)
(* (system/webrtc/webrtcd.py) and camerad, and webrtcd switches the param  *)
(* off again. Its coroutines run one at a time; a step here is what one of *)
(* them does from an await to the next. Codec, bit rate, data channel and  *)
(* the messages of the session other than livestreamVideoEnable are left   *)
(* out.                                                                    *)
(***************************************************************************)
EXTENDS Naturals, FiniteSets

CONSTANTS
    Callers,        \* the handler threads of athenad that may call startStream
    NoCall,         \* holder of a lock that is free
    MaxStreams,     \* bound: StreamSession objects of a behaviour
    MaxToggles      \* bound: times the viewer switches the video on or off

ASSUME CallerAssumption == NoCall \notin Callers /\ MaxStreams \in Nat /\ MaxToggles \in Nat

Streams == 1 .. MaxStreams

VARIABLES
    liveParam,      \* IsLiveStreaming
    server,         \* webrtcd: off, up, or told to end
    teardown,       \* state.teardown: the timer of clear is running
    streams,        \* state.streams: the sessions in the dict
    streamLock,     \* state.stream_lock: the call whose request holds it
    call,           \* startStream: idle, waiting for webrtcd, or posted
    wants,          \* its argument enabled
    request,        \* handle_get_stream: none, queued, stopping, failing, answering
    mine,           \* the session it stops, then the one it makes, 0 for none
    made,           \* sessions made so far
    task,           \* run_task: none, new, connecting, connected, cleaning, done
    cleanup,        \* post_run_cleanup: no, at the await of a stage, done, or cut off
    held,           \* what a session has running
    shows,          \* session.enabled
    toggles,
    orphaned        \* auxiliary: since a session last started, a call has failed, or webrtcd
                    \* has ended with the param switched on again

callVars == <<call, wants, request, mine, streamLock>>
sessionVars == <<task, cleanup, held, shows>>
serverVars == <<liveParam, server, teardown, streams, made, toggles, orphaned>>
streamVars == <<callVars, sessionVars, serverVars>>

Stages == {"bitrate", "bridge", "peer"}

StreamTypeOK ==
    /\ {liveParam, teardown, orphaned} \subseteq BOOLEAN
    /\ server \in {"off", "up", "ending"}
    /\ streams \subseteq Streams /\ streamLock \in Callers \cup {NoCall}
    /\ call \in [Callers -> {"idle", "waiting", "posted"}] /\ wants \in [Callers -> BOOLEAN]
    /\ request \in [Callers -> {"none", "queued", "stopping", "answering", "failing"}]
    /\ mine \in [Callers -> Streams \cup {0}] /\ made \in 0 .. MaxStreams
    /\ task \in [Streams -> {"none", "new", "connecting", "connected", "cleaning", "done"}]
    /\ cleanup \in [Streams -> Stages \cup {"no", "done", "cut"}]
    /\ held \in [Streams -> SUBSET {"bitrate", "bridge", "tracks", "peer"}]
    /\ shows \in [Streams -> BOOLEAN] /\ toggles \in 0 .. MaxToggles

StreamInit ==
    /\ liveParam = FALSE /\ server = "off" /\ teardown = FALSE /\ streams = {}
    /\ streamLock = NoCall /\ call = [c \in Callers |-> "idle"]
    /\ wants = [c \in Callers |-> FALSE]
    /\ request = [c \in Callers |-> "none"] /\ mine = [c \in Callers |-> 0] /\ made = 0
    /\ task = [s \in Streams |-> "none"] /\ cleanup = [s \in Streams |-> "no"]
    /\ held = [s \in Streams |-> {}] /\ shows = [s \in Streams |-> FALSE]
    /\ toggles = 0 /\ orphaned = FALSE

Running(s) == task[s] \notin {"none", "done"}
Over(s) == ~Running(s) /\ cleanup[s] \in {"done", "cut"}

-----------------------------------------------------------------------------
(* athenad.                                                                  *)
StartStream(c) ==
    /\ call[c] = "idle" /\ request[c] = "none" /\ made < MaxStreams
    /\ call' = [call EXCEPT ![c] = "waiting"]
    /\ \E e \in BOOLEAN : wants' = [wants EXCEPT ![c] = e]
    /\ liveParam' = TRUE
    /\ UNCHANGED <<request, mine, streamLock, sessionVars, server, teardown, streams, made,
                   toggles, orphaned>>

\* wait_for_webrtcd has seen it up, and the request is posted: it may be gone by then
PostStream(c) ==
    /\ call[c] = "waiting" /\ server = "up"
    /\ call' = [call EXCEPT ![c] = "posted"] /\ request' = [request EXCEPT ![c] = "queued"]
    /\ UNCHANGED <<wants, mine, streamLock, sessionVars, serverVars>>

\* wait_for_webrtcd gives up, or the post finds nobody, or takes longer than ten seconds:
\* what it has posted goes on in webrtcd
CallFails(c) ==
    /\ \/ call[c] = "waiting" /\ orphaned' = TRUE
       \/ call[c] = "posted" /\ request[c] # "none" /\ UNCHANGED orphaned
    /\ call' = [call EXCEPT ![c] = "idle"]
    /\ UNCHANGED <<wants, request, mine, streamLock, sessionVars, liveParam, server, teardown,
                   streams, made, toggles>>

-----------------------------------------------------------------------------
(* StreamSession.                                                            *)

\* post_run_cleanup: the first await; a runner that was never started has nothing to wait for
FirstStage(s) == IF "bitrate" \in held[s] THEN "bitrate" ELSE "peer"
Released(s, stage) ==
    IF stage = "peer" THEN held[s] \ {"tracks"} ELSE held[s]

Cleans(s) ==
    /\ cleanup' = [cleanup EXCEPT ![s] = FirstStage(s)]
    /\ held' = [held EXCEPT ![s] = Released(s, FirstStage(s))]

\* run, up to the first await of its finally
EndsRun(s) == task' = [task EXCEPT ![s] = "cleaning"] /\ Cleans(s)

\* the await of a stage is over
CleansOn(s) ==
    /\ cleanup[s] \in Stages
    /\ LET next == CASE cleanup[s] = "bitrate" -> "bridge" [] cleanup[s] = "bridge" -> "peer"
                     [] OTHER -> "done"
       IN  /\ cleanup' = [cleanup EXCEPT ![s] = next]
           /\ held' = [held EXCEPT ![s] = Released(s, next) \ {cleanup[s]}]
           /\ task' = [task EXCEPT ![s] = IF next = "done" /\ @ = "cleaning" THEN "done" ELSE @]
    /\ UNCHANGED <<callVars, shows, serverVars>>

\* mutant: a runner does not suppress the cancellation
CancelTaskCutsOff(s) ==
    CASE task[s] = "new" -> task' = [task EXCEPT ![s] = "done"] /\ UNCHANGED <<cleanup, held>>
      [] task[s] \in {"connecting", "connected"} -> EndsRun(s)
      [] OTHER -> /\ task' = [task EXCEPT ![s] = "done"]
                  /\ cleanup' = [cleanup EXCEPT ![s] = "cut"] /\ UNCHANGED held

\* run_task.cancel(): a task that has not begun never runs; the end of a runner suppresses
\* the cancellation, the end of the peer connection is cut off by it and not taken up again
CancelTask(s) ==
    CASE task[s] = "new" -> task' = [task EXCEPT ![s] = "done"] /\ UNCHANGED <<cleanup, held>>
      [] task[s] \in {"connecting", "connected"} -> EndsRun(s)
      [] cleanup[s] = "peer" -> /\ task' = [task EXCEPT ![s] = "done"]
                                /\ cleanup' = [cleanup EXCEPT ![s] = "cut"] /\ UNCHANGED held
      [] OTHER -> UNCHANGED <<task, cleanup, held>>

SessionBegins(s) ==
    /\ task[s] = "new" /\ task' = [task EXCEPT ![s] = "connecting"]
    /\ UNCHANGED <<callVars, cleanup, held, shows, serverVars>>

SessionConnects(s) ==
    /\ task[s] = "connecting" /\ task' = [task EXCEPT ![s] = "connected"]
    /\ held' = [held EXCEPT ![s] = @ \cup {"bitrate", "bridge"}]
    /\ UNCHANGED <<callVars, cleanup, shows, serverVars>>

\* no connection within 15 seconds, a disconnection, or the end of SESSION_TIMEOUT_SECONDS
SessionEnds(s) ==
    /\ task[s] \in {"connecting", "connected"} /\ EndsRun(s)
    /\ UNCHANGED <<callVars, shows, serverVars>>

VideoEnable(s) ==
    /\ task[s] = "connected" /\ toggles < MaxToggles /\ toggles' = toggles + 1
    /\ shows' = [shows EXCEPT ![s] = ~@]
    /\ UNCHANGED <<callVars, task, cleanup, held, liveParam, server, teardown, streams, made, orphaned>>

\* remove_finished_session, called by the loop once the task is done
SessionRemoved(s) ==
    /\ task[s] = "done" /\ task' = [task EXCEPT ![s] = "none"]
    /\ streams' = streams \ {s} /\ teardown' = TRUE
    /\ UNCHANGED <<callVars, cleanup, held, shows, liveParam, server, made, toggles, orphaned>>

\* clear, five seconds after the last schedule_teardown
Teardown ==
    /\ teardown /\ teardown' = FALSE
    /\ liveParam' = (liveParam /\ streams # {})
    /\ UNCHANGED <<callVars, sessionVars, server, streams, made, toggles, orphaned>>

-----------------------------------------------------------------------------
(* handle_get_stream.                                                        *)
Busy == \E s \in streams : Running(s) /\ shows[s]

\* the request is answered, also when nobody waits for the answer any more
Replies(c) ==
    /\ request' = [request EXCEPT ![c] = "none"] /\ call' = [call EXCEPT ![c] = "idle"]

\* stop(), up to its first await
BeginsStop(s) ==
    IF Running(s) THEN CancelTask(s)
    ELSE /\ IF cleanup[s] = "no" THEN Cleans(s) ELSE UNCHANGED <<cleanup, held>>
         /\ UNCHANGED task

\* with the lock: refused while somebody watches, or what there is stopped
Acquires(c) ==
    /\ request[c] = "queued" /\ streamLock = NoCall
    /\ IF Busy /\ ~wants[c]
       THEN Replies(c) /\ UNCHANGED <<streamLock, mine, task, cleanup, held>>
       ELSE /\ request' = [request EXCEPT ![c] = "stopping"] /\ streamLock' = c /\ UNCHANGED call
            /\ IF streams = {} THEN UNCHANGED <<mine, task, cleanup, held>>
               ELSE \E s \in streams : mine' = [mine EXCEPT ![c] = s] /\ BeginsStop(s)
    /\ UNCHANGED <<wants, shows, serverVars>>

\* the task is done without having cleaned up: stop() does
StopsOn(c) ==
    /\ request[c] = "stopping" /\ mine[c] # 0
    /\ ~Running(mine[c]) /\ cleanup[mine[c]] = "no" /\ Cleans(mine[c])
    /\ UNCHANGED <<callVars, task, shows, serverVars>>

Stopped(c) == request[c] = "stopping" /\ (mine[c] # 0 => Over(mine[c]))

\* the new session, up to the await of its answer
Makes(c) ==
    /\ Stopped(c) /\ made < MaxStreams
    /\ LET s == made + 1 IN
         /\ made' = s /\ mine' = [mine EXCEPT ![c] = s]
         /\ streams' = (streams \ {mine[c]}) \cup {s}
         /\ shows' = [shows EXCEPT ![s] = wants[c]]
         /\ held' = [held EXCEPT ![s] = {"tracks", "peer"}]
    /\ request' = [request EXCEPT ![c] = "answering"]
    /\ UNCHANGED <<call, wants, streamLock, task, cleanup, liveParam, server, teardown,
                   toggles, orphaned>>

\* an SDP that is refused
MakeFails(c) ==
    /\ Stopped(c)
    /\ Replies(c) /\ streamLock' = NoCall /\ orphaned' = TRUE
    /\ streams' = streams \ {mine[c]} /\ mine' = [mine EXCEPT ![c] = 0]
    /\ UNCHANGED <<wants, sessionVars, liveParam, server, teardown, made, toggles>>

StreamStarts(c) ==
    /\ request[c] = "answering"
    /\ task' = [task EXCEPT ![mine[c]] = "new"] /\ orphaned' = FALSE
    /\ Replies(c) /\ mine' = [mine EXCEPT ![c] = 0] /\ streamLock' = NoCall
    /\ UNCHANGED <<wants, cleanup, held, shows, liveParam, server, teardown, streams, made, toggles>>

\* no answer within 30 seconds, or an exception
AnswerFails(c) ==
    /\ request[c] = "answering" /\ request' = [request EXCEPT ![c] = "failing"]
    /\ Cleans(mine[c])
    /\ UNCHANGED <<call, wants, mine, streamLock, task, shows, serverVars>>

Drops(c) ==
    /\ request[c] = "failing" /\ Over(mine[c])
    /\ streams' = streams \ {mine[c]} /\ orphaned' = TRUE
    /\ Replies(c) /\ mine' = [mine EXCEPT ![c] = 0] /\ streamLock' = NoCall
    /\ UNCHANGED <<wants, sessionVars, liveParam, server, teardown, made, toggles>>

-----------------------------------------------------------------------------
(* manager and the car.                                                      *)
ServerStarts ==
    /\ liveParam /\ server = "off" /\ server' = "up"
    /\ UNCHANGED <<callVars, sessionVars, liveParam, teardown, streams, made, toggles, orphaned>>

ServerToEnd ==
    /\ ~liveParam /\ server = "up" /\ server' = "ending"
    /\ UNCHANGED <<callVars, sessionVars, liveParam, teardown, streams, made, toggles, orphaned>>

\* _shutdown: the sessions are stopped; what is left ends with the process
ServerEnds ==
    /\ server = "ending" /\ server' = "off" /\ teardown' = FALSE /\ streams' = {}
    /\ task' = [s \in Streams |-> "none"]
    /\ cleanup' = [s \in Streams |-> IF s <= made THEN "done" ELSE "no"]
    /\ held' = [s \in Streams |-> {}]
    /\ orphaned' = (orphaned \/ liveParam)
    /\ call' = [c \in Callers |-> IF call[c] = "posted" THEN "idle" ELSE call[c]]
    /\ request' = [c \in Callers |-> "none"] /\ mine' = [c \in Callers |-> 0]
    /\ streamLock' = NoCall
    /\ UNCHANGED <<wants, shows, liveParam, made, toggles>>

\* CLEAR_ON_IGNITION_ON
IgnitionOn ==
    /\ liveParam /\ liveParam' = FALSE
    /\ UNCHANGED <<callVars, sessionVars, server, teardown, streams, made, toggles, orphaned>>

AthenaWorks == \E c \in Callers : PostStream(c) \/ CallFails(c)
Requests == \E c \in Callers : \/ Acquires(c) \/ Makes(c) \/ MakeFails(c) \/ StreamStarts(c)
                               \/ AnswerFails(c) \/ Drops(c) \/ StopsOn(c)
Sessions == \E s \in Streams : \/ SessionBegins(s) \/ SessionEnds(s) \/ CleansOn(s)
                               \/ SessionRemoved(s)
ManagerWorks == ServerStarts \/ ServerToEnd \/ ServerEnds
StreamingWorks == AthenaWorks \/ Requests \/ Sessions \/ Teardown \/ ManagerWorks
StreamNext == \/ StreamingWorks \/ IgnitionOn \/ \E c \in Callers : StartStream(c)
              \/ \E s \in Streams : SessionConnects(s) \/ VideoEnable(s)

StreamSpec == StreamInit /\ [][StreamNext]_streamVars /\ WF_streamVars(StreamingWorks)

-----------------------------------------------------------------------------
(* One session at a time reads the cameras and steers the body: the one      *)
(* before is over, however it was ended, before the next one is made.        *)
OneViewer == \A s \in 1 .. made, u \in 1 .. made : s # u => Over(s) \/ Over(u)

(* A session that is over has let go of bit rate, bridge and tracks, also    *)
(* when it is stopped in the middle of its own end.                          *)
NothingHeld == \A s \in 1 .. made : Over(s) => held[s] \subseteq {"peer"}

StreamsAreWhole == StreamTypeOK /\ OneViewer /\ NothingHeld

(* The cameras do not go on for nobody: once sessions are over, the param is *)
(* switched off, unless a call that brought no session has switched it on.   *)
CamerasGoOff == <>[](~orphaned /\ \A c \in Callers : call[c] = "idle") => <>[]~liveParam
==============================================================================
