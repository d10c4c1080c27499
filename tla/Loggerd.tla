------------------------------- MODULE Loggerd -------------------------------
(***************************************************************************)
(* The rotation of loggerd (system/loggerd/loggerd.cc): encoders number    *)
(* their segments on their own; loggerd follows them, closes a segment     *)
(* when all have begun the next one or when it has lasted too long, and    *)
(* queues the packets of an encoder that is ahead.                         *)
(* A packet stands for what an encoder sends in one unit of time.          *)
(***************************************************************************)
EXTENDS Integers, Sequences, FiniteSets

CONSTANTS
    Encoders,       \* the streams that are logged
    WithAudio,      \* those with include_audio
    SegLength,      \* SEGMENT_LENGTH in units of time
    LongLength,     \* SEGMENT_LENGTH * 1.2
    MaxQueue,       \* MAIN_FPS * 10: packets that wait for the next segment
    FirstNum,       \* the segments encoderd may be at when loggerd starts
    MaxTime,        \* bound: units of time in a behaviour
    MaxFailures     \* bound: encoders that stop, restarts of encoderd, microphones that die

\* a segment holds more than one packet of an encoder
ASSUME LengthAssumption ==
    SegLength \in Nat \ {0, 1} /\ LongLength \in Nat /\ LongLength > SegLength
ASSUME LoggerdAssumption ==
    /\ Encoders # {} /\ IsFiniteSet(Encoders)
    /\ WithAudio \subseteq Encoders /\ MaxQueue \in Nat /\ FirstNum \subseteq Nat
    /\ MaxTime \in Nat /\ MaxFailures \in Nat

VARIABLES
    segment,    \* LoggerState::segment
    elapsed,    \* the time since last_rotate_tms
    ready,      \* ready_to_rotate
    waiting,    \* max_waiting
    re,         \* the RemoteEncoder of each stream
    num,        \* encoderd: the segment of each encoder
    age,        \* encoderd: how long the segment has lasted
    alive,      \* the encoders that send
    sent,       \* those that have sent in this unit of time
    mic,        \* there is audio
    time,
    failures,   \* how many failures may still come
    written,    \* history: where the last packet of each encoder went
    silence     \* history: for how long nothing of an encoder was written

logVars == <<segment, elapsed, ready, waiting, re, num, age, alive, sent, mic, time, failures,
             written, silence>>
encoderd == <<num, age, alive, mic, time, failures>>

Fresh == [seen |-> FALSE, offset |-> 0, current |-> -1, q |-> <<>>, marked |-> FALSE,
          audio |-> FALSE]

LogTypeOK ==
    /\ segment \in Nat /\ elapsed \in Nat /\ ready \in Nat /\ waiting \in 0 .. Cardinality(Encoders)
    /\ \A e \in Encoders : /\ re[e].seen \in BOOLEAN /\ re[e].offset \in Int
                           /\ re[e].current \in -1 .. segment /\ Len(re[e].q) <= MaxQueue + 1
                           /\ re[e].marked \in BOOLEAN /\ re[e].audio \in BOOLEAN
    /\ num \in [Encoders -> Nat] /\ age \in [Encoders -> 0 .. SegLength]
    /\ alive \subseteq Encoders /\ sent \subseteq Encoders /\ mic \in BOOLEAN
    /\ time \in 0 .. MaxTime /\ failures \in 0 .. MaxFailures
    /\ silence \in [Encoders -> Nat]

\* loggerd has called logger_rotate once; encoderd may have run for a while
LogInit ==
    /\ segment = 0 /\ elapsed = 0 /\ ready = 0 /\ waiting = 0
    /\ re = [e \in Encoders |-> Fresh]
    /\ \E n \in FirstNum, a \in 0 .. SegLength - 1 :
        num = [e \in Encoders |-> n] /\ age = [e \in Encoders |-> a]
    /\ alive = Encoders /\ sent = {} /\ mic = TRUE
    /\ time = 0 /\ failures = MaxFailures
    /\ written = [e \in Encoders |-> "none"] /\ silence = [e \in Encoders |-> 0]

-----------------------------------------------------------------------------
\* rotate_if_needed, with the counts that the message at hand has left; elapsed is rounded down
Rotates == /\ segment' = segment + 1 /\ elapsed' = 0 /\ ready' = 0
AllReady(r, w) == w > 0 /\ r = w
MayTimeOut(cameraSeen) == elapsed >= LongLength \/ (elapsed >= SegLength /\ ~cameraSeen)
MustTimeOut(cameraSeen) == elapsed > LongLength \/ (elapsed > SegLength /\ ~cameraSeen)
RotateIfNeeded(r, w, cameraSeen) ==
    \/ (AllReady(r, w) \/ MayTimeOut(cameraSeen)) /\ Rotates
    \/ /\ ~AllReady(r, w) /\ ~MustTimeOut(cameraSeen)
       /\ ready' = r /\ UNCHANGED <<segment, elapsed>>

\* the first packet of a newer segment counts the encoder as ready to rotate
FirstOfNewer(e) == ~re[e].marked

Keep(q, seg) == IF Len(q) > MaxQueue THEN q ELSE Append(q, seg)
Write(e, places) ==
    /\ written' = [written EXCEPT ![e] = places]
    /\ silence' = [silence EXCEPT ![e] = 0]
NotWritten == UNCHANGED <<written, silence>>
InPlace(segs) == IF \A i \in DOMAIN segs : segs[i] = segment THEN "right" ELSE "wrong"

\* handle_encoder_msg for a packet whose number makes it one of this segment; a microphone
\* that works sends rawAudioData many times while a packet, as it is here, comes in
SameSegment(e, r, seg) ==
    LET new == r.current # segment
        s == [r EXCEPT !.current = segment, !.marked = IF new THEN FALSE ELSE @,
                       !.audio = IF new THEN mic ELSE @ \/ mic]
    IN IF s.audio \/ e \notin WithAudio
       THEN re' = [re EXCEPT ![e] = [s EXCEPT !.q = <<>>]] /\ Write(e, InPlace(Append(s.q, seg)))
       ELSE re' = [re EXCEPT ![e] = [s EXCEPT !.q = Keep(@, seg)]] /\ NotWritten

\* mutant: it is written at once
NewerSegmentWritten(e, r, seg) ==
    /\ re' = [re EXCEPT ![e] = [r EXCEPT !.marked = TRUE]]
    /\ Write(e, InPlace(<<seg>>))

\* of a newer segment: it waits for the rotation
NewerSegment(e, r, seg) ==
    /\ re' = [re EXCEPT ![e] = [r EXCEPT !.marked = TRUE, !.q = Keep(@, seg)]]
    /\ NotWritten

\* of an older segment: encoderd was restarted, or loggerd has timed out
OlderSegment(e, r) ==
    /\ re' = [re EXCEPT ![e] = [r EXCEPT !.offset = -segment]] /\ NotWritten

Packet(e) ==
    LET r == IF re[e].seen THEN re[e] ELSE [re[e] EXCEPT !.seen = TRUE, !.offset = num[e]]
        w == waiting + IF re[e].seen THEN 0 ELSE 1
        n == num[e] - r.offset
    IN /\ e \in alive \ sent /\ sent' = sent \cup {e} /\ waiting' = w
       /\ \/ n = segment /\ SameSegment(e, r, n)
          \/ n > segment /\ NewerSegment(e, r, n)
          \/ n < segment /\ OlderSegment(e, r)
       /\ RotateIfNeeded(ready + IF n > segment /\ FirstOfNewer(e) THEN 1 ELSE 0, w, TRUE)
       /\ UNCHANGED encoderd

\* any other message
OtherMessage ==
    /\ RotateIfNeeded(ready, waiting, sent # {})
    /\ UNCHANGED <<waiting, re, sent, encoderd, written, silence>>

-----------------------------------------------------------------------------
\* encoder_thread closes and opens its encoders after SEGMENT_LENGTH of frames
Rolls(e) == e \in alive /\ age[e] + 1 = SegLength

Tick ==
    /\ time < MaxTime /\ time' = time + 1 /\ alive \subseteq sent
    /\ ~MustTimeOut(sent # {}) /\ elapsed' = elapsed + 1 /\ sent' = {}
    /\ num' = [e \in Encoders |-> num[e] + IF Rolls(e) THEN 1 ELSE 0]
    /\ age' = [e \in Encoders |-> IF Rolls(e) THEN 0 ELSE IF e \in alive THEN age[e] + 1 ELSE age[e]]
    /\ silence' = [e \in Encoders |-> silence[e] + 1]
    /\ UNCHANGED <<segment, ready, waiting, re, alive, mic, failures, written>>

Fails == failures > 0 /\ failures' = failures - 1
Stops(e) ==
    /\ Fails /\ e \in alive /\ alive' = alive \ {e}
    /\ UNCHANGED <<segment, elapsed, ready, waiting, re, num, age, sent, mic, time, written, silence>>

EncoderdRestarts ==
    /\ Fails /\ sent = {} /\ alive' = Encoders
    /\ num' = [e \in Encoders |-> 0] /\ age' = [e \in Encoders |-> 0]
    /\ UNCHANGED <<segment, elapsed, ready, waiting, re, sent, mic, time, written, silence>>

MicDies ==
    /\ Fails /\ mic /\ WithAudio # {} /\ mic' = FALSE
    /\ UNCHANGED <<segment, elapsed, ready, waiting, re, num, age, alive, sent, time, written, silence>>

LogNext == \/ \E e \in Encoders : Packet(e) \/ Stops(e)
           \/ OtherMessage \/ Tick \/ EncoderdRestarts \/ MicDies

LogSpec == LogInit /\ [][LogNext]_logVars

-----------------------------------------------------------------------------
(* An encoder is counted once for each rotation: unless the time is up, a    *)
(* segment ends only when every encoder has begun the next one, also after   *)
(* one of them has stopped or encoderd has been restarted once.              *)
RotatesTogether ==
    [][segment' # segment /\ ~MayTimeOut(sent' # {}) /\ MaxFailures - failures <= 1 =>
          \A e \in Encoders : re'[e].seen => re'[e].marked]_logVars

(* As long as nothing fails, a packet is written in the segment it belongs   *)
(* to, however the encoders are ahead of each other.                         *)
FiledInPlace == failures = MaxFailures => \A e \in Encoders : written[e] # "wrong"

(* As long as nothing fails no rotation has to wait for the clock, and       *)
(* nothing is unwritten for longer than the encoders differ.                 *)
InStep == failures = MaxFailures => elapsed <= SegLength /\ \A e \in Encoders : silence[e] <= 2

(* The segments are what they are named for: packets in place, in time, and  *)
(* those of all encoders together.                                           *)
PacketsAreInPlace == [](LogTypeOK /\ FiledInPlace /\ InStep) /\ RotatesTogether
==============================================================================
