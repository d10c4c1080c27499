----------------------------- MODULE LogStorage -----------------------------
(***************************************************************************)
(* The directories of recorded segments and who works on them: loggerd     *)
(* (logger.cc, video_writer.cc) makes, locks, closes and preserves them,   *)
(* the uploader (uploader.py) sends and tags them, the deleter             *)
(* (deleter.py) removes them or moves them to an external disk.  Each      *)
(* process caches the attributes it has read (xattr_cache.py).             *)
(***************************************************************************)
EXTENDS Naturals, FiniteSets, FiniteSetsExt

CONSTANTS
    LastSeg,        \* bound: the segments are 0 .. LastSeg
    PreserveCount,  \* PRESERVE_COUNT
    MaxUpsets       \* bound: restarts, dead cameras, failed tags and deletions

ASSUME SegmentAssumption == LastSeg \in Nat /\ PreserveCount \in Nat \ {0} /\ MaxUpsets \in Nat

VARIABLES
    place,      \* of a directory: "none", "here", "gone"
    rlock,      \* the directories with an rlog.lock
    vlock,      \* those with a .lock of a video
    logged,     \* those that have a log
    whole,      \* those whose logs are flushed and closed
    preserve,   \* those with the attribute user.preserve
    tagged,     \* those whose log has the attribute user.upload
    current,    \* the segment loggerd writes, LastSeg + 1 if it does not run
    closing,    \* the step of LoggerState::next or of the destructor
    cameras,    \* a camera is alive: each segment has a video
    opened,     \* how many directories there have been: the next one is this
    starts,     \* the first segments of the drives: each is a route of its own
    sending,    \* the file the uploader sends, LastSeg + 1 for none
    answered,   \* the server has answered for it, it is about to be tagged
    upCache,    \* the uploader's cache of user.upload: what was read, "unread" if nothing was
    delCache,   \* the deleter's cache of user.preserve
    plan,       \* the directories that the deleter's pass still looks at
    spared,     \* get_preserved_segments of that pass
    checked,    \* the next of them had no lock and is about to be taken
    times,      \* history: how often each file was accepted by the server, at most 2
    early,      \* history: the directories unlocked by clear_locks, or without a video, before they were whole
    glimpsed,   \* history: the directories that the deleter found without a lock before they had a log
    untagged,   \* history: the files that were accepted and then not tagged
    upsets      \* how many upsets may still come

storeVars == <<place, rlock, vlock, logged, whole, preserve, tagged, current, closing, cameras, opened,
               starts, sending, answered, upCache, delCache, plan, spared, checked, times, early, glimpsed,
               untagged, upsets>>
recorder == <<rlock, vlock, logged, whole, preserve, current, closing, cameras, opened, starts>>
uploader == <<tagged, sending, answered, upCache, times, untagged>>
deleter == <<delCache, plan, spared, checked, glimpsed>>

Segs == 0 .. LastSeg
NoSeg == LastSeg + 1
Cached == {"unread", "no", "yes"}
Here == {s \in Segs : place[s] = "here"}
Locked == rlock \cup vlock

StoreTypeOK ==
    /\ place \in [Segs -> {"none", "here", "gone"}]
    /\ logged \subseteq Segs /\ rlock \subseteq Segs /\ vlock \subseteq Segs /\ whole \subseteq Segs
    /\ preserve \subseteq Segs /\ tagged \subseteq Segs /\ early \subseteq Segs
    /\ glimpsed \subseteq Segs /\ untagged \subseteq Segs /\ starts \subseteq Segs
    /\ current \in 0 .. NoSeg /\ sending \in 0 .. NoSeg /\ opened \in 0 .. NoSeg
    /\ closing \in {"recording", "unlocked", "made", "locked", "stopping", "stopped"}
    /\ upCache \in [Segs -> Cached] /\ delCache \in [Segs -> Cached]
    /\ plan \subseteq Segs /\ spared \subseteq Segs
    /\ cameras \in BOOLEAN /\ answered \in BOOLEAN /\ checked \in BOOLEAN
    /\ times \in [Segs -> 0 .. 2] /\ upsets \in 0 .. MaxUpsets

StoreInit ==
    /\ place = [s \in Segs |-> IF s = 0 THEN "here" ELSE "none"]
    /\ rlock = {0} /\ cameras \in BOOLEAN /\ vlock = IF cameras THEN {0} ELSE {}
    /\ logged = {0} /\ whole = {} /\ preserve = {} /\ tagged = {} /\ early = {}
    /\ glimpsed = {} /\ untagged = {} /\ opened = 1 /\ starts = {0}
    /\ current = 0 /\ closing = "recording" /\ sending = NoSeg /\ answered = FALSE /\ checked = FALSE
    /\ upCache = [s \in Segs |-> "unread"] /\ delCache = [s \in Segs |-> "unread"]
    /\ plan = {} /\ spared = {}
    /\ times = [s \in Segs |-> 0] /\ upsets = MaxUpsets

Upset == upsets > 0 /\ upsets' = upsets - 1
SetPlace(s, p) == place' = [place EXCEPT ![s] = p]

-----------------------------------------------------------------------------
\* the segment that LoggerState::next opens, from MakeDirectory to CloseLogs
New == opened - 1
\* a segment of an earlier drive
Older(s) == \E t \in starts : s < t

\* LoggerState::next: the sentinel is written and rlog.lock removed
RemoveLock ==
    /\ closing = "recording" /\ opened <= LastSeg
    /\ rlock' = rlock \ {current} /\ closing' = "unlocked"
    /\ early' = IF current \in vlock THEN early ELSE early \cup {current}
    /\ UNCHANGED <<place, vlock, logged, whole, preserve, current, cameras, opened, starts, uploader,
                   deleter, upsets>>

MakeDirectory ==
    /\ closing = "unlocked" /\ SetPlace(opened, "here") /\ opened' = opened + 1 /\ closing' = "made"
    /\ UNCHANGED <<rlock, vlock, logged, whole, preserve, current, cameras, starts, uploader, deleter,
                   early, upsets>>

LockNew ==
    /\ closing = "made" /\ place[New] = "here" /\ rlock' = rlock \cup {New} /\ closing' = "locked"
    /\ UNCHANGED <<place, vlock, logged, whole, preserve, current, cameras, opened, starts, uploader,
                   deleter, early, upsets>>

\* the deleter has taken the new directory: assert(file != nullptr)
NewIsGone ==
    /\ closing \in {"made", "locked"} /\ place[New] # "here" /\ closing' = "stopped" /\ current' = NoSeg
    /\ UNCHANGED <<place, rlock, vlock, logged, whole, preserve, cameras, opened, starts, uploader,
                   deleter, early, upsets>>

\* the new writers replace the old ones, which flush and close the old logs
CloseLogs ==
    /\ closing = "locked" /\ place[New] = "here" /\ whole' = whole \cup ({current} \ {NoSeg})
    /\ current' = New /\ logged' = logged \cup {New} /\ closing' = "recording"
    /\ UNCHANGED <<place, rlock, vlock, preserve, cameras, opened, starts, uploader, deleter, early, upsets>>

\* the first packets of the new segment: the old video is closed, a new one opened
NextVideo ==
    /\ closing = "recording" /\ cameras /\ current \notin vlock /\ place[current] = "here"
    /\ vlock' = {s \in vlock : Older(s)} \cup {current}
    /\ UNCHANGED <<place, rlock, logged, whole, preserve, current, closing, cameras, opened, starts,
                   uploader, deleter, early, upsets>>

\* the deleter has taken the directory: assert(lock_fd >= 0)
NoVideo ==
    /\ closing = "recording" /\ cameras /\ current \notin vlock /\ place[current] # "here"
    /\ closing' = "stopped" /\ current' = NoSeg
    /\ UNCHANGED <<place, rlock, vlock, logged, whole, preserve, cameras, opened, starts, uploader,
                   deleter, early, upsets>>

CamerasDie ==
    /\ Upset /\ cameras /\ cameras' = FALSE
    /\ UNCHANGED <<place, rlock, vlock, logged, whole, preserve, current, closing, opened, starts,
                   uploader, deleter, early>>

\* handle_preserve_segment
Preserve ==
    /\ closing = "recording" /\ current \notin preserve /\ place[current] = "here"
    /\ preserve' = preserve \cup {current}
    /\ UNCHANGED <<place, rlock, vlock, logged, whole, current, closing, cameras, opened, starts, uploader,
                   deleter, early, upsets>>

\* mutant: the lock of the last segment stays
StopLocked ==
    /\ closing = "recording" /\ closing' = "stopping" /\ early' = early
    /\ UNCHANGED <<place, rlock, vlock, logged, whole, preserve, current, cameras, opened, starts,
                   uploader, deleter, upsets>>

\* the loop ends: ~LoggerState removes the lock, then the writers close, the videos last
Stop ==
    /\ closing = "recording" /\ closing' = "stopping" /\ rlock' = rlock \ {current}
    /\ early' = IF current \in vlock THEN early ELSE early \cup {current}
    /\ UNCHANGED <<place, vlock, logged, whole, preserve, current, cameras, opened, starts, uploader,
                   deleter, upsets>>

CloseAll ==
    /\ closing = "stopping" /\ closing' = "stopped"
    /\ whole' = whole \cup {current} /\ vlock' = {s \in vlock : Older(s)} /\ current' = NoSeg
    /\ UNCHANGED <<place, rlock, logged, preserve, cameras, opened, starts, uploader, deleter, early, upsets>>

\* an assert or the SIGKILL of ManagerProcess.stop ends loggerd: its locks stay
LoggerDies ==
    /\ Upset /\ closing # "stopped" /\ closing' = "stopped" /\ current' = NoSeg
    /\ UNCHANGED <<place, rlock, vlock, logged, whole, preserve, cameras, opened, starts, uploader,
                   deleter, early>>

\* the next drive: a new loggerd begins a route with LoggerState::next
LoggerStarts ==
    /\ closing = "stopped" /\ opened <= LastSeg /\ closing' = "unlocked"
    /\ starts' = starts \cup {opened} /\ cameras' \in BOOLEAN
    /\ UNCHANGED <<place, rlock, vlock, logged, whole, preserve, current, opened, uploader, deleter, early,
                   upsets>>

-----------------------------------------------------------------------------
\* getxattr: what was read once is not read again
Reads(cache, s, set) == IF cache[s] = "unread" THEN IF s \in set THEN "yes" ELSE "no" ELSE cache[s]
Unlocked == (Here \cap logged) \ Locked

\* mutant: a locked directory is not passed over
NextFileLocked ==
    /\ sending = NoSeg /\ Here # {}
    /\ upCache' = [s \in Segs |-> IF s \in Here THEN Reads(upCache, s, tagged) ELSE upCache[s]]
    /\ LET left == {s \in Here : upCache'[s] = "no"} IN left # {} /\ sending' = Min(left)
    /\ UNCHANGED <<place, recorder, tagged, answered, times, untagged, deleter, early, upsets>>

\* next_file_to_upload: the oldest file that is not locked and not tagged
NextFile ==
    /\ sending = NoSeg /\ Unlocked # {}
    /\ upCache' = [s \in Segs |-> IF s \in Unlocked THEN Reads(upCache, s, tagged) ELSE upCache[s]]
    /\ LET left == {s \in Unlocked : upCache'[s] = "no"} IN left # {} /\ sending' = Min(left)
    /\ UNCHANGED <<place, recorder, tagged, answered, times, untagged, deleter, early, upsets>>

Sent(s) == times' = [times EXCEPT ![s] = IF @ = 2 THEN 2 ELSE @ + 1]

\* do_upload: the server has the file or will not have it
Accepted ==
    /\ sending # NoSeg /\ ~answered /\ answered' = TRUE /\ Sent(sending)
    /\ UNCHANGED <<place, recorder, tagged, sending, upCache, untagged, deleter, early, upsets>>

\* setxattr: the cached value is dropped, then the file is tagged
Forgets ==
    /\ answered /\ answered' = FALSE /\ sending' = NoSeg
    /\ upCache' = [upCache EXCEPT ![sending] = "unread"]

Tag ==
    /\ Forgets /\ sending \in Here /\ tagged' = tagged \cup {sending}
    /\ UNCHANGED <<place, recorder, times, untagged, deleter, early, upsets>>

\* it fails, or the deleter was faster: the file counts as sent, but is not tagged
TagFails ==
    /\ Forgets /\ untagged' = untagged \cup {sending}
    /\ Upset \/ (sending \notin Here /\ UNCHANGED upsets)
    /\ UNCHANGED <<place, recorder, tagged, times, deleter, early>>

\* no answer, another answer, or the deleter was faster
Refused ==
    /\ sending # NoSeg /\ ~answered /\ sending' = NoSeg
    /\ UNCHANGED <<place, recorder, tagged, answered, upCache, times, untagged, deleter, early, upsets>>

\* main of a new uploader: clear_locks, before it looks for files
UploaderStarts ==
    /\ Upset /\ sending' = NoSeg /\ answered' = FALSE
    /\ untagged' = IF answered THEN untagged \cup {sending} ELSE untagged
    /\ upCache' = [s \in Segs |-> "unread"]
    /\ early' = early \cup (Locked \ whole)
    /\ rlock' = {} /\ vlock' = {}
    /\ UNCHANGED <<place, logged, whole, preserve, current, closing, cameras, opened, starts, tagged,
                   times, deleter>>

-----------------------------------------------------------------------------
Newest(marked) == {s \in marked : Cardinality({r \in marked : r > s}) < PreserveCount}

SameRoute(r, s) == \A t \in starts : ~(r < t /\ t <= s)

\* get_preserved_segments: the newest with the attribute, each with the two before it in its route
SparedBy(newest) == UNION {{r \in Segs : r <= s /\ s <= r + 2 /\ SameRoute(r, s)} : s \in newest}

\* one pass of the deleter when space is short: list the directories, look which are preserved
Scan ==
    /\ plan = {} /\ Here # {} /\ plan' = Here
    /\ delCache' = [s \in Segs |-> IF s \in Here THEN Reads(delCache, s, preserve) ELSE delCache[s]]
    /\ spared' = SparedBy(Newest({s \in Here : delCache'[s] = "yes"}))
    /\ UNCHANGED <<place, recorder, uploader, checked, glimpsed, early, upsets>>

\* sorted: the segments that are not preserved first, then the oldest
Candidate == IF plan \ spared # {} THEN Min(plan \ spared) ELSE Min(plan)

EndsPass == plan' = {} /\ spared' = {} /\ checked' = FALSE
PassesOver ==
    IF plan = {Candidate} THEN EndsPass ELSE plan' = plan \ {Candidate} /\ checked' = FALSE /\ UNCHANGED spared

SkipLocked ==
    /\ plan # {} /\ ~checked /\ Candidate \in Locked /\ PassesOver
    /\ UNCHANGED <<place, recorder, uploader, delCache, glimpsed, early, upsets>>

\* no name in the directory ends in .lock
Check ==
    /\ plan # {} /\ ~checked /\ Candidate \notin Locked /\ checked' = TRUE
    /\ glimpsed' = glimpsed \cup ({Candidate} \ logged)
    /\ UNCHANGED <<place, recorder, uploader, delCache, plan, spared, early, upsets>>

\* rmtree, or the move to the external disk, which ends in rmtree when it fails, whatever was locked since
Delete ==
    /\ checked /\ SetPlace(Candidate, "gone") /\ EndsPass
    /\ UNCHANGED <<recorder, uploader, delCache, glimpsed, early, upsets>>

DeleteFails ==
    /\ Upset /\ checked /\ PassesOver
    /\ UNCHANGED <<place, recorder, uploader, delCache, glimpsed, early>>

DeleterRestarts ==
    /\ Upset /\ EndsPass /\ delCache' = [s \in Segs |-> "unread"]
    /\ UNCHANGED <<place, recorder, uploader, glimpsed, early>>

Logger ==
    \/ RemoveLock \/ MakeDirectory \/ LockNew \/ NewIsGone \/ CloseLogs
    \/ NextVideo \/ NoVideo \/ Stop \/ CloseAll
Pass == Scan \/ SkipLocked \/ Check \/ Delete

StoreNext ==
    \/ Logger \/ Preserve \/ CamerasDie \/ LoggerDies \/ LoggerStarts
    \/ NextFile \/ Accepted \/ Tag \/ TagFails \/ Refused \/ UploaderStarts
    \/ Pass \/ DeleteFails \/ DeleterRestarts

StoreSpec == StoreInit /\ [][StoreNext]_storeVars

-----------------------------------------------------------------------------
(* A log is sent only when it is whole: the lock of a video keeps the        *)
(* directory closed until the logs are flushed, although rlog.lock is        *)
(* removed before.  (Not so without any video, or when an uploader that      *)
(* starts clears the locks of a recording.)                                  *)
SentWhole == \A s \in Segs \ early : times[s] > 0 \/ sending = s => s \in whole

(* A file is sent twice only if it was not tagged when it had been accepted: *)
(* the cache, which is filled before and dropped at the tag, does not make   *)
(* the uploader forget what it has sent.                                     *)
SentOnce == \A s \in Segs : times[s] > 1 => s \in untagged

(* The deleter, which works from a list read before and looks for locks some *)
(* time before it removes, takes the segment that is being recorded in one   *)
(* case only: it looked between the making of the directory and its lock.    *)
RecordingStays ==
    closing = "recording" /\ current \notin early \cup glimpsed => place[current] = "here"

(* Of the newest preserved segments the deleter takes one only when all that *)
(* it could take instead is as well preserved or locked; for the segments    *)
(* whose mark was there when it first looked at them.                        *)
Takes(s) == place[s] = "here" /\ place'[s] # "here"
NothingElse == plan \subseteq SparedBy(Newest(preserve \cap Here)) \cup Locked
SeenMarkIsKept ==
    [][\A s \in Newest(preserve \cap Here) : Takes(s) /\ delCache[s] # "no" => NothingElse]_storeVars

(* What the uploader and the deleter do to a segment is right for the moment *)
(* of its life: sent whole, not sent again once tagged, not removed while it *)
(* is recorded, unless the deleter looked before there was a lock, and a     *)
(* preserved one only when there is nothing else to remove.                  *)
SegmentsAreSafe == [](StoreTypeOK /\ SentWhole /\ SentOnce /\ RecordingStays) /\ SeenMarkIsKept

(* As long as nothing is upset, no lock is left behind that would keep the   *)
(* log of a closed segment from being sent or deleted.  This is for a server *)
(* that takes each file if it is offered again and again: the oldest is      *)
(* always offered first, so that one refused for ever holds up the others.   *)
Calm == upsets = MaxUpsets
SentOrDeleted == \A s \in Segs : s \in whole /\ Calm ~> s \in tagged \/ place[s] # "here" \/ ~Calm
==============================================================================
