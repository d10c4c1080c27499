------------------------------ MODULE VideoClips ------------------------------
(***************************************************************************)
(* The video clips of athenad (class VideoClips of athenad.py): RPCs       *)
(* request and delete clips by file name, one worker thread encodes them   *)
(* in the order of the dict with a child process and publishes the result. *)
(* One lock guards the dict and the child; the encoding runs outside it.   *)
(***************************************************************************)
EXTENDS Naturals, Sequences

CONSTANTS
    Files,          \* the file names that may be asked for
    NoFile,
    MaxRequests     \* bound: requests of a file name

ASSUME RequestsAssumption == MaxRequests \in Nat \ {0} /\ NoFile \notin Files

VARIABLES
    clips,      \* self.clips, in the order of the dict: the file and the request's number
    job,        \* the clip the worker has in hand
    wpc,        \* where the worker is
    proc,       \* self.transcode_proc: the file its child encodes
    child,      \* whether the child runs, has done its work or has failed
    temporary,  \* the hidden files being written
    output,     \* the published file of a name: which request made it, 0 for none
    asked,      \* history: the number of requests of a name
    deleted     \* history: how many of them had come when the name was last deleted

clipVars == <<clips, job, wpc, proc, child, temporary, output, asked, deleted>>

NoJob == [file |-> NoFile, ask |-> 0]
Clip == [file : Files, ask : 1 .. MaxRequests]

ClipsTypeOK ==
    /\ clips \in Seq(Clip) /\ job \in Clip \cup {NoJob} /\ child \in {"none", "runs", "ok", "bad"}
    /\ wpc \in {"wait", "picked", "encode", "running", "encoded", "failed", "cleanup"}
    /\ proc \in Files \cup {NoFile} /\ temporary \subseteq Files
    /\ output \in [Files -> 0 .. MaxRequests]
    /\ asked \in [Files -> 0 .. MaxRequests] /\ deleted \in [Files -> 0 .. MaxRequests]

ClipsInit ==
    /\ clips = <<>> /\ job = NoJob /\ wpc = "wait" /\ proc = NoFile /\ child = "none"
    /\ temporary = {} /\ output = [f \in Files |-> 0]
    /\ asked = [f \in Files |-> 0] /\ deleted = [f \in Files |-> 0]

Names == {clips[n].file : n \in DOMAIN clips}
Place(f) == CHOOSE n \in DOMAIN clips : clips[n].file = f

\* self.clips.pop(f, None): a name is there once
Without(f) ==
    IF f \in Names
    THEN [n \in 1 .. Len(clips) - 1 |-> clips[IF n < Place(f) THEN n ELSE n + 1]]
    ELSE clips

\* mutant: the name is compared, not the clip
IsCurrentByName(c) == c.file \in Names

\* self.clips.get(clip.filename) is clip
IsCurrent(c) == \E n \in DOMAIN clips : clips[n] = c

-----------------------------------------------------------------------------
\* a new request of a name takes the place of the one that waits under it
CreateClip(f) ==
    /\ asked[f] < MaxRequests
    /\ LET c == [file |-> f, ask |-> asked[f] + 1] IN
       clips' = IF f \in Names
                THEN [n \in DOMAIN clips |-> IF clips[n].file = f THEN c ELSE clips[n]]
                ELSE Append(clips, c)
    /\ asked' = [asked EXCEPT ![f] = @ + 1]
    /\ UNCHANGED <<job, wpc, proc, child, temporary, output, deleted>>

DeleteClip(f) ==
    /\ clips' = Without(f) /\ output' = [output EXCEPT ![f] = 0]
    /\ child' = IF proc = f /\ child = "runs" THEN "bad" ELSE child   \* terminate()
    /\ deleted' = [deleted EXCEPT ![f] = asked[f]]
    /\ UNCHANGED <<job, wpc, proc, temporary, asked>>

-----------------------------------------------------------------------------
Pick == /\ wpc = "wait" /\ clips # <<>> /\ job' = Head(clips) /\ wpc' = "picked"
        /\ UNCHANGED <<clips, proc, child, temporary, output, asked, deleted>>

\* the worker looks again, under the lock, before it works out the inputs
LookAgain == /\ wpc = "picked"
             /\ IF IsCurrent(job) THEN wpc' = "encode" /\ UNCHANGED job
                                  ELSE wpc' = "wait" /\ job' = NoJob
             /\ UNCHANGED <<clips, proc, child, temporary, output, asked, deleted>>

\* _encode starts the child, unless the clip has gone meanwhile: then it returns as if done
StartEncoder ==
    /\ wpc = "encode"
    /\ IF IsCurrent(job)
       THEN /\ proc' = job.file /\ child' = "runs" /\ wpc' = "running"
            /\ temporary' = temporary \cup {job.file}
       ELSE wpc' = "encoded" /\ UNCHANGED <<proc, child, temporary>>
    /\ UNCHANGED <<clips, job, output, asked, deleted>>

ChildEnds ==
    /\ child = "runs" /\ child' \in {"ok", "bad"}
    /\ UNCHANGED <<clips, job, wpc, proc, temporary, output, asked, deleted>>

EncoderEnds ==
    /\ wpc = "running" /\ child # "runs"
    /\ wpc' = IF child = "ok" THEN "encoded" ELSE "failed"
    /\ proc' = NoFile /\ child' = "none"
    /\ UNCHANGED <<clips, job, temporary, output, asked, deleted>>

Publish ==
    /\ wpc = "encoded" /\ wpc' = "cleanup"
    /\ IF IsCurrent(job)
       THEN /\ output' = [output EXCEPT ![job.file] = job.ask]
            /\ temporary' = temporary \ {job.file} /\ clips' = Without(job.file)
       ELSE UNCHANGED <<output, temporary, clips>>
    /\ UNCHANGED <<job, proc, child, asked, deleted>>

GiveUp ==
    /\ wpc = "failed" /\ wpc' = "cleanup"
    /\ clips' = IF IsCurrent(job) THEN Without(job.file) ELSE clips
    /\ UNCHANGED <<job, proc, child, temporary, output, asked, deleted>>

Cleanup ==
    /\ wpc = "cleanup" /\ wpc' = "wait" /\ job' = NoJob
    /\ temporary' = temporary \ {job.file}
    /\ UNCHANGED <<clips, proc, child, output, asked, deleted>>

Work == Pick \/ LookAgain \/ StartEncoder \/ ChildEnds \/ EncoderEnds \/ Publish \/ GiveUp \/ Cleanup

ClipsNext == Work \/ \E f \in Files : CreateClip(f) \/ DeleteClip(f)

ClipsSpec == ClipsInit /\ [][ClipsNext]_clipVars /\ WF_clipVars(Work)

-----------------------------------------------------------------------------
(* A clip that was deleted does not come back: whatever is on disk was asked *)
(* for after the last deletion of its name.                                  *)
DeletedStaysDeleted == \A f \in Files : output[f] # 0 => output[f] > deleted[f]

(* Deleting a clip terminates the child that encodes it and no other, and no *)
(* hidden file outlives the work on it.                                      *)
ChildIsOurs ==
    /\ proc # NoFile => wpc = "running" /\ job.file = proc
    /\ temporary \subseteq {job.file}

(* What a deletion finds, on disk or in work, is what it is about.           *)
ClipsAreTheirs == ClipsTypeOK /\ DeletedStaysDeleted /\ ChildIsOurs

(* Every clip asked for leaves the dict: published, failed or deleted.       *)
ClipsServed == \A f \in Files : f \in Names ~> f \notin Names
==============================================================================
