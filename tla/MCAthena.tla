------------------------------- MODULE MCAthena -------------------------------
(***************************************************************************)
(* athenad, checked in three parts of one run; a behaviour belongs to one: *)
(*   threads: two upload handlers, one item, every trouble;                *)
(*   items:   one upload handler, two items of different priority, no      *)
(*            trouble (the other handler does not run);                    *)
(*   clips:   the video clips.                                             *)
(***************************************************************************)
EXTENDS UploadQueue, VideoClips

CONSTANTS i1, i2, h1, h2
VARIABLE part

MCPriority == [i \in Items |-> IF i = i1 THEN 0 ELSE 1]
MCUrl == [i \in Items |-> "url"]

Resting(h) == part = "items" /\ h = h2

MCInit == Init /\ ClipsInit /\ part \in {"threads", "items", "clips"}

MCUploads ==
    /\ Next
    /\ part = "threads" => \A w \in Workers : hand'[w].id # i2
    /\ part = "items" => pc'[h2] = pc[h2] /\ left' = left

MCNext == /\ UNCHANGED part
          /\ \/ part # "clips" /\ MCUploads /\ UNCHANGED clipVars
             \/ part = "clips" /\ ClipsNext /\ UNCHANGED vars

MCFairness ==
    /\ \A h \in Handlers : WF_vars(part # "clips" /\ ~Resting(h) /\ HandlerStep(h))
    /\ \A w \in Workers : WF_vars(part # "clips" /\ WorkerGoesOn(w))
    /\ WF_vars(part # "clips" /\ Reconnect)
    /\ WF_clipVars(part = "clips" /\ Work)

MCSpec == MCInit /\ [][MCNext]_<<vars, clipVars, part>> /\ MCFairness

\* Every upload is settled once the network lets it, and every clip is served.
MCSettles == EventuallySettled /\ ClipsServed
=============================================================================
