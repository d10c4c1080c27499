----------------------------- MODULE UploadQueue -----------------------------
(***************************************************************************)
(* The upload queue of athenad (system/athena/athenad.py): handler threads *)
(* take items from a priority queue, upload them and put them back to try  *)
(* again; RPC workers enqueue and cancel; a copy of the queue is kept in a *)
(* param and read back when the process starts.  The threads end and start *)
(* anew with every websocket; the process may die at any point.            *)
(***************************************************************************)
EXTENDS Naturals

CONSTANTS
    Items,          \* the uploads that may be requested, one id each
    NoItem,         \* no item: None
    Handlers,       \* the upload_handler threads
    Workers,        \* the jsonrpc_handler threads
    MaxRetry,       \* MAX_RETRY_COUNT
    Priority,       \* the priority of an item, smaller goes first
    Url,            \* where an item goes: two items may share it
    Cellular,       \* the items with allow_cellular
    MaxTroubles     \* bound: crashes, disconnections and changes of network of a behaviour

ASSUME RetryAssumption == MaxRetry \in Nat \ {0}
ASSUME ItemAssumption == NoItem \notin Items /\ Priority \in [Items -> Nat]
ASSUME ThreadAssumption == Handlers \cap Workers = {}
ASSUME BoundAssumption == MaxTroubles \in Nat

VARIABLES
    queue,      \* upload_queue: the retry_count of every item, NotIn if it is not in it
    cancelled,  \* cancelled_uploads
    pc,         \* where each thread is
    hand,       \* the item a thread works on
    snap,       \* the list that a thread inside UploadQueueCache.cache will write
    disk,       \* the param AthenadUploadQueue
    end,        \* end_event
    metered,    \* deviceState.networkMetered
    fate,       \* what became of each item
    fails,      \* history: attempts the server or the network failed
    stopped,    \* history: the items cancelled while they waited in the queue
    left        \* how many troubles may still come

vars == <<queue, cancelled, pc, hand, snap, disk, end, metered, fate, fails, stopped, left>>

Procs == Handlers \cup Workers
NotIn == MaxRetry + 1
Contents == [Items -> 0 .. NotIn]
Empty == [i \in Items |-> NotIn]
Hand(i) == [id |-> i, retry |-> 0, reply |-> FALSE]
Idle == Hand(NoItem)
Queued(i) == queue[i] # NotIn

\* upload_handler between taking an item off the queue and settling it or putting it back
Holding == {"popped", "taken", "sending", "retry"}
HoldsItem(h, i) == pc[h] \in Holding /\ hand[h].id = i

Labels == Holding \cup {"loop", "enqueue", "cancel", "snapRetry", "writeRetry", "sleep",
                        "sleepReply", "snap", "write", "done"}
Hands == [id : Items \cup {NoItem}, retry : 0 .. MaxRetry, reply : BOOLEAN]
Fates == {"new", "accepted", "uploaded", "cancelled", "expired", "given_up", "failed", "lost"}

TypeOK ==
    /\ queue \in Contents /\ disk \in Contents /\ snap \in [Procs -> Contents]
    /\ cancelled \subseteq Items /\ stopped \subseteq Items
    /\ pc \in [Procs -> Labels] /\ hand \in [Procs -> Hands]
    /\ end \in BOOLEAN /\ metered \in BOOLEAN
    /\ fate \in [Items -> Fates] /\ fails \in [Items -> Nat] /\ left \in Nat

Init ==
    /\ queue = Empty /\ disk = Empty /\ snap = [p \in Procs |-> Empty]
    /\ cancelled = {} /\ stopped = {}
    /\ pc = [p \in Procs |-> "loop"] /\ hand = [p \in Procs |-> Idle]
    /\ end = FALSE /\ metered \in BOOLEAN
    /\ fate = [i \in Items |-> "new"] /\ fails = [i \in Items |-> 0]
    /\ left = MaxTroubles

Goto(p, l) == pc' = [pc EXCEPT ![p] = l]
Take(p, h) == hand' = [hand EXCEPT ![p] = h]
Ends(i, f) == fate' = [fate EXCEPT ![i] = f]

-----------------------------------------------------------------------------
\* upload_handler takes the item of the smallest priority; it is in no list until it is current
Pop(h) ==
    /\ pc[h] = "loop" /\ ~end
    /\ \E i \in Items :
        /\ Queued(i) /\ \A j \in Items : Queued(j) => Priority[i] <= Priority[j]
        /\ queue' = [queue EXCEPT ![i] = NotIn]
        /\ Take(h, [id |-> i, retry |-> queue[i], reply |-> FALSE])
    /\ Goto(h, "popped")
    /\ UNCHANGED <<cancelled, snap, disk, end, metered, fate, fails, stopped, left>>

\* queue.Empty after a second
FindsNothing(h) == pc[h] = "loop" /\ ~end /\ queue = Empty /\ UNCHANGED vars

MakeCurrent(h) ==
    /\ pc[h] = "popped" /\ Goto(h, "taken")
    /\ UNCHANGED <<queue, cancelled, hand, snap, disk, end, metered, fate, fails, stopped, left>>

\* retry_upload up to put_nowait: the thread goes on to put its item back, or drops it
RetryUpload(h, increase, reply) ==
    LET i == hand[h].id IN
    IF hand[h].retry < MaxRetry
    THEN /\ Take(h, [id |-> i, retry |-> hand[h].retry + increase, reply |-> reply])
         /\ Goto(h, "retry") /\ UNCHANGED fate
    ELSE /\ Ends(i, "given_up")
         /\ IF reply THEN Goto(h, "snap") /\ UNCHANGED hand ELSE Goto(h, "loop") /\ Take(h, Idle)

\* the item was cancelled while it waited
DropCancelled(h) ==
    /\ pc[h] = "taken" /\ hand[h].id \in cancelled
    /\ cancelled' = cancelled \ {hand[h].id}
    /\ Ends(hand[h].id, "cancelled") /\ Goto(h, "loop") /\ Take(h, Idle)
    /\ UNCHANGED <<queue, snap, disk, end, metered, fails, stopped, left>>

\* an item of an old request is dropped, a large one waits for an unmetered network
Consider(h) ==
    /\ pc[h] = "taken" /\ hand[h].id \notin cancelled
    /\ \/ Ends(hand[h].id, "expired") /\ Goto(h, "loop") /\ Take(h, Idle)
       \/ metered /\ hand[h].id \notin Cellular /\ RetryUpload(h, 0, FALSE)
       \/ /\ metered => hand[h].id \in Cellular
          /\ Goto(h, "sending") /\ UNCHANGED <<hand, fate>>
    /\ UNCHANGED <<queue, cancelled, snap, disk, end, metered, fails, stopped, left>>

\* the server accepts the file, or says that it will never want it
Uploaded(h) ==
    /\ pc[h] = "sending" /\ Ends(hand[h].id, "uploaded") /\ Goto(h, "snap")
    /\ UNCHANGED <<queue, cancelled, hand, snap, disk, end, metered, fails, stopped, left>>

\* mutant: an attempt that got no answer is not counted
FailsUncounted(h) ==
    /\ pc[h] = "sending" /\ fails' = fails
    /\ \E reply \in BOOLEAN : RetryUpload(h, IF reply THEN 1 ELSE 0, reply)
    /\ UNCHANGED <<queue, cancelled, snap, disk, end, metered, stopped, left>>

\* another answer of the server (reply), a timeout or a lost connection
Fails(h) ==
    /\ pc[h] = "sending" /\ fails' = [fails EXCEPT ![hand[h].id] = @ + 1]
    /\ \E reply \in BOOLEAN : RetryUpload(h, 1, reply)
    /\ UNCHANGED <<queue, cancelled, snap, disk, end, metered, stopped, left>>

\* mutant: a broken off transfer counts as an attempt
AbortCounted(h) ==
    /\ pc[h] = "sending" /\ (end \/ (metered /\ hand[h].id \notin Cellular))
    /\ RetryUpload(h, 1, FALSE)
    /\ UNCHANGED <<queue, cancelled, snap, disk, end, metered, fails, stopped, left>>

\* cb: the network became metered or the websocket ended during the transfer
Abort(h) ==
    /\ pc[h] = "sending" /\ (end \/ (metered /\ hand[h].id \notin Cellular))
    /\ RetryUpload(h, 0, FALSE)
    /\ UNCHANGED <<queue, cancelled, snap, disk, end, metered, fails, stopped, left>>

\* any other exception, as that of a file which is no longer there
Raises(h) ==
    /\ pc[h] = "sending" /\ Ends(hand[h].id, "failed") /\ Goto(h, "loop") /\ Take(h, Idle)
    /\ UNCHANGED <<queue, cancelled, snap, disk, end, metered, fails, stopped, left>>

PutBack(h) ==
    /\ pc[h] = "retry" /\ queue' = [queue EXCEPT ![hand[h].id] = hand[h].retry]
    /\ Goto(h, "snapRetry")
    /\ UNCHANGED <<cancelled, hand, snap, disk, end, metered, fate, fails, stopped, left>>

\* RETRY_DELAY, cut short by the end of the websocket
Wake(h) ==
    /\ \/ pc[h] = "sleep" /\ Goto(h, "loop")
       \/ pc[h] = "sleepReply" /\ Goto(h, "snap")
    /\ UNCHANGED <<queue, cancelled, hand, snap, disk, end, metered, fate, fails, stopped, left>>

-----------------------------------------------------------------------------
\* UploadQueueCache.cache: list the queue without the cancelled items, then put the param
Snapshot(p) ==
    /\ \/ pc[p] = "snap" /\ Goto(p, "write")
       \/ pc[p] = "snapRetry" /\ Goto(p, "writeRetry")
    /\ snap' = [snap EXCEPT ![p] = [i \in Items |-> IF i \in cancelled THEN NotIn ELSE queue[i]]]
    /\ UNCHANGED <<queue, cancelled, hand, disk, end, metered, fate, fails, stopped, left>>

Write(p) ==
    /\ \/ pc[p] = "write" /\ Goto(p, "loop")
       \/ pc[p] = "writeRetry" /\ Goto(p, IF hand[p].reply THEN "sleepReply" ELSE "sleep")
    /\ disk' = snap[p] /\ snap' = [snap EXCEPT ![p] = Empty] /\ Take(p, Idle)
    /\ UNCHANGED <<queue, cancelled, end, metered, fate, fails, stopped, left>>

-----------------------------------------------------------------------------
\* listUploadQueue: what waits and what is current, without what was cancelled
Listed == {i \in Items \ cancelled :
              Queued(i) \/ \E h \in Handlers : hand[h].id = i /\ pc[h] # "popped"}

\* uploadFilesToUrls: a file whose url is listed is skipped, the cache is written all the same
Request(w) ==
    /\ pc[w] = "loop" /\ ~end
    /\ \E i \in Items :
        /\ fate[i] = "new" /\ \A v \in Workers : hand[v].id # i
        /\ IF \E j \in Listed : Url[j] = Url[i]
           THEN Goto(w, "snap") /\ UNCHANGED hand
           ELSE Goto(w, "enqueue") /\ Take(w, Hand(i))
    /\ UNCHANGED <<queue, cancelled, snap, disk, end, metered, fate, fails, stopped, left>>

Enqueue(w) ==
    /\ pc[w] = "enqueue" /\ Goto(w, "snap") /\ Take(w, Idle)
    /\ queue' = [queue EXCEPT ![hand[w].id] = 0] /\ Ends(hand[w].id, "accepted")
    /\ UNCHANGED <<cancelled, snap, disk, end, metered, fails, stopped, left>>

\* cancelUpload: only an item that is in the queue, then, in a second step, its id
FindToCancel(w) ==
    /\ pc[w] = "loop" /\ ~end
    /\ \E i \in Items : Queued(i) /\ Take(w, Hand(i))
    /\ Goto(w, "cancel")
    /\ UNCHANGED <<queue, cancelled, snap, disk, end, metered, fate, fails, stopped, left>>

Cancel(w) ==
    /\ pc[w] = "cancel" /\ Goto(w, "loop") /\ Take(w, Idle)
    /\ cancelled' = cancelled \cup {hand[w].id}
    /\ stopped' = stopped \cup {i \in {hand[w].id} : Queued(i)}
    /\ UNCHANGED <<queue, snap, disk, end, metered, fate, fails, left>>

-----------------------------------------------------------------------------
Leave(p) ==
    /\ pc[p] = "loop" /\ end /\ Goto(p, "done")
    /\ UNCHANGED <<queue, cancelled, hand, snap, disk, end, metered, fate, fails, stopped, left>>

\* mutant: every new websocket reads the cache again
ReconnectReads ==
    /\ \A p \in Procs : pc[p] = "done"
    /\ queue' = [i \in Items |-> IF Queued(i) THEN queue[i] ELSE disk[i]]
    /\ end' = FALSE /\ pc' = [p \in Procs |-> "loop"]
    /\ hand' = [p \in Procs |-> Idle]
    /\ UNCHANGED <<cancelled, snap, disk, metered, fate, fails, stopped, left>>

\* handle_long_poll has joined every thread; main connects again and starts them
Reconnect ==
    /\ \A p \in Procs : pc[p] = "done"
    /\ end' = FALSE /\ pc' = [p \in Procs |-> "loop"]
    /\ hand' = [p \in Procs |-> Idle]
    /\ UNCHANGED <<queue, cancelled, snap, disk, metered, fate, fails, stopped, left>>

Trouble == left > 0 /\ left' = left - 1

\* ws_recv, ws_send: an exception on the socket or RECONNECT_TIMEOUT_S without a ping
Disconnect ==
    /\ Trouble /\ ~end /\ end' = TRUE
    /\ UNCHANGED <<queue, cancelled, pc, hand, snap, disk, metered, fate, fails, stopped>>

NetworkChanges ==
    /\ Trouble /\ metered' = ~metered
    /\ UNCHANGED <<queue, cancelled, pc, hand, snap, disk, end, fate, fails, stopped>>

\* the process dies and UploadQueueCache.initialize reads the param: all else is forgotten
Crash ==
    /\ Trouble
    /\ queue' = disk /\ cancelled' = {} /\ stopped' = {} /\ end' = FALSE
    /\ pc' = [p \in Procs |-> "loop"] /\ hand' = [p \in Procs |-> Idle]
    /\ snap' = [p \in Procs |-> Empty]
    /\ fate' = [i \in Items |-> IF disk[i] # NotIn THEN "accepted"
                                ELSE IF fate[i] = "accepted" THEN "lost" ELSE fate[i]]
    /\ UNCHANGED <<disk, metered, fails>>

HandlerStep(h) == \/ Pop(h) \/ FindsNothing(h) \/ MakeCurrent(h) \/ DropCancelled(h) \/ Consider(h)
                  \/ Uploaded(h) \/ Fails(h) \/ Abort(h) \/ Raises(h)
                  \/ PutBack(h) \/ Wake(h) \/ Snapshot(h) \/ Write(h) \/ Leave(h)
WorkerStep(w) == \/ Request(w) \/ Enqueue(w) \/ FindToCancel(w) \/ Cancel(w)
                 \/ Snapshot(w) \/ Write(w) \/ Leave(w)

WorkerGoesOn(w) == Enqueue(w) \/ Cancel(w) \/ Snapshot(w) \/ Write(w) \/ Leave(w)

Next == \/ \E h \in Handlers : HandlerStep(h)
        \/ \E w \in Workers : WorkerStep(w)
        \/ Reconnect \/ Disconnect \/ NetworkChanges \/ Crash

Spec == Init /\ [][Next]_vars

\* the threads run; nobody has to ask for anything, the network need not change
Fairness == /\ \A h \in Handlers : WF_vars(HandlerStep(h))
            /\ \A w \in Workers : WF_vars(WorkerGoesOn(w))
            /\ WF_vars(Reconnect)
LiveSpec == Spec /\ Fairness

-----------------------------------------------------------------------------
(* Two threads never work on the same upload, an item in a thread's hands is *)
(* not in the queue too, and none works on an item that has been settled,    *)
(* whatever is retried, cancelled or reconnected: no file is sent twice.     *)
OneOwner ==
    \A i \in Items : \A h \in Handlers : HoldsItem(h, i) =>
        /\ fate[i] = "accepted" /\ ~Queued(i)
        /\ \A g \in Handlers \ {h} : ~HoldsItem(g, i)

(* An accepted upload that is not settled is in the queue or in a thread's   *)
(* hands: a retry, an aborted transfer or a new websocket drops none.        *)
NothingForgotten ==
    \A i \in Items : fate[i] = "accepted" => Queued(i) \/ \E h \in Handlers : HoldsItem(h, i)

(* An item is given up only after MAX_RETRY_COUNT attempts have failed: an   *)
(* abort or a metered network is no attempt, and a restart counts on from    *)
(* what the cache says.                                                      *)
GivenUpOnlyAfterFailures ==
    \A i \in Items : fate[i] = "given_up" => fails[i] >= MaxRetry

(* An item that was cancelled while it waited is never sent by this process. *)
CancelledStaysOut ==
    \A i \in stopped : \A h \in Handlers : ~(HoldsItem(h, i) /\ pc[h] \in {"sending", "retry"})

(* An upload is in one place until it is settled.                            *)
UploadsHaveOnePlace == TypeOK /\ OneOwner /\ NothingForgotten

(* It is settled the way that was earned: sent, cancelled or given up.       *)
SettledRightly == GivenUpOnlyAfterFailures /\ CancelledStaysOut

(* Once the network stays unmetered every accepted upload is settled: no     *)
(* chain of retries, aborts and reconnections goes on for ever.              *)
EventuallySettled ==
    <>[]~metered => \A i \in Items : fate[i] = "accepted" ~> fate[i] # "accepted"
==============================================================================
