-------------------------- MODULE ConnectivityProofs --------------------------
(***************************************************************************)
(* The upload queue of athenad for every number of items, handlers and     *)
(* workers, every retry limit and any number of crashes, reconnections and *)
(* changes of the network; its video clips, for every number of them; and  *)
(* the Wi-Fi manager, for every number of networks, workers, acts of the   *)
(* user and failures.                                                      *)
(*                                                                         *)
(* UploadsHaveOnePlace is not inductive: that an item which is taken off   *)
(* the queue is in nobody's hands needs that what is queued is accepted,   *)
(* and that a worker about to enqueue an item is the only one to do so     *)
(* (QueuedIsAccepted, EnqueuesNew). Its proof sees four kinds of steps of  *)
(* a handler only: it keeps what it has, takes an item off the queue, puts *)
(* its item back, or settles it. SettledRightly needs that no retry count, *)
(* in the queue, in a hand, in a snapshot or in the param, exceeds the     *)
(* failed attempts (Counts), and that the mark of a cancelled item lasts   *)
(* until the item is settled (Stopped). TruthfulAtRest speaks of the       *)
(* moment when nothing is under way: its invariant says what each signal   *)
(* that is under way will still do (KnownInTime, ForgottenInTime,          *)
(* OffIsShown, ConnectionIsShown).                                         *)
(***************************************************************************)
EXTENDS UploadQueue, VideoClips, WifiManager, SequenceTheorems, TLAPS

LEMMA Constants ==
    /\ MaxRetry \in Nat /\ NotIn \in 0 .. NotIn /\ 0 \in 0 .. MaxRetry
    /\ \A r \in 0 .. MaxRetry : r \in 0 .. NotIn /\ r # NotIn
    /\ \A r \in 0 .. NotIn : r # NotIn => r \in 0 .. MaxRetry
  BY RetryAssumption DEF NotIn

LEMMA TwoKindsOfThreads ==
    /\ Handlers \cap Workers = {} /\ Handlers \subseteq Procs /\ Workers \subseteq Procs
  BY ThreadAssumption DEF Procs

LEMMA NewHand ==
  ASSUME NEW i \in Items \cup {NoItem}, NEW r \in 0 .. MaxRetry, NEW b \in BOOLEAN
  PROVE  [id |-> i, retry |-> r, reply |-> b] \in Hands
  BY DEF Hands

LEMMA FreshHand ==
    /\ Idle \in Hands /\ Idle.id = NoItem
    /\ \A i \in Items : Hand(i) \in Hands /\ Hand(i).id = i
  BY Constants, NewHand DEF Idle, Hand

LEMMA EmptyIsContents == Empty \in Contents
  BY Constants DEF Empty, Contents

-----------------------------------------------------------------------------
(* The type. A thread at a step that is about an item has one.               *)

HandsFull ==
    \A p \in Procs : pc[p] \in Holding \cup {"enqueue", "cancel"} => hand[p].id \in Items

Typed == TypeOK /\ HandsFull

\* p goes to the step l with h in its hand, and what else there is keeps its type.
LEMMA StepOfOne ==
  ASSUME Typed, NEW p \in Procs, NEW l \in Labels, NEW h \in Hands,
         pc' = [pc EXCEPT ![p] = l], hand' = [hand EXCEPT ![p] = h],
         l \in Holding \cup {"enqueue", "cancel"} => h.id \in Items
  PROVE  pc' \in [Procs -> Labels] /\ hand' \in [Procs -> Hands] /\ HandsFull'
<1>1. pc' \in [Procs -> Labels] /\ hand' \in [Procs -> Hands]
  BY DEF Typed, TypeOK
<1>2. ASSUME NEW q \in Procs, pc'[q] \in Holding' \cup {"enqueue", "cancel"} PROVE hand'[q].id \in Items
  <2>1. CASE q = p
    BY <1>2, <2>1 DEF Typed, TypeOK, Holding
  <2>2. CASE q # p
    BY <1>2, <2>2 DEF Typed, TypeOK, HandsFull, Holding
  <2> QED BY <2>1, <2>2
<1> QED BY <1>1, <1>2 DEF HandsFull

\* The same when the hand stays as it is.
LEMMA StepInPlace ==
  ASSUME Typed, NEW p \in Procs, NEW l \in Labels,
         pc' = [pc EXCEPT ![p] = l], hand' = hand,
         l \in Holding \cup {"enqueue", "cancel"} => pc[p] \in Holding \cup {"enqueue", "cancel"}
  PROVE  pc' \in [Procs -> Labels] /\ hand' \in [Procs -> Hands] /\ HandsFull'
<1>1. pc' \in [Procs -> Labels] /\ hand' \in [Procs -> Hands]
  BY DEF Typed, TypeOK
<1>2. ASSUME NEW q \in Procs, pc'[q] \in Holding' \cup {"enqueue", "cancel"} PROVE hand'[q].id \in Items
  BY <1>2 DEF Typed, TypeOK, HandsFull, Holding
<1> QED BY <1>1, <1>2 DEF HandsFull

LEMMA SettledTyped ==
  ASSUME TypeOK, NEW i, NEW f \in Fates, Ends(i, f)
  PROVE  fate' \in [Items -> Fates]
  BY DEF TypeOK, Ends

\* An attempt that is retried or given up.
LEMMA RetryTyped ==
  ASSUME Typed, NEW h \in Procs, pc[h] \in Holding, NEW inc \in {0, 1}, NEW reply \in BOOLEAN,
         RetryUpload(h, inc, reply)
  PROVE  /\ pc' \in [Procs -> Labels] /\ hand' \in [Procs -> Hands] /\ HandsFull'
         /\ fate' \in [Items -> Fates]
<1>1. hand[h].id \in Items /\ hand[h].retry \in 0 .. MaxRetry
  BY DEF Typed, TypeOK, Hands, HandsFull
<1>2. CASE hand[h].retry < MaxRetry
  <2>1. hand[h].retry + inc \in 0 .. MaxRetry
    BY <1>1, <1>2, Constants
  <2> DEFINE new == [id |-> hand[h].id, retry |-> hand[h].retry + inc, reply |-> reply]
  <2>2. new \in Hands /\ new.id \in Items
    BY <1>1, <2>1, NewHand
  <2>3. pc' = [pc EXCEPT ![h] = "retry"] /\ hand' = [hand EXCEPT ![h] = new] /\ fate' = fate
    BY <1>2 DEF RetryUpload, Take, Goto
  <2>4. "retry" \in Labels
    BY DEF Labels, Holding
  <2> HIDE DEF new
  <2> QED BY <2>2, <2>3, <2>4, StepOfOne DEF Typed, TypeOK
<1>3. CASE ~(hand[h].retry < MaxRetry)
  <2>1. fate' \in [Items -> Fates]
    BY <1>3, SettledTyped DEF RetryUpload, Typed, Fates
  <2>2. CASE reply
    <3>1. pc' = [pc EXCEPT ![h] = "snap"] /\ hand' = hand
      BY <1>3, <2>2 DEF RetryUpload, Goto
    <3> QED BY <2>1, <3>1, StepInPlace DEF Labels, Holding
  <2>3. CASE ~reply
    <3>1. pc' = [pc EXCEPT ![h] = "loop"] /\ hand' = [hand EXCEPT ![h] = Idle]
      BY <1>3, <2>3 DEF RetryUpload, Goto, Take
    <3> QED BY <2>1, <3>1, StepOfOne, FreshHand DEF Labels, Holding
  <2> QED BY <2>2, <2>3
<1> QED BY <1>2, <1>3

\* What handlers and workers both do.
LEMMA SharedTyped ==
  ASSUME Typed, NEW p \in Procs, Snapshot(p) \/ Write(p) \/ Leave(p)
  PROVE  Typed'
<1>1. CASE Snapshot(p)
  <2>1. [i \in Items |-> IF i \in cancelled THEN NotIn ELSE queue[i]] \in Contents
    BY Constants DEF Typed, TypeOK, Contents
  <2>2. snap' \in [Procs -> Contents]
    BY <1>1, <2>1 DEF Snapshot, Typed, TypeOK
  <2>3. PICK l \in {"write", "writeRetry"} : pc' = [pc EXCEPT ![p] = l]
    BY <1>1 DEF Snapshot, Goto
  <2>4. pc' \in [Procs -> Labels] /\ hand' \in [Procs -> Hands] /\ HandsFull'
    BY <1>1, <2>3, StepInPlace DEF Snapshot, Labels, Holding
  <2> QED BY <1>1, <2>2, <2>4 DEF Snapshot, Typed, TypeOK
<1>2. CASE Write(p)
  <2>1. PICK l \in {"loop", "sleep", "sleepReply"} : pc' = [pc EXCEPT ![p] = l]
    BY <1>2 DEF Write, Goto
  <2>2. pc' \in [Procs -> Labels] /\ hand' \in [Procs -> Hands] /\ HandsFull'
    BY <1>2, <2>1, StepOfOne, FreshHand DEF Write, Take, Labels, Holding
  <2>3. disk' \in Contents /\ snap' \in [Procs -> Contents]
    BY <1>2, EmptyIsContents DEF Write, Typed, TypeOK
  <2> QED BY <1>2, <2>2, <2>3 DEF Write, Typed, TypeOK
<1>3. CASE Leave(p)
  <2>1. pc' = [pc EXCEPT ![p] = "done"] /\ hand' = hand
    BY <1>3 DEF Leave, Goto
  <2>2. pc' \in [Procs -> Labels] /\ hand' \in [Procs -> Hands] /\ HandsFull'
    BY <2>1, StepInPlace DEF Labels, Holding
  <2> QED BY <1>3, <2>2 DEF Leave, Typed, TypeOK
<1> QED BY <1>1, <1>2, <1>3

LEMMA HandlerTyped ==
  ASSUME Typed, NEW h \in Handlers, HandlerStep(h)
  PROVE  Typed'
<1> h \in Procs
  BY TwoKindsOfThreads
<1>1. CASE Pop(h)
  <2>1. PICK i \in Items : /\ Queued(i) /\ queue' = [queue EXCEPT ![i] = NotIn]
                           /\ Take(h, [id |-> i, retry |-> queue[i], reply |-> FALSE])
    BY <1>1 DEF Pop
  <2>2. queue[i] \in 0 .. MaxRetry
    BY <2>1, Constants DEF Typed, TypeOK, Contents, Queued
  <2> DEFINE new == [id |-> i, retry |-> queue[i], reply |-> FALSE]
  <2>3. new \in Hands /\ new.id \in Items
    BY <2>2, NewHand
  <2>4. hand' = [hand EXCEPT ![h] = new] /\ pc' = [pc EXCEPT ![h] = "popped"]
    BY <1>1, <2>1 DEF Pop, Take, Goto
  <2>5. queue' \in Contents
    BY <2>1, Constants DEF Typed, TypeOK, Contents
  <2> HIDE DEF new
  <2>6. pc' \in [Procs -> Labels] /\ hand' \in [Procs -> Hands] /\ HandsFull'
    BY <2>3, <2>4, StepOfOne DEF Labels, Holding
  <2> QED BY <1>1, <2>5, <2>6 DEF Pop, Typed, TypeOK
<1>2. CASE FindsNothing(h)
  BY <1>2 DEF FindsNothing, vars, Typed, TypeOK, HandsFull
<1>3. CASE MakeCurrent(h)
  <2>1. pc' \in [Procs -> Labels] /\ hand' \in [Procs -> Hands] /\ HandsFull'
    BY <1>3, StepInPlace DEF MakeCurrent, Goto, Labels, Holding
  <2> QED BY <1>3, <2>1 DEF MakeCurrent, Typed, TypeOK
<1>4. CASE Wake(h)
  <2>1. PICK l \in {"loop", "snap"} : pc' = [pc EXCEPT ![h] = l]
    BY <1>4 DEF Wake, Goto
  <2>2. pc' \in [Procs -> Labels] /\ hand' \in [Procs -> Hands] /\ HandsFull'
    BY <1>4, <2>1, StepInPlace DEF Wake, Labels, Holding
  <2> QED BY <1>4, <2>2 DEF Wake, Typed, TypeOK
<1>5. CASE DropCancelled(h)
  <2>1. pc' \in [Procs -> Labels] /\ hand' \in [Procs -> Hands] /\ HandsFull'
    BY <1>5, StepOfOne, FreshHand DEF DropCancelled, Goto, Take, Labels, Holding
  <2>2. fate' \in [Items -> Fates]
    BY <1>5, SettledTyped DEF DropCancelled, Typed, Fates
  <2> QED BY <1>5, <2>1, <2>2 DEF DropCancelled, Typed, TypeOK
<1>6. CASE Raises(h)
  <2>1. pc' \in [Procs -> Labels] /\ hand' \in [Procs -> Hands] /\ HandsFull'
    BY <1>6, StepOfOne, FreshHand DEF Raises, Goto, Take, Labels, Holding
  <2>2. fate' \in [Items -> Fates]
    BY <1>6, SettledTyped DEF Raises, Typed, Fates
  <2> QED BY <1>6, <2>1, <2>2 DEF Raises, Typed, TypeOK
<1>7. CASE Consider(h)
  <2>1. pc[h] \in Holding
    BY <1>7 DEF Consider, Holding
  <2>2. /\ pc' \in [Procs -> Labels] /\ hand' \in [Procs -> Hands] /\ HandsFull'
        /\ fate' \in [Items -> Fates]
    <3>1. CASE Ends(hand[h].id, "expired") /\ Goto(h, "loop") /\ Take(h, Idle)
      <4>1. fate' \in [Items -> Fates]
        BY <3>1, SettledTyped DEF Typed, Fates
      <4> QED BY <3>1, <4>1, StepOfOne, FreshHand DEF Goto, Take, Labels, Holding
    <3>2. CASE RetryUpload(h, 0, FALSE)
      BY <2>1, <3>2, RetryTyped
    <3>3. CASE Goto(h, "sending") /\ UNCHANGED <<hand, fate>>
      <4>1. fate' \in [Items -> Fates]
        BY <3>3 DEF Typed, TypeOK
      <4> QED BY <2>1, <3>3, <4>1, StepInPlace DEF Goto, Labels, Holding
    <3> QED BY <1>7, <3>1, <3>2, <3>3 DEF Consider
  <2> QED BY <1>7, <2>2 DEF Consider, Typed, TypeOK
<1>8. CASE Uploaded(h)
  <2>1. pc' \in [Procs -> Labels] /\ hand' \in [Procs -> Hands] /\ HandsFull'
    BY <1>8, StepInPlace DEF Uploaded, Goto, Labels, Holding
  <2>2. fate' \in [Items -> Fates]
    BY <1>8, SettledTyped DEF Uploaded, Typed, Fates
  <2> QED BY <1>8, <2>1, <2>2 DEF Uploaded, Typed, TypeOK
<1>9. CASE Fails(h)
  <2>1. PICK reply \in BOOLEAN : RetryUpload(h, 1, reply)
    BY <1>9 DEF Fails
  <2>2. /\ pc' \in [Procs -> Labels] /\ hand' \in [Procs -> Hands] /\ HandsFull'
        /\ fate' \in [Items -> Fates]
    BY <1>9, <2>1, RetryTyped DEF Fails, Holding
  <2>3. hand[h].id \in Items /\ fails[hand[h].id] \in Nat
    BY <1>9 DEF Fails, Typed, TypeOK, HandsFull, Holding
  <2>4. fails' \in [Items -> Nat]
    BY <1>9, <2>3 DEF Fails, Typed, TypeOK
  <2> QED BY <1>9, <2>2, <2>4 DEF Fails, Typed, TypeOK
<1>10. CASE Abort(h)
  <2>1. /\ pc' \in [Procs -> Labels] /\ hand' \in [Procs -> Hands] /\ HandsFull'
        /\ fate' \in [Items -> Fates]
    BY <1>10, RetryTyped DEF Abort, Holding
  <2> QED BY <1>10, <2>1 DEF Abort, Typed, TypeOK
<1>11. CASE PutBack(h)
  <2>1. hand[h].retry \in 0 .. NotIn
    BY Constants DEF Typed, TypeOK, Hands
  <2>2. queue' \in Contents
    BY <1>11, <2>1 DEF PutBack, Typed, TypeOK, Contents
  <2>3. pc' \in [Procs -> Labels] /\ hand' \in [Procs -> Hands] /\ HandsFull'
    BY <1>11, StepInPlace DEF PutBack, Goto, Labels, Holding
  <2> QED BY <1>11, <2>2, <2>3 DEF PutBack, Typed, TypeOK
<1> QED BY <1>1, <1>2, <1>3, <1>4, <1>5, <1>6, <1>7, <1>8, <1>9, <1>10, <1>11, SharedTyped
        DEF HandlerStep

LEMMA WorkerTyped ==
  ASSUME Typed, NEW w \in Workers, WorkerStep(w)
  PROVE  Typed'
<1> w \in Procs
  BY TwoKindsOfThreads
<1>1. CASE Request(w)
  <2>1. pc' \in [Procs -> Labels] /\ hand' \in [Procs -> Hands] /\ HandsFull'
    <3>1. CASE pc' = [pc EXCEPT ![w] = "snap"] /\ hand' = hand
      BY <3>1, StepInPlace DEF Labels, Holding
    <3>2. ASSUME NEW i \in Items, pc' = [pc EXCEPT ![w] = "enqueue"],
                 hand' = [hand EXCEPT ![w] = Hand(i)]
          PROVE  pc' \in [Procs -> Labels] /\ hand' \in [Procs -> Hands] /\ HandsFull'
      BY <3>2, StepOfOne, FreshHand DEF Labels
    <3> QED BY <1>1, <3>1, <3>2 DEF Request, Goto, Take
  <2> QED BY <1>1, <2>1 DEF Request, Typed, TypeOK
<1>2. CASE Enqueue(w)
  <2>1. pc' \in [Procs -> Labels] /\ hand' \in [Procs -> Hands] /\ HandsFull'
    BY <1>2, StepOfOne, FreshHand DEF Enqueue, Goto, Take, Labels, Holding
  <2>2. queue' \in Contents
    BY <1>2, Constants DEF Enqueue, Typed, TypeOK, Contents
  <2>3. fate' \in [Items -> Fates]
    BY <1>2, SettledTyped DEF Enqueue, Typed, Fates
  <2> QED BY <1>2, <2>1, <2>2, <2>3 DEF Enqueue, Typed, TypeOK
<1>3. CASE FindToCancel(w)
  <2>1. PICK i \in Items : hand' = [hand EXCEPT ![w] = Hand(i)]
    BY <1>3 DEF FindToCancel, Take
  <2>2. pc' = [pc EXCEPT ![w] = "cancel"]
    BY <1>3 DEF FindToCancel, Goto
  <2>3. pc' \in [Procs -> Labels] /\ hand' \in [Procs -> Hands] /\ HandsFull'
    BY <2>1, <2>2, StepOfOne, FreshHand DEF Labels
  <2> QED BY <1>3, <2>3 DEF FindToCancel, Typed, TypeOK
<1>4. CASE Cancel(w)
  <2>1. hand[w].id \in Items
    BY <1>4 DEF Cancel, Typed, HandsFull
  <2>2. cancelled' \subseteq Items /\ stopped' \subseteq Items
    BY <1>4, <2>1 DEF Cancel, Typed, TypeOK
  <2>3. pc' \in [Procs -> Labels] /\ hand' \in [Procs -> Hands] /\ HandsFull'
    BY <1>4, StepOfOne, FreshHand DEF Cancel, Goto, Take, Labels, Holding
  <2> QED BY <1>4, <2>2, <2>3 DEF Cancel, Typed, TypeOK
<1> QED BY <1>1, <1>2, <1>3, <1>4, SharedTyped DEF WorkerStep

LEMMA AllIdle ==
  ASSUME pc' = [p \in Procs |-> "loop"], hand' = [p \in Procs |-> Idle]
  PROVE  pc' \in [Procs -> Labels] /\ hand' \in [Procs -> Hands] /\ HandsFull'
  BY FreshHand DEF Labels, Holding, HandsFull

LEMMA InitTyped == Init => Typed
<1> SUFFICES ASSUME Init PROVE Typed
  OBVIOUS
<1>1. pc \in [Procs -> Labels] /\ hand \in [Procs -> Hands] /\ HandsFull
  BY FreshHand DEF Init, Labels, Holding, HandsFull
<1>2. queue \in Contents /\ disk \in Contents /\ snap \in [Procs -> Contents]
  BY EmptyIsContents DEF Init
<1>3. fate \in [Items -> Fates] /\ fails \in [Items -> Nat] /\ left \in Nat
  BY BoundAssumption DEF Init, Fates
<1> QED BY <1>1, <1>2, <1>3 DEF Init, Typed, TypeOK

LEMMA StepTyped == Typed /\ [Next]_vars => Typed'
<1> SUFFICES ASSUME Typed, [Next]_vars PROVE Typed'
  OBVIOUS
<1>1. CASE Reconnect
  BY <1>1, AllIdle DEF Reconnect, Typed, TypeOK
<1>2. ASSUME Trouble PROVE left' \in Nat
  BY <1>2 DEF Trouble, Typed, TypeOK
<1>3. CASE Disconnect
  BY <1>2, <1>3 DEF Disconnect, Typed, TypeOK, HandsFull
<1>4. CASE NetworkChanges
  <2>1. metered' \in BOOLEAN
    BY <1>4, Zenon DEF NetworkChanges
  <2> QED BY <1>2, <1>4, <2>1 DEF NetworkChanges, Typed, TypeOK, HandsFull
<1>5. CASE Crash
  <2>1. pc' \in [Procs -> Labels] /\ hand' \in [Procs -> Hands] /\ HandsFull'
    BY <1>5, AllIdle DEF Crash
  <2>2. queue' \in Contents /\ snap' \in [Procs -> Contents]
    BY <1>5, EmptyIsContents DEF Crash, Typed, TypeOK
  <2>3. fate' \in [Items -> Fates]
    BY <1>5 DEF Crash, Typed, TypeOK, Fates
  <2> QED BY <1>2, <1>5, <2>1, <2>2, <2>3 DEF Crash, Typed, TypeOK
<1>6. CASE UNCHANGED vars
  BY <1>6 DEF vars, Typed, TypeOK, HandsFull
<1> QED BY <1>1, <1>3, <1>4, <1>5, <1>6, HandlerTyped, WorkerTyped DEF Next

-----------------------------------------------------------------------------
(* One place.                                                                *)

QueuedIsAccepted == \A i \in Items : Queued(i) => fate[i] = "accepted"

EnqueuesNew ==
    \A w \in Workers : pc[w] = "enqueue" =>
        /\ fate[hand[w].id] = "new"
        /\ \A v \in Workers \ {w} : pc[v] = "enqueue" => hand[v].id # hand[w].id

Places == OneOwner /\ NothingForgotten /\ QueuedIsAccepted /\ EnqueuesNew

Holds(h) == pc[h] \in Holding

(* What a step of a thread can do to the place of an item.                   *)
Others(p) == \A q \in Procs \ {p} : pc'[q] = pc[q] /\ hand'[q] = hand[q]
Keeps(h) == /\ Holds(h)' <=> Holds(h)
            /\ Holds(h) => hand'[h].id = hand[h].id
            /\ UNCHANGED <<queue, fate>>
Takes(h) == /\ ~Holds(h) /\ Holds(h)' /\ hand'[h].id \in Items /\ Queued(hand'[h].id)
            /\ queue' = [queue EXCEPT ![hand'[h].id] = NotIn] /\ UNCHANGED fate
Returns(h) == /\ Holds(h) /\ ~Holds(h)' /\ UNCHANGED fate
              /\ \E r \in 0 .. MaxRetry : queue' = [queue EXCEPT ![hand[h].id] = r]
Settles(h) == /\ Holds(h) /\ ~Holds(h)' /\ UNCHANGED queue
              /\ \E f \in Fates \ {"new", "accepted"} : fate' = [fate EXCEPT ![hand[h].id] = f]

LEMMA RetryPlaces ==
  ASSUME Typed, NEW h \in Handlers, Holds(h), UNCHANGED queue, NEW inc \in {0, 1}, NEW reply \in BOOLEAN,
         RetryUpload(h, inc, reply)
  PROVE  Others(h) /\ (Keeps(h) \/ Settles(h))
<1> h \in Procs
  BY TwoKindsOfThreads
<1>1. CASE hand[h].retry < MaxRetry
  <2>1. /\ hand' = [hand EXCEPT ![h] = [id |-> hand[h].id, retry |-> hand[h].retry + inc, reply |-> reply]]
        /\ pc' = [pc EXCEPT ![h] = "retry"] /\ fate' = fate
    BY <1>1 DEF RetryUpload, Take, Goto
  <2>2. pc'[h] = "retry" /\ hand'[h].id = hand[h].id
    BY <2>1 DEF Typed, TypeOK
  <2>3. Keeps(h)
    BY <2>1, <2>2 DEF Keeps, Holds, Holding
  <2> QED BY <2>1, <2>3 DEF Others, Typed, TypeOK
<1>2. CASE ~(hand[h].retry < MaxRetry)
  <2>1. PICK l \in {"snap", "loop"} : pc' = [pc EXCEPT ![h] = l]
    BY <1>2 DEF RetryUpload, Goto
  <2>2. fate' = [fate EXCEPT ![hand[h].id] = "given_up"]
    BY <1>2 DEF RetryUpload, Ends
  <2>3. hand' = hand \/ hand' = [hand EXCEPT ![h] = Idle]
    BY <1>2 DEF RetryUpload, Take
  <2>4. Settles(h)
    BY <2>1, <2>2 DEF Settles, Holds, Holding, Fates, Typed, TypeOK
  <2> QED BY <2>1, <2>3, <2>4 DEF Others, Typed, TypeOK
<1> QED BY <1>1, <1>2

LEMMA HandlerPlaces ==
  ASSUME Typed, NEW h \in Handlers, HandlerStep(h), ~UNCHANGED vars
  PROVE  Others(h) /\ (Keeps(h) \/ Takes(h) \/ Returns(h) \/ Settles(h))
<1> h \in Procs
  BY TwoKindsOfThreads
<1> USE DEF Goto, Take
<1>1. CASE Pop(h)
  <2>1. PICK i \in Items : /\ Queued(i) /\ queue' = [queue EXCEPT ![i] = NotIn]
                           /\ hand' = [hand EXCEPT ![h] = [id |-> i, retry |-> queue[i], reply |-> FALSE]]
    BY <1>1 DEF Pop
  <2>2. hand'[h].id = i /\ pc'[h] = "popped"
    BY <1>1, <2>1 DEF Pop, Typed, TypeOK
  <2>3. Takes(h)
    BY <1>1, <2>1, <2>2 DEF Pop, Takes, Holds, Holding
  <2> QED BY <1>1, <2>1, <2>3 DEF Pop, Others, Typed, TypeOK
<1>2. CASE FindsNothing(h)
  BY <1>2 DEF FindsNothing
<1>3. CASE MakeCurrent(h) \/ Wake(h) \/ Leave(h) \/ Snapshot(h)
  BY <1>3 DEF MakeCurrent, Wake, Leave, Snapshot, Keeps, Others, Holds, Holding, Typed, TypeOK
<1>4. CASE DropCancelled(h) \/ Raises(h) \/ Uploaded(h)
  <2>1. Settles(h)
    BY <1>4 DEF DropCancelled, Raises, Uploaded, Ends, Settles, Holds, Holding, Fates, Typed, TypeOK
  <2> QED BY <1>4, <2>1 DEF DropCancelled, Raises, Uploaded, Others, Typed, TypeOK
<1>5. CASE Consider(h)
  <2>1. CASE Ends(hand[h].id, "expired") /\ Goto(h, "loop") /\ Take(h, Idle)
    <3>1. Settles(h)
      BY <1>5, <2>1 DEF Consider, Ends, Settles, Holds, Holding, Fates, Typed, TypeOK
    <3> QED BY <2>1, <3>1 DEF Others, Typed, TypeOK
  <2>2. CASE RetryUpload(h, 0, FALSE)
    BY <1>5, <2>2, RetryPlaces DEF Consider, Holds, Holding
  <2>3. CASE Goto(h, "sending") /\ UNCHANGED <<hand, fate>>
    BY <1>5, <2>3 DEF Consider, Keeps, Others, Holds, Holding, Typed, TypeOK
  <2> QED BY <1>5, <2>1, <2>2, <2>3 DEF Consider
<1>6. CASE Fails(h)
  <2>1. PICK reply \in BOOLEAN : RetryUpload(h, 1, reply)
    BY <1>6 DEF Fails
  <2> QED BY <1>6, <2>1, RetryPlaces DEF Fails, Holds, Holding
<1>7. CASE Abort(h)
  BY <1>7, RetryPlaces DEF Abort, Holds, Holding
<1>8. CASE PutBack(h)
  <2>1. hand[h].retry \in 0 .. MaxRetry
    BY DEF Typed, TypeOK, Hands
  <2> QED BY <1>8, <2>1 DEF PutBack, Returns, Others, Holds, Holding, Typed, TypeOK
<1>9. CASE Write(h)
  <2>1. PICK l \in {"loop", "sleep", "sleepReply"} : pc' = [pc EXCEPT ![h] = l]
    BY <1>9 DEF Write
  <2> QED BY <1>9, <2>1 DEF Write, Keeps, Others, Holds, Holding, Typed, TypeOK
<1> QED BY <1>1, <1>2, <1>3, <1>4, <1>5, <1>6, <1>7, <1>8, <1>9 DEF HandlerStep

\* The four kinds of steps leave every item in one place.
LEMMA HandlerKeepsPlaces ==
  ASSUME Typed, Places, NEW h \in Handlers, Others(h),
         Keeps(h) \/ Takes(h) \/ Returns(h) \/ Settles(h)
  PROVE  Places'
<1> h \in Procs /\ h \notin Workers
  BY TwoKindsOfThreads
<1> DEFINE i == hand[h].id
<1>a. \A g \in Handlers \ {h} : \A j \in Items : HoldsItem(g, j)' <=> HoldsItem(g, j)
  BY TwoKindsOfThreads DEF Others, HoldsItem, Holding
<1>b. \A w \in Workers : pc'[w] = pc[w] /\ hand'[w] = hand[w]
  BY TwoKindsOfThreads DEF Others
<1>c. Holds(h) => i \in Items /\ fate[i] = "accepted" /\ ~Queued(i)
                  /\ \A g \in Handlers \ {h} : ~HoldsItem(g, i)
  BY DEF Holds, Typed, HandsFull, Places, OneOwner, HoldsItem
<1>d. \A w \in Workers : pc[w] = "enqueue" => hand[w].id \in Items
  BY TwoKindsOfThreads DEF Typed, HandsFull
<1>1. CASE Keeps(h)
  <2>1. \A g \in Handlers : \A j \in Items : HoldsItem(g, j)' <=> HoldsItem(g, j)
    BY <1>1, <1>a DEF Keeps, Holds, HoldsItem, Holding
  <2>2. UNCHANGED <<queue, fate>>
    BY <1>1 DEF Keeps
  <2> QED BY <2>1, <2>2, <1>b DEF Places, OneOwner, NothingForgotten, QueuedIsAccepted, EnqueuesNew, Queued
<1>2. CASE Takes(h)
  <2> DEFINE n == hand'[h].id
  <2>1. n \in Items /\ Queued(n) /\ fate[n] = "accepted" /\ fate' = fate
    BY <1>2 DEF Takes, Places, QueuedIsAccepted
  <2>2. /\ queue'[n] = NotIn
        /\ \A j \in Items \ {n} : queue'[j] = queue[j]
    BY <1>2, <2>1 DEF Takes, Typed, TypeOK, Contents
  <2>3. \A j \in Items : ~HoldsItem(h, j)
    BY <1>2 DEF Takes, Holds, HoldsItem
  <2>4. \A j \in Items : HoldsItem(h, j)' <=> j = n
    BY <1>2, <2>1 DEF Takes, Holds, HoldsItem
  <2>5. \A g \in Handlers : ~HoldsItem(g, n)
    BY <2>1 DEF Places, OneOwner
  <2>6. OneOwner'
    BY <2>1, <2>2, <2>4, <2>5, <1>a DEF Places, OneOwner, Queued
  <2>7. NothingForgotten'
    BY <2>1, <2>2, <2>3, <2>4, <1>a DEF Places, NothingForgotten, Queued
  <2>8. QueuedIsAccepted' /\ EnqueuesNew'
    BY <2>1, <2>2, <1>b DEF Places, QueuedIsAccepted, EnqueuesNew, Queued
  <2> QED BY <2>6, <2>7, <2>8 DEF Places
<1>3. CASE Returns(h)
  <2>1. PICK r \in 0 .. MaxRetry : queue' = [queue EXCEPT ![i] = r]
    BY <1>3 DEF Returns
  <2>2. r # NotIn /\ fate' = fate
    BY <1>3, Constants DEF Returns
  <2>3. i \in Items /\ fate[i] = "accepted" /\ ~Queued(i) /\ \A g \in Handlers \ {h} : ~HoldsItem(g, i)
    BY <1>3, <1>c DEF Returns
  <2>4. /\ queue'[i] # NotIn
        /\ \A j \in Items \ {i} : queue'[j] = queue[j]
    BY <2>1, <2>2, <2>3 DEF Typed, TypeOK, Contents
  <2>5. /\ \A j \in Items : ~HoldsItem(h, j)'
        /\ \A j \in Items \ {i} : ~HoldsItem(h, j)
    BY <1>3 DEF Returns, Holds, HoldsItem
  <2>6. OneOwner'
    BY <2>2, <2>3, <2>4, <2>5, <1>a DEF Places, OneOwner, Queued
  <2>7. NothingForgotten'
    BY <2>2, <2>4, <2>5, <1>a DEF Places, NothingForgotten, Queued
  <2>8. QueuedIsAccepted' /\ EnqueuesNew'
    BY <2>2, <2>3, <2>4, <1>b DEF Places, QueuedIsAccepted, EnqueuesNew, Queued
  <2> QED BY <2>6, <2>7, <2>8 DEF Places
<1>4. CASE Settles(h)
  <2>1. PICK f \in Fates \ {"new", "accepted"} : fate' = [fate EXCEPT ![i] = f]
    BY <1>4 DEF Settles
  <2>2. i \in Items /\ fate[i] = "accepted" /\ ~Queued(i) /\ queue' = queue
        /\ \A g \in Handlers \ {h} : ~HoldsItem(g, i)
    BY <1>4, <1>c DEF Settles
  <2>3. /\ fate'[i] # "accepted"
        /\ \A j \in Items \ {i} : fate'[j] = fate[j]
    BY <2>1, <2>2 DEF Typed, TypeOK
  <2>4. /\ \A j \in Items : ~HoldsItem(h, j)'
        /\ \A j \in Items \ {i} : ~HoldsItem(h, j)
    BY <1>4 DEF Settles, Holds, HoldsItem
  <2>5. OneOwner'
    BY <2>2, <2>3, <2>4, <1>a DEF Places, OneOwner, Queued
  <2>6. NothingForgotten'
    BY <2>2, <2>3, <2>4, <1>a DEF Places, NothingForgotten, Queued
  <2>7. QueuedIsAccepted'
    BY <2>2, <2>3 DEF Places, QueuedIsAccepted, Queued
  <2>8. EnqueuesNew'
    BY <2>2, <2>3, <1>b, <1>d DEF Places, EnqueuesNew
  <2> QED BY <2>5, <2>6, <2>7, <2>8 DEF Places
<1> QED BY <1>1, <1>2, <1>3, <1>4

LEMMA WorkerKeepsPlaces ==
  ASSUME Typed, Places, NEW w \in Workers, WorkerStep(w)
  PROVE  Places'
<1> w \in Procs /\ w \notin Handlers
  BY TwoKindsOfThreads
<1> USE DEF Goto, Take
<1>1. Others(w)
  BY DEF WorkerStep, Request, Enqueue, FindToCancel, Cancel, Snapshot, Write, Leave, Others, Typed, TypeOK
<1>2. \A g \in Handlers : \A j \in Items : HoldsItem(g, j)' <=> HoldsItem(g, j)
  BY <1>1, TwoKindsOfThreads DEF Others, HoldsItem, Holding
<1>3. \A v \in Workers \ {w} : pc'[v] = pc[v] /\ hand'[v] = hand[v]
  BY <1>1, TwoKindsOfThreads DEF Others
<1>4. CASE Enqueue(w)
  <2> DEFINE i == hand[w].id
  <2>1. i \in Items /\ fate[i] = "new"
        /\ \A v \in Workers \ {w} : pc[v] = "enqueue" => hand[v].id \in Items /\ hand[v].id # i
    BY <1>4, TwoKindsOfThreads DEF Enqueue, Typed, HandsFull, Places, EnqueuesNew
  <2>2. /\ queue'[i] = 0 /\ fate'[i] = "accepted" /\ pc'[w] = "snap"
        /\ \A j \in Items \ {i} : queue'[j] = queue[j] /\ fate'[j] = fate[j]
    BY <1>4, <2>1 DEF Enqueue, Ends, Typed, TypeOK, Contents
  <2>3. 0 # NotIn
    BY Constants
  <2>4. \A g \in Handlers : ~HoldsItem(g, i)
    BY <2>1 DEF Places, OneOwner
  <2>5. OneOwner'
    BY <2>2, <2>4, <1>2 DEF Places, OneOwner, Queued
  <2>6. NothingForgotten'
    BY <2>2, <2>3, <1>2 DEF Places, NothingForgotten, Queued
  <2>7. QueuedIsAccepted'
    BY <2>2 DEF Places, QueuedIsAccepted, Queued
  <2>8. EnqueuesNew'
    BY <2>1, <2>2, <1>3 DEF Places, EnqueuesNew
  <2> QED BY <2>5, <2>6, <2>7, <2>8 DEF Places
<1>5. CASE ~Enqueue(w)
  <2>1. UNCHANGED <<queue, fate>>
    BY <1>5 DEF WorkerStep, Request, FindToCancel, Cancel, Snapshot, Write, Leave
  <2>2. OneOwner' /\ NothingForgotten' /\ QueuedIsAccepted'
    BY <2>1, <1>2 DEF Places, OneOwner, NothingForgotten, QueuedIsAccepted, Queued
  <2>3. pc'[w] = "enqueue" =>
          fate[hand'[w].id] = "new" /\ \A v \in Workers \ {w} : hand[v].id # hand'[w].id
    <3>1. CASE Request(w)
      <4>1. CASE pc' = [pc EXCEPT ![w] = "snap"]
        BY <4>1 DEF Typed, TypeOK
      <4>2. ASSUME NEW i \in Items, fate[i] = "new", \A v \in Workers : hand[v].id # i,
                   hand' = [hand EXCEPT ![w] = Hand(i)]
            PROVE  fate[hand'[w].id] = "new" /\ \A v \in Workers \ {w} : hand[v].id # hand'[w].id
        BY <4>2, FreshHand DEF Typed, TypeOK
      <4> QED BY <3>1, <4>1, <4>2 DEF Request
    <3>2. CASE ~Request(w)
      BY <1>5, <3>2 DEF WorkerStep, FindToCancel, Cancel, Snapshot, Write, Leave, Typed, TypeOK
    <3> QED BY <3>1, <3>2
  <2>4. EnqueuesNew'
    BY <2>1, <2>3, <1>3 DEF Places, EnqueuesNew
  <2> QED BY <2>2, <2>4 DEF Places
<1> QED BY <1>4, <1>5

LEMMA NobodyHolds ==
  ASSUME pc' = [p \in Procs |-> "loop"]
  PROVE  /\ \A h \in Handlers : \A i \in Items : ~HoldsItem(h, i)'
         /\ EnqueuesNew'
  BY TwoKindsOfThreads DEF HoldsItem, Holding, EnqueuesNew

LEMMA InitPlaces == Init => Places
  BY TwoKindsOfThreads DEF Init, Places, OneOwner, NothingForgotten, QueuedIsAccepted, EnqueuesNew, Queued,
                 Empty, HoldsItem, Holding

LEMMA StepPlaces == Typed /\ Places /\ [Next]_vars => Places'
<1> SUFFICES ASSUME Typed, Places, [Next]_vars PROVE Places'
  OBVIOUS
<1>1. ASSUME NEW h \in Handlers, HandlerStep(h), ~UNCHANGED vars PROVE Places'
  BY <1>1, HandlerPlaces, HandlerKeepsPlaces
<1>2. CASE Reconnect
  <2>1. \A h \in Handlers : \A i \in Items : ~HoldsItem(h, i)
    BY <1>2, TwoKindsOfThreads DEF Reconnect, HoldsItem, Holding
  <2>2. UNCHANGED <<queue, fate>> /\ pc' = [p \in Procs |-> "loop"]
    BY <1>2 DEF Reconnect
  <2> QED BY <2>1, <2>2, NobodyHolds
          DEF Places, OneOwner, NothingForgotten, QueuedIsAccepted, Queued
<1>3. CASE Crash
  <2>1. pc' = [p \in Procs |-> "loop"] /\ queue' = disk
    BY <1>3 DEF Crash
  <2>2. \A i \in Items : fate'[i] = "accepted" <=> disk[i] # NotIn
    BY <1>3 DEF Crash
  <2> QED BY <2>1, <2>2, NobodyHolds DEF Places, OneOwner, NothingForgotten, QueuedIsAccepted, Queued
<1>4. CASE Disconnect \/ NetworkChanges \/ UNCHANGED vars
  <2>1. UNCHANGED <<queue, fate, pc, hand>>
    BY <1>4 DEF Disconnect, NetworkChanges, vars
  <2> QED BY <2>1 DEF Places, OneOwner, NothingForgotten, QueuedIsAccepted, EnqueuesNew, Queued,
                      HoldsItem, Holding
<1> QED BY <1>1, <1>2, <1>3, <1>4, WorkerKeepsPlaces DEF Next

(* Every upload is in one place until it is settled: in the queue, or in the *)
(* hands of one thread, whatever threads, calls and troubles do.             *)
THEOREM UploadsAlwaysHaveOnePlace == Spec => []UploadsHaveOnePlace
<1>1. Init => Typed /\ Places
  BY InitTyped, InitPlaces
<1>2. Typed /\ Places /\ [Next]_vars => (Typed /\ Places)'
  BY StepTyped, StepPlaces
<1>3. Typed /\ Places => UploadsHaveOnePlace
  BY DEF Typed, Places, UploadsHaveOnePlace
<1> QED BY <1>1, <1>2, <1>3, PTL DEF Spec

-----------------------------------------------------------------------------
(* Settled rightly. A retry count, wherever it is kept, is never more than   *)
(* the attempts that have failed.                                            *)

CountIsEarned(c) == \A i \in Items : c[i] # NotIn => c[i] <= fails[i]

Counts ==
    /\ CountIsEarned(queue) /\ CountIsEarned(disk) /\ \A p \in Procs : CountIsEarned(snap[p])
    /\ \A h \in Handlers : Holds(h) => hand[h].retry <= fails[hand[h].id]
    /\ GivenUpOnlyAfterFailures

LEMMA FailsGrow ==
  ASSUME Typed, [Next]_vars
  PROVE  \A i \in Items : fails[i] \in Nat /\ fails'[i] \in Nat /\ fails[i] <= fails'[i]
<1>1. fails \in [Items -> Nat] /\ fails' \in [Items -> Nat]
  BY StepTyped DEF Typed, TypeOK
<1>2. CASE \E h \in Handlers : Fails(h)
  <2>1. PICK h \in Handlers : fails' = [fails EXCEPT ![hand[h].id] = @ + 1]
    BY <1>2 DEF Fails
  <2> QED BY <1>1, <2>1
<1>3. CASE ~\E h \in Handlers : Fails(h)
  <2>1. fails' = fails
    BY <1>3 DEF Next, HandlerStep, WorkerStep, Pop, FindsNothing, MakeCurrent, DropCancelled, Consider,
                Uploaded, Abort, Raises, PutBack, Wake, Snapshot, Write, Leave, Request, Enqueue,
                FindToCancel, Cancel, Reconnect, Disconnect, NetworkChanges, Crash, vars
  <2> QED BY <1>1, <2>1
<1> QED BY <1>2, <1>3

\* A count that was earned remains so.
LEMMA EarnedRemains ==
  ASSUME Typed, [Next]_vars, NEW c \in Contents, CountIsEarned(c)
  PROVE  \A i \in Items : c[i] # NotIn => c[i] <= fails'[i]
<1> TAKE i \in Items
<1>1. c[i] \in 0 .. NotIn /\ NotIn \in Nat
  BY Constants DEF Contents, NotIn
<1> QED BY <1>1, FailsGrow DEF CountIsEarned

LEMMA RetryIsEarned ==
  ASSUME Typed, Counts, NEW h \in Handlers, Holds(h)
  PROVE  hand[h].id \in Items /\ hand[h].retry \in 0 .. MaxRetry /\ hand[h].retry <= fails[hand[h].id]
  BY TwoKindsOfThreads DEF Typed, TypeOK, HandsFull, Hands, Holds, Counts

LEMMA StepQueueCounts ==
  ASSUME Typed, Counts, [Next]_vars
  PROVE  \A i \in Items : queue'[i] # NotIn => queue'[i] <= fails'[i]
<1>1. \A i \in Items : queue[i] # NotIn => queue[i] <= fails'[i]
  BY EarnedRemains DEF Typed, TypeOK, Counts
<1>2. CASE \E h \in Handlers : Pop(h)
  <2>1. PICK i \in Items : queue' = [queue EXCEPT ![i] = NotIn]
    BY <1>2 DEF Pop
  <2> QED BY <1>1, <2>1 DEF Typed, TypeOK, Contents
<1>3. CASE \E h \in Handlers : PutBack(h)
  <2>1. PICK h \in Handlers : queue' = [queue EXCEPT ![hand[h].id] = hand[h].retry] /\ pc[h] = "retry"
    BY <1>3 DEF PutBack
  <2>2. hand[h].id \in Items /\ hand[h].retry \in 0 .. MaxRetry /\ hand[h].retry <= fails[hand[h].id]
    BY <2>1, RetryIsEarned DEF Holds, Holding
  <2>3. hand[h].retry <= fails'[hand[h].id]
    BY <2>2, FailsGrow, Constants
  <2> QED BY <1>1, <2>1, <2>2, <2>3 DEF Typed, TypeOK, Contents
<1>4. CASE \E w \in Workers : Enqueue(w)
  <2>1. PICK w \in Workers : queue' = [queue EXCEPT ![hand[w].id] = 0]
    BY <1>4 DEF Enqueue
  <2> QED BY <1>1, <2>1, FailsGrow DEF Typed, TypeOK, Contents
<1>5. CASE Crash
  <2>1. \A i \in Items : disk[i] # NotIn => disk[i] <= fails'[i]
    BY EarnedRemains DEF Typed, TypeOK, Counts
  <2> QED BY <1>5, <2>1 DEF Crash
<1>6. CASE /\ ~\E h \in Handlers : Pop(h) \/ PutBack(h)
           /\ ~\E w \in Workers : Enqueue(w)
           /\ ~Crash
  <2>1. queue' = queue
    BY <1>6 DEF Next, HandlerStep, WorkerStep, FindsNothing, MakeCurrent, DropCancelled, Consider,
                Uploaded, Fails, Abort, Raises, Wake, Snapshot, Write, Leave, Request,
                FindToCancel, Cancel, Reconnect, Disconnect, NetworkChanges, vars
  <2> QED BY <1>1, <2>1
<1> QED BY <1>2, <1>3, <1>4, <1>5, <1>6

LEMMA StepCopyCounts ==
  ASSUME Typed, Counts, [Next]_vars
  PROVE  /\ \A i \in Items : disk'[i] # NotIn => disk'[i] <= fails'[i]
         /\ \A p \in Procs : \A i \in Items : snap'[p][i] # NotIn => snap'[p][i] <= fails'[i]
<1>1. /\ \A i \in Items : disk[i] # NotIn => disk[i] <= fails'[i]
      /\ \A i \in Items : queue[i] # NotIn => queue[i] <= fails'[i]
      /\ \A p \in Procs : \A i \in Items : snap[p][i] # NotIn => snap[p][i] <= fails'[i]
  BY EarnedRemains DEF Typed, TypeOK, Counts
<1>2. CASE \E p \in Procs : Snapshot(p)
  <2>1. PICK p \in Procs :
          snap' = [snap EXCEPT ![p] = [i \in Items |-> IF i \in cancelled THEN NotIn ELSE queue[i]]]
    BY <1>2 DEF Snapshot
  <2>2. disk' = disk
    BY <1>2 DEF Snapshot
  <2>3. \A i \in Items : snap'[p][i] # NotIn => snap'[p][i] = queue[i]
    BY <2>1 DEF Typed, TypeOK
  <2>4. \A q \in Procs \ {p} : snap'[q] = snap[q]
    BY <2>1 DEF Typed, TypeOK
  <2> QED BY <1>1, <2>2, <2>3, <2>4
<1>3. CASE \E p \in Procs : Write(p)
  <2>1. PICK p \in Procs : disk' = snap[p] /\ snap' = [snap EXCEPT ![p] = Empty]
    BY <1>3 DEF Write
  <2>2. \A i \in Items : snap'[p][i] = NotIn
    BY <2>1 DEF Typed, TypeOK, Empty
  <2>3. \A q \in Procs \ {p} : snap'[q] = snap[q]
    BY <2>1 DEF Typed, TypeOK
  <2> QED BY <1>1, <2>1, <2>2, <2>3
<1>4. CASE Crash
  BY <1>1, <1>4 DEF Crash, Empty
<1>5. CASE ~Crash /\ ~\E p \in Procs : Snapshot(p) \/ Write(p)
  <2>1. UNCHANGED <<disk, snap>>
    BY <1>5, TwoKindsOfThreads DEF Next, HandlerStep, WorkerStep, Pop, FindsNothing, MakeCurrent, DropCancelled,
                Consider, Uploaded, Fails, Abort, Raises, PutBack, Wake, Leave, Request, Enqueue,
                FindToCancel, Cancel, Reconnect, Disconnect, NetworkChanges, vars
  <2> QED BY <1>1, <2>1
<1> QED BY <1>2, <1>3, <1>4, <1>5

\* An attempt that is retried has failed as often as it says, and one given up often enough.
LEMMA RetryCounts ==
  ASSUME Typed, Counts, [Next]_vars, NEW h \in Handlers, Holds(h), NEW inc \in {0, 1}, NEW reply \in BOOLEAN,
         RetryUpload(h, inc, reply), fails'[hand[h].id] = fails[hand[h].id] + inc
  PROVE  /\ Holds(h)' => hand'[h].retry <= fails'[hand'[h].id]
         /\ \A i \in Items : fate'[i] = "given_up" => fate[i] = "given_up" \/ fails'[i] >= MaxRetry
<1> h \in Procs
  BY TwoKindsOfThreads
<1>1. /\ hand[h].id \in Items /\ hand[h].retry \in 0 .. MaxRetry /\ hand[h].retry <= fails[hand[h].id]
      /\ fails[hand[h].id] \in Nat
  BY RetryIsEarned, FailsGrow
<1>2. CASE hand[h].retry < MaxRetry
  <2>1. /\ hand' = [hand EXCEPT ![h] = [id |-> hand[h].id, retry |-> hand[h].retry + inc, reply |-> reply]]
        /\ fate' = fate
    BY <1>2 DEF RetryUpload, Take
  <2>2. hand'[h].id = hand[h].id /\ hand'[h].retry = hand[h].retry + inc
    BY <2>1 DEF Typed, TypeOK
  <2>3. hand[h].retry + inc <= fails[hand[h].id] + inc
    BY <1>1
  <2> QED BY <2>1, <2>2, <2>3
<1>3. CASE ~(hand[h].retry < MaxRetry)
  <2>1. hand[h].retry = MaxRetry /\ MaxRetry <= fails'[hand[h].id]
    BY <1>1, <1>3, Constants
  <2>2. fate' = [fate EXCEPT ![hand[h].id] = "given_up"]
    BY <1>3 DEF RetryUpload, Ends
  <2>3. ~Holds(h)'
    BY <1>3 DEF RetryUpload, Goto, Holds, Holding, Typed, TypeOK
  <2> QED BY <2>1, <2>2, <2>3, FailsGrow, Constants DEF Typed, TypeOK
<1> QED BY <1>2, <1>3

LEMMA HandlerCounts ==
  ASSUME Typed, Counts, NEW h \in Handlers, HandlerStep(h)
  PROVE  /\ Holds(h)' => hand'[h].retry <= fails'[hand'[h].id]
         /\ \A i \in Items : fate'[i] = "given_up" => fate[i] = "given_up" \/ fails'[i] >= MaxRetry
<1> h \in Procs
  BY TwoKindsOfThreads
<1>0. [Next]_vars
  BY DEF Next
<1>a. Holds(h) => /\ hand[h].id \in Items /\ hand[h].retry \in 0 .. MaxRetry
                  /\ hand[h].retry <= fails[hand[h].id] /\ fails[hand[h].id] \in Nat
                  /\ hand[h].retry <= fails'[hand[h].id]
  <2> SUFFICES ASSUME Holds(h)
               PROVE  /\ hand[h].id \in Items /\ hand[h].retry \in 0 .. MaxRetry
                      /\ hand[h].retry <= fails[hand[h].id] /\ fails[hand[h].id] \in Nat
                      /\ hand[h].retry <= fails'[hand[h].id]
    OBVIOUS
  <2>1. hand[h].id \in Items /\ hand[h].retry \in 0 .. MaxRetry /\ hand[h].retry <= fails[hand[h].id]
    BY RetryIsEarned
  <2>2. fails[hand[h].id] \in Nat /\ fails'[hand[h].id] \in Nat /\ fails[hand[h].id] <= fails'[hand[h].id]
    BY <1>0, <2>1, FailsGrow
  <2> QED BY <2>1, <2>2, Constants
<1> USE DEF Goto, Take
<1>1. CASE Pop(h)
  <2>1. PICK i \in Items : /\ Queued(i)
                           /\ hand' = [hand EXCEPT ![h] = [id |-> i, retry |-> queue[i], reply |-> FALSE]]
    BY <1>1 DEF Pop
  <2>2. hand'[h].id = i /\ hand'[h].retry = queue[i]
    BY <2>1 DEF Typed, TypeOK
  <2>3. queue[i] <= fails[i] /\ fails' = fails /\ fate' = fate
    BY <1>1, <2>1 DEF Pop, Queued, Counts, CountIsEarned
  <2> QED BY <2>2, <2>3
<1>2. CASE FindsNothing(h)
  BY <1>2, <1>a DEF FindsNothing, vars, Holds
<1>3. CASE MakeCurrent(h) \/ Wake(h) \/ Leave(h) \/ Snapshot(h) \/ PutBack(h)
  <2>1. hand' = hand /\ fate' = fate /\ (Holds(h)' => Holds(h))
    BY <1>3 DEF MakeCurrent, Wake, Leave, Snapshot, PutBack, Holds, Holding, Typed, TypeOK
  <2> QED BY <1>a, <2>1
<1>4. CASE DropCancelled(h) \/ Raises(h) \/ Uploaded(h)
  <2>1. ~Holds(h)'
    BY <1>4 DEF DropCancelled, Raises, Uploaded, Holds, Holding, Typed, TypeOK
  <2>2. PICK f \in {"cancelled", "failed", "uploaded"} : fate' = [fate EXCEPT ![hand[h].id] = f]
    BY <1>4 DEF DropCancelled, Raises, Uploaded, Ends
  <2> QED BY <2>1, <2>2 DEF Typed, TypeOK
<1>5. CASE Consider(h)
  <2>0. Holds(h) /\ fails' = fails
    BY <1>5 DEF Consider, Holds, Holding
  <2>1. CASE Ends(hand[h].id, "expired") /\ Goto(h, "loop") /\ Take(h, Idle)
    <3>1. ~Holds(h)'
      BY <2>1 DEF Holds, Holding, Typed, TypeOK
    <3> QED BY <2>1, <3>1 DEF Ends, Typed, TypeOK
  <2>2. CASE RetryUpload(h, 0, FALSE)
    <3>1. fails'[hand[h].id] = fails[hand[h].id] + 0
      BY <1>a, <2>0
    <3> QED BY <1>0, <2>0, <2>2, <3>1, RetryCounts
  <2>3. CASE Goto(h, "sending") /\ UNCHANGED <<hand, fate>>
    BY <1>a, <2>0, <2>3
  <2> QED BY <1>5, <2>1, <2>2, <2>3 DEF Consider
<1>6. CASE Fails(h)
  <2>1. PICK reply \in BOOLEAN : RetryUpload(h, 1, reply)
    BY <1>6 DEF Fails
  <2>2. Holds(h)
    BY <1>6 DEF Fails, Holds, Holding
  <2>3. fails'[hand[h].id] = fails[hand[h].id] + 1
    BY <1>6, <1>a, <2>2 DEF Fails, Typed, TypeOK
  <2> QED BY <1>0, <2>1, <2>2, <2>3, RetryCounts
<1>7. CASE Abort(h)
  <2>1. Holds(h) /\ RetryUpload(h, 0, FALSE) /\ fails' = fails
    BY <1>7 DEF Abort, Holds, Holding
  <2>2. fails'[hand[h].id] = fails[hand[h].id] + 0
    BY <1>a, <2>1
  <2> QED BY <1>0, <2>1, <2>2, RetryCounts
<1>8. CASE Write(h)
  <2>1. ~Holds(h)' /\ fate' = fate
    BY <1>8 DEF Write, Holds, Holding, Typed, TypeOK
  <2> QED BY <2>1
<1> QED BY <1>1, <1>2, <1>3, <1>4, <1>5, <1>6, <1>7, <1>8 DEF HandlerStep

LEMMA InitCounts == Init => Counts
<1> SUFFICES ASSUME Init PROVE Counts
  OBVIOUS
<1>1. CountIsEarned(queue) /\ CountIsEarned(disk) /\ \A p \in Procs : CountIsEarned(snap[p])
  BY DEF Init, Empty, CountIsEarned
<1>2. \A h \in Handlers : ~Holds(h)
  BY TwoKindsOfThreads DEF Init, Holds, Holding
<1>3. GivenUpOnlyAfterFailures
  BY DEF Init, GivenUpOnlyAfterFailures
<1> QED BY <1>1, <1>2, <1>3 DEF Counts

LEMMA StepCounts == Typed /\ Counts /\ [Next]_vars => Counts'
<1> SUFFICES ASSUME Typed, Counts, [Next]_vars PROVE Counts'
  OBVIOUS
<1>1. CountIsEarned(queue)' /\ CountIsEarned(disk)' /\ (\A p \in Procs : CountIsEarned(snap[p]))'
  BY StepQueueCounts, StepCopyCounts DEF CountIsEarned, NotIn, Procs
<1>2. ASSUME NEW h \in Handlers, Holds(h), hand'[h] = hand[h]
      PROVE  hand'[h].retry <= fails'[hand'[h].id]
  <2>1. hand[h].id \in Items /\ hand[h].retry \in 0 .. MaxRetry /\ hand[h].retry <= fails[hand[h].id]
    BY <1>2, RetryIsEarned
  <2>2. fails[hand[h].id] \in Nat /\ fails'[hand[h].id] \in Nat /\ fails[hand[h].id] <= fails'[hand[h].id]
    BY <2>1, FailsGrow
  <2> QED BY <1>2, <2>1, <2>2, Constants
<1>3. ASSUME NEW h \in Handlers, HandlerStep(h), ~UNCHANGED vars
      PROVE  /\ \A g \in Handlers : Holds(g)' => hand'[g].retry <= fails'[hand'[g].id]
             /\ \A i \in Items : fate'[i] = "given_up" => fate[i] = "given_up" \/ fails'[i] >= MaxRetry
  <2>1. Others(h)
    BY <1>3, HandlerPlaces
  <2>2. \A g \in Handlers \ {h} : Holds(g)' => Holds(g) /\ hand'[g] = hand[g]
    BY <2>1, TwoKindsOfThreads DEF Others, Holds, Holding
  <2> QED BY <1>2, <1>3, <2>2, HandlerCounts
<1>4. ASSUME NEW w \in Workers, WorkerStep(w)
      PROVE  /\ \A g \in Handlers : Holds(g)' => hand'[g].retry <= fails'[hand'[g].id]
             /\ \A i \in Items : fate'[i] = "given_up" => fate[i] = "given_up"
  <2>1. \A g \in Handlers : pc'[g] = pc[g] /\ hand'[g] = hand[g]
    BY <1>4, TwoKindsOfThreads DEF WorkerStep, Request, Enqueue, FindToCancel, Cancel, Snapshot, Write, Leave, Goto, Take,
                         Typed, TypeOK
  <2>2. \A i \in Items : fate'[i] = "given_up" => fate[i] = "given_up"
    BY <1>4 DEF WorkerStep, Request, Enqueue, FindToCancel, Cancel, Snapshot, Write, Leave, Ends, Typed, TypeOK
  <2> QED BY <1>2, <2>1, <2>2 DEF Holds, Holding
<1>5. CASE Reconnect \/ Crash
  <2>1. \A g \in Handlers : ~Holds(g)'
    BY <1>5, TwoKindsOfThreads DEF Reconnect, Crash, Holds, Holding
  <2>2. \A i \in Items : fate'[i] = "given_up" => fate[i] = "given_up"
    BY <1>5 DEF Reconnect, Crash
  <2> QED BY <1>1, <2>1, <2>2, FailsGrow, Constants DEF Counts, GivenUpOnlyAfterFailures
<1>6. CASE Disconnect \/ NetworkChanges \/ UNCHANGED vars
  <2>1. UNCHANGED <<fate, pc, hand>>
    BY <1>6 DEF Disconnect, NetworkChanges, vars
  <2>2. \A g \in Handlers : Holds(g)' => hand'[g].retry <= fails'[hand'[g].id]
    BY <1>2, <2>1 DEF Holds, Holding
  <2> QED BY <1>1, <2>1, <2>2, FailsGrow, Constants DEF Counts, GivenUpOnlyAfterFailures
<1>7. ASSUME \A i \in Items : fate'[i] = "given_up" => fate[i] = "given_up" \/ fails'[i] >= MaxRetry
      PROVE  GivenUpOnlyAfterFailures'
  BY <1>7, FailsGrow, Constants DEF Counts, GivenUpOnlyAfterFailures
<1>8. ASSUME NEW h \in Handlers, HandlerStep(h), ~UNCHANGED vars PROVE Counts'
  BY <1>1, <1>3, <1>7, <1>8 DEF Counts
<1>9. ASSUME NEW w \in Workers, WorkerStep(w) PROVE Counts'
  BY <1>1, <1>4, <1>7, <1>9 DEF Counts
<1> QED BY <1>5, <1>6, <1>8, <1>9 DEF Next

-----------------------------------------------------------------------------
(* What was cancelled while it waited stays marked until it is settled, and  *)
(* a thread that has it is not past the test of the mark.                    *)

Stopped ==
    \A i \in stopped :
        /\ fate[i] # "new" /\ (i \in cancelled \/ fate[i] # "accepted")
        /\ \A h \in Handlers : HoldsItem(h, i) => pc[h] \in {"popped", "taken"}

LEMMA HandlerStopped ==
  ASSUME Typed, Places, Stopped, NEW h \in Handlers, HandlerStep(h), ~UNCHANGED vars
  PROVE  Stopped'
<1> h \in Procs
  BY TwoKindsOfThreads
<1>1. stopped' = stopped
  BY DEF HandlerStep, Pop, FindsNothing, MakeCurrent, DropCancelled, Consider, Uploaded, Fails, Abort,
         Raises, PutBack, Wake, Snapshot, Write, Leave
<1>2. \A i \in Items : fate'[i] = fate[i] \/ fate'[i] \notin {"new", "accepted"}
  BY HandlerPlaces DEF Keeps, Takes, Returns, Settles, Typed, TypeOK
<1>3. \A i \in cancelled \ cancelled' : fate'[i] = "cancelled"
  <2>1. CASE DropCancelled(h)
    BY <2>1 DEF DropCancelled, Ends, Typed, TypeOK
  <2>2. CASE ~DropCancelled(h)
    BY <2>2 DEF HandlerStep, Pop, FindsNothing, MakeCurrent, Consider, Uploaded, Fails, Abort,
                Raises, PutBack, Wake, Snapshot, Write, Leave
  <2> QED BY <2>1, <2>2
<1>4. \A g \in Handlers \ {h} : pc'[g] = pc[g] /\ hand'[g] = hand[g]
  BY HandlerPlaces, TwoKindsOfThreads DEF Others
<1>5. ASSUME NEW i \in stopped, HoldsItem(h, i)', pc'[h] \notin {"popped", "taken"}
      PROVE  FALSE
  <2>1. Holds(h)' /\ hand'[h].id = i /\ i \in Items
    BY <1>5 DEF HoldsItem, Holds, Typed, TypeOK
  <2>2. Consider(h) \/ Fails(h) \/ Abort(h)
    BY <1>5, <2>1 DEF HandlerStep, Pop, FindsNothing, MakeCurrent, DropCancelled, Uploaded, Raises, PutBack,
                      Wake, Snapshot, Write, Leave, Goto, vars, Holds, Holding, Typed, TypeOK
  <2>3. Holds(h)
    BY <2>2 DEF Consider, Fails, Abort, Holds, Holding
  <2>4. hand[h].id = i
    BY <2>1, <2>3, HandlerPlaces DEF Keeps, Takes, Returns, Settles
  <2>5. HoldsItem(h, i)
    BY <2>3, <2>4 DEF Holds, HoldsItem
  <2>6. i \in cancelled /\ pc[h] \in {"popped", "taken"}
    BY <2>1, <2>5 DEF Stopped, Places, OneOwner
  <2> QED BY <2>2, <2>4, <2>6 DEF Consider, Fails, Abort
<1>6. \A i \in stopped : i \in Items
  BY DEF Typed, TypeOK
<1>7. ASSUME NEW i \in stopped PROVE fate'[i] # "new" /\ (i \in cancelled' \/ fate'[i] # "accepted")
  BY <1>2, <1>3, <1>6 DEF Stopped
<1>8. ASSUME NEW i \in stopped, NEW g \in Handlers, HoldsItem(g, i)' PROVE pc'[g] \in {"popped", "taken"}
  BY <1>4, <1>5, <1>8 DEF Stopped, HoldsItem, Holding
<1> QED BY <1>1, <1>7, <1>8 DEF Stopped

LEMMA WorkerStopped ==
  ASSUME Typed, Places, Stopped, NEW w \in Workers, WorkerStep(w)
  PROVE  Stopped'
<1> w \in Procs
  BY TwoKindsOfThreads
<1>1. \A g \in Handlers : pc'[g] = pc[g] /\ hand'[g] = hand[g]
  BY TwoKindsOfThreads DEF WorkerStep, Request, Enqueue, FindToCancel, Cancel, Snapshot, Write, Leave, Goto, Take,
                 Typed, TypeOK
<1>2. \A g \in Handlers : \A i \in Items : HoldsItem(g, i)' <=> HoldsItem(g, i)
  BY <1>1 DEF HoldsItem, Holding
<1>3. \A i \in stopped : i \in Items
  BY DEF Typed, TypeOK
<1>4. CASE Enqueue(w)
  <2>1. UNCHANGED <<stopped, cancelled>> /\ fate' = [fate EXCEPT ![hand[w].id] = "accepted"]
    BY <1>4 DEF Enqueue, Ends
  <2>2. fate[hand[w].id] = "new"
    BY <1>4 DEF Enqueue, Places, EnqueuesNew
  <2>3. \A i \in stopped : fate'[i] = fate[i]
    BY <2>1, <2>2, <1>3 DEF Stopped, Typed, TypeOK
  <2> QED BY <1>1, <1>2, <1>3, <2>1, <2>3 DEF Stopped
<1>5. CASE Cancel(w)
  <2>1. /\ cancelled' = cancelled \cup {hand[w].id} /\ fate' = fate
        /\ stopped' = stopped \cup {i \in {hand[w].id} : Queued(i)}
    BY <1>5 DEF Cancel
  <2>2. ASSUME NEW i \in stopped
        PROVE  /\ fate'[i] # "new" /\ (i \in cancelled' \/ fate'[i] # "accepted")
               /\ \A h \in Handlers : HoldsItem(h, i)' => pc'[h] \in {"popped", "taken"}
    BY <1>1, <1>2, <1>3, <2>1 DEF Stopped
  <2>3. hand[w].id \in Items
    BY <1>5 DEF Cancel, Typed, HandsFull
  <2>4. ASSUME NEW i \in Items, Queued(i), i = hand[w].id
        PROVE  /\ fate'[i] # "new" /\ (i \in cancelled' \/ fate'[i] # "accepted")
               /\ \A h \in Handlers : HoldsItem(h, i)' => pc'[h] \in {"popped", "taken"}
    BY <1>2, <2>1, <2>4 DEF Places, QueuedIsAccepted, OneOwner
  <2> QED BY <2>1, <2>2, <2>3, <2>4 DEF Stopped
<1>6. CASE ~Enqueue(w) /\ ~Cancel(w)
  <2>1. UNCHANGED <<stopped, cancelled, fate>>
    BY <1>6 DEF WorkerStep, Request, FindToCancel, Snapshot, Write, Leave
  <2> QED BY <1>1, <1>2, <1>3, <2>1 DEF Stopped
<1> QED BY <1>4, <1>5, <1>6

LEMMA StepStopped == Typed /\ Places /\ Stopped /\ [Next]_vars => Stopped'
<1> SUFFICES ASSUME Typed, Places, Stopped, [Next]_vars PROVE Stopped'
  OBVIOUS
<1>1. CASE Crash
  BY <1>1 DEF Crash, Stopped
<1>2. CASE Reconnect
  <2>1. UNCHANGED <<stopped, cancelled, fate>> /\ pc' = [p \in Procs |-> "loop"]
    BY <1>2 DEF Reconnect
  <2>2. \A h \in Handlers : pc'[h] = "loop"
    BY <2>1, TwoKindsOfThreads
  <2> QED BY <2>1, <2>2 DEF Stopped, HoldsItem, Holding
<1>3. CASE Disconnect \/ NetworkChanges \/ UNCHANGED vars
  <2>1. UNCHANGED <<stopped, cancelled, fate, pc, hand>>
    BY <1>3 DEF Disconnect, NetworkChanges, vars
  <2> QED BY <2>1 DEF Stopped, HoldsItem, Holding
<1>4. ASSUME NEW h \in Handlers, HandlerStep(h), ~UNCHANGED vars PROVE Stopped'
  BY <1>4, HandlerStopped
<1> QED BY <1>1, <1>2, <1>3, <1>4, WorkerStopped DEF Next

(* An upload is given up only after MAX_RETRY_COUNT failed attempts, and one *)
(* that was cancelled while it waited is never sent, whatever is retried,    *)
(* aborted or read back after a crash.                                       *)
THEOREM UploadsAreSettledRightly == Spec => []SettledRightly
<1>1. Init => Typed /\ Places /\ Counts /\ Stopped
  <2>1. Init => Stopped
    BY DEF Init, Stopped
  <2> QED BY <2>1, InitTyped, InitPlaces, InitCounts
<1>2. Typed /\ Places /\ Counts /\ Stopped /\ [Next]_vars => (Typed /\ Places /\ Counts /\ Stopped)'
  BY StepTyped, StepPlaces, StepCounts, StepStopped
<1>3. Counts /\ Stopped => SettledRightly
  BY DEF Counts, Stopped, SettledRightly, CancelledStaysOut, HoldsItem
<1> QED BY <1>1, <1>2, <1>3, PTL DEF Spec

-----------------------------------------------------------------------------
(* The video clips.  A name is in the dict once and what is there was asked  *)
(* for after the last deletion of its name (Waiting); the worker has a clip  *)
(* in hand but between two of them, and a hidden file only once its child    *)
(* has been started (Working).                                               *)

Waiting ==
    /\ \A m, n \in DOMAIN clips : clips[m].file = clips[n].file => m = n
    /\ \A n \in DOMAIN clips : clips[n].ask > deleted[clips[n].file]
    /\ \A f \in Files : deleted[f] <= asked[f]
Working ==
    /\ wpc # "wait" => job \in Clip
    /\ wpc \in {"wait", "picked", "encode"} => temporary = {}
    /\ wpc # "running" => proc = NoFile
    /\ wpc = "running" => proc = job.file
ClipsInv == ClipsTypeOK /\ DeletedStaysDeleted /\ ChildIsOurs /\ Waiting /\ Working

LEMMA ClipFields ==
  ASSUME NEW c \in Clip PROVE c.file \in Files /\ c.ask \in 1 .. MaxRequests
BY DEF Clip

LEMMA ClipsAt ==
  ASSUME ClipsTypeOK
  PROVE  /\ Len(clips) \in Nat /\ DOMAIN clips = 1 .. Len(clips)
         /\ \A n \in DOMAIN clips : clips[n] \in Clip
BY DEF ClipsTypeOK

\* What a name is taken out of the dict leaves.
LEMMA WithoutKeeps ==
  ASSUME ClipsTypeOK, Waiting, NEW f \in Files, clips' = Without(f)
  PROVE  /\ clips' \in Seq(Clip)
         /\ \A m \in DOMAIN clips' : clips'[m].file # f
         /\ \A m \in DOMAIN clips' : \E n \in DOMAIN clips : clips'[m] = clips[n]
         /\ \A m, n \in DOMAIN clips' : clips'[m].file = clips'[n].file => m = n
<1>1. CASE f \notin Names
  BY <1>1 DEF Without, Names, ClipsTypeOK, Waiting
<1>2. CASE f \in Names
  <2>1. Place(f) \in DOMAIN clips /\ clips[Place(f)].file = f
    <3>1. \E n \in DOMAIN clips : clips[n].file = f
      BY <1>2 DEF Names
    <3> QED BY <3>1 DEF Place
  <2> DEFINE k == Place(f)
             from(n) == IF n < k THEN n ELSE n + 1
  <2>2. clips' = [n \in 1 .. Len(clips) - 1 |-> clips[from(n)]]
    BY <1>2 DEF Without
  <2> HIDE DEF k
  <2>3. k \in 1 .. Len(clips) /\ Len(clips) \in Nat
    BY <2>1, ClipsAt DEF k
  <2>4. Len(clips) - 1 \in Nat /\ \A n \in 1 .. Len(clips) - 1 : from(n) \in 1 .. Len(clips) /\ from(n) # k
    BY <2>3
  <2>5. \A m, n \in 1 .. Len(clips) - 1 : from(m) = from(n) => m = n
    BY <2>3
  <2> HIDE DEF from
  <2>6. \A n \in 1 .. Len(clips) - 1 : clips'[n] = clips[from(n)] /\ clips'[n] \in Clip
    BY <2>2, <2>4, ClipsAt
  <2>7. DOMAIN clips' = 1 .. Len(clips) - 1
    BY <2>2
  <2>8. clips' \in Seq(Clip)
    BY <2>2, <2>4, <2>6, <2>7
  <2>9. \A m \in DOMAIN clips' : clips'[m].file # f
    BY <2>1, <2>3, <2>4, <2>6, <2>7, ClipsAt DEF Waiting, k
  <2>10. \A m \in DOMAIN clips' : \E n \in DOMAIN clips : clips'[m] = clips[n]
    BY <2>4, <2>6, <2>7, ClipsAt
  <2>11. \A m, n \in DOMAIN clips' : clips'[m].file = clips'[n].file => m = n
    BY <2>4, <2>5, <2>6, <2>7, ClipsAt DEF Waiting
  <2> QED BY <2>8, <2>9, <2>10, <2>11
<1> QED BY <1>1, <1>2

\* A clip goes out of the dict, by a deletion, when it is published or when it failed.
LEMMA DictShrinks ==
  ASSUME ClipsTypeOK, Waiting, NEW f \in Files, clips' = Without(f), asked' = asked,
         deleted' = deleted \/ deleted' = [deleted EXCEPT ![f] = asked[f]]
  PROVE  Waiting' /\ clips' \in Seq(Clip) /\ deleted' \in [Files -> 0 .. MaxRequests]
<1>1. /\ clips' \in Seq(Clip)
      /\ \A m \in DOMAIN clips' : clips'[m].file # f
      /\ \A m \in DOMAIN clips' : \E n \in DOMAIN clips : clips'[m] = clips[n]
      /\ \A m, n \in DOMAIN clips' : clips'[m].file = clips'[n].file => m = n
  BY WithoutKeeps
<1>2. /\ deleted \in [Files -> 0 .. MaxRequests] /\ asked \in [Files -> 0 .. MaxRequests]
  BY DEF ClipsTypeOK
<1>3. /\ deleted' \in [Files -> 0 .. MaxRequests] /\ \A g \in Files : deleted'[g] <= asked'[g]
      /\ \A g \in Files : g # f => deleted'[g] = deleted[g]
  BY <1>2 DEF Waiting
<1>4. ASSUME NEW m \in DOMAIN clips' PROVE clips'[m].ask > deleted'[clips'[m].file]
  <2>1. PICK n \in DOMAIN clips : clips'[m] = clips[n]
    BY <1>1
  <2>2. clips[n].file \in Files /\ clips[n].file # f /\ clips[n].ask > deleted[clips[n].file]
    BY <1>1, <2>1, ClipsAt, ClipFields DEF Waiting
  <2> QED BY <1>3, <2>1, <2>2
<1> QED BY <1>1, <1>3, <1>4 DEF Waiting

LEMMA CreateKeeps ==
  ASSUME ClipsInv, NEW f \in Files, CreateClip(f) PROVE ClipsInv'
<1> DEFINE c == [file |-> f, ask |-> asked[f] + 1]
<1>1. /\ ClipsTypeOK /\ DeletedStaysDeleted /\ ChildIsOurs /\ Waiting /\ Working
      /\ asked[f] < MaxRequests /\ asked' = [asked EXCEPT ![f] = @ + 1]
      /\ UNCHANGED << job, wpc, proc, child, temporary, output, deleted >>
      /\ clips' = IF f \in Names
                  THEN [n \in DOMAIN clips |-> IF clips[n].file = f THEN c ELSE clips[n]]
                  ELSE Append(clips, c)
  BY DEF ClipsInv, CreateClip
<1>2. /\ deleted \in [Files -> 0 .. MaxRequests] /\ asked \in [Files -> 0 .. MaxRequests]
      /\ clips \in Seq(Clip) /\ MaxRequests \in Nat
  BY <1>1, RequestsAssumption DEF ClipsTypeOK
<1>3. /\ asked' \in [Files -> 0 .. MaxRequests] /\ c \in Clip /\ c.file = f /\ c.ask = asked[f] + 1
      /\ \A g \in Files : deleted'[g] <= asked'[g]
      /\ deleted' = deleted /\ c.ask > deleted[f]
  BY <1>1, <1>2 DEF Clip, Waiting
<1> HIDE DEF c
<1>4. clips' \in Seq(Clip) /\ Waiting'
  <2>1. CASE f \in Names
    <3>1. clips' = [n \in DOMAIN clips |-> IF clips[n].file = f THEN c ELSE clips[n]]
      BY <1>1, <2>1
    <3>2. /\ DOMAIN clips' = DOMAIN clips /\ clips' \in Seq(Clip)
          /\ \A n \in DOMAIN clips : clips'[n].file = clips[n].file
      <4>1. Len(clips) \in Nat /\ DOMAIN clips' = 1 .. Len(clips) /\ DOMAIN clips = 1 .. Len(clips)
        BY <1>1, <3>1, ClipsAt
      <4>2. ASSUME NEW n \in DOMAIN clips
            PROVE  clips'[n] \in Clip /\ clips'[n].file = clips[n].file
        <5>1. clips[n] \in Clip
          BY <1>1, ClipsAt
        <5>2. CASE clips[n].file = f
          BY <1>3, <3>1, <5>2
        <5>3. CASE clips[n].file # f
          BY <3>1, <5>1, <5>3
        <5> QED BY <5>2, <5>3
      <4>3. clips' = [n \in 1 .. Len(clips) |-> clips'[n]]
        BY <3>1, <4>1
      <4>4. clips' \in [1 .. Len(clips) -> Clip]
        BY <4>1, <4>2, <4>3
      <4>5. clips' \in Seq(Clip)
        BY <4>1, <4>4
      <4> QED BY <4>1, <4>2, <4>5
    <3>3. \A m, n \in DOMAIN clips' : clips'[m].file = clips'[n].file => m = n
      BY <1>1, <3>2 DEF Waiting
    <3>4. ASSUME NEW n \in DOMAIN clips PROVE clips'[n].ask > deleted[clips'[n].file]
      <4>1. CASE clips[n].file = f
        BY <1>3, <3>1, <4>1
      <4>2. CASE clips[n].file # f
        BY <1>1, <3>1, <4>2 DEF Waiting
      <4> QED BY <4>1, <4>2
    <3> QED BY <1>1, <1>3, <3>2, <3>3, <3>4 DEF Waiting
  <2>2. CASE f \notin Names
    <3>1. clips' = Append(clips, c) /\ \A n \in DOMAIN clips : clips[n].file # f
      BY <1>1, <2>2 DEF Names
    <3>2. /\ clips' \in Seq(Clip) /\ DOMAIN clips' = 1 .. Len(clips) + 1
          /\ clips'[Len(clips) + 1] = c /\ \A n \in DOMAIN clips : clips'[n] = clips[n]
          /\ DOMAIN clips = 1 .. Len(clips) /\ Len(clips) \in Nat
      BY <1>2, <1>3, <3>1
    <3>3. ASSUME NEW m \in DOMAIN clips', NEW n \in DOMAIN clips',
                 clips'[m].file = clips'[n].file
          PROVE  m = n
      <4>1. CASE m \in DOMAIN clips /\ n \in DOMAIN clips
        <5>1. clips[m].file = clips[n].file
          BY <3>2, <3>3, <4>1
        <5> QED BY <1>1, <4>1, <5>1 DEF Waiting
      <4>2. CASE m \in DOMAIN clips /\ n \notin DOMAIN clips
        <5>1. n = Len(clips) + 1
          BY <3>2, <4>2
        <5>2. clips'[n].file = f /\ clips'[m].file # f
          BY <1>3, <3>1, <3>2, <4>2, <5>1
        <5> QED BY <3>3, <5>2
      <4>3. CASE m \notin DOMAIN clips /\ n \in DOMAIN clips
        <5>1. m = Len(clips) + 1
          BY <3>2, <4>3
        <5>2. clips'[m].file = f /\ clips'[n].file # f
          BY <1>3, <3>1, <3>2, <4>3, <5>1
        <5> QED BY <3>3, <5>2
      <4>4. CASE m \notin DOMAIN clips /\ n \notin DOMAIN clips
        BY <3>2, <4>4
      <4> QED BY <4>1, <4>2, <4>3, <4>4
    <3>4. ASSUME NEW n \in DOMAIN clips' PROVE clips'[n].ask > deleted[clips'[n].file]
      <4>1. CASE n \in DOMAIN clips
        BY <1>1, <3>2, <4>1 DEF Waiting
      <4>2. CASE n \notin DOMAIN clips
        <5>1. n = Len(clips) + 1
          BY <3>2, <4>2
        <5> QED BY <1>3, <3>2, <5>1
      <4> QED BY <4>1, <4>2
    <3> QED BY <1>1, <1>3, <3>2, <3>3, <3>4 DEF Waiting
  <2> QED BY <2>1, <2>2
<1>5. ClipsTypeOK'
  BY <1>1, <1>3, <1>4 DEF ClipsTypeOK
<1>6. DeletedStaysDeleted' /\ ChildIsOurs' /\ Working'
  BY <1>1 DEF DeletedStaysDeleted, ChildIsOurs, Working
<1> QED BY <1>4, <1>5, <1>6 DEF ClipsInv

LEMMA DeleteKeeps ==
  ASSUME ClipsInv, NEW f \in Files, DeleteClip(f) PROVE ClipsInv'
<1>1. /\ ClipsTypeOK /\ DeletedStaysDeleted /\ ChildIsOurs /\ Waiting /\ Working
      /\ clips' = Without(f) /\ output' = [output EXCEPT ![f] = 0]
      /\ deleted' = [deleted EXCEPT ![f] = asked[f]]
      /\ UNCHANGED << job, wpc, proc, temporary, asked >> /\ child' \in {"bad", child}
  BY DEF ClipsInv, DeleteClip
<1>2. /\ output \in [Files -> 0 .. MaxRequests] /\ 0 \in 0 .. MaxRequests
      /\ deleted \in [Files -> 0 .. MaxRequests]
  BY <1>1, RequestsAssumption DEF ClipsTypeOK
<1>3. Waiting' /\ clips' \in Seq(Clip) /\ deleted' \in [Files -> 0 .. MaxRequests]
  BY <1>1, DictShrinks
<1>4. ClipsTypeOK'
  <2>1. output' \in [Files -> 0 .. MaxRequests] /\ child' \in {"none", "runs", "ok", "bad"}
    BY <1>1, <1>2 DEF ClipsTypeOK
  <2> QED BY <1>1, <1>3, <2>1 DEF ClipsTypeOK
<1>5. DeletedStaysDeleted'
  BY <1>1, <1>2 DEF DeletedStaysDeleted
<1>6. ChildIsOurs' /\ Working'
  BY <1>1 DEF ChildIsOurs, Working
<1> QED BY <1>3, <1>4, <1>5, <1>6 DEF ClipsInv

LEMMA WorkKeeps ==
  ASSUME ClipsInv, Work PROVE ClipsInv'
<1>1. /\ ClipsTypeOK /\ DeletedStaysDeleted /\ ChildIsOurs /\ Waiting /\ Working
      /\ UNCHANGED << asked, deleted >>
  BY DEF ClipsInv, Work, Pick, LookAgain, StartEncoder, ChildEnds, EncoderEnds, Publish, GiveUp,
         Cleanup
<1>2. wpc # "wait" => job \in Clip /\ job.file \in Files /\ job.ask \in 1 .. MaxRequests
  BY <1>1, ClipFields DEF Working
<1>3. ASSUME UNCHANGED << clips, output >>, job' \in Clip \cup {NoJob},
             wpc' \in {"wait", "picked", "encode", "running", "encoded", "failed", "cleanup"},
             proc' \in Files \cup {NoFile}, child' \in {"none", "runs", "ok", "bad"},
             temporary' \subseteq Files, ChildIsOurs', Working'
      PROVE  ClipsInv'
  BY <1>1, <1>3 DEF ClipsInv, ClipsTypeOK, DeletedStaysDeleted, Waiting
<1>4. CASE Pick
  <2>1. Head(clips) = clips[1] /\ clips[1] \in Clip
    BY <1>1, <1>4, ClipsAt DEF Pick, ClipsTypeOK
  <2>2. /\ wpc = "wait" /\ job' \in Clip /\ wpc' = "picked" /\ temporary = {} /\ proc = NoFile
        /\ UNCHANGED << clips, proc, child, temporary, output >>
    BY <1>1, <1>4, <2>1 DEF Pick, Working
  <2> QED BY <1>1, <1>3, <2>2 DEF ClipsTypeOK, ChildIsOurs, Working
<1>5. CASE LookAgain
  <2>1. /\ wpc = "picked" /\ temporary = {} /\ proc = NoFile
        /\ \/ wpc' = "encode" /\ job' = job
           \/ wpc' = "wait" /\ job' = NoJob
        /\ UNCHANGED << clips, proc, child, temporary, output >>
    BY <1>1, <1>5 DEF LookAgain, Working
  <2> QED BY <1>1, <1>2, <1>3, <2>1 DEF ClipsTypeOK, ChildIsOurs, Working
<1>6. CASE StartEncoder
  <2>1. /\ wpc = "encode" /\ temporary = {} /\ proc = NoFile
        /\ UNCHANGED << clips, job, output >>
        /\ \/ /\ proc' = job.file /\ child' = "runs" /\ wpc' = "running"
              /\ temporary' = {job.file}
           \/ wpc' = "encoded" /\ UNCHANGED << proc, child, temporary >>
    BY <1>1, <1>6 DEF StartEncoder, Working
  <2> QED BY <1>1, <1>2, <1>3, <2>1 DEF ClipsTypeOK, ChildIsOurs, Working
<1>7. CASE ChildEnds
  <2>1. child' \in {"ok", "bad"} /\ UNCHANGED << clips, job, wpc, proc, temporary, output >>
    BY <1>7 DEF ChildEnds
  <2> QED BY <1>1, <1>3, <2>1 DEF ClipsTypeOK, ChildIsOurs, Working
<1>8. CASE EncoderEnds
  <2>1. /\ wpc = "running" /\ wpc' \in {"encoded", "failed"} /\ proc' = NoFile /\ child' = "none"
        /\ UNCHANGED << clips, job, temporary, output >>
    BY <1>8 DEF EncoderEnds
  <2> QED BY <1>1, <1>2, <1>3, <2>1 DEF ClipsTypeOK, ChildIsOurs, Working
<1>9. CASE Publish
  <2>1. wpc = "encoded" /\ wpc' = "cleanup" /\ UNCHANGED << job, proc, child >> /\ proc = NoFile
    BY <1>1, <1>9 DEF Publish, Working
  <2>2. CASE IsCurrent(job)
    <3>1. /\ output' = [output EXCEPT ![job.file] = job.ask]
          /\ temporary' = temporary \ {job.file} /\ clips' = Without(job.file)
      BY <1>9, <2>2 DEF Publish
    <3>2. Waiting' /\ clips' \in Seq(Clip)
      BY <1>1, <1>2, <2>1, <3>1, DictShrinks
    <3>3. job.ask > deleted[job.file]
      BY <1>1, <2>2 DEF IsCurrent, Waiting
    <3>4. output \in [Files -> 0 .. MaxRequests] /\ job.ask \in 0 .. MaxRequests
      BY <1>1, <1>2, <2>1 DEF ClipsTypeOK
    <3>5. output' \in [Files -> 0 .. MaxRequests]
      BY <3>1, <3>4
    <3>6. ClipsTypeOK'
      BY <1>1, <2>1, <3>1, <3>2, <3>5 DEF ClipsTypeOK
    <3>7. DeletedStaysDeleted'
      BY <1>1, <1>2, <2>1, <3>1, <3>3, <3>4 DEF DeletedStaysDeleted
    <3>8. ChildIsOurs' /\ Working'
      BY <1>1, <1>2, <2>1, <3>1 DEF ChildIsOurs, Working
    <3> QED BY <3>2, <3>6, <3>7, <3>8 DEF ClipsInv
  <2>3. CASE ~IsCurrent(job)
    <3>1. UNCHANGED << output, temporary, clips >>
      BY <1>9, <2>3 DEF Publish
    <3> QED BY <1>1, <1>2, <1>3, <2>1, <3>1 DEF ClipsTypeOK, ChildIsOurs, Working
  <2> QED BY <2>2, <2>3
<1>10. CASE GiveUp
  <2>1. /\ wpc = "failed" /\ wpc' = "cleanup" /\ UNCHANGED << job, proc, child, temporary, output >>
        /\ clips' = Without(job.file) \/ clips' = clips
    BY <1>10 DEF GiveUp
  <2>2. CASE clips' = Without(job.file)
    <3>1. Waiting' /\ clips' \in Seq(Clip)
      BY <1>1, <1>2, <2>1, <2>2, DictShrinks
    <3>2. ClipsTypeOK'
      BY <1>1, <2>1, <3>1 DEF ClipsTypeOK
    <3>3. DeletedStaysDeleted' /\ ChildIsOurs' /\ Working'
      BY <1>1, <1>2, <2>1 DEF DeletedStaysDeleted, ChildIsOurs, Working
    <3> QED BY <3>1, <3>2, <3>3 DEF ClipsInv
  <2>3. CASE clips' = clips
    BY <1>1, <1>2, <1>3, <2>1, <2>3 DEF ClipsTypeOK, ChildIsOurs, Working
  <2> QED BY <2>1, <2>2, <2>3
<1>11. CASE Cleanup
  <2>1. /\ wpc = "cleanup" /\ wpc' = "wait" /\ job' = NoJob /\ temporary' = temporary \ {job.file}
        /\ UNCHANGED << clips, proc, child, output >>
    BY <1>11 DEF Cleanup
  <2>2. temporary' = {} /\ proc = NoFile
    BY <1>1, <2>1 DEF ChildIsOurs, Working
  <2> QED BY <1>1, <1>3, <2>1, <2>2 DEF ClipsTypeOK, ChildIsOurs, Working
<1> QED BY <1>4, <1>5, <1>6, <1>7, <1>8, <1>9, <1>10, <1>11 DEF Work

LEMMA ClipsStep == ClipsInv /\ [ClipsNext]_clipVars => ClipsInv'
<1> SUFFICES ASSUME ClipsInv, [ClipsNext]_clipVars PROVE ClipsInv'
  OBVIOUS
<1>1. CASE UNCHANGED clipVars
  BY <1>1 DEF clipVars, ClipsInv, ClipsTypeOK, DeletedStaysDeleted, ChildIsOurs, Waiting, Working
<1> QED BY <1>1, WorkKeeps, CreateKeeps, DeleteKeeps DEF ClipsNext

LEMMA ClipsStart == ClipsInit => ClipsInv
<1> SUFFICES ASSUME ClipsInit PROVE ClipsInv
  OBVIOUS
<1>1. 0 \in 0 .. MaxRequests
  BY RequestsAssumption
<1>2. ClipsTypeOK
  BY <1>1 DEF ClipsInit, ClipsTypeOK
<1>3. DeletedStaysDeleted /\ ChildIsOurs /\ Waiting /\ Working
  BY DEF ClipsInit, DeletedStaysDeleted, ChildIsOurs, Waiting, Working
<1> QED BY <1>2, <1>3 DEF ClipsInv

\* Whenever a clip is deleted, asked for again or replaced while the worker has it in
\* hand: none that was deleted comes back, the child that a deletion terminates is the one
\* that encodes the clip, and no hidden file is left behind.
THEOREM ClipsAreAlwaysTheirs == ClipsSpec => []ClipsAreTheirs
<1>1. ClipsInv => ClipsAreTheirs
  BY DEF ClipsInv, ClipsAreTheirs
<1> QED BY <1>1, ClipsStart, ClipsStep, PTL DEF ClipsSpec

-----------------------------------------------------------------------------
(* The Wi-Fi manager.  Its invariant says what the signals on their way will *)
(* still do: to the known networks, and to the state that is shown.          *)

\* q ends, as far as the signals of S go, with one of F; it has none of S
EndsIn(q, F, S) == \E i \in DOMAIN q : q[i] \in F /\ \A j \in DOMAIN q : j > i => q[j] \notin S
Free(q, S) == \A i \in DOMAIN q : q[i] \notin S

StateChanges == {s \in Signals : IsState(s)}
TurnsOff == {s \in StateChanges : s.new = "DISCONNECTED" /\ s.reason # "NEW_ACTIVATION"}
Tells(what) == {s \in Signals : s.new = what}
TellsOf(what, n) == {s \in Tells(what) : s.of = n}

DeviceFits ==
    /\ device.state = "DISCONNECTED" <=> device.net = NoNetwork
    /\ device.net # NoNetwork => device.net \in saved

\* the networks become known that NetworkManager has, and those are forgotten that it has not
KnownInTime(n) ==
    n \in saved => \/ EndsIn(bus, TellsOf("NewConnection", n), TellsOf("ConnectionRemoved", n))
                   \/ /\ Free(bus, TellsOf("ConnectionRemoved", n))
                      /\ n \in conn_q.new \/ n \in connections \ conn_q.removed
ForgottenInTime(n) ==
    n \in connections \ saved => n \in conn_q.removed \/ ~Free(bus, TellsOf("ConnectionRemoved", n))

\* a worker that will still change the device or the state shown
Acts(t) ==
    \/ worker[t].op \in {"connect", "add", "activate", "init", "write"}
    \/ worker[t].op = "lookup" /\ t \in user_epoch
Quiet == ~overtaken /\ \A t \in Threads : ~Acts(t)

OffIsShown ==
    device.state = "DISCONNECTED" =>
        \/ EndsIn(bus, TurnsOff, StateChanges)
        \/ /\ Free(bus, StateChanges)
           /\ \/ state_q # <<>> /\ state_q[Len(state_q)] \in TurnsOff
              \/ /\ state_q = <<>> /\ monitor.at = "listen"
                 /\ Quiet => wifi_state = Nothing \/ ignored

\* ACTIVATED is the next signal that is received
Announced ==
    /\ monitor.at = "listen" /\ state_q = <<>> /\ bus # <<>>
    /\ Head(bus) \in Tells("ACTIVATED") /\ Free(Tail(bus), StateChanges)

ConnectionIsShown ==
    device.state = "ACTIVATED" =>
        /\ Free(bus, Tells("NewConnection"))
        /\ \/ Announced
           \/ /\ Free(bus, StateChanges) /\ conn_q.new = {}
              /\ \/ monitor.at = "listen" /\ Len(state_q) = 1 /\ state_q[1] \in Tells("ACTIVATED")
                 \/ /\ state_q = <<>> /\ (monitor.at # "listen" => monitor.was.status = "CONNECTED")
                    /\ monitor.at = "write" => monitor.net = device.net
                    /\ Quiet => \/ monitor.at = "lookup" /\ Monitor \in user_epoch
                                \/ monitor.at = "write"
                                \/ wifi_state = [ssid |-> device.net, status |-> "CONNECTED"]

-----------------------------------------------------------------------------
(* Sequences of signals: one signal, two sequences after another, the rest.  *)

LEMMA OneSignal ==
  ASSUME NEW s \in Signals
  PROVE  <<s>> \in Seq(Signals) /\ <<s>> # <<>>
  OBVIOUS

LEMMA TwoSignals ==
  ASSUME NEW s \in Signals, NEW u \in Signals
  PROVE  <<s, u>> = <<s>> \o <<u>>
<1>1. <<s>> \in Seq(Signals) /\ <<u>> \in Seq(Signals) /\ <<s, u>> \in Seq(Signals)
  OBVIOUS
<1>2. <<s>> \o <<u>> \in Seq(Signals) /\ Len(<<s>> \o <<u>>) = 2
  BY <1>1, ConcatProperties
<1>3. (<<s>> \o <<u>>)[1] = s /\ (<<s>> \o <<u>>)[2] = u
  BY <1>1, ConcatProperties
<1>4. Len(<<s, u>>) = 2 /\ <<s, u>>[1] = s /\ <<s, u>>[2] = u
  OBVIOUS
<1>. DEFINE q == <<s>> \o <<u>>  r == <<s, u>>
<1>. HIDE DEF q, r
<1>5. Len(q) = Len(r) /\ \A i \in 1 .. Len(q) : q[i] = r[i]
  <2>1. Len(q) = 2 /\ Len(r) = 2 /\ q[1] = r[1] /\ q[2] = r[2]
    BY <1>2, <1>3, <1>4 DEF q, r
  <2>. QED  BY <2>1
<1>6. q = r
  BY <1>1, <1>2, <1>5, SeqEqual DEF q, r
<1>. QED  BY <1>6 DEF q, r

LEMMA FreeOfOne ==
  ASSUME NEW S
  PROVE  /\ Free(<<>>, S)
         /\ \A s : Free(<<s>>, S) <=> s \notin S
  BY DEF Free

LEMMA FreeOf ==
  ASSUME NEW q \in Seq(Signals), NEW r \in Seq(Signals), NEW S
  PROVE  /\ q \o r \in Seq(Signals)
         /\ Free(q \o r, S) <=> (Free(q, S) /\ Free(r, S))
         /\ q # <<>> => (Free(q, S) <=> (Head(q) \notin S /\ Free(Tail(q), S)))
<1>1. q \o r \in Seq(Signals)
  BY ConcatProperties
<1>2. Free(q \o r, S) <=> (Free(q, S) /\ Free(r, S))
  <2>1. /\ q \o r \in Seq(Signals) /\ Len(q \o r) = Len(q) + Len(r)
        /\ Len(q) \in Nat /\ Len(r) \in Nat
        /\ \A i \in 1 .. Len(q) : (q \o r)[i] = q[i]
        /\ \A i \in 1 .. Len(r) : (q \o r)[Len(q) + i] = r[i]
    BY ConcatProperties, LenProperties, SMT
  <2>2. DOMAIN (q \o r) = 1 .. (Len(q) + Len(r)) /\ DOMAIN q = 1 .. Len(q) /\ DOMAIN r = 1 .. Len(r)
    BY <2>1, LenProperties
  <2>3. ASSUME Free(q \o r, S) PROVE Free(q, S) /\ Free(r, S)
    <3>1. \A i \in 1 .. Len(q) : i \in 1 .. (Len(q) + Len(r))
      BY <2>1
    <3>2. \A i \in 1 .. Len(r) : Len(q) + i \in 1 .. (Len(q) + Len(r))
      BY <2>1
    <3>. QED  BY <2>1, <2>2, <2>3, <3>1, <3>2, Zenon DEF Free
  <2>4. ASSUME Free(q, S), Free(r, S) PROVE Free(q \o r, S)
    <3>1. \A i \in 1 .. (Len(q) + Len(r)) : i \in 1 .. Len(q) \/ \E j \in 1 .. Len(r) : i = Len(q) + j
      <4>. SUFFICES ASSUME NEW i \in 1 .. (Len(q) + Len(r)), i \notin 1 .. Len(q)
                    PROVE  \E j \in 1 .. Len(r) : i = Len(q) + j
        OBVIOUS
      <4>1. i - Len(q) \in 1 .. Len(r) /\ i = Len(q) + (i - Len(q))
        BY <2>1
      <4>. QED  BY <4>1, Zenon
    <3>2. ASSUME NEW i \in 1 .. (Len(q) + Len(r)) PROVE (q \o r)[i] \notin S
      <4>1. CASE i \in 1 .. Len(q)
        BY <2>1, <2>2, <2>4, <4>1 DEF Free
      <4>2. CASE i \notin 1 .. Len(q)
        <5>1. PICK j \in 1 .. Len(r) : i = Len(q) + j
          BY <3>1, <4>2
        <5>2. (q \o r)[i] = r[j] /\ r[j] \notin S
          BY <2>1, <2>2, <2>4, <5>1 DEF Free
        <5>. QED  BY <5>2
      <4>. QED  BY <4>1, <4>2
    <3>. QED  BY <2>2, <3>2 DEF Free
  <2>. QED  BY <2>3, <2>4
<1>3. ASSUME q # <<>> PROVE Free(q, S) <=> (Head(q) \notin S /\ Free(Tail(q), S))
  <2>1. /\ Tail(q) \in Seq(Signals) /\ Len(Tail(q)) = Len(q) - 1 /\ Len(q) \in Nat \ {0} /\ Head(q) = q[1]
        /\ \A i \in 1 .. Len(Tail(q)) : Tail(q)[i] = q[i + 1]
    BY <1>3, HeadTailProperties, EmptySeq, LenProperties
  <2>2. DOMAIN q = 1 .. Len(q) /\ DOMAIN Tail(q) = 1 .. (Len(q) - 1)
    BY <2>1, LenProperties
  <2>3. \A i \in 1 .. Len(q) : i = 1 \/ \E j \in 1 .. (Len(q) - 1) : i = j + 1
    <3>. SUFFICES ASSUME NEW i \in 1 .. Len(q), i # 1 PROVE \E j \in 1 .. (Len(q) - 1) : i = j + 1
      OBVIOUS
    <3>1. i - 1 \in 1 .. (Len(q) - 1) /\ i = (i - 1) + 1
      BY <2>1
    <3>. QED  BY <3>1, Zenon
  <2>4. 1 \in 1 .. Len(q) /\ \A i \in 1 .. (Len(q) - 1) : i + 1 \in 1 .. Len(q)
    BY <2>1
  <2>. QED  BY <2>1, <2>2, <2>3, <2>4, Zenon DEF Free
<1>. QED  BY <1>1, <1>2, <1>3

LEMMA EndsOfOne ==
  ASSUME NEW F, NEW S
  PROVE  /\ ~EndsIn(<<>>, F, S)
         /\ \A s \in F : EndsIn(<<s>>, F, S)
  BY DEF EndsIn

LEMMA EndsOf ==
  ASSUME NEW q \in Seq(Signals), NEW r \in Seq(Signals), NEW F, NEW S
  PROVE  /\ EndsIn(r, F, S) => EndsIn(q \o r, F, S)
         /\ EndsIn(q, F, S) /\ Free(r, S) => EndsIn(q \o r, F, S)
         /\ q # <<>> => (EndsIn(q, F, S) <=> ((Head(q) \in F /\ Free(Tail(q), S)) \/ EndsIn(Tail(q), F, S)))
<1>2. /\ q \o r \in Seq(Signals) /\ Len(q \o r) = Len(q) + Len(r)
      /\ Len(q) \in Nat /\ Len(r) \in Nat
      /\ \A i \in 1 .. Len(q) : (q \o r)[i] = q[i]
      /\ \A i \in 1 .. Len(r) : (q \o r)[Len(q) + i] = r[i]
  BY ConcatProperties, LenProperties, SMT
<1>3. DOMAIN (q \o r) = 1 .. (Len(q) + Len(r)) /\ DOMAIN q = 1 .. Len(q) /\ DOMAIN r = 1 .. Len(r)
  BY <1>2, LenProperties
<1>4. ASSUME NEW i \in 1 .. (Len(q) + Len(r)), i > Len(q) PROVE i - Len(q) \in 1 .. Len(r) /\ (q \o r)[i] = r[i - Len(q)]
  <2>1. i - Len(q) \in 1 .. Len(r) /\ Len(q) + (i - Len(q)) = i
    BY <1>2, <1>4
  <2>. QED  BY <1>2, <2>1
<1>5. ASSUME EndsIn(r, F, S) PROVE EndsIn(q \o r, F, S)
  <2>1. PICK k \in 1 .. Len(r) : r[k] \in F /\ \A j \in 1 .. Len(r) : j > k => r[j] \notin S
    BY <1>3, <1>5 DEF EndsIn
  <2>2. Len(q) + k \in 1 .. (Len(q) + Len(r)) /\ (q \o r)[Len(q) + k] \in F
    BY <1>2, <2>1
  <2>3. ASSUME NEW j \in 1 .. (Len(q) + Len(r)), j > Len(q) + k PROVE (q \o r)[j] \notin S
    <3>1. j > Len(q) /\ j - Len(q) > k
      BY <1>2, <2>3
    <3>. QED  BY <1>4, <2>1, <3>1
  <2>. QED  BY <1>3, <2>2, <2>3 DEF EndsIn
<1>6. ASSUME EndsIn(q, F, S), Free(r, S) PROVE EndsIn(q \o r, F, S)
  <2>1. PICK k \in 1 .. Len(q) : q[k] \in F /\ \A j \in 1 .. Len(q) : j > k => q[j] \notin S
    BY <1>3, <1>6 DEF EndsIn
  <2>2. k \in 1 .. (Len(q) + Len(r)) /\ (q \o r)[k] \in F
    BY <1>2, <2>1
  <2>3. ASSUME NEW j \in 1 .. (Len(q) + Len(r)), j > k PROVE (q \o r)[j] \notin S
    <3>1. CASE j > Len(q)
      BY <1>3, <1>4, <1>6, <3>1 DEF Free
    <3>2. CASE ~(j > Len(q))
      <4>1. j \in 1 .. Len(q)
        BY <1>2, <3>2
      <4>. QED  BY <1>2, <2>1, <2>3, <4>1
    <3>. QED  BY <3>1, <3>2
  <2>. QED  BY <1>3, <2>2, <2>3 DEF EndsIn
<1>7. ASSUME q # <<>> PROVE EndsIn(q, F, S) <=> ((Head(q) \in F /\ Free(Tail(q), S)) \/ EndsIn(Tail(q), F, S))
  <2>1. /\ Tail(q) \in Seq(Signals) /\ Len(Tail(q)) = Len(q) - 1 /\ Len(q) \in Nat \ {0} /\ Head(q) = q[1]
        /\ \A i \in 1 .. Len(Tail(q)) : Tail(q)[i] = q[i + 1]
    BY <1>7, HeadTailProperties, EmptySeq, LenProperties
  <2>2. DOMAIN q = 1 .. Len(q) /\ DOMAIN Tail(q) = 1 .. (Len(q) - 1)
    BY <2>1, LenProperties
  <2>3. ASSUME NEW i \in 1 .. Len(q), i # 1 PROVE i - 1 \in 1 .. (Len(q) - 1) /\ Tail(q)[i - 1] = q[i]
    <3>1. i - 1 \in 1 .. (Len(q) - 1) /\ (i - 1) + 1 = i
      BY <2>1, <2>3
    <3>. QED  BY <2>1, <3>1
  <2>4. ASSUME EndsIn(q, F, S) PROVE (Head(q) \in F /\ Free(Tail(q), S)) \/ EndsIn(Tail(q), F, S)
    <3>1. PICK k \in 1 .. Len(q) : q[k] \in F /\ \A j \in 1 .. Len(q) : j > k => q[j] \notin S
      BY <2>2, <2>4 DEF EndsIn
    <3>2. ASSUME NEW j \in 1 .. (Len(q) - 1), j + 1 > k PROVE Tail(q)[j] \notin S
      <4>1. j + 1 \in 1 .. Len(q)
        BY <2>1
      <4>. QED  BY <2>1, <3>1, <3>2, <4>1
    <3>3. CASE k = 1
      <4>1. \A j \in 1 .. (Len(q) - 1) : j + 1 > k
        BY <2>1, <3>3
      <4>. QED  BY <2>1, <2>2, <3>1, <3>2, <3>3, <4>1 DEF Free
    <3>4. CASE k # 1
      <4>1. k - 1 \in 1 .. (Len(q) - 1) /\ Tail(q)[k - 1] \in F
        BY <2>3, <3>1, <3>4
      <4>2. \A j \in 1 .. (Len(q) - 1) : j > k - 1 => j + 1 > k
        BY <2>1
      <4>. QED  BY <2>2, <3>2, <4>1, <4>2 DEF EndsIn
    <3>. QED  BY <3>3, <3>4
  <2>5. ASSUME Head(q) \in F, Free(Tail(q), S) PROVE EndsIn(q, F, S)
    <3>1. ASSUME NEW j \in 1 .. Len(q), j > 1 PROVE q[j] \notin S
      <4>1. j # 1
        BY <3>1
      <4>. QED  BY <2>2, <2>3, <2>5, <4>1 DEF Free
    <3>2. 1 \in 1 .. Len(q)
      BY <2>1
    <3>. QED  BY <2>1, <2>2, <2>5, <3>1, <3>2 DEF EndsIn
  <2>6. ASSUME EndsIn(Tail(q), F, S) PROVE EndsIn(q, F, S)
    <3>1. PICK k \in 1 .. (Len(q) - 1) : Tail(q)[k] \in F /\ \A j \in 1 .. (Len(q) - 1) : j > k => Tail(q)[j] \notin S
      BY <2>2, <2>6 DEF EndsIn
    <3>2. k + 1 \in 1 .. Len(q) /\ q[k + 1] \in F
      BY <2>1, <3>1
    <3>3. ASSUME NEW j \in 1 .. Len(q), j > k + 1 PROVE q[j] \notin S
      <4>1. j # 1 /\ j - 1 > k
        BY <2>1, <3>3
      <4>. QED  BY <2>3, <3>1, <4>1
    <3>. QED  BY <2>2, <3>2, <3>3 DEF EndsIn
  <2>. QED  BY <2>4, <2>5, <2>6
<1>. QED  BY <1>5, <1>6, <1>7

-----------------------------------------------------------------------------
\* r tells of the connections that come and go in this step
TellsConnections(r) ==
    \A m \in Networks :
        /\ m \in saved \ saved' => ~Free(r, TellsOf("ConnectionRemoved", m))
        /\ m \in saved' => \/ Free(r, TellsOf("ConnectionRemoved", m))
                           \/ EndsIn(r, TellsOf("NewConnection", m), TellsOf("ConnectionRemoved", m))
        /\ m \in saved' \ saved => EndsIn(r, TellsOf("NewConnection", m), TellsOf("ConnectionRemoved", m))

\* What kinds of signals NetworkManager's operations send.
LEMMA SignalKinds ==
  ASSUME NEW n \in Networks \cup {NoNetwork}
  PROVE  /\ \A what \in {"NewConnection", "ConnectionRemoved", "PropertiesChanged"} : n \in Networks \/ what = "PropertiesChanged" =>
              /\ Event(what, n) \in Signals /\ Event(what, n).new = what /\ Event(what, n).of = n
              /\ Event(what, n) \notin StateChanges
         /\ \A new \in {"DISCONNECTED", "PREPARE", "ACTIVATED", "NEED_AUTH", "FAILED", "DEACTIVATING"},
               prev \in States \cup {"CONFIG", "NEED_AUTH", "FAILED", "DEACTIVATING"},
               reason \in {"NONE", "NEW_ACTIVATION", "CONNECTION_REMOVED", "SUPPLICANT_DISCONNECT", "NO_SECRETS"} :
              LET s == Signal(new, prev, reason, n)
              IN  /\ s \in Signals /\ s.new = new /\ s.reason = reason /\ s.of = n
                  /\ s \in StateChanges
         /\ \A s \in StateChanges, m \in Networks : s \notin TellsOf("ConnectionRemoved", m) /\ s \notin Tells("NewConnection")
<1>1. \A what \in {"NewConnection", "ConnectionRemoved", "PropertiesChanged"} : n \in Networks \/ what = "PropertiesChanged" =>
         Event(what, n) \in Signals /\ Event(what, n).new = what /\ Event(what, n).of = n
  BY NetworkAssumption DEF Event, Signal, Signals, States
<1>2. \A new \in {"DISCONNECTED", "PREPARE", "ACTIVATED", "NEED_AUTH", "FAILED", "DEACTIVATING"},
         prev \in States \cup {"CONFIG", "NEED_AUTH", "FAILED", "DEACTIVATING"},
         reason \in {"NONE", "NEW_ACTIVATION", "CONNECTION_REMOVED", "SUPPLICANT_DISCONNECT", "NO_SECRETS"} :
              LET s == Signal(new, prev, reason, n)
              IN  s \in Signals /\ s.new = new /\ s.reason = reason /\ s.of = n
  BY DEF Signal, Signals, States
<1>. QED  BY <1>1, <1>2 DEF StateChanges, IsState, Tells, TellsOf

LEMMA LeavingTells ==
  ASSUME DeviceFits, NetTypeOK, NEW late \in BOOLEAN
  PROVE  /\ Leaving(late) \in Seq(Signals)
         /\ \A m \in Networks : Free(Leaving(late), TellsOf("ConnectionRemoved", m))
<1>1. CASE device = Off
  BY <1>1, FreeOfOne DEF Leaving
<1>2. CASE device # Off
  <2>. DEFINE s == Signal("DISCONNECTED", "DEACTIVATING", "NEW_ACTIVATION", device.net)
              u == Signal("NEED_AUTH", "DISCONNECTED", "SUPPLICANT_DISCONNECT", device.net)
              w == IF late THEN <<u>> ELSE <<>>
  <2>1. s \in StateChanges /\ u \in StateChanges /\ s \in Signals /\ u \in Signals
    BY SignalKinds DEF NetTypeOK, States
  <2>2. <<s>> \in Seq(Signals) /\ w \in Seq(Signals) /\ Leaving(late) = <<s>> \o w
    BY <1>2, <2>1 DEF Leaving
  <2>3. ASSUME NEW m \in Networks PROVE Free(<<s>>, TellsOf("ConnectionRemoved", m)) /\ Free(w, TellsOf("ConnectionRemoved", m))
    <3>1. s \notin TellsOf("ConnectionRemoved", m) /\ u \notin TellsOf("ConnectionRemoved", m)
      BY <2>1, SignalKinds
    <3>. HIDE DEF s, u
    <3>. QED  BY <3>1, FreeOfOne
  <2>. HIDE DEF s, u, w
  <2>4. <<s>> \o w \in Seq(Signals) /\ \A S : Free(<<s>> \o w, S) <=> (Free(<<s>>, S) /\ Free(w, S))
    BY <2>2, FreeOf
  <2>. QED  BY <2>2, <2>3, <2>4
<1>. QED  BY <1>1, <1>2

LEMMA RemovalsTell ==
  ASSUME NetTypeOK, NEW gone \in SUBSET {device.net}, gone \subseteq Networks
  PROVE  /\ Removals(gone) \in Seq(Signals)
         /\ Free(Removals(gone), StateChanges) /\ Free(Removals(gone), Tells("NewConnection"))
         /\ \A m \in gone : ~Free(Removals(gone), TellsOf("ConnectionRemoved", m))
         /\ \A m \in Networks \ gone : Free(Removals(gone), TellsOf("ConnectionRemoved", m))
<1>1. CASE gone = {}
  <2>1. Removals(gone) = <<>>
    BY <1>1 DEF Removals
  <2>2. <<>> \in Seq(Signals) /\ \A S : Free(<<>>, S)
    BY FreeOfOne
  <2>3. /\ Removals(gone) \in Seq(Signals)
        /\ Free(Removals(gone), StateChanges) /\ Free(Removals(gone), Tells("NewConnection"))
    BY <2>1, <2>2
  <2>4. \A m \in Networks : Free(Removals(gone), TellsOf("ConnectionRemoved", m))
    BY <2>1, <2>2
  <2>. QED  BY <1>1, <2>3, <2>4
<1>2. CASE gone # {}
  <2>. DEFINE s == Event("ConnectionRemoved", device.net)
  <2>1. gone = {device.net} /\ Removals(gone) = <<s>> /\ device.net \in Networks
    BY <1>2 DEF Removals
  <2>2. s \in Signals /\ s.new = "ConnectionRemoved" /\ s.of = device.net /\ s \notin StateChanges
    BY <2>1, SignalKinds
  <2>3. s \notin Tells("NewConnection") /\ \A m \in Networks : s \in TellsOf("ConnectionRemoved", m) <=> m = device.net
    BY <2>2 DEF Tells, TellsOf
  <2>. HIDE DEF s
  <2>4. Removals(gone) \in Seq(Signals)
    BY <2>1, <2>2, OneSignal, Zenon
  <2>5. \A S : Free(<<s>>, S) <=> s \notin S
    BY FreeOfOne
  <2>6. Free(Removals(gone), StateChanges) /\ Free(Removals(gone), Tells("NewConnection"))
    BY <2>1, <2>2, <2>3, <2>5
  <2>7. \A m \in Networks : Free(<<s>>, TellsOf("ConnectionRemoved", m)) <=> m # device.net
    BY <2>3, <2>5
  <2>. QED  BY <2>1, <2>4, <2>6, <2>7
<1>. QED  BY <1>1, <1>2

\* The device goes over to network n.
LEMMA ActivatesEffect ==
  ASSUME NetTypeOK, DeviceFits, NEW n \in Networks, NEW announced,
         \/ announced = <<>> /\ n \in saved
         \/ announced = <<Event("NewConnection", n)>>,
         Activates(n, announced)
  PROVE  /\ NetTypeOK' /\ DeviceFits' /\ device'.state = "PREPARE"
         /\ \E r \in Seq(Signals) : bus' = bus \o r /\ TellsConnections(r)
<1>. DEFINE gone == GoesWithDevice \ {n}
            ev == Event("NewConnection", n)
            s == Signal("PREPARE", "DISCONNECTED", "NONE", n)
<1>1. PICK late \in BOOLEAN :
        /\ Sends(announced \o Leaving(late) \o Removals(gone) \o <<s>>)
        /\ IF late THEN device # Off /\ Fault ELSE UNCHANGED netFaults
  BY Zenon DEF Activates
<1>2. /\ device' = [state |-> "PREPARE", net |-> n]
      /\ saved' = (saved \ gone) \cup {n}
      /\ volatile' = (IF announced = <<>> THEN volatile ELSE volatile \cup {n}) \ gone
  BY DEF Activates
<1>3. gone \subseteq {device.net} /\ gone \subseteq Networks /\ n \notin gone /\ gone \subseteq saved
  BY DEF GoesWithDevice, NetTypeOK
<1>4. /\ Leaving(late) \in Seq(Signals)
      /\ \A m \in Networks : Free(Leaving(late), TellsOf("ConnectionRemoved", m))
  BY LeavingTells
<1>5. /\ Removals(gone) \in Seq(Signals)
      /\ \A m \in gone : ~Free(Removals(gone), TellsOf("ConnectionRemoved", m))
      /\ \A m \in Networks \ gone : Free(Removals(gone), TellsOf("ConnectionRemoved", m))
  BY <1>3, RemovalsTell
<1>6. <<s>> \in Seq(Signals) /\ \A m \in Networks : Free(<<s>>, TellsOf("ConnectionRemoved", m))
  <2>1. s \in Signals /\ s \in StateChanges
    BY SignalKinds DEF States
  <2>2. \A m \in Networks : s \notin TellsOf("ConnectionRemoved", m)
    BY <2>1, SignalKinds
  <2>. HIDE DEF s
  <2>. QED  BY <2>1, <2>2, FreeOfOne
<1>7. /\ announced \in Seq(Signals) /\ \A m \in Networks : Free(announced, TellsOf("ConnectionRemoved", m))
      /\ announced # <<>> => EndsIn(announced, TellsOf("NewConnection", n), TellsOf("ConnectionRemoved", n))
  <2>1. ev \in Signals /\ ev.new = "NewConnection" /\ ev.of = n
    BY SignalKinds
  <2>2. ev \in TellsOf("NewConnection", n) /\ \A m \in Networks : ev \notin TellsOf("ConnectionRemoved", m)
    BY <2>1 DEF TellsOf, Tells
  <2>3. announced = <<>> \/ announced = <<ev>>
    OBVIOUS
  <2>. HIDE DEF ev
  <2>4. CASE announced = <<>>
    BY <2>4, FreeOfOne
  <2>5. CASE announced = <<ev>>
    <3>1. <<ev>> \in Seq(Signals) /\ \A m \in Networks : Free(<<ev>>, TellsOf("ConnectionRemoved", m))
      BY <2>1, <2>2, FreeOfOne, OneSignal, Zenon
    <3>2. EndsIn(<<ev>>, TellsOf("NewConnection", n), TellsOf("ConnectionRemoved", n))
      BY <2>2, EndsOfOne
    <3>. QED  BY <2>5, <3>1, <3>2, Zenon
  <2>. QED  BY <2>3, <2>4, <2>5
<1>. DEFINE q1 == announced \o Leaving(late)
            q2 == q1 \o Removals(gone)
            r == q2 \o <<s>>
<1>. HIDE DEF gone, s, ev
<1>8. q1 \in Seq(Signals) /\ q2 \in Seq(Signals) /\ r \in Seq(Signals)
  <2>1. q1 \in Seq(Signals)
    BY <1>4, <1>7, FreeOf
  <2>. HIDE DEF q1
  <2>2. q2 \in Seq(Signals)
    BY <1>5, <2>1, FreeOf
  <2>. HIDE DEF q2
  <2>. QED  BY <1>6, <2>1, <2>2, FreeOf
<1>9. ASSUME NEW S PROVE Free(r, S) <=> (Free(announced, S) /\ Free(Leaving(late), S) /\ Free(Removals(gone), S) /\ Free(<<s>>, S))
  <2>1. Free(q1, S) <=> (Free(announced, S) /\ Free(Leaving(late), S))
    BY <1>4, <1>7, FreeOf
  <2>. HIDE DEF q1
  <2>2. Free(q2, S) <=> (Free(q1, S) /\ Free(Removals(gone), S))
    BY <1>5, <1>8, FreeOf
  <2>. HIDE DEF q2
  <2>3. Free(r, S) <=> (Free(q2, S) /\ Free(<<s>>, S))
    BY <1>6, <1>8, FreeOf
  <2>. QED  BY <2>1, <2>2, <2>3
<1>10. bus' = bus \o r /\ Len(bus') <= MaxBus
  BY <1>1 DEF Sends
<1>11. ASSUME announced # <<>> PROVE EndsIn(r, TellsOf("NewConnection", n), TellsOf("ConnectionRemoved", n))
  <2>. DEFINE F == TellsOf("NewConnection", n)  S == TellsOf("ConnectionRemoved", n)
  <2>1. EndsIn(announced, F, S) /\ Free(Leaving(late), S) /\ Free(Removals(gone), S) /\ Free(<<s>>, S)
    BY <1>3, <1>4, <1>5, <1>6, <1>7, <1>11
  <2>. HIDE DEF F, S
  <2>2. EndsIn(q1, F, S)
    BY <2>1, <1>4, <1>7, EndsOf
  <2>. HIDE DEF q1
  <2>3. EndsIn(q2, F, S)
    BY <2>1, <2>2, <1>5, <1>8, EndsOf
  <2>. HIDE DEF q2
  <2>4. EndsIn(r, F, S)
    BY <2>1, <2>3, <1>6, <1>8, EndsOf
  <2>. QED  BY <2>4 DEF F, S
<1>. HIDE DEF r
<1>12. TellsConnections(r)
  <2>. SUFFICES ASSUME NEW m \in Networks
       PROVE  /\ m \in saved \ saved' => ~Free(r, TellsOf("ConnectionRemoved", m))
              /\ m \in saved' => \/ Free(r, TellsOf("ConnectionRemoved", m))
                                 \/ EndsIn(r, TellsOf("NewConnection", m), TellsOf("ConnectionRemoved", m))
              /\ m \in saved' \ saved => EndsIn(r, TellsOf("NewConnection", m), TellsOf("ConnectionRemoved", m))
    BY Zenon DEF TellsConnections
  <2>1. m \in saved \ saved' => m \in gone
    BY <1>2
  <2>2. m \in saved' => m \notin gone
    BY <1>2, <1>3
  <2>3. m \in saved' \ saved => m = n /\ announced # <<>>
    BY <1>2
  <2>4. m \in gone => ~Free(r, TellsOf("ConnectionRemoved", m))
    BY <1>5, <1>9
  <2>5. m \notin gone => Free(r, TellsOf("ConnectionRemoved", m))
    BY <1>4, <1>5, <1>6, <1>7, <1>9
  <2>. QED  BY <2>1, <2>2, <2>3, <2>4, <2>5, <1>11
<1>13. NetTypeOK'
  <2>1. bus' \in Seq(Signals)
    BY <1>8, <1>10, FreeOf DEF NetTypeOK
  <2>2. netFaults' \in 0 .. MaxNetFaults
    BY <1>1, NetworkAssumption DEF NetTypeOK, Fault
  <2>3. device' \in [state : States, net : Networks \cup {NoNetwork}]
    BY <1>2 DEF States
  <2>4. volatile' \subseteq saved' /\ saved' \subseteq Networks
    BY <1>2, <1>3 DEF NetTypeOK
  <2>. QED  BY <2>1, <2>2, <2>3, <2>4 DEF NetTypeOK
<1>14. DeviceFits' /\ device'.state = "PREPARE"
  BY <1>2, NetworkAssumption DEF DeviceFits
<1>. QED  BY <1>8, <1>10, <1>12, <1>13, <1>14

\* The connection of network n is deleted.
LEMMA DeletesEffect ==
  ASSUME NetTypeOK, DeviceFits, NEW n \in Networks, Deletes(n)
  PROVE  /\ NetTypeOK' /\ DeviceFits'
         /\ \E r \in Seq(Signals) :
              /\ bus' = bus \o r /\ TellsConnections(r)
              /\ \/ device' = Off /\ EndsIn(r, TurnsOff, StateChanges)
                 \/ device' = device /\ Free(r, StateChanges) /\ Free(r, Tells("NewConnection"))
<1>. DEFINE s == Event("ConnectionRemoved", n)
            u == Signal("DEACTIVATING", device.state, "CONNECTION_REMOVED", n)
            v == Signal("DISCONNECTED", "DEACTIVATING", "CONNECTION_REMOVED", n)
            off == <<u, v>>
<1>1. n \in saved /\ saved' = saved \ {n} /\ volatile' = volatile \ {n} /\ UNCHANGED netFaults
  BY Zenon DEF Deletes
<1>2. \/ device.net = n /\ device' = Off /\ (Sends(<<s>> \o off) \/ Sends(off \o <<s>>))
      \/ device.net # n /\ device' = device /\ Sends(<<s>>)
  BY DEF Deletes
<1>3. s \in Signals /\ s \notin StateChanges /\ s \notin Tells("NewConnection") /\ s \in TellsOf("ConnectionRemoved", n)
      /\ \A m \in Networks \ {n} : s \notin TellsOf("ConnectionRemoved", m)
  <2>1. s \in Signals /\ s \notin StateChanges /\ s.new = "ConnectionRemoved" /\ s.of = n
    BY SignalKinds
  <2>. QED  BY <2>1 DEF Tells, TellsOf
<1>4. u \in StateChanges /\ v \in StateChanges /\ u \in Signals /\ v \in Signals
  BY SignalKinds DEF NetTypeOK
<1>5. v \in TurnsOff
  <2>1. v.new = "DISCONNECTED" /\ v.reason = "CONNECTION_REMOVED"
    BY SignalKinds
  <2>. QED  BY <1>4, <2>1 DEF TurnsOff
<1>. HIDE DEF s, u, v
<1>6. off = <<u>> \o <<v>>
  BY <1>4, TwoSignals
<1>. HIDE DEF off
<1>7. <<s>> \in Seq(Signals) /\ <<u>> \in Seq(Signals) /\ <<v>> \in Seq(Signals) /\ off \in Seq(Signals)
  <2>1. <<s>> \in Seq(Signals) /\ <<u>> \in Seq(Signals) /\ <<v>> \in Seq(Signals)
    BY <1>3, <1>4, OneSignal
  <2>2. <<u>> \o <<v>> \in Seq(Signals)
    BY <2>1, FreeOf
  <2>. QED  BY <1>6, <2>1, <2>2
<1>8. \A m \in Networks : Free(off, TellsOf("ConnectionRemoved", m))
  <2>1. \A m \in Networks : Free(<<u>>, TellsOf("ConnectionRemoved", m)) /\ Free(<<v>>, TellsOf("ConnectionRemoved", m))
    BY <1>4, SignalKinds, FreeOfOne
  <2>2. \A m \in Networks : Free(<<u>> \o <<v>>, TellsOf("ConnectionRemoved", m))
    BY <2>1, <1>7, FreeOf
  <2>. QED  BY <2>2, <1>6
<1>9. EndsIn(off, TurnsOff, StateChanges)
  <2>1. EndsIn(<<v>>, TurnsOff, StateChanges)
    BY <1>5, EndsOfOne
  <2>2. EndsIn(<<u>> \o <<v>>, TurnsOff, StateChanges)
    BY <2>1, <1>7, EndsOf
  <2>. QED  BY <2>2, <1>6
<1>10. /\ Free(<<s>>, StateChanges) /\ Free(<<s>>, Tells("NewConnection"))
       /\ ~Free(<<s>>, TellsOf("ConnectionRemoved", n))
       /\ \A m \in Networks \ {n} : Free(<<s>>, TellsOf("ConnectionRemoved", m))
  BY <1>3, FreeOfOne
<1>11. \E r \in Seq(Signals) :
          /\ bus' = bus \o r /\ Len(bus') <= MaxBus
          /\ \A m \in Networks : Free(r, TellsOf("ConnectionRemoved", m)) <=> m # n
          /\ \/ device.net = n /\ device' = Off /\ EndsIn(r, TurnsOff, StateChanges)
             \/ device.net # n /\ device' = device /\ Free(r, StateChanges) /\ Free(r, Tells("NewConnection"))
  <2>1. CASE device.net = n /\ device' = Off /\ Sends(<<s>> \o off)
    <3>1. <<s>> \o off \in Seq(Signals)
      BY <1>7, FreeOf
    <3>2. EndsIn(<<s>> \o off, TurnsOff, StateChanges)
      BY <1>7, <1>9, EndsOf
    <3>3. \A m \in Networks : Free(<<s>> \o off, TellsOf("ConnectionRemoved", m)) <=> Free(<<s>>, TellsOf("ConnectionRemoved", m))
      BY <1>7, <1>8, FreeOf
    <3>4. \A m \in Networks : Free(<<s>> \o off, TellsOf("ConnectionRemoved", m)) <=> m # n
      BY <1>10, <3>3
    <3>. QED  BY <2>1, <3>1, <3>2, <3>4, Zenon DEF Sends
  <2>2. CASE device.net = n /\ device' = Off /\ Sends(off \o <<s>>)
    <3>1. off \o <<s>> \in Seq(Signals)
      BY <1>7, FreeOf
    <3>2. EndsIn(off \o <<s>>, TurnsOff, StateChanges)
      BY <1>7, <1>9, <1>10, EndsOf
    <3>3. ASSUME NEW m \in Networks
          PROVE  Free(off \o <<s>>, TellsOf("ConnectionRemoved", m)) <=> Free(<<s>>, TellsOf("ConnectionRemoved", m))
      <4>1. Free(off \o <<s>>, TellsOf("ConnectionRemoved", m))
            <=> (Free(off, TellsOf("ConnectionRemoved", m)) /\ Free(<<s>>, TellsOf("ConnectionRemoved", m)))
        BY <1>7, FreeOf
      <4>. QED  BY <1>8, <4>1
    <3>4. \A m \in Networks : Free(off \o <<s>>, TellsOf("ConnectionRemoved", m)) <=> m # n
      BY <1>10, <3>3
    <3>. QED  BY <2>2, <3>1, <3>2, <3>4, Zenon DEF Sends
  <2>3. CASE device.net # n /\ device' = device /\ Sends(<<s>>)
    <3>1. \A m \in Networks : Free(<<s>>, TellsOf("ConnectionRemoved", m)) <=> m # n
      BY <1>10
    <3>. QED  BY <1>7, <1>10, <2>3, <3>1, Zenon DEF Sends
  <2>. QED  BY <1>2, <2>1, <2>2, <2>3
<1>12. PICK r \in Seq(Signals) :
          /\ bus' = bus \o r /\ Len(bus') <= MaxBus
          /\ \A m \in Networks : Free(r, TellsOf("ConnectionRemoved", m)) <=> m # n
          /\ \/ device.net = n /\ device' = Off /\ EndsIn(r, TurnsOff, StateChanges)
             \/ device.net # n /\ device' = device /\ Free(r, StateChanges) /\ Free(r, Tells("NewConnection"))
  BY <1>11
<1>13. TellsConnections(r)
  BY <1>1, <1>12 DEF TellsConnections
<1>14. NetTypeOK'
  <2>1. bus' \in Seq(Signals)
    BY <1>12, FreeOf DEF NetTypeOK
  <2>2. device' \in [state : States, net : Networks \cup {NoNetwork}]
    BY <1>12 DEF NetTypeOK, Off, States
  <2>. QED  BY <1>1, <2>1, <2>2 DEF NetTypeOK
<1>15. DeviceFits'
  BY <1>1, <1>12, NetworkAssumption DEF DeviceFits, Off
<1>. QED  BY <1>12, <1>13, <1>14, <1>15

\* The device is off after it, and the manager is told so.
LEMMA GoesOffEffect ==
  ASSUME NetTypeOK, DeviceFits, device.net \in Networks, netFaults' \in 0 .. MaxNetFaults,
         NEW before \in Seq(Signals), \A m \in Networks : Free(before, TellsOf("ConnectionRemoved", m)),
         GoesOff(before)
  PROVE  /\ NetTypeOK' /\ DeviceFits'
         /\ \E r \in Seq(Signals) :
              /\ bus' = bus \o r /\ TellsConnections(r)
              /\ device' = Off /\ EndsIn(r, TurnsOff, StateChanges)
<1>. DEFINE gone == GoesWithDevice
            s == Signal("DISCONNECTED", "FAILED", "NONE", device.net)
            q == before \o <<s>>
            r == q \o Removals(gone)
<1>1. bus' = bus \o r /\ Len(bus') <= MaxBus /\ device' = Off /\ saved' = saved \ gone /\ volatile' = volatile \ {device.net}
  BY DEF GoesOff, Sends
<1>2. gone \in SUBSET {device.net} /\ gone \subseteq Networks /\ gone = volatile \cap {device.net}
  BY DEF GoesWithDevice
<1>3. /\ Removals(gone) \in Seq(Signals) /\ Free(Removals(gone), StateChanges)
      /\ \A m \in gone : ~Free(Removals(gone), TellsOf("ConnectionRemoved", m))
      /\ \A m \in Networks \ gone : Free(Removals(gone), TellsOf("ConnectionRemoved", m))
  BY <1>2, RemovalsTell
<1>4. s \in Signals /\ s \in StateChanges /\ s \in TurnsOff
  <2>1. s \in Signals /\ s \in StateChanges /\ s.new = "DISCONNECTED" /\ s.reason = "NONE"
    BY SignalKinds
  <2>. QED  BY <2>1 DEF TurnsOff
<1>5. \A m \in Networks : s \notin TellsOf("ConnectionRemoved", m)
  BY <1>4, SignalKinds
<1>. HIDE DEF s, gone
<1>6. <<s>> \in Seq(Signals) /\ EndsIn(<<s>>, TurnsOff, StateChanges)
      /\ \A m \in Networks : Free(<<s>>, TellsOf("ConnectionRemoved", m))
  BY <1>4, <1>5, OneSignal, FreeOfOne, EndsOfOne
<1>7. q \in Seq(Signals) /\ EndsIn(q, TurnsOff, StateChanges)
      /\ \A m \in Networks : Free(q, TellsOf("ConnectionRemoved", m))
  BY <1>6, FreeOf, EndsOf
<1>. HIDE DEF q
<1>8. /\ r \in Seq(Signals) /\ EndsIn(r, TurnsOff, StateChanges)
      /\ \A m \in Networks : Free(r, TellsOf("ConnectionRemoved", m)) <=> m \notin gone
  <2>1. r \in Seq(Signals)
    BY <1>3, <1>7, FreeOf
  <2>2. EndsIn(r, TurnsOff, StateChanges)
    BY <1>3, <1>7, EndsOf
  <2>3. \A m \in Networks : Free(r, TellsOf("ConnectionRemoved", m)) <=> Free(Removals(gone), TellsOf("ConnectionRemoved", m))
    BY <1>3, <1>7, FreeOf
  <2>. QED  BY <1>2, <1>3, <2>1, <2>2, <2>3
<1>. HIDE DEF r
<1>9. TellsConnections(r)
  BY <1>1, <1>8 DEF TellsConnections
<1>10. NetTypeOK'
  <2>1. bus' \in Seq(Signals)
    BY <1>1, <1>8, FreeOf DEF NetTypeOK
  <2>2. device' \in [state : States, net : Networks \cup {NoNetwork}]
    BY <1>1 DEF NetTypeOK, Off, States
  <2>. QED  BY <1>1, <1>2, <2>1, <2>2 DEF NetTypeOK
<1>11. DeviceFits'
  BY <1>1, NetworkAssumption DEF DeviceFits, Off
<1>. QED  BY <1>1, <1>8, <1>9, <1>10, <1>11

LEMMA FailureEffect ==
  ASSUME NetTypeOK, DeviceFits, Refuses \/ NetworkLost
  PROVE  /\ NetTypeOK' /\ DeviceFits'
         /\ \E r \in Seq(Signals) :
              /\ bus' = bus \o r /\ TellsConnections(r)
              /\ device' = Off /\ EndsIn(r, TurnsOff, StateChanges)
<1>. DEFINE s == Signal("FAILED", "NEED_AUTH", "NO_SECRETS", device.net)
            u == Signal("NEED_AUTH", "CONFIG", "SUPPLICANT_DISCONNECT", device.net)
            v == Signal("FAILED", device.state, "NONE", device.net)
<1>1. /\ device.state # "DISCONNECTED" /\ Fault
      /\ GoesOff(<<u>> \o <<s>>) \/ GoesOff(<<s>>) \/ GoesOff(<<v>>)
  BY DEF Refuses, NetworkLost
<1>2. device.net \in Networks /\ netFaults' \in 0 .. MaxNetFaults
  BY <1>1, NetworkAssumption DEF DeviceFits, NetTypeOK, Fault
<1>3. {s, u, v} \subseteq Signals /\ {s, u, v} \subseteq StateChanges
  BY <1>2, SignalKinds DEF NetTypeOK, States
<1>. HIDE DEF s, u, v
<1>4. ASSUME NEW x \in {s, u, v} PROVE <<x>> \in Seq(Signals) /\ \A m \in Networks : Free(<<x>>, TellsOf("ConnectionRemoved", m))
  <2>1. x \in Signals /\ \A m \in Networks : x \notin TellsOf("ConnectionRemoved", m)
    BY <1>3, SignalKinds
  <2>. QED  BY <2>1, OneSignal, FreeOfOne
<1>5. <<u>> \o <<s>> \in Seq(Signals) /\ \A m \in Networks : Free(<<u>> \o <<s>>, TellsOf("ConnectionRemoved", m))
  BY <1>4, FreeOf
<1>. QED  BY <1>1, <1>2, <1>4, <1>5, GoesOffEffect

LEMMA TailConcat ==
  ASSUME NEW q \in Seq(Signals), q # <<>>, NEW r \in Seq(Signals)
  PROVE  q \o r # <<>> /\ Head(q \o r) = Head(q) /\ Tail(q \o r) = Tail(q) \o r
<1>1. /\ q \o r \in Seq(Signals) /\ Len(q \o r) = Len(q) + Len(r)
      /\ Len(q) \in Nat \ {0} /\ Len(r) \in Nat
      /\ \A i \in 1 .. Len(q) : (q \o r)[i] = q[i]
      /\ \A i \in 1 .. Len(r) : (q \o r)[Len(q) + i] = r[i]
  BY ConcatProperties, LenProperties, EmptySeq, SMT
<1>2. q \o r # <<>>
  BY ConcatEqualIffEmpty
<1>3. /\ Tail(q) \in Seq(Signals) /\ Len(Tail(q)) = Len(q) - 1 /\ Head(q) = q[1]
      /\ \A i \in 1 .. Len(Tail(q)) : Tail(q)[i] = q[i + 1]
  BY HeadTailProperties
<1>. DEFINE w == q \o r
<1>. HIDE DEF w
<1>4. /\ Tail(w) \in Seq(Signals) /\ Len(Tail(w)) = Len(w) - 1 /\ Head(w) = w[1]
      /\ \A i \in 1 .. Len(Tail(w)) : Tail(w)[i] = w[i + 1]
  BY <1>1, <1>2, HeadTailProperties DEF w
<1>5. /\ Tail(q) \o r \in Seq(Signals) /\ Len(Tail(q) \o r) = Len(q) - 1 + Len(r)
      /\ \A i \in 1 .. (Len(q) - 1) : (Tail(q) \o r)[i] = Tail(q)[i]
      /\ \A i \in 1 .. Len(r) : (Tail(q) \o r)[Len(q) - 1 + i] = r[i]
  BY <1>3, ConcatProperties
<1>. DEFINE v == Tail(q) \o r
<1>. HIDE DEF v
<1>6. Len(Tail(w)) = Len(v) /\ Len(v) = Len(q) - 1 + Len(r)
  BY <1>1, <1>4, <1>5 DEF w, v
<1>7. ASSUME NEW i \in 1 .. Len(Tail(w)) PROVE Tail(w)[i] = v[i]
  <2>1. i \in 1 .. (Len(q) - 1 + Len(r)) /\ Tail(w)[i] = w[i + 1]
    BY <1>4, <1>6
  <2>2. CASE i \in 1 .. (Len(q) - 1)
    <3>1. i + 1 \in 1 .. Len(q)
      BY <1>1, <2>2
    <3>2. w[i + 1] = q[i + 1]
      BY <1>1, <3>1 DEF w
    <3>3. v[i] = Tail(q)[i]
      BY <1>5, <2>2 DEF v
    <3>4. Tail(q)[i] = q[i + 1]
      BY <1>3, <2>2
    <3>. QED  BY <2>1, <3>2, <3>3, <3>4
  <2>3. CASE i \notin 1 .. (Len(q) - 1)
    <3>. DEFINE j == i + 1 - Len(q)
    <3>1. j \in 1 .. Len(r) /\ Len(q) + j = i + 1 /\ Len(q) - 1 + j = i
      BY <1>1, <2>1, <2>3
    <3>. HIDE DEF j
    <3>2. w[i + 1] = r[j]
      BY <1>1, <3>1 DEF w
    <3>3. v[i] = r[j]
      BY <1>5, <3>1 DEF v
    <3>. QED  BY <2>1, <3>2, <3>3
  <2>. QED  BY <2>2, <2>3
<1>8. Tail(w) = v
  BY <1>4, <1>5, <1>6, <1>7, SeqEqual DEF v
<1>9. Head(w) = Head(q)
  <2>1. 1 \in 1 .. Len(q)
    BY <1>1
  <2>. QED  BY <1>1, <1>3, <1>4, <2>1 DEF w
<1>. QED  BY <1>2, <1>8, <1>9 DEF w, v

\* Where a sequence ends with a signal of F, it is not free of F.
LEMMA EndsIsNotFree ==
  ASSUME NEW q, NEW F, NEW S, NEW T, EndsIn(q, F, S), F \subseteq T
  PROVE  ~Free(q, T)
BY DEF EndsIn, Free

KnownRightly == \A n \in Networks : KnownInTime(n) /\ ForgottenInTime(n)

\* What is told of the connections is still on its way.
LEMMA ConnectionsTold ==
  ASSUME KnownRightly, bus \in Seq(Signals), NEW r \in Seq(Signals), bus' = bus \o r,
         TellsConnections(r), UNCHANGED <<connections, conn_q>>
  PROVE  KnownRightly'
<1>. SUFFICES ASSUME NEW n \in Networks PROVE KnownInTime(n)' /\ ForgottenInTime(n)'
  BY DEF KnownRightly
<1>. DEFINE S == TellsOf("ConnectionRemoved", n)  F == TellsOf("NewConnection", n)
<1>1. /\ n \in saved \ saved' => ~Free(r, S)
      /\ n \in saved' => Free(r, S) \/ EndsIn(r, F, S)
      /\ n \in saved' \ saved => EndsIn(r, F, S)
  BY DEF TellsConnections
<1>2. /\ n \in saved => EndsIn(bus, F, S) \/ (Free(bus, S) /\ (n \in conn_q.new \/ n \in connections \ conn_q.removed))
      /\ n \in connections \ saved => n \in conn_q.removed \/ ~Free(bus, S)
  BY DEF KnownRightly, KnownInTime, ForgottenInTime
<1>3. (S \subseteq Signals /\ F \subseteq Signals) /\ S' = S /\ F' = F
  BY DEF TellsOf, Tells
<1>. HIDE DEF S, F
<1>4. /\ Free(bus \o r, S) <=> (Free(bus, S) /\ Free(r, S))
      /\ EndsIn(r, F, S) => EndsIn(bus \o r, F, S)
      /\ EndsIn(bus, F, S) /\ Free(r, S) => EndsIn(bus \o r, F, S)
  BY FreeOf, EndsOf
<1>5. n \in saved' => EndsIn(bus', F, S) \/ (Free(bus', S) /\ (n \in conn_q'.new \/ n \in connections' \ conn_q'.removed))
  BY <1>1, <1>2, <1>4
<1>6. n \in connections' \ saved' => n \in conn_q'.removed \/ ~Free(bus', S)
  BY <1>1, <1>2, <1>4
<1>. QED  BY <1>5, <1>6 DEF KnownInTime, ForgottenInTime, S, F

\* A device that is off has told so, or does with r.
LEMMA OffTold ==
  ASSUME bus \in Seq(Signals), NEW r \in Seq(Signals), bus' = bus \o r,
         device' = Off, EndsIn(r, TurnsOff, StateChanges)
  PROVE  OffIsShown' /\ ConnectionIsShown'
<1>1. EndsIn(bus', TurnsOff, StateChanges)
  BY EndsOf
<1>2. device'.state = "DISCONNECTED"
  BY DEF Off
<1>. QED  BY <1>1, <1>2 DEF OffIsShown, ConnectionIsShown

LEMMA PreparingShowsNothing ==
  ASSUME device'.state = "PREPARE"
  PROVE  OffIsShown' /\ ConnectionIsShown'
BY DEF OffIsShown, ConnectionIsShown

\* The state shown is as true as before, if what can still change it is.
LEMMA ShownKeeps ==
  ASSUME OffIsShown, ConnectionIsShown, bus \in Seq(Signals), NEW r \in Seq(Signals), bus' = bus \o r,
         Free(r, StateChanges), Free(r, Tells("NewConnection")),
         UNCHANGED <<device, state_q, conn_q, monitor>>,
         Quiet' => Quiet /\ UNCHANGED <<wifi_state, ignored>> /\ (Monitor \in user_epoch => Monitor \in user_epoch')
  PROVE  OffIsShown' /\ ConnectionIsShown'
<1>1. /\ Free(bus', StateChanges) <=> Free(bus, StateChanges)
      /\ Free(bus', Tells("NewConnection")) <=> Free(bus, Tells("NewConnection"))
      /\ EndsIn(bus, TurnsOff, StateChanges) => EndsIn(bus', TurnsOff, StateChanges)
  BY FreeOf, EndsOf
<1>2. OffIsShown'
  BY <1>1 DEF OffIsShown
<1>3. ASSUME Announced PROVE Announced'
  <2>1. bus # <<>> /\ Head(bus) \in Tells("ACTIVATED") /\ Free(Tail(bus), StateChanges)
        /\ monitor.at = "listen" /\ state_q = <<>>
    BY <1>3 DEF Announced
  <2>2. bus' # <<>> /\ Head(bus') = Head(bus) /\ Tail(bus') = Tail(bus) \o r
    BY <2>1, TailConcat
  <2>3. Tail(bus) \in Seq(Signals)
    BY <2>1, HeadTailProperties
  <2>4. Free(Tail(bus) \o r, StateChanges)
    BY <2>1, <2>3, FreeOf
  <2>. QED  BY <2>1, <2>2, <2>4 DEF Announced
<1>4. ConnectionIsShown'
  BY <1>1, <1>3 DEF ConnectionIsShown
<1>. QED  BY <1>2, <1>4

\* A step that sends nothing sends the empty sequence.
LEMMA NothingTold ==
  ASSUME bus \in Seq(Signals), UNCHANGED <<bus, saved>>
  PROVE  /\ <<>> \in Seq(Signals) /\ bus' = bus \o <<>> /\ TellsConnections(<<>>)
         /\ Free(<<>>, StateChanges) /\ Free(<<>>, Tells("NewConnection"))
<1>1. bus' = bus \o <<>> /\ <<>> \in Seq(Signals)
  BY ConcatEmptySeq
<1>. QED  BY <1>1, FreeOfOne DEF TellsConnections

-----------------------------------------------------------------------------
(* The type, in three parts, and the invariant. A worker that is to connect  *)
(* to a network has one.                                                     *)

Ops == {"done", "connect", "add", "activate", "forget", "init", "lookup", "write"}
Jobs == [op : Ops, ssid : Networks \cup {NoNetwork}, read : [state : States, net : Networks \cup {NoNetwork}]]

ViewTypeOK ==
    /\ wifi_state \in Shown /\ overtaken \in BOOLEAN /\ ignored \in BOOLEAN
    /\ user_epoch \subseteq Threads \cup {Monitor}

MonitorTypeOK ==
    /\ connections \subseteq Networks
    /\ state_q \in Seq(Signals) /\ conn_q \in [removed : SUBSET Networks, new : SUBSET Networks]
    /\ monitor \in [at : {"listen", "lookup", "write", "save"}, was : Shown, net : Networks \cup {NoNetwork}]

WorkTypeOK ==
    /\ worker \in [Threads -> Jobs] /\ taps \in 0 .. MaxTaps
    /\ \A t \in Threads : worker[t].op \in {"connect", "add"} => worker[t].ssid \in Networks

WifiInv ==
    /\ NetTypeOK /\ ViewTypeOK /\ MonitorTypeOK /\ WorkTypeOK
    /\ DeviceFits /\ KnownRightly /\ OffIsShown /\ ConnectionIsShown

LEMMA ShownStates ==
  /\ Nothing \in Shown /\ \A n \in Networks \cup {NoNetwork} : Connecting(n) \in Shown
  /\ Listening \in [at : {"listen", "lookup", "write", "save"}, was : Shown, net : Networks \cup {NoNetwork}]
  /\ NoConn \in [removed : SUBSET Networks, new : SUBSET Networks]
  /\ Done \in Jobs
BY DEF Nothing, Connecting, Shown, Listening, NoConn, Done, Jobs, Ops, Off, States

\* A step of a worker, or of the user, that leaves the network and the monitor alone.
LEMMA UnseenKeepsInv ==
  ASSUME WifiInv, ViewTypeOK', WorkTypeOK',
         UNCHANGED <<netVars, connections, state_q, conn_q, monitor>>,
         Quiet' => Quiet /\ UNCHANGED <<wifi_state, ignored>> /\ (Monitor \in user_epoch => Monitor \in user_epoch')
  PROVE  WifiInv'
<1>1. NetTypeOK' /\ DeviceFits' /\ MonitorTypeOK'
  BY DEF WifiInv, netVars, NetTypeOK, DeviceFits, MonitorTypeOK
<1>2. bus \in Seq(Signals) /\ UNCHANGED <<bus, saved, device>>
  BY DEF WifiInv, NetTypeOK, netVars
<1>3. KnownRightly'
  BY <1>2, NothingTold, ConnectionsTold DEF WifiInv
<1>4. OffIsShown' /\ ConnectionIsShown'
  BY <1>2, NothingTold, ShownKeeps DEF WifiInv
<1>. QED  BY <1>1, <1>3, <1>4 DEF WifiInv

\* The user sets a worker to do op with network n.
LEMMA StartsEffect ==
  ASSUME WifiInv, NEW n \in Networks \cup {NoNetwork}, NEW op \in {"connect", "activate", "forget", "init"},
         op = "connect" => n \in Networks, Starts(op, n)
  PROVE  /\ WorkTypeOK' /\ UNCHANGED <<netVars, connections, state_q, conn_q, monitor>>
         /\ op # "forget" => ~Quiet'
         /\ op = "forget" /\ ShowsSame /\ Quiet' => Quiet
<1>. DEFINE given == [Done EXCEPT !.op = op, !.ssid = n]
<1>1. /\ taps < MaxTaps /\ taps' = taps + 1
      /\ UNCHANGED <<netVars, connections, state_q, conn_q, monitor>>
  BY Zenon DEF Starts
<1>2. PICK t \in Threads : worker[t] = Done /\ worker' = [worker EXCEPT ![t] = given]
  BY Zenon DEF Starts
<1>3. given \in Jobs /\ given.op = op /\ given.ssid = n
  BY DEF Done, Jobs, Ops, Off, States
<1>. HIDE DEF given
<1>4. worker \in [Threads -> Jobs]
  BY DEF WifiInv, WorkTypeOK
<1>5. worker'[t] = given /\ \A x \in Threads : x # t => worker'[x] = worker[x]
  BY <1>2, <1>4
<1>6. WorkTypeOK'
  <2>1. worker' \in [Threads -> Jobs]
    BY <1>2, <1>3, <1>4
  <2>2. taps' \in 0 .. MaxTaps
    BY <1>1, TapsAssumption DEF WifiInv, WorkTypeOK
  <2>3. ASSUME NEW x \in Threads, worker'[x].op \in {"connect", "add"} PROVE worker'[x].ssid \in Networks
    BY <1>3, <1>5, <2>3 DEF WifiInv, WorkTypeOK
  <2>. QED  BY <2>1, <2>2, <2>3 DEF WorkTypeOK, Jobs, Ops, States
<1>7. op # "forget" => ~Quiet'
  <2>. SUFFICES ASSUME op # "forget" PROVE Acts(t)'
    BY <1>2 DEF Quiet
  <2>1. worker'[t].op \in {"connect", "add", "activate", "init", "write"}
    BY <1>3, <1>5
  <2>. QED  BY <2>1 DEF Acts
<1>8. ASSUME ShowsSame, Quiet' PROVE Quiet
  <2>1. ~overtaken /\ user_epoch' = user_epoch /\ \A x \in Threads : ~Acts(x)'
    BY <1>8 DEF ShowsSame, Quiet, history
  <2>2. ASSUME NEW x \in Threads PROVE ~Acts(x)
    <3>1. CASE x = t
      BY <1>2, <3>1 DEF Acts, Done
    <3>2. CASE x # t
      BY <1>5, <2>1, <3>2 DEF Acts
    <3>. QED  BY <3>1, <3>2
  <2>. QED  BY <2>1, <2>2 DEF Quiet
<1>. QED  BY <1>1, <1>6, <1>7, <1>8

LEMMA UserKeepsInv ==
  ASSUME WifiInv, UserActs
  PROVE  WifiInv'
<1>1. ASSUME NEW n \in Networks \cup {NoNetwork}, NEW op \in {"connect", "activate", "forget", "init"},
             op = "connect" => n \in Networks, Starts(op, n),
             (SetConnecting(Connecting(n)) /\ op # "forget") \/ ShowsSame
      PROVE  WifiInv'
  <2>1. /\ WorkTypeOK' /\ UNCHANGED <<netVars, connections, state_q, conn_q, monitor>>
        /\ op # "forget" => ~Quiet'
        /\ op = "forget" /\ ShowsSame /\ Quiet' => Quiet
    BY <1>1, StartsEffect
  <2>2. ViewTypeOK'
    BY <1>1, ShownStates DEF WifiInv, ViewTypeOK, SetConnecting, ShowsSame, history
  <2>3. Quiet' => Quiet /\ UNCHANGED <<wifi_state, ignored>> /\ (Monitor \in user_epoch => Monitor \in user_epoch')
    BY <1>1, <2>1 DEF ShowsSame, history
  <2>. QED  BY <2>1, <2>2, <2>3, UnseenKeepsInv
<1>2. CASE \E n \in Networks : ConnectToNetwork(n)
  <2>1. PICK n \in Networks : SetConnecting(Connecting(n)) /\ Starts("connect", n)
    BY <1>2, Zenon DEF ConnectToNetwork
  <2>. QED  BY <1>1, <2>1
<1>3. CASE \E n \in connections : ForgetConnection(n) \/ (wifi_state.ssid # n /\ ActivateConnection(n))
  <2>1. PICK n \in connections : \/ ShowsSame /\ Starts("forget", n)
                                 \/ SetConnecting(Connecting(n)) /\ Starts("activate", n)
    BY <1>3, Zenon DEF ForgetConnection, ActivateConnection
  <2>2. n \in Networks \cup {NoNetwork}
    BY DEF WifiInv, MonitorTypeOK
  <2>. QED  BY <1>1, <2>1, <2>2
<1>4. CASE SetActive
  BY <1>1, <1>4 DEF SetActive
<1>. QED  BY <1>2, <1>3, <1>4, Zenon DEF UserActs

-----------------------------------------------------------------------------
\* Worker t has the given j after the step.
LEMMA NextJob ==
  ASSUME WorkTypeOK, NEW t \in Threads, NEW j \in Jobs, worker' = [worker EXCEPT ![t] = j], UNCHANGED taps,
         j.op \in {"connect", "add"} => j.ssid \in Networks
  PROVE  /\ WorkTypeOK' /\ worker'[t] = j /\ \A x \in Threads : x # t => worker'[x] = worker[x]
         /\ j.op \in {"connect", "add", "activate", "init", "write"} => ~Quiet'
         /\ j.op = "lookup" /\ t \in user_epoch' => ~Quiet'
         /\ ShowsSame /\ ~Acts(t) /\ Quiet' => Quiet
<1>1. worker' \in [Threads -> Jobs] /\ worker'[t] = j /\ \A x \in Threads : x # t => worker'[x] = worker[x]
  BY DEF WorkTypeOK
<1>2. WorkTypeOK'
  <2>1. \A x \in Threads : worker'[x].op \in {"connect", "add"} => worker'[x].ssid \in Networks
    BY <1>1 DEF WorkTypeOK
  <2>. QED  BY <1>1, <2>1 DEF WorkTypeOK, Jobs, Ops, States
<1>3. (j.op \in {"connect", "add", "activate", "init", "write"} \/ (j.op = "lookup" /\ t \in user_epoch')) => ~Quiet'
  <2>1. (j.op \in {"connect", "add", "activate", "init", "write"} \/ (j.op = "lookup" /\ t \in user_epoch')) => Acts(t)'
    BY <1>1 DEF Acts
  <2>. QED  BY <2>1 DEF Quiet
<1>4. ASSUME ShowsSame, ~Acts(t), Quiet' PROVE Quiet
  <2>1. ~overtaken /\ user_epoch' = user_epoch /\ \A x \in Threads : ~Acts(x)'
    BY <1>4 DEF ShowsSame, Quiet, history
  <2>2. ASSUME NEW x \in Threads, x # t PROVE ~Acts(x)
    BY <1>1, <2>1, <2>2 DEF Acts
  <2>. QED  BY <1>4, <2>1, <2>2 DEF Quiet
<1>. QED  BY <1>1, <1>2, <1>3, <1>4

LEMMA GoesTo ==
  ASSUME WorkTypeOK, NEW t \in Threads, NEW op \in {"done", "add", "init"}, Goes(t, op), UNCHANGED taps,
         op = "add" => worker[t].ssid \in Networks
  PROVE  /\ WorkTypeOK' /\ worker'[t].op = op /\ \A x \in Threads : x # t => worker'[x] = worker[x]
         /\ op # "done" => ~Quiet'
         /\ ShowsSame /\ ~Acts(t) /\ Quiet' => Quiet
<1>. DEFINE j == IF op = "done" THEN Done ELSE [worker[t] EXCEPT !.op = op]
<1>1. worker' = [worker EXCEPT ![t] = j]
  BY DEF Goes, WorkTypeOK
<1>2. worker[t] \in Jobs
  BY DEF WorkTypeOK
<1>3. j \in Jobs /\ j.op = op /\ (op = "add" => j.ssid = worker[t].ssid)
  BY <1>2, ShownStates DEF Jobs, Ops, Done
<1>. HIDE DEF j
<1>. QED  BY <1>1, <1>3, NextJob

\* A connection is forgotten: of the device that is on it, it is told that it goes off.
LEMMA ForgetKeepsInv ==
  ASSUME WifiInv, NEW t \in Threads, Forget(t)
  PROVE  WifiInv'
<1>. DEFINE n == worker[t].ssid
            op == IF Does(t, "connect") THEN "add" ELSE "done"
<1>1. /\ IF n \in connections \cap saved THEN Deletes(n) ELSE UNCHANGED netVars
      /\ Goes(t, op) /\ ShowsSame /\ UNCHANGED <<connections, state_q, conn_q, monitor, taps>>
  BY Zenon DEF Forget, WorkerOnly
<1>2. Does(t, "connect") => worker[t].ssid \in Networks
  BY DEF WifiInv, WorkTypeOK, Does
<1>3. Does(t, "forget") => ~Acts(t)
  BY DEF Does, Acts
<1>4. Does(t, "forget") \/ Does(t, "connect")
  BY DEF Forget
<1>5. WorkTypeOK' /\ (Quiet' => Quiet)
  BY <1>1, <1>2, <1>3, <1>4, GoesTo DEF WifiInv
<1>6. ViewTypeOK' /\ MonitorTypeOK' /\ UNCHANGED <<wifi_state, ignored, user_epoch>>
  BY <1>1 DEF WifiInv, ViewTypeOK, MonitorTypeOK, ShowsSame, history
<1>7. CASE UNCHANGED netVars
  BY <1>1, <1>5, <1>6, <1>7, UnseenKeepsInv
<1>8. CASE n \in connections \cap saved /\ Deletes(n)
  <2>1. n \in Networks
    BY <1>8 DEF WifiInv, NetTypeOK
  <2>. HIDE DEF n
  <2>2. /\ NetTypeOK' /\ DeviceFits'
        /\ \E r \in Seq(Signals) :
              /\ bus' = bus \o r /\ TellsConnections(r)
              /\ \/ device' = Off /\ EndsIn(r, TurnsOff, StateChanges)
                 \/ device' = device /\ Free(r, StateChanges) /\ Free(r, Tells("NewConnection"))
    BY <1>8, <2>1, DeletesEffect DEF WifiInv
  <2>3. PICK r \in Seq(Signals) :
              /\ bus' = bus \o r /\ TellsConnections(r)
              /\ \/ device' = Off /\ EndsIn(r, TurnsOff, StateChanges)
                 \/ device' = device /\ Free(r, StateChanges) /\ Free(r, Tells("NewConnection"))
    BY <2>2
  <2>4. bus \in Seq(Signals)
    BY DEF WifiInv, NetTypeOK
  <2>5. KnownRightly'
    BY <1>1, <2>3, <2>4, ConnectionsTold DEF WifiInv
  <2>6. OffIsShown' /\ ConnectionIsShown'
    BY <1>1, <1>5, <1>6, <2>3, <2>4, OffTold, ShownKeeps DEF WifiInv
  <2>. QED  BY <1>5, <1>6, <2>2, <2>5, <2>6 DEF WifiInv
<1>. QED  BY <1>1, <1>7, <1>8

\* A device that connects promises nothing yet.
LEMMA ActivatesKeepsInv ==
  ASSUME WifiInv, NEW n \in Networks, NEW announced,
         \/ announced = <<>> /\ n \in saved
         \/ announced = <<Event("NewConnection", n)>>,
         Activates(n, announced), ShowsSame,
         WorkTypeOK', UNCHANGED <<connections, state_q, conn_q, monitor>>
  PROVE  WifiInv'
<1>1. /\ NetTypeOK' /\ DeviceFits' /\ device'.state = "PREPARE"
      /\ \E r \in Seq(Signals) : bus' = bus \o r /\ TellsConnections(r)
  BY ActivatesEffect DEF WifiInv
<1>2. KnownRightly'
  BY <1>1, ConnectionsTold DEF WifiInv, NetTypeOK
<1>3. OffIsShown' /\ ConnectionIsShown'
  BY <1>1, PreparingShowsNothing
<1>4. ViewTypeOK' /\ MonitorTypeOK'
  BY DEF WifiInv, ViewTypeOK, MonitorTypeOK, ShowsSame, history
<1>. QED  BY <1>1, <1>2, <1>3, <1>4 DEF WifiInv

LEMMA WorkerActivatesKeepsInv ==
  ASSUME WifiInv, NEW t \in Threads, AddAndActivate(t) \/ Activate(t)
  PROVE  WifiInv'
<1>. DEFINE n == worker[t].ssid
<1>1. n \in Networks
  BY DEF WifiInv, WorkTypeOK, NetTypeOK, AddAndActivate, Activate, Does
<1>2. /\ Goes(t, "done") /\ ShowsSame /\ UNCHANGED <<connections, state_q, conn_q, monitor, taps>>
      /\ \/ Activates(n, <<Event("NewConnection", n)>>)
         \/ n \in saved /\ Activates(n, <<>>)
  BY Zenon DEF AddAndActivate, Activate, WorkerOnly
<1>3. WorkTypeOK'
  BY <1>2, GoesTo DEF WifiInv
<1>. HIDE DEF n
<1>. QED  BY <1>1, <1>2, <1>3, ActivatesKeepsInv

\* A worker that asks for the state will still write it.
LEMMA AsksKeepsInv ==
  ASSUME WifiInv, NEW t \in Threads, CallFails(t) \/ ReadState(t) \/ ReadConnection(t)
  PROVE  WifiInv'
<1>1. CASE CallFails(t)
  <2>1. Goes(t, "init") /\ ShowsSame /\ UNCHANGED <<connections, state_q, conn_q, monitor, taps, device, saved, volatile, bus>>
    BY <1>1, Zenon DEF CallFails, WorkerOnly
  <2>2. WorkTypeOK' /\ ~Quiet'
    BY <2>1, GoesTo DEF WifiInv
  <2>3. NetTypeOK' /\ DeviceFits'
    <3>1. netFaults' \in 0 .. MaxNetFaults
      <4>1. netFaults \in 0 .. MaxNetFaults /\ MaxNetFaults \in Nat
        BY NetworkAssumption DEF WifiInv, NetTypeOK
      <4>2. Fault \/ UNCHANGED netFaults
        BY <1>1, Zenon DEF CallFails, netVars
      <4>. QED  BY <4>1, <4>2 DEF Fault
    <3>. QED  BY <2>1, <3>1 DEF WifiInv, NetTypeOK, DeviceFits
  <2>4. bus \in Seq(Signals)
    BY DEF WifiInv, NetTypeOK
  <2>5. KnownRightly'
    BY <2>1, <2>4, NothingTold, ConnectionsTold DEF WifiInv
  <2>6. OffIsShown' /\ ConnectionIsShown'
    BY <2>1, <2>2, <2>4, NothingTold, ShownKeeps DEF WifiInv
  <2>7. ViewTypeOK' /\ MonitorTypeOK'
    BY <2>1 DEF WifiInv, ViewTypeOK, MonitorTypeOK, ShowsSame, history
  <2>. QED  BY <2>2, <2>3, <2>5, <2>6, <2>7 DEF WifiInv
<1>2. CASE ReadState(t)
  <2>. DEFINE j == [worker[t] EXCEPT !.op = "lookup", !.read = [device EXCEPT !.net = NoNetwork]]
  <2>1. /\ user_epoch' = user_epoch \cup {t}
        /\ UNCHANGED <<netVars, wifi_state, history, connections, state_q, conn_q, monitor, taps>>
    BY <1>2 DEF ReadState, WorkerOnly
  <2>2. worker' = [worker EXCEPT ![t] = j]
    BY <1>2 DEF ReadState, WifiInv, WorkTypeOK
  <2>3. j \in Jobs /\ j.op = "lookup"
    BY DEF WifiInv, WorkTypeOK, NetTypeOK, Jobs, Ops
  <2>. HIDE DEF j
  <2>4. WorkTypeOK' /\ ~Quiet'
    BY <2>1, <2>2, <2>3, NextJob DEF WifiInv
  <2>5. ViewTypeOK'
    BY <2>1 DEF WifiInv, ViewTypeOK, history
  <2>. QED  BY <2>1, <2>4, <2>5, UnseenKeepsInv
<1>3. CASE ReadConnection(t)
  <2>. DEFINE j == IF t \in user_epoch
                   THEN [worker[t] EXCEPT !.op = "write", !.read = [worker[t].read EXCEPT !.net = ActiveWifi]]
                   ELSE Done
  <2>1. Does(t, "lookup") /\ UNCHANGED <<netVars, connections, state_q, conn_q, monitor, taps>> /\ ShowsSame
    BY <1>3 DEF ReadConnection, WorkerOnly
  <2>2. worker' = [worker EXCEPT ![t] = j]
    BY <1>3 DEF ReadConnection, WifiInv, WorkTypeOK
  <2>3. j \in Jobs /\ j.op = IF t \in user_epoch THEN "write" ELSE "done"
    BY ShownStates DEF WifiInv, WorkTypeOK, NetTypeOK, Jobs, Ops, ActiveWifi, Done
  <2>. HIDE DEF j
  <2>4. WorkTypeOK' /\ (t \in user_epoch => ~Quiet') /\ (~Acts(t) /\ Quiet' => Quiet)
    BY <2>1, <2>2, <2>3, NextJob DEF WifiInv
  <2>5. t \notin user_epoch => ~Acts(t)
    BY <2>1 DEF Acts, Does
  <2>6. ViewTypeOK' /\ UNCHANGED <<wifi_state, ignored, user_epoch>>
    BY <2>1 DEF WifiInv, ViewTypeOK, ShowsSame, history
  <2>. QED  BY <2>1, <2>4, <2>5, <2>6, UnseenKeepsInv
<1>. QED  BY <1>1, <1>2, <1>3

\* The answer that is written is what the device does, or it is known to be overtaken.
LEMMA WriteReadKeepsInv ==
  ASSUME WifiInv, NEW t \in Threads, WriteRead(t)
  PROVE  WifiInv'
<1>. DEFINE read == worker[t].read
<1>1. /\ Does(t, "write") /\ Goes(t, "done")
      /\ wifi_state' = [ssid |-> Known(read.net), status |-> StatusOf(read.state)]
      /\ overtaken' = (read # device) /\ ignored' = FALSE
      /\ UNCHANGED <<netVars, user_epoch, connections, state_q, conn_q, monitor, taps>>
  BY DEF WriteRead, WorkerOnly
<1>2. read \in [state : States, net : Networks \cup {NoNetwork}]
  BY DEF WifiInv, WorkTypeOK, Jobs
<1>. HIDE DEF read
<1>3. WorkTypeOK'
  BY <1>1, GoesTo DEF WifiInv
<1>4. ViewTypeOK'
  <2>1. StatusOf(read.state) \in {"DISCONNECTED", "CONNECTING", "CONNECTED"}
    BY <1>2 DEF StatusOf, States
  <2>2. Known(read.net) \in Networks \cup {NoNetwork}
    BY <1>2 DEF Known
  <2>3. wifi_state' \in Shown
    BY <1>1, <2>1, <2>2 DEF Shown
  <2>4. overtaken' \in BOOLEAN /\ ignored' \in BOOLEAN
    BY <1>1, Zenon
  <2>. QED  BY <1>1, <2>3, <2>4 DEF WifiInv, ViewTypeOK
<1>5. NetTypeOK' /\ DeviceFits' /\ MonitorTypeOK'
  BY <1>1 DEF WifiInv, netVars, NetTypeOK, DeviceFits, MonitorTypeOK
<1>6. bus \in Seq(Signals) /\ UNCHANGED <<bus, saved, device, connections, conn_q, state_q, monitor, user_epoch>>
  BY <1>1 DEF WifiInv, NetTypeOK, netVars
<1>7. KnownRightly'
  BY <1>6, NothingTold, ConnectionsTold DEF WifiInv
<1>8. Quiet' => read = device
  BY <1>1 DEF Quiet
<1>9. ASSUME device.state = "DISCONNECTED", Quiet' PROVE wifi_state' = Nothing
  <2>1. read.net = NoNetwork /\ read.state = "DISCONNECTED"
    BY <1>8, <1>9 DEF WifiInv, DeviceFits
  <2>2. Known(read.net) = NoNetwork
    BY <2>1 DEF Known
  <2>. QED  BY <1>1, <2>1, <2>2 DEF StatusOf, Nothing
<1>10. OffIsShown'
  BY <1>6, <1>9 DEF WifiInv, OffIsShown
<1>11. ASSUME device.state = "ACTIVATED", Free(bus, Tells("NewConnection")), conn_q.new = {}, Quiet'
       PROVE  wifi_state' = [ssid |-> device.net, status |-> "CONNECTED"]
  <2>1. read.net = device.net /\ read.state = "ACTIVATED" /\ device.net \in Networks /\ device.net \in saved
    BY <1>8, <1>11 DEF WifiInv, DeviceFits, NetTypeOK
  <2>2. KnownInTime(device.net)
    BY <2>1 DEF WifiInv, KnownRightly
  <2>3. ~EndsIn(bus, TellsOf("NewConnection", device.net), TellsOf("ConnectionRemoved", device.net))
    <3>1. TellsOf("NewConnection", device.net) \subseteq Tells("NewConnection")
      BY DEF TellsOf
    <3>. QED  BY <1>11, <3>1, EndsIsNotFree
  <2>4. device.net \in connections
    BY <1>11, <2>1, <2>2, <2>3 DEF KnownInTime
  <2>. QED  BY <1>1, <2>1, <2>4 DEF StatusOf, Known
<1>12. ConnectionIsShown'
  <2>1. Announced => Announced'
    BY <1>6 DEF Announced
  <2>. QED  BY <1>6, <1>11, <2>1 DEF WifiInv, ConnectionIsShown
<1>. QED  BY <1>3, <1>4, <1>5, <1>7, <1>10, <1>12 DEF WifiInv

LEMMA WorkersKeepInv ==
  ASSUME WifiInv, NEW t \in Threads, WorkerRuns(t)
  PROVE  WifiInv'
BY ForgetKeepsInv, WorkerActivatesKeepsInv, AsksKeepsInv, WriteReadKeepsInv DEF WorkerRuns

-----------------------------------------------------------------------------
\* What the monitor reads in the signal it receives.
LEMMA HeadsSignals ==
  ASSUME NEW q \in Seq(Signals), q # <<>>
  PROVE  /\ Head(q) \in Signals /\ Tail(q) \in Seq(Signals)
         /\ IsState(Head(q)) <=> Head(q) \in StateChanges
         /\ \A n \in Networks :
              /\ n \in About(Head(q), "ConnectionRemoved") <=> Head(q) \in TellsOf("ConnectionRemoved", n)
              /\ n \in About(Head(q), "NewConnection") <=> Head(q) \in TellsOf("NewConnection", n)
         /\ About(Head(q), "NewConnection") = {} <=> Head(q) \notin Tells("NewConnection")
         /\ StateSignals(Head(q)) \in Seq(Signals)
         /\ StateSignals(Head(q)) = IF Head(q) \in StateChanges THEN <<Head(q)>> ELSE <<>>
         /\ \A what \in {"ConnectionRemoved", "NewConnection"} : About(Head(q), what) \subseteq Networks
<1>1. Head(q) \in Signals /\ Tail(q) \in Seq(Signals)
  BY HeadTailProperties
<1>. DEFINE s == Head(q)
<1>. HIDE DEF s
<1>2. /\ IsState(s) <=> s \in StateChanges
      /\ \A n \in Networks :
              /\ n \in About(s, "ConnectionRemoved") <=> s \in TellsOf("ConnectionRemoved", n)
              /\ n \in About(s, "NewConnection") <=> s \in TellsOf("NewConnection", n)
      /\ About(s, "NewConnection") = {} <=> s \notin Tells("NewConnection")
  BY <1>1 DEF s, StateChanges, About, TellsOf, Tells
<1>3. StateSignals(s) = (IF s \in StateChanges THEN <<s>> ELSE <<>>) /\ StateSignals(s) \in Seq(Signals)
  <2>1. <<s>> \in Seq(Signals)
    BY <1>1, OneSignal DEF s
  <2>. QED  BY <1>2, <2>1 DEF StateSignals
<1>4. \A what \in {"ConnectionRemoved", "NewConnection"} : About(s, what) \subseteq Networks
  BY <1>1 DEF s, About, Signals
<1>. QED  BY <1>1, <1>2, <1>3, <1>4 DEF s

\* What a signal says of the connections, when it is taken off the bus.
LEMMA TakenOff ==
  ASSUME KnownRightly, NEW n \in Networks, bus \in Seq(Signals), bus # <<>>, bus' = Tail(bus)
  PROVE  LET q == ConnSignals(Head(bus))
             S == TellsOf("ConnectionRemoved", n)
             F == TellsOf("NewConnection", n)
         IN  /\ n \in saved => \/ EndsIn(bus', F, S)
                               \/ Free(bus', S) /\ (n \in q.new \/ n \in connections \ q.removed)
             /\ n \in connections \ saved => n \in q.removed \/ ~Free(bus', S)
<1>. DEFINE q == ConnSignals(Head(bus))
            S == TellsOf("ConnectionRemoved", n)
            F == TellsOf("NewConnection", n)
<1>1. /\ n \in q.removed <=> (n \in conn_q.removed \/ Head(bus) \in S)
      /\ n \in q.new <=> (n \in conn_q.new \/ Head(bus) \in F)
  BY HeadsSignals DEF ConnSignals
<1>2. /\ n \in saved => EndsIn(bus, F, S) \/ (Free(bus, S) /\ (n \in conn_q.new \/ n \in connections \ conn_q.removed))
      /\ n \in connections \ saved => n \in conn_q.removed \/ ~Free(bus, S)
  BY DEF KnownRightly, KnownInTime, ForgottenInTime
<1>. HIDE DEF q, S, F
<1>3. /\ Free(bus, S) <=> (Head(bus) \notin S /\ Free(Tail(bus), S))
      /\ EndsIn(bus, F, S) <=> ((Head(bus) \in F /\ Free(Tail(bus), S)) \/ EndsIn(Tail(bus), F, S))
  BY FreeOf, EndsOf
<1>4. n \in saved => EndsIn(bus', F, S) \/ (Free(bus', S) /\ (n \in q.new \/ n \in connections \ q.removed))
  BY <1>1, <1>2, <1>3
<1>5. n \in connections \ saved => n \in q.removed \/ ~Free(bus', S)
  BY <1>1, <1>2, <1>3
<1>. QED  BY <1>4, <1>5 DEF q, S, F

LEMMA ReceiveKeepsInv ==
  ASSUME WifiInv, Receive
  PROVE  WifiInv'
<1>. DEFINE s == Head(bus)
            q == ConnSignals(s)
<1>1. /\ monitor.at = "listen" /\ state_q = <<>> /\ bus # <<>> /\ bus' = Tail(bus)
      /\ connections' = (connections \ q.removed) \cup (q.new \cap saved)
      /\ state_q' = StateSignals(s) /\ conn_q' = NoConn
      /\ UNCHANGED <<wifi_state, history, user_epoch, worker, taps, device, saved, volatile, netFaults, monitor>>
  BY DEF Receive, ShowsSame, MonitorOnly
<1>2. bus \in Seq(Signals) /\ saved \subseteq Networks /\ connections \subseteq Networks
  BY DEF WifiInv, NetTypeOK, MonitorTypeOK
<1>3. /\ s \in Signals /\ Tail(bus) \in Seq(Signals)
      /\ StateSignals(s) = (IF s \in StateChanges THEN <<s>> ELSE <<>>) /\ StateSignals(s) \in Seq(Signals)
  BY <1>1, <1>2, HeadsSignals
<1>4. NetTypeOK' /\ DeviceFits'
  BY <1>1, <1>3 DEF WifiInv, NetTypeOK, DeviceFits
<1>5. ViewTypeOK' /\ WorkTypeOK'
  BY <1>1 DEF WifiInv, ViewTypeOK, WorkTypeOK, Jobs, Ops, States, history
<1>6. MonitorTypeOK'
  BY <1>1, <1>2, <1>3, ShownStates DEF WifiInv, MonitorTypeOK
<1>7. KnownRightly'
  <2>. SUFFICES ASSUME NEW n \in Networks PROVE KnownInTime(n)' /\ ForgottenInTime(n)'
    BY DEF KnownRightly
  <2>1. /\ n \in saved => \/ EndsIn(bus', TellsOf("NewConnection", n), TellsOf("ConnectionRemoved", n))
                          \/ Free(bus', TellsOf("ConnectionRemoved", n)) /\ (n \in q.new \/ n \in connections \ q.removed)
        /\ n \in connections \ saved => n \in q.removed \/ ~Free(bus', TellsOf("ConnectionRemoved", n))
    BY <1>1, <1>2, TakenOff DEF WifiInv
  <2>. HIDE DEF q
  <2>2. conn_q'.removed = {} /\ conn_q'.new = {}
    BY <1>1 DEF NoConn
  <2>. QED  BY <1>1, <2>1, <2>2 DEF KnownInTime, ForgottenInTime
<1>. HIDE DEF q
<1>8. (Quiet' <=> Quiet) /\ ignored' = ignored
  BY <1>1 DEF Quiet, Acts, history
<1>9. /\ Free(bus, StateChanges) <=> (s \notin StateChanges /\ Free(bus', StateChanges))
      /\ Free(bus, Tells("NewConnection")) => Free(bus', Tells("NewConnection"))
      /\ EndsIn(bus, TurnsOff, StateChanges) <=> ((s \in TurnsOff /\ Free(bus', StateChanges)) \/ EndsIn(bus', TurnsOff, StateChanges))
  BY <1>1, <1>2, FreeOf, EndsOf
<1>10. TurnsOff \subseteq StateChanges /\ Tells("ACTIVATED") \cap Signals \subseteq StateChanges
  BY DEF TurnsOff, StateChanges, Tells, IsState
<1>. HIDE DEF s
<1>11. s \in StateChanges => state_q' = <<s>> /\ state_q' # <<>> /\ Len(state_q') = 1 /\ state_q'[1] = s
  <2>1. <<s>> # <<>> /\ Len(<<s>>) = 1 /\ <<s>>[1] = s
    BY <1>3, OneSignal
  <2>. QED  BY <1>1, <1>3, <2>1, Zenon
<1>12. s \notin StateChanges => state_q' = <<>>
  BY <1>1, <1>3
<1>13. OffIsShown'
  <2>. SUFFICES ASSUME device.state = "DISCONNECTED", ~EndsIn(bus', TurnsOff, StateChanges)
       PROVE  /\ Free(bus', StateChanges)
              /\ \/ state_q' # <<>> /\ state_q'[Len(state_q')] \in TurnsOff
                 \/ /\ state_q' = <<>> /\ monitor'.at = "listen"
                    /\ Quiet' => wifi_state' = Nothing \/ ignored'
    BY <1>1 DEF OffIsShown
  <2>1. CASE EndsIn(bus, TurnsOff, StateChanges)
    BY <1>9, <1>10, <1>11, <2>1
  <2>2. CASE ~EndsIn(bus, TurnsOff, StateChanges)
    BY <1>1, <1>8, <1>9, <1>12, <2>2 DEF WifiInv, OffIsShown
  <2>. QED  BY <2>1, <2>2
<1>14. ConnectionIsShown'
  <2>. SUFFICES ASSUME device.state = "ACTIVATED" PROVE ConnectionIsShown'
    BY <1>1 DEF ConnectionIsShown
  <2>1. Free(bus', Tells("NewConnection")) /\ conn_q'.new = {}
    BY <1>1, <1>9 DEF WifiInv, ConnectionIsShown, NoConn
  <2>2. CASE Announced
    <3>1. s \in Tells("ACTIVATED") /\ Free(bus', StateChanges)
      BY <1>1, <2>2 DEF Announced, s
    <3>. QED  BY <1>1, <1>3, <1>10, <1>11, <2>1, <3>1 DEF ConnectionIsShown
  <2>3. CASE ~Announced
    <3>1. /\ Free(bus, StateChanges)
          /\ \/ monitor.at = "listen" /\ Len(state_q) = 1 /\ state_q[1] \in Tells("ACTIVATED")
             \/ /\ state_q = <<>>
                /\ Quiet => \/ monitor.at = "lookup" /\ Monitor \in user_epoch
                            \/ monitor.at = "write"
                            \/ wifi_state = [ssid |-> device.net, status |-> "CONNECTED"]
      BY <2>3 DEF WifiInv, ConnectionIsShown
    <3>2. Quiet => wifi_state = [ssid |-> device.net, status |-> "CONNECTED"]
      BY <1>1, <3>1, EmptySeq
    <3>3. Free(bus', StateChanges) /\ state_q' = <<>>
      BY <1>9, <1>12, <3>1
    <3>. QED  BY <1>1, <1>8, <2>1, <3>2, <3>3 DEF ConnectionIsShown
  <2>. QED  BY <2>2, <2>3
<1>. QED  BY <1>4, <1>5, <1>6, <1>7, <1>13, <1>14 DEF WifiInv

LEMMA ArrivesKeepsInv ==
  ASSUME WifiInv, Arrives
  PROVE  WifiInv'
<1>. DEFINE s == Head(bus)
            q == ConnSignals(s)
<1>1. /\ monitor.at \in {"lookup", "save"} /\ bus # <<>> /\ bus' = Tail(bus)
      /\ state_q' = state_q \o StateSignals(s) /\ conn_q' = q
      /\ UNCHANGED <<wifi_state, history, user_epoch, worker, taps, device, saved, volatile, netFaults, connections, monitor>>
  BY DEF Arrives, ShowsSame, MonitorOnly
<1>2. bus \in Seq(Signals) /\ saved \subseteq Networks /\ connections \subseteq Networks /\ state_q \in Seq(Signals)
  BY DEF WifiInv, NetTypeOK, MonitorTypeOK
<1>3. /\ s \in Signals /\ Tail(bus) \in Seq(Signals)
      /\ StateSignals(s) = (IF s \in StateChanges THEN <<s>> ELSE <<>>) /\ StateSignals(s) \in Seq(Signals)
      /\ \A what \in {"ConnectionRemoved", "NewConnection"} : About(s, what) \subseteq Networks
      /\ About(s, "NewConnection") = {} <=> s \notin Tells("NewConnection")
  BY <1>1, <1>2, HeadsSignals
<1>4. NetTypeOK' /\ DeviceFits'
  BY <1>1, <1>3 DEF WifiInv, NetTypeOK, DeviceFits
<1>5. ViewTypeOK' /\ WorkTypeOK'
  BY <1>1 DEF WifiInv, ViewTypeOK, WorkTypeOK, Jobs, Ops, States, history
<1>6. MonitorTypeOK'
  <2>1. state_q' \in Seq(Signals)
    BY <1>1, <1>2, <1>3, FreeOf
  <2>2. conn_q' \in [removed : SUBSET Networks, new : SUBSET Networks]
    BY <1>1, <1>3 DEF WifiInv, MonitorTypeOK, ConnSignals
  <2>. QED  BY <1>1, <2>1, <2>2 DEF WifiInv, MonitorTypeOK
<1>7. KnownRightly'
  <2>. SUFFICES ASSUME NEW n \in Networks PROVE KnownInTime(n)' /\ ForgottenInTime(n)'
    BY DEF KnownRightly
  <2>1. /\ n \in saved => \/ EndsIn(bus', TellsOf("NewConnection", n), TellsOf("ConnectionRemoved", n))
                          \/ Free(bus', TellsOf("ConnectionRemoved", n)) /\ (n \in q.new \/ n \in connections \ q.removed)
        /\ n \in connections \ saved => n \in q.removed \/ ~Free(bus', TellsOf("ConnectionRemoved", n))
    BY <1>1, <1>2, TakenOff DEF WifiInv
  <2>. HIDE DEF q
  <2>. QED  BY <1>1, <2>1 DEF KnownInTime, ForgottenInTime
<1>8. (Quiet' <=> Quiet) /\ ignored' = ignored
  BY <1>1 DEF Quiet, Acts, history
<1>9. /\ Free(bus, StateChanges) <=> (s \notin StateChanges /\ Free(bus', StateChanges))
      /\ Free(bus, Tells("NewConnection")) <=> (s \notin Tells("NewConnection") /\ Free(bus', Tells("NewConnection")))
      /\ EndsIn(bus, TurnsOff, StateChanges) <=> ((s \in TurnsOff /\ Free(bus', StateChanges)) \/ EndsIn(bus', TurnsOff, StateChanges))
  BY <1>1, <1>2, FreeOf, EndsOf
<1>10. TurnsOff \subseteq StateChanges
  BY DEF TurnsOff
<1>11. conn_q'.new = conn_q.new \cup About(s, "NewConnection")
  BY <1>1 DEF ConnSignals
<1>. HIDE DEF s, q
<1>12. s \notin StateChanges => state_q' = state_q
  BY <1>1, <1>2, <1>3, ConcatEmptySeq
<1>13. s \in StateChanges => state_q' # <<>> /\ state_q'[Len(state_q')] = s
  <2>1. /\ Len(state_q \o <<s>>) = Len(state_q) + 1 /\ (state_q \o <<s>>)[Len(state_q) + 1] = s
        /\ state_q \o <<s>> # <<>>
    <3>1. <<s>> \in Seq(Signals) /\ Len(<<s>>) = 1 /\ <<s>>[1] = s /\ <<s>> # <<>>
      BY <1>3, OneSignal
    <3>. DEFINE w == <<s>>
    <3>2. w \in Seq(Signals) /\ Len(w) = 1 /\ w[1] = s /\ w # <<>>
      BY <3>1
    <3>. HIDE DEF w
    <3>3. Len(state_q \o w) = Len(state_q) + 1 /\ (state_q \o w)[Len(state_q) + 1] = s
      BY <1>2, <3>2, ConcatProperties
    <3>4. state_q \o w # <<>>
      BY <1>2, <3>2, ConcatEqualIffEmpty
    <3>. QED  BY <3>3, <3>4 DEF w
  <2>. QED  BY <1>1, <1>3, <2>1
<1>14. OffIsShown'
  <2>. SUFFICES ASSUME device.state = "DISCONNECTED", ~EndsIn(bus', TurnsOff, StateChanges)
       PROVE  /\ Free(bus', StateChanges)
              /\ state_q' # <<>> /\ state_q'[Len(state_q')] \in TurnsOff
    BY <1>1 DEF OffIsShown
  <2>1. CASE EndsIn(bus, TurnsOff, StateChanges)
    BY <1>9, <1>10, <1>13, <2>1
  <2>2. CASE ~EndsIn(bus, TurnsOff, StateChanges)
    <3>1. Free(bus, StateChanges) /\ state_q # <<>> /\ state_q[Len(state_q)] \in TurnsOff
      BY <1>1, <2>2 DEF WifiInv, OffIsShown
    <3>. QED  BY <1>9, <1>12, <3>1
  <2>. QED  BY <2>1, <2>2
<1>15. ConnectionIsShown'
  <2>. SUFFICES ASSUME device.state = "ACTIVATED" PROVE ConnectionIsShown'
    BY <1>1 DEF ConnectionIsShown
  <2>1. ~Announced
    BY <1>1 DEF Announced
  <2>2. /\ Free(bus, Tells("NewConnection")) /\ Free(bus, StateChanges) /\ conn_q.new = {}
        /\ state_q = <<>> /\ monitor.was.status = "CONNECTED"
        /\ monitor.at = "write" => monitor.net = device.net
        /\ Quiet => \/ monitor.at = "lookup" /\ Monitor \in user_epoch
                    \/ monitor.at = "write"
                    \/ wifi_state = [ssid |-> device.net, status |-> "CONNECTED"]
    BY <1>1, <2>1 DEF WifiInv, ConnectionIsShown
  <2>3. Free(bus', Tells("NewConnection")) /\ Free(bus', StateChanges) /\ conn_q'.new = {} /\ state_q' = <<>>
    BY <1>3, <1>9, <1>11, <1>12, <2>2
  <2>. QED  BY <1>1, <1>8, <2>2, <2>3 DEF ConnectionIsShown
<1>. QED  BY <1>4, <1>5, <1>6, <1>7, <1>14, <1>15 DEF WifiInv

\* A signal of the device is handled: what matters is the last one before the device
\* is off, and the one that says it is connected.
LEMMA HandlesKeepsInv ==
  ASSUME WifiInv, NEW news, Handles(news), ViewTypeOK',
         monitor' \in [at : {"listen", "lookup", "write", "save"}, was : Shown, net : Networks \cup {NoNetwork}],
         device.state = "DISCONNECTED" /\ Head(state_q) \in TurnsOff
            => monitor'.at = "listen" /\ (Quiet' => wifi_state' = Nothing \/ ignored'),
         device.state = "ACTIVATED" /\ Head(state_q) \in Tells("ACTIVATED")
            => monitor'.at = "lookup" /\ monitor'.was.status = "CONNECTED" /\ Monitor \in user_epoch'
  PROVE  WifiInv'
<1>1. /\ monitor.at = "listen" /\ state_q # <<>> /\ state_q' = Tail(state_q)
      /\ UNCHANGED <<netVars, connections, conn_q, worker, taps>>
  BY DEF Handles, MonitorOnly
<1>2. bus \in Seq(Signals) /\ UNCHANGED <<bus, saved, device>> /\ state_q \in Seq(Signals)
  BY <1>1 DEF WifiInv, NetTypeOK, MonitorTypeOK, netVars
<1>3. /\ Tail(state_q) \in Seq(Signals) /\ Len(Tail(state_q)) = Len(state_q) - 1
      /\ Len(state_q) \in Nat \ {0} /\ Head(state_q) = state_q[1]
      /\ \A i \in 1 .. Len(Tail(state_q)) : Tail(state_q)[i] = state_q[i + 1]
  BY <1>1, <1>2, HeadTailProperties, EmptySeq
<1>4. NetTypeOK' /\ DeviceFits' /\ WorkTypeOK' /\ MonitorTypeOK'
  BY <1>1, <1>3 DEF WifiInv, netVars, NetTypeOK, DeviceFits, WorkTypeOK, MonitorTypeOK, Jobs, Ops, States
<1>5. KnownRightly'
  BY <1>1, <1>2, NothingTold, ConnectionsTold DEF WifiInv
<1>6. OffIsShown'
  <2>. SUFFICES ASSUME device.state = "DISCONNECTED", ~EndsIn(bus, TurnsOff, StateChanges)
       PROVE  /\ Free(bus, StateChanges)
              /\ \/ state_q' # <<>> /\ state_q'[Len(state_q')] \in TurnsOff
                 \/ /\ state_q' = <<>> /\ monitor'.at = "listen"
                    /\ Quiet' => wifi_state' = Nothing \/ ignored'
    BY <1>2 DEF OffIsShown
  <2>1. Free(bus, StateChanges) /\ state_q[Len(state_q)] \in TurnsOff
    BY <1>1 DEF WifiInv, OffIsShown
  <2>2. CASE Len(state_q) = 1
    <3>1. Head(state_q) \in TurnsOff
      BY <1>3, <2>1, <2>2
    <3>2. Len(Tail(state_q)) = 0
      BY <1>3, <2>2
    <3>3. state_q' = <<>>
      BY <1>1, <1>3, <3>2, EmptySeq
    <3>. QED  BY <2>1, <3>1, <3>3
  <2>3. CASE Len(state_q) # 1
    <3>1. Len(Tail(state_q)) \in 1 .. Len(Tail(state_q)) /\ Len(Tail(state_q)) + 1 = Len(state_q)
      BY <1>3, <2>3
    <3>2. Tail(state_q)[Len(Tail(state_q))] = state_q[Len(state_q)]
      BY <1>3, <3>1
    <3>3. Tail(state_q) # <<>>
      <4>1. Len(Tail(state_q)) # 0
        BY <1>3, <2>3
      <4>. QED  BY <4>1, EmptySeq
    <3>. QED  BY <1>1, <2>1, <3>2, <3>3
  <2>. QED  BY <2>2, <2>3
<1>7. ConnectionIsShown'
  <2>. SUFFICES ASSUME device.state = "ACTIVATED" PROVE ConnectionIsShown'
    BY <1>2 DEF ConnectionIsShown
  <2>1. ~Announced
    BY <1>1 DEF Announced
  <2>2. /\ Free(bus, Tells("NewConnection")) /\ Free(bus, StateChanges) /\ conn_q.new = {}
        /\ Len(state_q) = 1 /\ state_q[1] \in Tells("ACTIVATED")
    BY <1>1, <2>1 DEF WifiInv, ConnectionIsShown
  <2>3. Len(Tail(state_q)) = 0
    BY <1>3, <2>2
  <2>4. state_q' = <<>>
    BY <1>1, <1>3, <2>3, EmptySeq
  <2>5. monitor'.at = "lookup" /\ monitor'.was.status = "CONNECTED" /\ Monitor \in user_epoch'
    BY <1>3, <2>2
  <2>6. Free(bus', Tells("NewConnection")) /\ Free(bus', StateChanges) /\ conn_q'.new = {}
    BY <1>1, <1>2, <2>2
  <2>. QED  BY <2>4, <2>5, <2>6 DEF ConnectionIsShown
<1>. QED  BY <1>4, <1>5, <1>6, <1>7 DEF WifiInv

\* Once the device is off, what the user picked is shown only as long as it is to be asked for.
LEMMA DisconnectedKeepsInv ==
  ASSUME WifiInv, Disconnected
  PROVE  WifiInv'
<1>. DEFINE known == Head(state_q).reason = "CONNECTION_REMOVED" /\ wifi_state.ssid \in connections
<1>1. Handles({"DISCONNECTED"}) /\ UNCHANGED monitor /\ monitor.at = "listen" /\ UNCHANGED <<netVars, worker>>
  BY DEF Disconnected, Handles, MonitorOnly
<1>2. \/ /\ Head(state_q).reason = "NEW_ACTIVATION" \/ known
         /\ UNCHANGED <<wifi_state, user_epoch>>
         /\ overtaken' = overtaken /\ ignored' = (ignored \/ (known /\ ~Coming(wifi_state.ssid)))
      \/ wifi_state' = Nothing /\ user_epoch' = {} /\ overtaken' = FALSE /\ ignored' = FALSE
  BY Zenon DEF Disconnected, SetConnecting
<1>3. ViewTypeOK'
  <2>1. overtaken' \in BOOLEAN /\ ignored' \in BOOLEAN
    BY <1>2, Zenon DEF WifiInv, ViewTypeOK
  <2>. QED  BY <1>2, <2>1, ShownStates DEF WifiInv, ViewTypeOK
<1>4. monitor' \in [at : {"listen", "lookup", "write", "save"}, was : Shown, net : Networks \cup {NoNetwork}]
  BY <1>1 DEF WifiInv, MonitorTypeOK
<1>5. ASSUME device.state = "DISCONNECTED", Head(state_q) \in TurnsOff, Quiet', ~ignored' PROVE wifi_state' = Nothing
  <2>1. Head(state_q).reason # "NEW_ACTIVATION"
    BY <1>5 DEF TurnsOff
  <2>2. ASSUME known, ~Coming(wifi_state.ssid) => ignored' PROVE FALSE
    <3>1. Coming(wifi_state.ssid)
      BY <1>5, <2>2 DEF Quiet
    <3>2. wifi_state.ssid \in Networks
      BY <2>2 DEF WifiInv, MonitorTypeOK
    <3>3. device.net # wifi_state.ssid
      BY <1>5, <3>2, NetworkAssumption DEF WifiInv, DeviceFits
    <3>4. PICK t \in Threads : worker[t].op \in {"connect", "add", "activate"}
      BY <3>1, <3>3 DEF Coming
    <3>5. Acts(t)'
      BY <1>1, <3>4 DEF Acts
    <3>. QED  BY <1>5, <3>5 DEF Quiet
  <2>3. ~known \/ (~Coming(wifi_state.ssid) /\ ~ignored')
    BY <2>2
  <2>. QED  BY <1>2, <2>1, <2>3
<1>6. ASSUME device.state = "ACTIVATED", Head(state_q) \in Tells("ACTIVATED") PROVE FALSE
  BY <1>1, <1>6 DEF Handles, Tells
<1>. QED  BY <1>1, <1>3, <1>4, <1>5, <1>6, HandlesKeepsInv

\* Every other change of state comes before the one that counts.
LEMMA OtherHandlersKeepInv ==
  ASSUME WifiInv, Preparing \/ WrongPassword \/ Deactivating
  PROVE  WifiInv'
<1>1. ASSUME NEW news, Handles(news), ViewTypeOK', "DISCONNECTED" \notin news, "ACTIVATED" \notin news,
             monitor' \in [at : {"listen", "lookup", "write", "save"}, was : Shown, net : Networks \cup {NoNetwork}]
      PROVE  WifiInv'
  <2>1. Head(state_q) \notin TurnsOff /\ Head(state_q) \notin Tells("ACTIVATED")
    BY <1>1 DEF Handles, TurnsOff, Tells
  <2>. QED  BY <1>1, <2>1, HandlesKeepsInv
<1>2. CASE Preparing
  <2>1. /\ Handles({"PREPARE"})
        /\ \/ /\ wifi_state' = [wifi_state EXCEPT !.status = "CONNECTING"]
              /\ UNCHANGED <<history, user_epoch, monitor>>
           \/ /\ monitor' = [Listening EXCEPT !.at = "lookup", !.was = Connecting(NoNetwork)]
              /\ user_epoch' = user_epoch \cup {Monitor} /\ UNCHANGED <<wifi_state, history>>
    BY <1>2 DEF Preparing
  <2>2. ViewTypeOK'
    BY <2>1 DEF WifiInv, ViewTypeOK, Shown, history
  <2>3. monitor' \in [at : {"listen", "lookup", "write", "save"}, was : Shown, net : Networks \cup {NoNetwork}]
    BY <2>1, ShownStates DEF WifiInv, MonitorTypeOK, Listening
  <2>. QED  BY <1>1, <2>1, <2>2, <2>3
<1>3. CASE WrongPassword \/ Deactivating
  <2>1. /\ Handles({"NEED_AUTH", "FAILED"}) \/ Handles({"DEACTIVATING"})
        /\ UNCHANGED monitor /\ (SetConnecting(Nothing) \/ ShowsSame)
    BY <1>3, Zenon DEF WrongPassword, Deactivating
  <2>2. ViewTypeOK'
    BY <2>1, ShownStates DEF WifiInv, ViewTypeOK, SetConnecting, ShowsSame, history
  <2>3. monitor' \in [at : {"listen", "lookup", "write", "save"}, was : Shown, net : Networks \cup {NoNetwork}]
    BY <2>1 DEF WifiInv, MonitorTypeOK
  <2>. QED  BY <1>1, <2>1, <2>2, <2>3
<1>. QED  BY <1>2, <1>3

LEMMA ActivatedKeepsInv ==
  ASSUME WifiInv, Activated
  PROVE  WifiInv'
<1>1. /\ Handles({"ACTIVATED"}) /\ UNCHANGED <<wifi_state, history>>
      /\ monitor' = [Listening EXCEPT !.at = "lookup", !.was = [wifi_state EXCEPT !.status = "CONNECTED"]]
      /\ user_epoch' = user_epoch \cup {Monitor}
  BY DEF Activated
<1>2. ViewTypeOK'
  BY <1>1 DEF WifiInv, ViewTypeOK, history
<1>3. /\ monitor' \in [at : {"listen", "lookup", "write", "save"}, was : Shown, net : Networks \cup {NoNetwork}]
      /\ monitor'.at = "lookup" /\ monitor'.was.status = "CONNECTED"
  BY <1>1 DEF WifiInv, ViewTypeOK, Shown, Listening, Nothing
<1>4. Head(state_q) \notin TurnsOff
  BY <1>1 DEF Handles, TurnsOff
<1>. QED  BY <1>1, <1>2, <1>3, <1>4, HandlesKeepsInv

\* The monitor looks for the connection, writes what it found, saves it.
LEMMA FollowsKeepsInv ==
  ASSUME WifiInv, Lookup \/ WriteFound \/ SaveConnection
  PROVE  WifiInv'
<1>1. /\ monitor.at # "listen" /\ UNCHANGED <<bus, device, saved, netFaults, worker, taps, user_epoch, connections, state_q, conn_q>>
      /\ volatile' \subseteq volatile
  BY DEF Lookup, WriteFound, SaveConnection, ShowsSame, MonitorOnly, netVars, Saves
<1>2. bus \in Seq(Signals)
  BY DEF WifiInv, NetTypeOK
<1>3. NetTypeOK' /\ DeviceFits' /\ WorkTypeOK'
  BY <1>1 DEF WifiInv, NetTypeOK, DeviceFits, WorkTypeOK, Jobs, Ops, States
<1>4. KnownRightly'
  BY <1>1, <1>2, NothingTold, ConnectionsTold DEF WifiInv
<1>5. OffIsShown'
  BY <1>1 DEF WifiInv, OffIsShown
<1>6. ViewTypeOK' /\ MonitorTypeOK'
  <2>1. CASE Lookup
    BY <1>1, <2>1 DEF Lookup, ShowsSame, WifiInv, ViewTypeOK, MonitorTypeOK, NetTypeOK, ActiveWifi, Listening, Nothing, Shown, history
  <2>2. CASE SaveConnection
    BY <1>1, <2>2, ShownStates DEF SaveConnection, ShowsSame, WifiInv, ViewTypeOK, MonitorTypeOK, history
  <2>3. CASE WriteFound
    <3>1. Known(monitor.net) \in Networks \cup {NoNetwork} /\ monitor.was \in Shown /\ monitor.net \in Networks \cup {NoNetwork}
      BY DEF Known, WifiInv, MonitorTypeOK
    <3>2. wifi_state' \in Shown
      BY <2>3, <3>1 DEF WriteFound, Shown
    <3>3. overtaken' \in BOOLEAN /\ ignored' \in BOOLEAN
      BY <2>3 DEF WriteFound
    <3>4. monitor' \in [at : {"listen", "lookup", "write", "save"}, was : Shown, net : Networks \cup {NoNetwork}]
      BY <2>3, ShownStates DEF WriteFound, WifiInv, MonitorTypeOK
    <3>. QED  BY <1>1, <3>2, <3>3, <3>4 DEF WifiInv, ViewTypeOK, MonitorTypeOK
  <2>. QED  BY <2>1, <2>2, <2>3
<1>7. ConnectionIsShown'
  <2>. SUFFICES ASSUME device.state = "ACTIVATED" PROVE ConnectionIsShown'
    BY <1>1 DEF ConnectionIsShown
  <2>1. /\ Free(bus, Tells("NewConnection")) /\ Free(bus, StateChanges) /\ conn_q.new = {}
        /\ state_q = <<>> /\ monitor.was.status = "CONNECTED"
        /\ monitor.at = "write" => monitor.net = device.net
        /\ Quiet => \/ monitor.at = "lookup" /\ Monitor \in user_epoch
                    \/ monitor.at = "write"
                    \/ wifi_state = [ssid |-> device.net, status |-> "CONNECTED"]
    BY <1>1 DEF WifiInv, ConnectionIsShown, Announced
  <2>2. /\ monitor'.at # "listen" => monitor'.was.status = "CONNECTED"
        /\ monitor'.at = "write" => monitor'.net = device.net
        /\ Quiet' => \/ monitor'.at = "lookup" /\ Monitor \in user_epoch'
                     \/ monitor'.at = "write"
                     \/ wifi_state' = [ssid |-> device.net, status |-> "CONNECTED"]
    <3>1. CASE Lookup
      <4>1. Quiet' => Quiet
        BY <1>1, <3>1 DEF Quiet, Acts, Lookup, ShowsSame, history
      <4>. QED  BY <1>1, <2>1, <3>1, <4>1 DEF Lookup, ShowsSame, WifiInv, MonitorTypeOK, Listening, ActiveWifi
    <3>2. CASE SaveConnection
      <4>1. Quiet' => Quiet
        BY <1>1, <3>2 DEF Quiet, Acts, SaveConnection, ShowsSame, history
      <4>. QED  BY <1>1, <2>1, <3>2, <4>1 DEF SaveConnection, ShowsSame, Listening
    <3>3. CASE WriteFound
      <4>1. monitor'.at \in {"listen", "save"} /\ (monitor'.at # "listen" => monitor'.was.status = "CONNECTED")
        BY <2>1, <3>3 DEF WriteFound, Listening, WifiInv, MonitorTypeOK
      <4>2. ASSUME Quiet' PROVE wifi_state' = [ssid |-> device.net, status |-> "CONNECTED"]
        <5>1. monitor.net = device.net
          BY <2>1, <3>3 DEF WriteFound
        <5>2. device.net \in Networks /\ device.net # NoNetwork /\ device.net \in saved
          BY NetworkAssumption DEF WifiInv, DeviceFits, NetTypeOK
        <5>3. KnownInTime(device.net)
          BY <5>2 DEF WifiInv, KnownRightly
        <5>4. ~EndsIn(bus, TellsOf("NewConnection", device.net), TellsOf("ConnectionRemoved", device.net))
          <6>1. TellsOf("NewConnection", device.net) \subseteq Tells("NewConnection")
            BY DEF TellsOf
          <6>. QED  BY <2>1, <6>1, EndsIsNotFree
        <5>5. Known(device.net) = device.net
          BY <2>1, <5>2, <5>3, <5>4 DEF KnownInTime, Known
        <5>6. wifi_state' = [monitor.was EXCEPT !.ssid = device.net]
          BY <3>3, <5>1, <5>2, <5>5 DEF WriteFound
        <5>. QED  BY <2>1, <5>6 DEF WifiInv, MonitorTypeOK, Shown
      <4>. QED  BY <4>1, <4>2
    <3>. QED  BY <3>1, <3>2, <3>3
  <2>. QED  BY <1>1, <2>1, <2>2 DEF ConnectionIsShown
<1>. QED  BY <1>3, <1>4, <1>5, <1>6, <1>7 DEF WifiInv

LEMMA ScanKeepsInv ==
  ASSUME WifiInv, ScanDone
  PROVE  WifiInv'
<1>. DEFINE s == Event("PropertiesChanged", NoNetwork)
<1>1. /\ bus' = bus \o <<s>>
      /\ UNCHANGED <<device, saved, volatile, netFaults, wmVars>>
  BY DEF ScanDone, Sends
<1>2. s \in Signals /\ s.new = "PropertiesChanged" /\ s \notin StateChanges
  BY SignalKinds
<1>3. s \notin Tells("NewConnection") /\ \A m \in Networks : s \notin TellsOf("ConnectionRemoved", m)
  BY <1>2 DEF Tells, TellsOf
<1>. HIDE DEF s
<1>4. /\ <<s>> \in Seq(Signals) /\ Free(<<s>>, StateChanges) /\ Free(<<s>>, Tells("NewConnection"))
      /\ \A m \in Networks : Free(<<s>>, TellsOf("ConnectionRemoved", m))
  BY <1>2, <1>3, OneSignal, FreeOfOne
<1>5. TellsConnections(<<s>>)
  BY <1>1, <1>4 DEF TellsConnections
<1>6. UNCHANGED <<wifi_state, user_epoch, connections, state_q, conn_q, monitor, worker, taps, overtaken, ignored>>
  BY <1>1 DEF wmVars, history
<1>7. bus \in Seq(Signals)
  BY DEF WifiInv, NetTypeOK
<1>8. NetTypeOK' /\ DeviceFits' /\ ViewTypeOK' /\ MonitorTypeOK' /\ WorkTypeOK'
  <2>1. bus' \in Seq(Signals)
    BY <1>1, <1>4, <1>7, FreeOf
  <2>2. NetTypeOK'
    BY <1>1, <2>1 DEF WifiInv, NetTypeOK
  <2>. QED  BY <1>1, <1>6, <2>2 DEF WifiInv, DeviceFits, ViewTypeOK, MonitorTypeOK, WorkTypeOK, Jobs, Ops, States
<1>9. KnownRightly'
  BY <1>1, <1>4, <1>5, <1>6, <1>7, ConnectionsTold DEF WifiInv
<1>10. Quiet' <=> Quiet
  BY <1>6 DEF Quiet, Acts
<1>11. OffIsShown' /\ ConnectionIsShown'
  BY <1>1, <1>4, <1>6, <1>7, <1>10, ShownKeeps DEF WifiInv
<1>. QED  BY <1>8, <1>9, <1>11 DEF WifiInv

LEMMA NetworkKeepsInv ==
  ASSUME WifiInv, NetworkActs
  PROVE  WifiInv'
<1>1. UNCHANGED <<wifi_state, user_epoch, connections, state_q, conn_q, monitor, worker, taps, overtaken, ignored>>
  BY DEF NetworkActs, wmVars, history
<1>2. ViewTypeOK' /\ MonitorTypeOK' /\ WorkTypeOK' /\ ShowsSame
  BY <1>1 DEF WifiInv, ViewTypeOK, MonitorTypeOK, WorkTypeOK, Jobs, Ops, States, ShowsSame, history
<1>3. bus \in Seq(Signals)
  BY DEF WifiInv, NetTypeOK
<1>4. CASE AutoConnect
  <2>1. PICK n \in saved : Activates(n, <<>>)
    BY <1>4 DEF AutoConnect
  <2>2. n \in Networks
    BY DEF WifiInv, NetTypeOK
  <2>. QED  BY <1>1, <1>2, <2>1, <2>2, ActivatesKeepsInv
<1>5. CASE NetworkLost \/ Refuses
  <2>1. /\ NetTypeOK' /\ DeviceFits'
        /\ \E r \in Seq(Signals) :
              /\ bus' = bus \o r /\ TellsConnections(r)
              /\ device' = Off /\ EndsIn(r, TurnsOff, StateChanges)
    BY <1>5, FailureEffect DEF WifiInv
  <2>2. KnownRightly'
    BY <1>1, <1>3, <2>1, ConnectionsTold DEF WifiInv
  <2>3. OffIsShown' /\ ConnectionIsShown'
    BY <1>3, <2>1, OffTold
  <2>. QED  BY <1>2, <2>1, <2>2, <2>3 DEF WifiInv
<1>6. CASE Handled /\ Connected
  <2>. DEFINE s == Signal("ACTIVATED", "CONFIG", "NONE", device.net)
  <2>1. /\ monitor.at = "listen" /\ state_q = <<>> /\ bus = <<>>
        /\ device.state = "PREPARE" /\ device' = [device EXCEPT !.state = "ACTIVATED"]
        /\ bus' = bus \o <<s>> /\ UNCHANGED <<saved, volatile, netFaults>>
    BY <1>6 DEF Handled, Connected, Sends
  <2>2. device.net \in Networks /\ device.net \in saved
    BY <2>1 DEF WifiInv, DeviceFits, NetTypeOK
  <2>3. s \in Signals /\ s \in StateChanges /\ s.new = "ACTIVATED"
    BY <2>2, SignalKinds DEF States
  <2>4. s \in Tells("ACTIVATED") /\ s \notin Tells("NewConnection")
        /\ \A m \in Networks : s \notin TellsOf("ConnectionRemoved", m)
    BY <2>3 DEF Tells, TellsOf
  <2>. HIDE DEF s
  <2>5. /\ <<s>> \in Seq(Signals) /\ Free(<<s>>, Tells("NewConnection"))
        /\ \A m \in Networks : Free(<<s>>, TellsOf("ConnectionRemoved", m))
    BY <2>3, <2>4, OneSignal, FreeOfOne
  <2>6. bus' = <<s>>
    BY <2>1, <2>5, ConcatEmptySeq
  <2>7. KnownRightly'
    <3>1. TellsConnections(<<s>>)
      BY <2>1, <2>5 DEF TellsConnections
    <3>. QED  BY <1>1, <1>3, <2>1, <2>5, <3>1, ConnectionsTold DEF WifiInv
  <2>8. NetTypeOK' /\ DeviceFits' /\ device'.state = "ACTIVATED"
    <3>1. device' \in [state : States, net : Networks \cup {NoNetwork}] /\ device'.state = "ACTIVATED" /\ device'.net = device.net
      BY <2>1 DEF WifiInv, NetTypeOK, States
    <3>2. NetTypeOK'
      BY <2>1, <2>5, <2>6, <3>1 DEF WifiInv, NetTypeOK
    <3>. QED  BY <2>1, <2>2, <3>1, <3>2, NetworkAssumption DEF DeviceFits
  <2>9. Announced'
    <3>1. <<s>> # <<>> /\ Head(<<s>>) = s /\ Tail(<<s>>) = <<>>
      OBVIOUS
    <3>2. Free(Tail(<<s>>), StateChanges)
      BY <3>1, FreeOfOne
    <3>. QED  BY <1>1, <2>1, <2>4, <2>6, <3>1, <3>2, Zenon DEF Announced
  <2>10. OffIsShown' /\ ConnectionIsShown'
    BY <2>5, <2>6, <2>8, <2>9 DEF OffIsShown, ConnectionIsShown
  <2>. QED  BY <1>2, <2>7, <2>8, <2>10 DEF WifiInv
<1>. QED  BY <1>4, <1>5, <1>6, Zenon DEF NetworkActs

LEMMA WifiInvInit == WifiInit => WifiInv
<1>. SUFFICES ASSUME WifiInit PROVE WifiInv
  OBVIOUS
<1>1. /\ saved \in SUBSET Networks /\ connections = saved /\ volatile = {} /\ bus = <<>> /\ netFaults = 0
      /\ user_epoch = {} /\ state_q = <<>> /\ conn_q = NoConn /\ monitor = Listening
      /\ worker = [t \in Threads |-> Done] /\ taps = 0 /\ overtaken = FALSE /\ ignored = FALSE
  BY DEF WifiInit
<1>2. \/ device = Off /\ wifi_state = Nothing
      \/ \E n \in saved : /\ device = [state |-> "ACTIVATED", net |-> n]
                          /\ wifi_state = [ssid |-> n, status |-> "CONNECTED"]
  BY DEF WifiInit
<1>3. device \in [state : States, net : Networks \cup {NoNetwork}] /\ DeviceFits /\ wifi_state \in Shown
  BY <1>1, <1>2, NetworkAssumption, ShownStates DEF States, Off, DeviceFits, Shown
<1>4. NetTypeOK
  BY <1>1, <1>3, NetworkAssumption, EmptySeq DEF NetTypeOK
<1>5. ViewTypeOK /\ MonitorTypeOK
  BY <1>1, <1>3, ShownStates, EmptySeq DEF ViewTypeOK, MonitorTypeOK
<1>6. WorkTypeOK
  BY <1>1, ShownStates, TapsAssumption DEF WorkTypeOK, Done
<1>7. \A S : Free(bus, S)
  BY <1>1, FreeOfOne
<1>8. conn_q.removed = {} /\ conn_q.new = {} /\ monitor.at = "listen"
  BY <1>1 DEF NoConn, Listening
<1>9. KnownRightly
  BY <1>1, <1>7, <1>8 DEF KnownRightly, KnownInTime, ForgottenInTime
<1>10. OffIsShown
  BY <1>1, <1>2, <1>7, <1>8 DEF OffIsShown, Off
<1>11. ConnectionIsShown
  BY <1>1, <1>2, <1>7, <1>8 DEF ConnectionIsShown, Off
<1>. QED  BY <1>3, <1>4, <1>5, <1>6, <1>9, <1>10, <1>11 DEF WifiInv

LEMMA WifiInvStep == WifiInv /\ [WifiNext]_wifiVars => WifiInv'
<1>. SUFFICES ASSUME WifiInv, [WifiNext]_wifiVars PROVE WifiInv'
  OBVIOUS
<1>1. CASE UserActs
  BY <1>1, UserKeepsInv
<1>2. CASE \E t \in Threads : WorkerRuns(t)
  BY <1>2, WorkersKeepInv
<1>3. CASE MonitorRuns
  BY <1>3, ReceiveKeepsInv, ArrivesKeepsInv, DisconnectedKeepsInv, OtherHandlersKeepInv, ActivatedKeepsInv,
     FollowsKeepsInv DEF MonitorRuns
<1>4. CASE ScanDone
  BY <1>4, ScanKeepsInv
<1>5. CASE NetworkActs
  BY <1>5, NetworkKeepsInv
<1>6. CASE UNCHANGED wifiVars
  <2>1. UNCHANGED <<netVars, wifi_state, user_epoch, connections, state_q, conn_q, monitor, worker, taps, overtaken, ignored>>
    BY <1>6 DEF wifiVars, wmVars, history
  <2>2. ViewTypeOK' /\ WorkTypeOK' /\ (Quiet' <=> Quiet)
    BY <2>1 DEF WifiInv, ViewTypeOK, WorkTypeOK, Jobs, Ops, States, Quiet, Acts
  <2>. QED  BY <2>1, <2>2, UnseenKeepsInv
<1>. QED  BY <1>1, <1>2, <1>3, <1>4, <1>5, <1>6 DEF WifiNext

LEMMA WifiInvHolds == WifiSpec => []WifiInv
  BY WifiInvInit, WifiInvStep, PTL DEF WifiSpec

-----------------------------------------------------------------------------
(* The DISCONNECTED that a removal causes comes right after a DEACTIVATING   *)
(* of the same cause, which has cleared what is shown as connected: so what  *)
(* is passed over is never shown as connected.                               *)

Losses == {s \in StateChanges : s.new = "DISCONNECTED" /\ s.reason = "CONNECTION_REMOVED"}
Warnings == {s \in StateChanges : s.new = "DEACTIVATING" /\ s.reason = "CONNECTION_REMOVED"}

\* every loss in q, but one at its head, comes right after a warning
Warned(q) == \A i \in DOMAIN q : i # 1 /\ q[i] \in Losses => q[i - 1] \in Warnings
Begins(q) == q # <<>> /\ q[1] \in Losses
Sent(q) == Warned(q) /\ ~Begins(q)

\* the warning of a loss that is next has been handled
Cleared == monitor.at = "listen" /\ (overtaken \/ wifi_state.status # "CONNECTED")
BusIsWarned == Begins(bus) => IF state_q = <<>> THEN Cleared ELSE state_q[Len(state_q)] \in Warnings
LossesAreWarned ==
    /\ Warned(state_q) /\ (Begins(state_q) => Cleared)
    /\ Warned(bus) /\ BusIsWarned
IgnoredFits == ignored /\ ~overtaken => wifi_state.status # "CONNECTED"
WarnedInv == LossesAreWarned /\ IgnoredFits

LEMMA LossSignals == Losses \subseteq StateChanges /\ Warnings \subseteq StateChanges /\ StateChanges \subseteq Signals
BY DEF Losses, Warnings, StateChanges

LEMMA WarnedOfOne ==
  /\ Warned(<<>>) /\ ~Begins(<<>>)
  /\ \A s : Warned(<<s>>) /\ (Begins(<<s>>) <=> s \in Losses)
<1>1. Warned(<<>>) /\ ~Begins(<<>>)
  BY DEF Warned, Begins
<1>2. ASSUME NEW s PROVE Warned(<<s>>) /\ (Begins(<<s>>) <=> s \in Losses)
  <2>1. DOMAIN <<s>> = {1} /\ <<s>>[1] = s /\ <<s>> # <<>>
    OBVIOUS
  <2>. QED  BY <2>1, Zenon DEF Warned, Begins
<1>. QED  BY <1>1, <1>2

LEMMA WarnedOf ==
  ASSUME NEW q \in Seq(Signals), NEW r \in Seq(Signals), Warned(q), Warned(r),
         q # <<>> /\ Begins(r) => q[Len(q)] \in Warnings
  PROVE  Warned(q \o r) /\ (Begins(q \o r) <=> IF q = <<>> THEN Begins(r) ELSE Begins(q))
<1>. DEFINE w == q \o r
<1>1. /\ w \in Seq(Signals) /\ Len(w) = Len(q) + Len(r) /\ Len(q) \in Nat /\ Len(r) \in Nat
      /\ \A i \in 1 .. Len(q) : w[i] = q[i]
      /\ \A i \in 1 .. Len(r) : w[Len(q) + i] = r[i]
      /\ DOMAIN w = 1 .. (Len(q) + Len(r)) /\ DOMAIN q = 1 .. Len(q) /\ DOMAIN r = 1 .. Len(r)
  BY ConcatProperties, LenProperties, SMT
<1>2. (q = <<>> <=> Len(q) = 0) /\ (r = <<>> <=> Len(r) = 0) /\ (w = <<>> <=> Len(w) = 0)
  BY <1>1, EmptySeq
<1>. HIDE DEF w
<1>3. ASSUME NEW i \in 1 .. (Len(q) + Len(r)), i # 1, w[i] \in Losses PROVE w[i - 1] \in Warnings
  <2>1. CASE i \in 1 .. Len(q)
    <3>1. i - 1 \in 1 .. Len(q)
      BY <1>1, <1>3, <2>1
    <3>. QED  BY <1>1, <1>3, <2>1, <3>1 DEF Warned
  <2>2. CASE i = Len(q) + 1
    <3>1. 1 \in 1 .. Len(r) /\ Len(q) \in 1 .. Len(q) /\ Len(q) # 0 /\ Len(r) # 0
      BY <1>1, <1>3, <2>2
    <3>2. w[i] = r[1] /\ w[Len(q)] = q[Len(q)] /\ i - 1 = Len(q)
      BY <1>1, <2>2, <3>1
    <3>3. Begins(r) /\ q # <<>>
      BY <1>2, <1>3, <3>1, <3>2 DEF Begins
    <3>. QED  BY <3>2, <3>3
  <2>3. CASE i \notin 1 .. Len(q) /\ i # Len(q) + 1
    <3>. DEFINE j == i - Len(q)
    <3>1. j \in 1 .. Len(r) /\ j # 1 /\ Len(q) + j = i /\ j - 1 \in 1 .. Len(r) /\ Len(q) + (j - 1) = i - 1
      BY <1>1, <1>3, <2>3
    <3>. HIDE DEF j
    <3>2. w[i] = r[j] /\ w[i - 1] = r[j - 1]
      BY <1>1, <3>1
    <3>. QED  BY <1>1, <1>3, <3>1, <3>2 DEF Warned
  <2>. QED  BY <2>1, <2>2, <2>3
<1>4. Warned(w)
  BY <1>1, <1>3 DEF Warned
<1>5. Begins(w) <=> IF q = <<>> THEN Begins(r) ELSE Begins(q)
  <2>1. CASE q = <<>>
    <3>1. w = r
      BY <2>1, ConcatEmptySeq DEF w
    <3>. QED  BY <2>1, <3>1
  <2>2. CASE q # <<>>
    <3>1. 1 \in 1 .. Len(q) /\ Len(w) # 0
      BY <1>1, <1>2, <2>2
    <3>2. w # <<>> /\ w[1] = q[1]
      BY <1>1, <1>2, <3>1
    <3>. QED  BY <2>2, <3>2 DEF Begins
  <2>. QED  BY <2>1, <2>2
<1>. QED  BY <1>4, <1>5 DEF w

LEMMA SentOf ==
  ASSUME NEW q \in Seq(Signals), NEW r \in Seq(Signals), Sent(q), Sent(r)
  PROVE  Sent(q \o r) /\ q \o r \in Seq(Signals)
<1>1. q \o r \in Seq(Signals)
  BY ConcatProperties
<1>. QED  BY <1>1, WarnedOf DEF Sent

LEMMA SentIfFree ==
  ASSUME NEW q \in Seq(Signals), Free(q, Losses) \/ Free(q, StateChanges)
  PROVE  Sent(q)
<1>1. Free(q, Losses)
  BY LossSignals DEF Free
<1>2. q # <<>> => 1 \in DOMAIN q
  BY EmptySeq, LenProperties
<1>. QED  BY <1>1, <1>2 DEF Free, Sent, Warned, Begins

LEMMA WarnedOfTail ==
  ASSUME NEW q \in Seq(Signals), q # <<>>, Warned(q)
  PROVE  /\ Tail(q) \in Seq(Signals) /\ Head(q) = q[1]
         /\ Warned(Tail(q)) /\ (Begins(Tail(q)) => Head(q) \in Warnings)
         /\ IF Tail(q) = <<>> THEN q[Len(q)] = Head(q) ELSE Tail(q)[Len(Tail(q))] = q[Len(q)]
<1>1. /\ Tail(q) \in Seq(Signals) /\ Len(Tail(q)) = Len(q) - 1 /\ Len(q) \in Nat \ {0} /\ Head(q) = q[1]
      /\ \A i \in 1 .. Len(Tail(q)) : Tail(q)[i] = q[i + 1]
      /\ DOMAIN q = 1 .. Len(q) /\ DOMAIN Tail(q) = 1 .. Len(Tail(q))
  BY HeadTailProperties, EmptySeq, LenProperties
<1>2. Tail(q) = <<>> <=> Len(q) = 1
  <2>1. Tail(q) = <<>> <=> Len(Tail(q)) = 0
    BY <1>1, EmptySeq
  <2>. QED  BY <1>1, <2>1
<1>. DEFINE w == Tail(q)
<1>. HIDE DEF w
<1>3. ASSUME NEW i \in 1 .. Len(w), w[i] \in Losses PROVE q[i] \in Warnings /\ (i # 1 => w[i - 1] = q[i])
  <2>1. i + 1 \in 1 .. Len(q) /\ i + 1 # 1 /\ (i + 1) - 1 = i /\ w[i] = q[i + 1]
    BY <1>1, <1>3 DEF w
  <2>2. q[i] \in Warnings
    BY <1>1, <1>3, <2>1 DEF Warned
  <2>3. ASSUME i # 1 PROVE w[i - 1] = q[i]
    <3>1. i - 1 \in 1 .. Len(w) /\ (i - 1) + 1 = i
      BY <1>1, <2>3 DEF w
    <3>. QED  BY <1>1, <3>1 DEF w
  <2>. QED  BY <2>2, <2>3
<1>4. Warned(w)
  BY <1>1, <1>3 DEF Warned, w
<1>5. Begins(w) => Head(q) \in Warnings
  <2>. SUFFICES ASSUME Begins(w) PROVE Head(q) \in Warnings
    OBVIOUS
  <2>1. 1 \in 1 .. Len(w) /\ w[1] \in Losses
    BY <1>1, <1>2 DEF Begins, w
  <2>. QED  BY <1>1, <1>3, <2>1
<1>6. ASSUME w # <<>> PROVE w[Len(w)] = q[Len(q)]
  <2>1. Len(w) \in 1 .. Len(w) /\ Len(w) + 1 = Len(q)
    BY <1>1, <1>2, <1>6 DEF w
  <2>. QED  BY <1>1, <2>1 DEF w
<1>. QED  BY <1>1, <1>2, <1>4, <1>5, <1>6 DEF w

\* What NetworkManager's operations send.
LEMMA ActivatesWarns ==
  ASSUME NetTypeOK, DeviceFits, NEW n \in Networks, NEW announced,
         announced = <<>> \/ announced = <<Event("NewConnection", n)>>,
         Activates(n, announced)
  PROVE  \E r \in Seq(Signals) : bus' = bus \o r /\ Sent(r)
<1>. DEFINE gone == GoesWithDevice \ {n}
            s == Signal("PREPARE", "DISCONNECTED", "NONE", n)
            ev == Event("NewConnection", n)
<1>1. PICK late \in BOOLEAN : Sends(announced \o Leaving(late) \o Removals(gone) \o <<s>>)
  BY Zenon DEF Activates
<1>2. gone \subseteq {device.net} /\ gone \subseteq Networks
  BY DEF GoesWithDevice, NetTypeOK
<1>3. Removals(gone) \in Seq(Signals) /\ Sent(Removals(gone))
  BY <1>2, RemovalsTell, SentIfFree
<1>4. <<s>> \in Seq(Signals) /\ Sent(<<s>>)
  <2>1. s \in Signals /\ s.new = "PREPARE"
    BY SignalKinds DEF States
  <2>2. s \notin Losses
    BY <2>1 DEF Losses
  <2>. HIDE DEF s
  <2>. QED  BY <2>1, <2>2, OneSignal, FreeOfOne, SentIfFree
<1>5. announced \in Seq(Signals) /\ Sent(announced)
  <2>1. ev \in Signals /\ ev \notin StateChanges
    BY SignalKinds
  <2>2. announced = <<>> \/ announced = <<ev>>
    OBVIOUS
  <2>. HIDE DEF ev
  <2>3. <<ev>> \in Seq(Signals) /\ Free(<<ev>>, StateChanges) /\ <<>> \in Seq(Signals) /\ Free(<<>>, StateChanges)
    <3>1. <<ev>> \in Seq(Signals) /\ <<>> \in Seq(Signals)
      BY <2>1
    <3>. QED  BY <2>1, <3>1, FreeOfOne, Zenon
  <2>4. Sent(<<ev>>) /\ Sent(<<>>)
    BY <2>3, SentIfFree
  <2>. QED  BY <2>2, <2>3, <2>4, Zenon
<1>6. Leaving(late) \in Seq(Signals) /\ Sent(Leaving(late))
  <2>1. CASE device = Off
    <3>1. Leaving(late) = <<>> /\ <<>> \in Seq(Signals)
      BY <2>1 DEF Leaving
    <3>. QED  BY <3>1, FreeOfOne, SentIfFree
  <2>2. CASE device # Off
    <3>. DEFINE u == Signal("DISCONNECTED", "DEACTIVATING", "NEW_ACTIVATION", device.net)
                v == Signal("NEED_AUTH", "DISCONNECTED", "SUPPLICANT_DISCONNECT", device.net)
                x == IF late THEN <<v>> ELSE <<>>
    <3>1. u \in Signals /\ u.reason = "NEW_ACTIVATION" /\ v \in Signals /\ v.new = "NEED_AUTH"
      BY SignalKinds DEF NetTypeOK, States
    <3>2. u \notin Losses /\ v \notin Losses
      BY <3>1 DEF Losses
    <3>3. Leaving(late) = <<u>> \o x
      BY <2>2 DEF Leaving
    <3>. HIDE DEF u, v
    <3>4. <<u>> \in Seq(Signals) /\ x \in Seq(Signals) /\ Free(<<u>>, Losses) /\ Free(x, Losses)
      <4>1. <<u>> \in Seq(Signals) /\ <<v>> \in Seq(Signals) /\ <<>> \in Seq(Signals)
        BY <3>1
      <4>2. Free(<<u>>, Losses) /\ Free(<<v>>, Losses) /\ Free(<<>>, Losses)
        BY <3>2, FreeOfOne, Zenon
      <4>. QED  BY <4>1, <4>2, Zenon
    <3>. HIDE DEF x
    <3>5. Sent(<<u>>) /\ Sent(x)
      BY <3>4, SentIfFree
    <3>. QED  BY <3>3, <3>4, <3>5, SentOf
  <2>. QED  BY <2>1, <2>2
<1>. DEFINE q1 == announced \o Leaving(late)
            q2 == q1 \o Removals(gone)
<1>. HIDE DEF gone, s, ev
<1>7. q1 \in Seq(Signals) /\ Sent(q1)
  BY <1>5, <1>6, SentOf
<1>8. bus' = bus \o (q2 \o <<s>>)
  BY <1>1 DEF Sends
<1>. HIDE DEF q1
<1>9. q2 \in Seq(Signals) /\ Sent(q2)
  BY <1>3, <1>7, SentOf
<1>. HIDE DEF q2
<1>10. q2 \o <<s>> \in Seq(Signals) /\ Sent(q2 \o <<s>>)
  BY <1>4, <1>9, SentOf
<1>. QED  BY <1>8, <1>10

LEMMA DeletesWarns ==
  ASSUME NetTypeOK, NEW n \in Networks, Deletes(n)
  PROVE  \E r \in Seq(Signals) : bus' = bus \o r /\ Sent(r)
<1>. DEFINE s == Event("ConnectionRemoved", n)
            u == Signal("DEACTIVATING", device.state, "CONNECTION_REMOVED", n)
            v == Signal("DISCONNECTED", "DEACTIVATING", "CONNECTION_REMOVED", n)
            off == <<u, v>>
<1>1. Sends(<<s>> \o off) \/ Sends(off \o <<s>>) \/ Sends(<<s>>)
  BY DEF Deletes
<1>2. /\ s \in Signals /\ s \notin StateChanges
      /\ u \in Signals /\ u \in StateChanges /\ u.new = "DEACTIVATING" /\ u.reason = "CONNECTION_REMOVED"
      /\ v \in Signals
  BY SignalKinds DEF NetTypeOK
<1>3. u \in Warnings /\ u \notin Losses
  BY <1>2 DEF Warnings, Losses
<1>. HIDE DEF s, u, v
<1>4. off = <<u>> \o <<v>> /\ <<u>> \in Seq(Signals) /\ <<v>> \in Seq(Signals) /\ <<s>> \in Seq(Signals)
  BY <1>2, TwoSignals, OneSignal
<1>5. Sent(<<s>>)
  BY <1>2, <1>4, FreeOfOne, SentIfFree
<1>6. off \in Seq(Signals) /\ Sent(off)
  <2>1. Warned(<<u>>) /\ ~Begins(<<u>>) /\ Warned(<<v>>)
    BY <1>3, WarnedOfOne
  <2>2. <<u>> # <<>> /\ <<u>>[Len(<<u>>)] = u
    OBVIOUS
  <2>3. Warned(<<u>> \o <<v>>) /\ ~Begins(<<u>> \o <<v>>)
    BY <1>3, <1>4, <2>1, <2>2, WarnedOf
  <2>4. off \in Seq(Signals)
    BY <1>2
  <2>. QED  BY <1>4, <2>3, <2>4 DEF Sent
<1>. HIDE DEF off
<1>7. /\ <<s>> \o off \in Seq(Signals) /\ Sent(<<s>> \o off)
      /\ off \o <<s>> \in Seq(Signals) /\ Sent(off \o <<s>>)
  BY <1>4, <1>5, <1>6, SentOf
<1>. QED  BY <1>1, <1>4, <1>5, <1>7, Zenon DEF Sends

LEMMA FailureWarns ==
  ASSUME NetTypeOK, DeviceFits, Refuses \/ NetworkLost
  PROVE  \E r \in Seq(Signals) : bus' = bus \o r /\ Sent(r)
<1>. DEFINE s == Signal("FAILED", "NEED_AUTH", "NO_SECRETS", device.net)
            u == Signal("NEED_AUTH", "CONFIG", "SUPPLICANT_DISCONNECT", device.net)
            v == Signal("FAILED", device.state, "NONE", device.net)
            d == Signal("DISCONNECTED", "FAILED", "NONE", device.net)
            last == Removals(GoesWithDevice)
<1>1. PICK before \in {<<u>> \o <<s>>, <<s>>, <<v>>} : GoesOff(before)
  BY Zenon DEF Refuses, NetworkLost
<1>2. /\ s \in Signals /\ u \in Signals /\ v \in Signals /\ d \in Signals
      /\ s.new = "FAILED" /\ u.new = "NEED_AUTH" /\ v.new = "FAILED" /\ d.reason = "NONE"
  BY SignalKinds DEF NetTypeOK, States
<1>3. s \notin Losses /\ u \notin Losses /\ v \notin Losses /\ d \notin Losses
  BY <1>2 DEF Losses
<1>. HIDE DEF s, u, v
<1>4. bus' = bus \o (before \o <<d>> \o last)
  BY <1>1 DEF GoesOff, Sends
<1>. HIDE DEF d
<1>5. ASSUME NEW x \in {s, u, v, d} PROVE <<x>> \in Seq(Signals) /\ Sent(<<x>>)
  <2>1. x \in Signals /\ x \notin Losses
    BY <1>2, <1>3
  <2>. QED  BY <2>1, OneSignal, FreeOfOne, SentIfFree
<1>6. before \in Seq(Signals) /\ Sent(before)
  <2>1. <<u>> \o <<s>> \in Seq(Signals) /\ Sent(<<u>> \o <<s>>)
    BY <1>5, SentOf
  <2>. QED  BY <1>1, <1>5, <2>1
<1>7. last \in Seq(Signals) /\ Sent(last)
  <2>1. GoesWithDevice \subseteq {device.net} /\ GoesWithDevice \subseteq Networks
    BY DEF GoesWithDevice, NetTypeOK
  <2>. QED  BY <2>1, RemovalsTell, SentIfFree
<1>. HIDE DEF last
<1>8. before \o <<d>> \in Seq(Signals) /\ Sent(before \o <<d>>)
  BY <1>5, <1>6, SentOf
<1>. DEFINE q == before \o <<d>>
<1>. HIDE DEF q
<1>9. q \o last \in Seq(Signals) /\ Sent(q \o last)
  BY <1>7, <1>8, SentOf DEF q
<1>. QED  BY <1>4, <1>9 DEF q

\* A step that handles no signal: what is next stays warned of, if what was cleared stays so.
LEMMA UnhandledKeepsWarned ==
  ASSUME WifiInv, WarnedInv, NEW r \in Seq(Signals), bus' = bus \o r, Sent(r), UNCHANGED state_q,
         Cleared => Cleared' \/ (~Begins(state_q) /\ ~Begins(bus)), IgnoredFits'
  PROVE  WarnedInv'
<1>1. bus \in Seq(Signals) /\ Warned(bus) /\ Warned(r) /\ ~Begins(r)
  BY DEF WifiInv, NetTypeOK, WarnedInv, LossesAreWarned, Sent
<1>2. Warned(bus') /\ (Begins(bus') => Begins(bus))
  BY <1>1, WarnedOf
<1>3. Warned(state_q') /\ (Begins(state_q') => Cleared')
  BY DEF WarnedInv, LossesAreWarned
<1>4. BusIsWarned'
  BY <1>2 DEF WarnedInv, LossesAreWarned, BusIsWarned
<1>. QED  BY <1>2, <1>3, <1>4 DEF WarnedInv, LossesAreWarned

\* A step that changes nothing of what is shown.
LEMMA SendingKeepsWarned ==
  ASSUME WifiInv, WarnedInv, UNCHANGED <<wifi_state, overtaken, ignored, monitor, state_q>>,
         \/ UNCHANGED bus
         \/ \E r \in Seq(Signals) : bus' = bus \o r /\ Sent(r)
  PROVE  WarnedInv'
<1>1. PICK r \in Seq(Signals) : bus' = bus \o r /\ Sent(r)
  <2>1. <<>> \in Seq(Signals) /\ Sent(<<>>)
    BY WarnedOfOne DEF Sent
  <2>2. bus \o <<>> = bus
    BY ConcatEmptySeq DEF WifiInv, NetTypeOK
  <2>. QED  BY <2>1, <2>2
<1>2. (Cleared => Cleared') /\ IgnoredFits'
  BY DEF Cleared, IgnoredFits, WarnedInv
<1>. QED  BY <1>1, <1>2, UnhandledKeepsWarned

\* A step that sends nothing.
LEMMA SilentKeepsWarned ==
  ASSUME WifiInv, WarnedInv, UNCHANGED <<bus, state_q>>,
         Cleared => Cleared' \/ (~Begins(state_q) /\ ~Begins(bus)), IgnoredFits'
  PROVE  WarnedInv'
<1>1. <<>> \in Seq(Signals) /\ Sent(<<>>)
  BY WarnedOfOne DEF Sent
<1>2. bus' = bus \o <<>>
  BY ConcatEmptySeq DEF WifiInv, NetTypeOK
<1>. QED  BY <1>1, <1>2, UnhandledKeepsWarned

LEMMA UserKeepsWarned ==
  ASSUME WifiInv, WarnedInv, UserActs
  PROVE  WarnedInv'
<1>1. UNCHANGED <<bus, monitor, state_q>>
  BY DEF UserActs, ConnectToNetwork, ActivateConnection, ForgetConnection, SetActive, Starts, netVars
<1>2. CASE ShowsSame
  BY <1>1, <1>2, SendingKeepsWarned DEF ShowsSame, history
<1>3. CASE \E n \in Networks \cup {NoNetwork} : SetConnecting(Connecting(n))
  <2>1. wifi_state'.status = "CONNECTING" /\ overtaken' = FALSE /\ ignored' = FALSE
    BY <1>3 DEF SetConnecting, Connecting
  <2>2. (Cleared => Cleared') /\ IgnoredFits'
    BY <1>1, <2>1 DEF Cleared, IgnoredFits
  <2>. QED  BY <1>1, <2>2, SilentKeepsWarned
<1>4. connections \subseteq Networks
  BY DEF WifiInv, MonitorTypeOK
<1>. QED  BY <1>2, <1>3, <1>4 DEF UserActs, ConnectToNetwork, ActivateConnection, ForgetConnection, SetActive

\* Nothing is lost that is shown as connected: the device is, and that has been told last.
LEMMA ActivatedIsLast ==
  ASSUME WifiInv, device.state = "ACTIVATED"
  PROVE  ~Begins(state_q) /\ ~Begins(bus)
<1>1. bus \in Seq(Signals) /\ state_q \in Seq(Signals)
  BY DEF WifiInv, NetTypeOK, MonitorTypeOK
<1>2. \A s \in Tells("ACTIVATED") : s \notin Losses
  BY DEF Tells, Losses
<1>3. CASE Announced
  <2>1. bus[1] = Head(bus) /\ Head(bus) \in Tells("ACTIVATED") /\ state_q = <<>>
    BY <1>1, <1>3, HeadTailProperties DEF Announced
  <2>. QED  BY <1>2, <2>1 DEF Begins
<1>4. CASE ~Announced
  <2>1. Free(bus, StateChanges) /\ (state_q = <<>> \/ state_q[1] \in Tells("ACTIVATED"))
    BY <1>4 DEF WifiInv, ConnectionIsShown
  <2>2. ~Begins(bus)
    BY <1>1, <2>1, SentIfFree DEF Sent
  <2>. QED  BY <1>2, <2>1, <2>2 DEF Begins
<1>. QED  BY <1>3, <1>4

LEMMA WorkersKeepWarned ==
  ASSUME WifiInv, WarnedInv, NEW t \in Threads, WorkerRuns(t)
  PROVE  WarnedInv'
<1>1. UNCHANGED <<monitor, state_q>>
  BY DEF WorkerRuns, Forget, AddAndActivate, Activate, CallFails, ReadState, ReadConnection, WriteRead, WorkerOnly
<1>2. CASE Forget(t)
  <2>1. UNCHANGED <<wifi_state, overtaken, ignored>>
    BY <1>2 DEF Forget, ShowsSame, history
  <2>2. CASE UNCHANGED netVars
    BY <1>1, <2>1, <2>2, SendingKeepsWarned DEF netVars
  <2>3. CASE worker[t].ssid \in connections /\ Deletes(worker[t].ssid)
    <3>1. worker[t].ssid \in Networks
      BY <2>3 DEF WifiInv, MonitorTypeOK
    <3>. QED  BY <1>1, <2>1, <2>3, <3>1, DeletesWarns, SendingKeepsWarned DEF WifiInv
  <2>. QED  BY <1>2, <2>2, <2>3, Zenon DEF Forget
<1>3. CASE AddAndActivate(t) \/ Activate(t)
  <2>1. UNCHANGED <<wifi_state, overtaken, ignored>>
    BY <1>3 DEF AddAndActivate, Activate, ShowsSame, history
  <2>2. worker[t].ssid \in Networks
    BY <1>3 DEF WifiInv, WorkTypeOK, NetTypeOK, AddAndActivate, Activate, Does
  <2>3. Activates(worker[t].ssid, <<Event("NewConnection", worker[t].ssid)>>) \/ Activates(worker[t].ssid, <<>>)
    BY <1>3, Zenon DEF AddAndActivate, Activate
  <2>4. \E r \in Seq(Signals) : bus' = bus \o r /\ Sent(r)
    BY <2>2, <2>3, ActivatesWarns DEF WifiInv
  <2>. QED  BY <1>1, <2>1, <2>4, SendingKeepsWarned
<1>4. CASE CallFails(t) \/ ReadState(t) \/ ReadConnection(t)
  <2>1. UNCHANGED <<wifi_state, overtaken, ignored, bus>>
    BY <1>4 DEF CallFails, ReadState, ReadConnection, ShowsSame, history, netVars
  <2>. QED  BY <1>1, <2>1, SendingKeepsWarned
<1>5. CASE WriteRead(t)
  <2>1. /\ wifi_state'.status = StatusOf(worker[t].read.state) /\ ignored' = FALSE
        /\ overtaken' = (worker[t].read # device) /\ UNCHANGED bus
    BY <1>5 DEF WriteRead, netVars
  <2>2. IgnoredFits'
    BY <2>1 DEF IgnoredFits
  <2>3. ASSUME Cleared, ~Cleared' PROVE ~Begins(state_q) /\ ~Begins(bus)
    <3>1. monitor'.at = "listen"
      BY <1>1, <2>3 DEF Cleared
    <3>2. wifi_state'.status = "CONNECTED" /\ ~overtaken'
      BY <2>3, <3>1, Zenon DEF Cleared
    <3>3. worker[t].read = device
      BY <2>1, <3>2, Zenon
    <3>4. StatusOf(device.state) = "CONNECTED" /\ device.state \in States
      BY <2>1, <3>2, <3>3 DEF WifiInv, NetTypeOK
    <3>5. device.state = "ACTIVATED"
      BY <3>4 DEF StatusOf, States
    <3>. QED  BY <3>5, ActivatedIsLast
  <2>. QED  BY <1>1, <2>1, <2>2, <2>3, SilentKeepsWarned
<1>. QED  BY <1>2, <1>3, <1>4, <1>5 DEF WorkerRuns

LEMMA ReceiveKeepsWarned ==
  ASSUME WifiInv, WarnedInv, Receive
  PROVE  WarnedInv'
<1>. DEFINE s == Head(bus)
<1>1. /\ monitor.at = "listen" /\ state_q = <<>> /\ bus # <<>> /\ bus' = Tail(bus)
      /\ state_q' = StateSignals(s) /\ UNCHANGED <<wifi_state, overtaken, ignored, monitor>>
  BY DEF Receive, ShowsSame, history
<1>2. bus \in Seq(Signals) /\ Warned(bus) /\ BusIsWarned /\ IgnoredFits
  BY DEF WifiInv, NetTypeOK, WarnedInv, LossesAreWarned
<1>3. s \in Signals /\ StateSignals(s) = IF s \in StateChanges THEN <<s>> ELSE <<>>
  BY <1>1, <1>2, HeadsSignals
<1>4. s = bus[1] /\ Warned(bus') /\ (Begins(bus') => s \in Warnings)
  BY <1>1, <1>2, WarnedOfTail
<1>. HIDE DEF s
<1>5. IgnoredFits' /\ (Cleared' <=> Cleared)
  BY <1>1, <1>2 DEF IgnoredFits, Cleared
<1>6. CASE s \in StateChanges
  <2>1. state_q' = <<s>> /\ <<s>> # <<>> /\ <<s>>[Len(<<s>>)] = s
    BY <1>1, <1>3, <1>6
  <2>2. Warned(<<s>>) /\ (Begins(<<s>>) <=> s \in Losses)
    BY WarnedOfOne
  <2>3. s \in Losses => Cleared
    BY <1>1, <1>2, <1>4 DEF BusIsWarned, Begins
  <2>4. BusIsWarned'
    BY <1>4, <2>1 DEF BusIsWarned
  <2>5. Warned(state_q') /\ (Begins(state_q') => Cleared')
    BY <1>5, <2>1, <2>2, <2>3, Zenon
  <2>. QED  BY <1>4, <1>5, <2>4, <2>5 DEF WarnedInv, LossesAreWarned
<1>7. CASE s \notin StateChanges
  <2>1. state_q' = <<>>
    BY <1>1, <1>3, <1>7
  <2>2. ~Begins(bus')
    BY <1>4, <1>7, LossSignals
  <2>. QED  BY <1>4, <1>5, <2>1, <2>2, WarnedOfOne DEF WarnedInv, LossesAreWarned, BusIsWarned
<1>. QED  BY <1>6, <1>7

LEMMA ArrivesKeepsWarned ==
  ASSUME WifiInv, WarnedInv, Arrives
  PROVE  WarnedInv'
<1>. DEFINE s == Head(bus)
<1>1. /\ monitor.at \in {"lookup", "save"} /\ bus # <<>> /\ bus' = Tail(bus)
      /\ state_q' = state_q \o StateSignals(s) /\ UNCHANGED <<wifi_state, overtaken, ignored, monitor>>
  BY DEF Arrives, ShowsSame, history
<1>2. /\ bus \in Seq(Signals) /\ Warned(bus) /\ BusIsWarned /\ IgnoredFits
      /\ state_q \in Seq(Signals) /\ Warned(state_q) /\ (Begins(state_q) => Cleared)
  BY DEF WifiInv, NetTypeOK, MonitorTypeOK, WarnedInv, LossesAreWarned
<1>3. s \in Signals /\ StateSignals(s) = IF s \in StateChanges THEN <<s>> ELSE <<>>
  BY <1>1, <1>2, HeadsSignals
<1>4. s = bus[1] /\ Warned(bus') /\ (Begins(bus') => s \in Warnings)
  BY <1>1, <1>2, WarnedOfTail
<1>. HIDE DEF s
<1>5. IgnoredFits' /\ ~Cleared /\ ~Begins(state_q)
  BY <1>1, <1>2 DEF IgnoredFits, Cleared
<1>6. s \in Losses => state_q # <<>> /\ state_q[Len(state_q)] \in Warnings
  BY <1>1, <1>2, <1>4, <1>5 DEF BusIsWarned, Begins
<1>7. CASE s \in StateChanges
  <2>. DEFINE w == <<s>>
  <2>1. state_q' = state_q \o w /\ w \in Seq(Signals) /\ Len(w) = 1 /\ w[1] = s /\ w # <<>>
    BY <1>1, <1>3, <1>7, OneSignal
  <2>2. Warned(w) /\ (Begins(w) <=> s \in Losses)
    BY WarnedOfOne
  <2>. HIDE DEF w
  <2>3. Warned(state_q') /\ ~Begins(state_q')
    BY <1>2, <1>5, <1>6, <2>1, <2>2, WarnedOf
  <2>4. state_q' # <<>> /\ state_q'[Len(state_q')] = s
    <3>1. Len(state_q \o w) = Len(state_q) + 1 /\ (state_q \o w)[Len(state_q) + 1] = s
      <4>1. /\ Len(state_q \o w) = Len(state_q) + Len(w)
            /\ \A i \in 1 .. Len(w) : (state_q \o w)[Len(state_q) + i] = w[i]
        <5>1. state_q \in Seq(Signals) /\ w \in Seq(Signals)
          BY <1>2, <2>1
        <5>. QED  BY <5>1, ConcatProperties
      <4>2. 1 \in 1 .. Len(w)
        BY <2>1
      <4>. QED  BY <2>1, <4>1, <4>2
    <3>2. state_q \o w # <<>>
      BY <1>2, <2>1, ConcatEqualIffEmpty
    <3>. QED  BY <2>1, <3>1, <3>2
  <2>5. BusIsWarned'
    BY <1>4, <2>4 DEF BusIsWarned
  <2>. QED  BY <1>4, <1>5, <2>3, <2>5 DEF WarnedInv, LossesAreWarned
<1>8. CASE s \notin StateChanges
  <2>1. state_q' = state_q
    BY <1>1, <1>2, <1>3, <1>8, ConcatEmptySeq
  <2>2. ~Begins(bus')
    BY <1>4, <1>8, LossSignals
  <2>. QED  BY <1>2, <1>4, <1>5, <2>1, <2>2 DEF WarnedInv, LossesAreWarned, BusIsWarned
<1>. QED  BY <1>7, <1>8

\* A warning that is handled clears what is shown as connected, before its loss is handled.
LEMMA HandlesKeepsWarned ==
  ASSUME WifiInv, WarnedInv, NEW news, Handles(news), Head(state_q) \in Warnings => Cleared', IgnoredFits'
  PROVE  WarnedInv'
<1>1. state_q # <<>> /\ state_q' = Tail(state_q) /\ UNCHANGED bus
  BY DEF Handles, netVars
<1>2. /\ state_q \in Seq(Signals) /\ Warned(state_q) /\ Warned(bus) /\ BusIsWarned
  BY DEF WifiInv, MonitorTypeOK, WarnedInv, LossesAreWarned
<1>3. /\ Warned(state_q') /\ (Begins(state_q') => Head(state_q) \in Warnings)
      /\ IF state_q' = <<>> THEN state_q[Len(state_q)] = Head(state_q) ELSE state_q'[Len(state_q')] = state_q[Len(state_q)]
  BY <1>1, <1>2, WarnedOfTail
<1>4. BusIsWarned'
  <2>. SUFFICES ASSUME Begins(bus) PROVE IF state_q' = <<>> THEN Cleared' ELSE state_q'[Len(state_q')] \in Warnings
    BY <1>1 DEF BusIsWarned
  <2>1. state_q[Len(state_q)] \in Warnings
    BY <1>1, <1>2 DEF BusIsWarned
  <2>. QED  BY <1>3, <2>1
<1>. QED  BY <1>1, <1>2, <1>3, <1>4 DEF WarnedInv, LossesAreWarned

LEMMA HandlersKeepWarned ==
  ASSUME WifiInv, WarnedInv, Disconnected \/ Preparing \/ WrongPassword \/ Activated \/ Deactivating
  PROVE  WarnedInv'
<1>1. IgnoredFits /\ (Begins(state_q) => Cleared) /\ state_q \in Seq(Signals)
  BY DEF WarnedInv, LossesAreWarned, WifiInv, MonitorTypeOK
<1>2. ASSUME NEW news, Handles(news), "DEACTIVATING" \notin news PROVE Head(state_q) \notin Warnings
  BY <1>2 DEF Handles, Warnings
<1>3. CASE Disconnected
  <2>. DEFINE known == Head(state_q).reason = "CONNECTION_REMOVED" /\ wifi_state.ssid \in connections
  <2>1. Handles({"DISCONNECTED"})
    BY <1>3 DEF Disconnected
  <2>2. \/ UNCHANGED <<wifi_state, overtaken>> /\ (ignored' => ignored \/ known)
        \/ ignored' = FALSE
    BY <1>3, Zenon DEF Disconnected, SetConnecting
  <2>3. ASSUME known PROVE Cleared
    <3>1. state_q # <<>> /\ Head(state_q).new = "DISCONNECTED"
      BY <2>1 DEF Handles
    <3>2. Head(state_q) = state_q[1] /\ Head(state_q) \in Signals
      BY <1>1, <3>1, HeadTailProperties
    <3>3. Head(state_q) \in Losses
      BY <2>3, <3>1, <3>2 DEF Losses, StateChanges, IsState
    <3>. QED  BY <1>1, <3>1, <3>2, <3>3 DEF Begins
  <2>. HIDE DEF known
  <2>4. IgnoredFits'
    BY <1>1, <2>2, <2>3 DEF IgnoredFits, Cleared
  <2>. QED  BY <1>2, <2>1, <2>4, HandlesKeepsWarned
<1>4. CASE Preparing
  <2>1. Handles({"PREPARE"}) /\ UNCHANGED <<overtaken, ignored>>
    BY <1>4 DEF Preparing, history
  <2>2. wifi_state' = [wifi_state EXCEPT !.status = "CONNECTING"] \/ wifi_state' = wifi_state
    BY <1>4 DEF Preparing
  <2>3. wifi_state \in Shown
    BY DEF WifiInv, ViewTypeOK
  <2>4. wifi_state'.status = "CONNECTING" \/ wifi_state' = wifi_state
    BY <2>2, <2>3 DEF Shown
  <2>5. IgnoredFits'
    BY <1>1, <2>1, <2>4 DEF IgnoredFits
  <2>. QED  BY <1>2, <2>1, <2>5, HandlesKeepsWarned
<1>5. CASE WrongPassword \/ Activated
  <2>1. Handles({"NEED_AUTH", "FAILED"}) \/ Handles({"ACTIVATED"})
    BY <1>5 DEF WrongPassword, Activated
  <2>2. ignored' = FALSE \/ UNCHANGED <<wifi_state, overtaken, ignored>>
    BY <1>5 DEF WrongPassword, Activated, SetConnecting, ShowsSame, history
  <2>3. IgnoredFits'
    BY <1>1, <2>2 DEF IgnoredFits
  <2>. QED  BY <1>2, <2>1, <2>3, HandlesKeepsWarned
<1>6. CASE Deactivating
  <2>1. Handles({"DEACTIVATING"}) /\ UNCHANGED monitor /\ monitor.at = "listen"
    BY <1>6 DEF Deactivating, Handles
  <2>2. \/ ignored' = FALSE /\ wifi_state' = Nothing
        \/ /\ UNCHANGED <<wifi_state, overtaken, ignored>>
           /\ Head(state_q).reason # "CONNECTION_REMOVED" \/ wifi_state.status # "CONNECTED"
    BY <1>6 DEF Deactivating, SetConnecting, ShowsSame, history
  <2>3. IgnoredFits'
    BY <1>1, <2>2 DEF IgnoredFits
  <2>4. Head(state_q) \in Warnings => Cleared'
    <3>1. Head(state_q) \in Warnings => wifi_state'.status # "CONNECTED"
      BY <2>2 DEF Warnings, Nothing
    <3>. QED  BY <2>1, <3>1 DEF Cleared
  <2>. QED  BY <2>1, <2>3, <2>4, HandlesKeepsWarned
<1>. QED  BY <1>3, <1>4, <1>5, <1>6

LEMMA FollowsKeepsWarned ==
  ASSUME WifiInv, WarnedInv, Lookup \/ WriteFound \/ SaveConnection
  PROVE  WarnedInv'
<1>1. ~Cleared /\ UNCHANGED <<bus, state_q>>
  BY DEF Lookup, WriteFound, SaveConnection, Cleared, netVars
<1>2. IgnoredFits'
  <2>1. ignored' = FALSE \/ UNCHANGED <<wifi_state, overtaken, ignored>>
    BY DEF Lookup, WriteFound, SaveConnection, ShowsSame, history
  <2>. QED  BY <2>1 DEF WarnedInv, IgnoredFits
<1>. QED  BY <1>1, <1>2, SilentKeepsWarned

LEMMA NetworkKeepsWarned ==
  ASSUME WifiInv, WarnedInv, ScanDone \/ NetworkActs
  PROVE  WarnedInv'
<1>1. UNCHANGED <<wifi_state, overtaken, ignored, monitor, state_q>>
  BY DEF ScanDone, NetworkActs, wmVars, history
<1>2. CASE AutoConnect
  <2>1. PICK n \in saved : Activates(n, <<>>)
    BY <1>2 DEF AutoConnect
  <2>2. \E r \in Seq(Signals) : bus' = bus \o r /\ Sent(r)
    BY <2>1, ActivatesWarns DEF WifiInv, NetTypeOK
  <2>. QED  BY <1>1, <2>2, SendingKeepsWarned
<1>3. CASE Refuses \/ NetworkLost
  BY <1>1, <1>3, FailureWarns, SendingKeepsWarned DEF WifiInv
<1>4. CASE ScanDone \/ Connected
  <2>. DEFINE s == Event("PropertiesChanged", NoNetwork)
              u == Signal("ACTIVATED", "CONFIG", "NONE", device.net)
  <2>1. Sends(<<s>>) \/ Sends(<<u>>)
    BY <1>4 DEF ScanDone, Connected
  <2>2. s \in Signals /\ s \notin StateChanges /\ u \in Signals /\ u.new = "ACTIVATED"
    BY SignalKinds DEF WifiInv, NetTypeOK, States
  <2>3. s \notin Losses /\ u \notin Losses
    BY <2>2, LossSignals DEF Losses
  <2>. HIDE DEF s, u
  <2>4. <<s>> \in Seq(Signals) /\ <<u>> \in Seq(Signals) /\ Sent(<<s>>) /\ Sent(<<u>>)
    BY <2>2, <2>3, OneSignal, FreeOfOne, SentIfFree
  <2>. QED  BY <1>1, <2>1, <2>4, SendingKeepsWarned DEF Sends
<1>. QED  BY <1>2, <1>3, <1>4 DEF NetworkActs

LEMMA WarnedInvHolds == WifiSpec => []WarnedInv
<1>1. WifiInit => WarnedInv
  <2>. SUFFICES ASSUME WifiInit PROVE WarnedInv
    OBVIOUS
  <2>1. bus = <<>> /\ state_q = <<>> /\ ignored = FALSE
    BY DEF WifiInit
  <2>. QED  BY <2>1, WarnedOfOne DEF WarnedInv, LossesAreWarned, BusIsWarned, IgnoredFits
<1>2. WifiInv /\ WarnedInv /\ [WifiNext]_wifiVars => WarnedInv'
  <2>. SUFFICES ASSUME WifiInv, WarnedInv, [WifiNext]_wifiVars PROVE WarnedInv'
    OBVIOUS
  <2>1. CASE UNCHANGED wifiVars
    <3>1. UNCHANGED <<wifi_state, overtaken, ignored, monitor, state_q, bus>>
      BY <2>1 DEF wifiVars, wmVars, netVars, history
    <3>. QED  BY <3>1, SendingKeepsWarned
  <2>2. CASE MonitorRuns
    BY <2>2, ReceiveKeepsWarned, ArrivesKeepsWarned, HandlersKeepWarned, FollowsKeepsWarned DEF MonitorRuns
  <2>. QED  BY <2>1, <2>2, UserKeepsWarned, WorkersKeepWarned, NetworkKeepsWarned DEF WifiNext
<1>. QED  BY <1>1, <1>2, WifiInvHolds, PTL DEF WifiSpec

\* TruthfulAtRest: once every signal is handled and no thread runs, the Wi-Fi manager
\* shows what the device does, whichever thread wrote over the pick of the user, unless a
\* worker has written an answer that the device had overtaken; where it passed over the end
\* of a connection it may go on connecting, but shows nothing as connected that is not; and
\* it knows the connections NetworkManager has.
THEOREM WifiTruthfulAtRest == WifiSpec => []TruthfulAtRest
<1>1. WifiInv /\ WarnedInv => TruthfulAtRest
  <2>. SUFFICES ASSUME WifiInv, WarnedInv PROVE TruthfulAtRest
    OBVIOUS
  <2>1. WifiTypeOK
    BY DEF WifiInv, WifiTypeOK, ViewTypeOK, MonitorTypeOK, WorkTypeOK, Jobs, Ops
  <2>2. \A F, S : bus = <<>> => Free(bus, S) /\ ~EndsIn(bus, F, S)
    BY FreeOfOne, EndsOfOne
  <2>3. ASSUME Rest, ~overtaken
        PROVE  \/ wifi_state = [ssid |-> device.net, status |-> StatusOf(device.state)]
               \/ ignored /\ device = Off /\ wifi_state.status # "CONNECTED"
    <3>1. Quiet
      BY <2>3 DEF Rest, Quiet, Acts, Done
    <3>2. CASE device.state = "DISCONNECTED"
      <4>1. wifi_state = Nothing \/ (ignored /\ wifi_state.status # "CONNECTED")
        BY <2>2, <2>3, <3>1, <3>2 DEF WifiInv, OffIsShown, Rest, Handled, WarnedInv, IgnoredFits
      <4>2. device.net = NoNetwork /\ device = Off
        BY <3>2 DEF WifiInv, DeviceFits, NetTypeOK, Off
      <4>. QED  BY <3>2, <4>1, <4>2 DEF Nothing, StatusOf
    <3>3. CASE device.state = "ACTIVATED"
      <4>1. wifi_state = [ssid |-> device.net, status |-> "CONNECTED"]
        BY <2>2, <2>3, <3>1, <3>3, EmptySeq DEF WifiInv, ConnectionIsShown, Announced, Rest, Handled
      <4>. QED  BY <3>3, <4>1 DEF StatusOf
    <3>. QED  BY <2>3, <3>2, <3>3 DEF Rest
  <2>4. ASSUME Rest, conn_q = NoConn PROVE connections = saved
    <3>1. bus = <<>> /\ conn_q.removed = {} /\ conn_q.new = {}
      BY <2>4 DEF Rest, Handled, NoConn
    <3>2. connections \subseteq Networks /\ saved \subseteq Networks
      BY DEF WifiInv, MonitorTypeOK, NetTypeOK
    <3>3. ASSUME NEW n \in Networks PROVE n \in saved <=> n \in connections
      BY <2>2, <3>1 DEF WifiInv, KnownRightly, KnownInTime, ForgottenInTime
    <3>. QED  BY <3>2, <3>3
  <2>. QED  BY <2>1, <2>3, <2>4 DEF TruthfulAtRest, ShownAtRest, KnownAtRest
<1>. QED  BY <1>1, WifiInvHolds, WarnedInvHolds, PTL

\* PickSurvivesForget: a network that is being connected to, and is known, stays shown
\* when the signals come that another one was forgotten.
THEOREM WifiPickSurvivesForget == WifiSpec => PickSurvivesForget
<1>1. ASSUME Disconnected \/ Deactivating, Head(state_q).reason = "CONNECTION_REMOVED",
             wifi_state.status = "CONNECTING", wifi_state.ssid \in connections
      PROVE  wifi_state' = wifi_state
  <2>1. CASE Disconnected
    BY <1>1, <2>1 DEF Disconnected
  <2>2. CASE Deactivating
    BY <1>1, <2>2 DEF Deactivating, ShowsSame
  <2>. QED  BY <1>1, <2>1, <2>2
<1>. QED  BY <1>1, PTL DEF WifiSpec, PickSurvivesForget
==============================================================================
