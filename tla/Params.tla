-------------------------------- MODULE Params --------------------------------
(***************************************************************************)
(* The key-value store that all processes share (common/params.cc): a file *)
(* for each key, replaced by a rename under a file lock, and the queue and *)
(* the thread of putNonBlocking.  Processes are killed and the power is    *)
(* cut at any point.                                                       *)
(***************************************************************************)
EXTENDS Naturals, Sequences

CONSTANTS
    Keys,       \* the keys
    Cleared,    \* those with the flag that clearAll is called with
    App,        \* the thread that calls putNonBlocking
    Async,      \* its asyncWriteThread
    Others,     \* the threads of other processes
    Nobody,     \* no holder of the lock
    MaxOps,     \* bound: the calls of a behaviour
    MaxFaults   \* bound: failures, kills and power cuts of a behaviour

ASSUME KeyAssumption == Cleared \subseteq Keys /\ Cleared # {}
ASSUME ThreadAssumption ==
    App # Async /\ {App, Async} \cap Others = {} /\ Nobody \notin {App, Async} \cup Others
ASSUME OpAssumption == MaxOps \in Nat /\ MaxFaults \in Nat

VARIABLES
    log,        \* of each file: what a power cut may leave of it, oldest first, then what is seen
    synced,     \* the puts whose data is on the disk
    acked,      \* history: for each key the last call that has returned 0
    slip,       \* history: a writer died or failed since the directory was last synced
    lock,       \* who holds <params>/.lock
    crossed,    \* history: the calls that have shared the lock's section with one that had no lock
    at,         \* where each thread is
    job,        \* the call it is in
    seen,       \* what readAll has read so far
    queue,      \* the queue of putNonBlocking
    future,     \* its thread: "none", "running", "returning", "ready"
    open,       \* the Params object exists
    nextId,     \* history: the number of the next call
    faults      \* how many faults may still come

paramVars == <<log, synced, acked, slip, lock, crossed, at, job, seen, queue, future, open, nextId, faults>>
files == <<log, synced, acked, slip>>
locks == <<lock, crossed>>
async == <<queue, future, open>>

Threads == {App, Async} \cup Others
NoJob == [op |-> "none", id |-> 0, todo |-> {}]
Entry == [id : 0 .. MaxOps, here : BOOLEAN, by : Threads]
Current(k) == log[k][Len(log[k])]
Inside == {t \in Threads : at[t] \in {"locked", "changed"}}

ParamsTypeOK ==
    /\ log \in [Keys -> Seq(Entry)] /\ \A k \in Keys : log[k] # <<>>
    /\ synced \subseteq 1 .. MaxOps /\ acked \in [Keys -> 0 .. MaxOps] /\ slip \in BOOLEAN
    /\ lock \in Threads \cup {Nobody} /\ crossed \subseteq Threads
    /\ at \in [Threads -> {"idle", "tmp", "ready", "locked", "changed", "pushed"}]
    /\ job \in [Threads -> [op : {"none", "put", "remove", "clear", "read"}, id : 0 .. MaxOps,
                            todo : SUBSET Keys]]
    /\ seen \in [Threads -> [Keys -> 0 .. MaxOps]]
    /\ queue \in Seq([id : 1 .. MaxOps, key : Keys])
    /\ future \in {"none", "running", "returning", "ready"} /\ open \in BOOLEAN
    /\ nextId \in 1 .. MaxOps + 1 /\ faults \in 0 .. MaxFaults

ParamsInit ==
    /\ log = [k \in Keys |-> <<[id |-> 0, here |-> FALSE, by |-> App]>>]
    /\ synced = {} /\ acked = [k \in Keys |-> 0] /\ slip = FALSE
    /\ lock = Nobody /\ crossed = {}
    /\ at = [t \in Threads |-> "idle"] /\ job = [t \in Threads |-> NoJob]
    /\ seen = [t \in Threads |-> [k \in Keys |-> 0]]
    /\ queue = <<>> /\ future = "none" /\ open = TRUE
    /\ nextId = 1 /\ faults = MaxFaults

At(t, l) == at' = [at EXCEPT ![t] = l]
Fault == faults > 0 /\ faults' = faults - 1
Idles(t) == at[t] = "idle" /\ (t = App => open) /\ t # Async
Starts(t, op, keys, l) ==
    /\ nextId <= MaxOps /\ nextId' = nextId + 1
    /\ job' = [job EXCEPT ![t] = [op |-> op, id |-> nextId, todo |-> keys]] /\ At(t, l)
Returns(t) == At(t, "idle") /\ job' = [job EXCEPT ![t] = NoJob]
Unlocks(t) == lock' = (IF lock = t THEN Nobody ELSE lock) /\ crossed' = crossed \ {t}

-----------------------------------------------------------------------------
\* put: mkstemp
Put(t) ==
    /\ Idles(t) /\ \E k \in Keys : Starts(t, "put", {k}, "tmp")
    /\ UNCHANGED <<files, locks, seen, async, faults>>

\* write and fsync of the temporary file
WriteTmp(t) ==
    /\ at[t] = "tmp" /\ synced' = synced \cup {job[t].id} /\ At(t, "ready")
    /\ UNCHANGED <<log, acked, slip, locks, job, seen, async, nextId, faults>>

\* any call of put that fails before the rename: the temporary file is removed again
WriteFails(t) ==
    /\ Fault /\ at[t] \in {"tmp", "locked"} /\ job[t].op = "put"
    /\ Returns(t) /\ Unlocks(t)
    /\ UNCHANGED <<files, seen, async, nextId>>

Remove(t) ==
    /\ Idles(t) /\ \E k \in Keys : Starts(t, "remove", {k}, "ready")
    /\ UNCHANGED <<files, locks, seen, async, faults>>

ClearAll(t) ==
    /\ Idles(t) /\ Starts(t, "clear", Cleared, "ready")
    /\ UNCHANGED <<files, locks, seen, async, faults>>

ReadAll(t) ==
    /\ Idles(t) /\ Starts(t, "read", Keys, "ready")
    /\ UNCHANGED <<files, locks, seen, async, faults>>

TakesLock(t) ==
    /\ at[t] = "ready" /\ At(t, "locked") /\ lock' = t
    /\ crossed' = IF Inside \ {lock} # {} THEN crossed \cup {t} ELSE crossed

\* mutant: the lock is not waited for
LockAnyway(t) ==
    /\ TakesLock(t)
    /\ UNCHANGED <<files, job, seen, async, nextId, faults>>

\* FileLock
Lock(t) ==
    /\ lock = Nobody /\ TakesLock(t)
    /\ UNCHANGED <<files, job, seen, async, nextId, faults>>

\* the lock file cannot be opened or locked: that is logged, and the call goes on without
LockFails(t) ==
    /\ Fault /\ at[t] = "ready" /\ At(t, "locked") /\ crossed' = crossed \cup Inside \cup {t}
    /\ UNCHANGED <<files, lock, job, seen, async, nextId>>

Appends(t, k, here) ==
    log' = [log EXCEPT ![k] = Append(@, [id |-> job[t].id, here |-> here, by |-> t])]

\* rename over the file
Rename(t) ==
    /\ at[t] = "locked" /\ job[t].op = "put"
    /\ \E k \in job[t].todo : Appends(t, k, TRUE)
    /\ At(t, "changed")
    /\ UNCHANGED <<synced, acked, slip, locks, job, seen, async, nextId, faults>>

\* unlink, of one file in remove, of one after the other in clearAll
Unlink(t) ==
    /\ at[t] = "locked" /\ job[t].op \in {"remove", "clear"}
    /\ \E k \in job[t].todo :
        /\ IF Current(k).here THEN Appends(t, k, FALSE) ELSE UNCHANGED log
        /\ IF job[t].op = "remove" /\ ~Current(k).here
           THEN Returns(t) /\ Unlocks(t)
           ELSE /\ job' = [job EXCEPT ![t].todo = IF job[t].op = "clear" THEN @ \ {k} ELSE @]
                /\ At(t, IF job'[t].todo \ {k} = {} THEN "changed" ELSE "locked")
                /\ UNCHANGED locks
    /\ UNCHANGED <<synced, acked, slip, seen, async, nextId, faults>>

\* read_files_in_dir, one file after the other
ReadOne(t) ==
    /\ at[t] = "locked" /\ job[t].op = "read" /\ job[t].todo # {}
    /\ \E k \in job[t].todo : /\ seen' = [seen EXCEPT ![t][k] = Current(k).id]
                              /\ job' = [job EXCEPT ![t].todo = @ \ {k}]
    /\ UNCHANGED <<files, locks, at, async, nextId, faults>>

ReadDone(t) ==
    /\ at[t] = "locked" /\ job[t].op = "read" /\ job[t].todo = {}
    /\ Returns(t) /\ Unlocks(t)
    /\ seen' = [seen EXCEPT ![t] = [k \in Keys |-> 0]]
    /\ UNCHANGED <<files, async, nextId, faults>>

\* mutant: the result of fsync_dir is dropped
SyncDirUnchecked(t) ==
    /\ at[t] = "changed" /\ Returns(t) /\ Unlocks(t)
    /\ \/ log' = [k \in Keys |-> <<Current(k)>>] /\ slip' = FALSE /\ UNCHANGED faults
       \/ Fault /\ slip' = TRUE /\ UNCHANGED log
    /\ acked' = [k \in Keys |-> IF k \in job[t].todo THEN job[t].id ELSE acked[k]]
    /\ UNCHANGED <<synced, seen, async, nextId>>

\* fsync_dir, then the lock goes out of scope; an error is returned, what was renamed stays
SyncDir(t) ==
    /\ at[t] = "changed" /\ Returns(t) /\ Unlocks(t)
    /\ \/ /\ log' = [k \in Keys |-> <<Current(k)>>] /\ slip' = FALSE
          /\ acked' = [k \in Keys |-> IF k \in job[t].todo THEN job[t].id ELSE acked[k]]
          /\ UNCHANGED faults
       \/ Fault /\ slip' = TRUE /\ UNCHANGED <<log, acked>>
    /\ UNCHANGED <<synced, seen, async, nextId>>

-----------------------------------------------------------------------------
\* mutant: the newest goes first
PushFront(k) ==
    /\ Idles(App) /\ Starts(App, "none", {}, "pushed")
    /\ queue' = <<[id |-> nextId, key |-> k]>> \o queue
    /\ UNCHANGED <<files, locks, seen, future, open, faults>>

\* putNonBlocking: push, then look whether the thread is done
Push(k) ==
    /\ Idles(App) /\ Starts(App, "none", {}, "pushed")
    /\ queue' = Append(queue, [id |-> nextId, key |-> k])
    /\ UNCHANGED <<files, locks, seen, future, open, faults>>

StartThread ==
    /\ at[App] = "pushed" /\ Returns(App)
    /\ future' = IF future \in {"none", "ready"} THEN "running" ELSE future
    /\ UNCHANGED <<files, locks, seen, queue, open, nextId, faults>>

\* asyncWriteThread: try_pop and put, as long as there is something
TryPop ==
    /\ future = "running" /\ at[Async] = "idle"
    /\ IF queue = <<>>
       THEN future' = "returning" /\ UNCHANGED <<queue, at, job>>
       ELSE /\ queue' = Tail(queue) /\ UNCHANGED future
            /\ job' = [job EXCEPT ![Async] = [op |-> "put", id |-> Head(queue).id,
                                              todo |-> {Head(queue).key}]]
            /\ At(Async, "tmp")
    /\ UNCHANGED <<files, locks, seen, open, nextId, faults>>

\* the thread has returned: its future becomes ready
ThreadEnds ==
    /\ future = "returning" /\ future' = "ready"
    /\ UNCHANGED <<files, locks, at, job, seen, queue, open, nextId, faults>>

\* ~Params waits for the thread and asserts that the queue is empty
Destroy ==
    /\ Idles(App) /\ future \in {"none", "ready"} /\ open' = FALSE
    /\ UNCHANGED <<files, locks, at, job, seen, queue, future, nextId, faults>>

-----------------------------------------------------------------------------
Dies(ts) ==
    /\ at' = [t \in Threads |-> IF t \in ts THEN "idle" ELSE at[t]]
    /\ job' = [t \in Threads |-> IF t \in ts THEN NoJob ELSE job[t]]
    /\ lock' = (IF lock \in ts THEN Nobody ELSE lock) /\ crossed' = crossed \ ts
    /\ seen' = [t \in Threads |-> IF t \in ts THEN [k \in Keys |-> 0] ELSE seen[t]]
    /\ IF App \in ts THEN queue' = <<>> /\ future' = "none" /\ open' = TRUE ELSE UNCHANGED async

\* a process is killed: the kernel gives the lock free, a temporary file stays
Kill ==
    /\ Fault /\ \E ts \in {{App, Async}} \cup {{t} : t \in Others} :
                    /\ \E t \in ts : at[t] # "idle"
                    /\ Dies(ts) /\ slip' = (slip \/ ts \cap Inside # {})
    /\ UNCHANGED <<log, synced, acked, nextId>>

\* the power is cut: each file is as any of its renames since the last sync left it
PowerCut ==
    /\ Fault /\ Dies(Threads) /\ slip' = FALSE
    /\ \E n \in [Keys -> 1 .. MaxOps + 1] :
        /\ \A k \in Keys : n[k] <= Len(log[k])
        /\ log' = [k \in Keys |-> <<log[k][n[k]]>>]
    /\ UNCHANGED <<synced, acked, nextId>>

Goes(t) == \/ WriteTmp(t) \/ Rename(t) \/ Unlink(t) \/ ReadOne(t) \/ ReadDone(t) \/ SyncDir(t)
Calls(t) == Put(t) \/ Remove(t) \/ ClearAll(t) \/ ReadAll(t)
AsyncGoes == StartThread \/ TryPop \/ ThreadEnds

ParamsNext == \/ \E t \in Threads : Goes(t) \/ Lock(t) \/ LockFails(t) \/ WriteFails(t) \/ Calls(t)
              \/ AsyncGoes \/ Destroy \/ Kill \/ PowerCut \/ \E k \in Keys : Push(k)

ParamsSpec == ParamsInit /\ [][ParamsNext]_paramVars

-----------------------------------------------------------------------------
(* A call that has returned 0 has lasted: no power cut, however many calls   *)
(* of others run, fail or die, brings back what the file was before it.      *)
DurableOnReturn ==
    \A k \in Keys : \A i \in 2 .. Len(log[k]) : log[k][i].id # acked[k] \/ acked[k] = 0

(* No reader sees half a value, before or after a power cut: whatever may be *)
(* left of a file is absent or was synced as a whole.                        *)
NeverTorn ==
    \A k \in Keys : \A i \in DOMAIN log[k] : log[k][i].here => log[k][i].id \in synced

(* While no call is between lock and sync, what a reader sees is what a      *)
(* power cut would leave, unless a writer was killed or failed on the way.   *)
SeenIsKept == Inside = {} /\ ~slip => \A k \in Keys : Len(log[k]) = 1

(* readAll returns the files as they all were at one moment: no put, remove  *)
(* or clearAll of another process comes between two of its reads, unless the *)
(* lock failed for one of the two calls.                                     *)
SnapshotIsOneMoment ==
    \A t \in Threads \ crossed : job[t].op = "read" /\ at[t] = "locked" =>
        \A k \in Keys \ job[t].todo : seen[t][k] = Current(k).id

(* The values of putNonBlocking appear in the order of the calls, over all   *)
(* keys: a flag that is put after the data it announces never precedes it.   *)
AsyncFifo ==
    [][at[Async] = "locked" /\ at'[Async] = "changed" =>
          /\ \A k \in Keys : Current(k).by = Async => Current(k).id < job[Async].id
          /\ \A i \in DOMAIN queue : job[Async].id < queue[i].id]_paramVars

(* The lock is never left behind: whatever fails or is killed, its holder is *)
(* a call that still goes on, so that every other call gets its turn.        *)
LockIsHeld == lock # Nobody => at[lock] \in {"locked", "changed"}

(* What a call has done is done: kills, failures, of the lock too, and power *)
(* cuts leave every file whole, and take nothing back that a caller or a     *)
(* reader relies on.                                                         *)
StoreIsDurable == ParamsTypeOK /\ DurableOnReturn /\ NeverTorn /\ SeenIsKept

(* No call that gets the lock sees the middle of another one that does, and  *)
(* none is kept out for ever by one.                                         *)
CallsAreIsolated == SnapshotIsOneMoment /\ LockIsHeld

(* The destructor finds the queue empty: assert(queue.empty()) in ~Params.   *)
AssertQueueEmpty == ~open => queue = <<>>
==============================================================================
