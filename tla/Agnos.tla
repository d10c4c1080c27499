--------------------------------- MODULE Agnos ---------------------------------
(***************************************************************************)
(* The two slots of the operating system (common/hardware/comma/agnos.py): *)
(* the slot that is not running is flashed partition by partition, in the  *)
(* background by updated or at startup, and made active when it is whole.  *)
(* A partition is verified by its contents (full_check) or by a hash       *)
(* written behind it.  The power is cut at any point.                      *)
(***************************************************************************)
EXTENDS Naturals, FiniteSets

CONSTANTS
    Partitions,     \* in the order of agnos.json
    FullCheck,      \* those with full_check
    OsVersions      \* the versions of AGNOS

ASSUME PartitionAssumption == FullCheck \subseteq Partitions /\ Partitions \subseteq Nat \ {0}
ASSUME OsAssumption == OsVersions \subseteq Nat \ {0} /\ OsVersions # {}

Slots == {0, 1}
Garbage == 0
NoHash == 0

VARIABLES
    content,    \* what is in each partition of each slot
    hash,       \* the hash behind it
    active,     \* the slot that will be booted
    booted,     \* the slot that runs
    flashing,   \* the version that is flashed, 0 if none is
    done,       \* the partitions that flash_agnos_update is through with
    step        \* of the partition at hand: "check", "write", "hash"

osVars == <<content, hash, active, booted, flashing, done, step>>
slots == <<content, hash, active, booted>>

OsTypeOK ==
    /\ content \in [Slots -> [Partitions -> OsVersions \cup {Garbage}]]
    /\ hash \in [Slots -> [Partitions -> OsVersions \cup {NoHash}]]
    /\ active \in Slots /\ booted \in Slots
    /\ flashing \in OsVersions \cup {0} /\ done \subseteq Partitions
    /\ step \in {"check", "write", "hash"}

\* the slot that runs is whole, the other holds nothing
OsInit(v) ==
    /\ content = [s \in Slots |-> [p \in Partitions |-> IF s = 0 THEN v ELSE Garbage]]
    /\ hash = [s \in Slots |-> [p \in Partitions |-> NoHash]]
    /\ active = 0 /\ booted = 0 /\ flashing = 0 /\ done = {} /\ step = "check"

Target == 1 - booted
Whole(s, v) == \A p \in Partitions : content[s][p] = v
OsVersion == CHOOSE v \in OsVersions : \A p \in Partitions : content[booted][p] = v

\* verify_partition
Verified(p, v) == IF p \in FullCheck THEN content[Target][p] = v ELSE hash[Target][p] = v
VerifiedAll(v) == \A p \in Partitions : Verified(p, v)

-----------------------------------------------------------------------------
\* flash_agnos_update
StartFlash(v) == flashing' = v /\ done' = {} /\ step' = "check" /\ UNCHANGED slots
StopFlash == flashing' = 0 /\ done' = {} /\ step' = "check" /\ UNCHANGED slots
Partition == CHOOSE p \in Partitions \ done : \A q \in Partitions \ done : p <= q
Flashed == flashing # 0 /\ done = Partitions

\* flash_partition: nothing to do, or the hash is cleared first
CheckPartition ==
    /\ flashing # 0 /\ done # Partitions /\ step = "check"
    /\ IF Verified(Partition, flashing)
       THEN done' = done \cup {Partition} /\ UNCHANGED <<step, hash>>
       ELSE /\ step' = "write" /\ UNCHANGED done
            /\ hash' = [hash EXCEPT ![Target][Partition] = NoHash]
    /\ UNCHANGED <<content, active, booted, flashing>>

\* extract_compressed_image: its first chunk, and its last, which is as the manifest says
WriteImage ==
    /\ flashing # 0 /\ done # Partitions /\ step = "write"
    /\ \/ /\ content[Target][Partition] # Garbage
          /\ content' = [content EXCEPT ![Target][Partition] = Garbage] /\ UNCHANGED step
       \/ /\ content[Target][Partition] = Garbage
          /\ content' = [content EXCEPT ![Target][Partition] = flashing] /\ step' = "hash"
    /\ UNCHANGED <<hash, active, booted, flashing, done>>

WriteHash ==
    /\ flashing # 0 /\ done # Partitions /\ step = "hash"
    /\ hash' = IF Partition \in FullCheck THEN hash
               ELSE [hash EXCEPT ![Target][Partition] = flashing]
    /\ done' = done \cup {Partition} /\ step' = "check"
    /\ UNCHANGED <<content, active, booted, flashing>>

FlashStep == CheckPartition \/ WriteImage \/ WriteHash

\* swap: the hashes are cleared, then the slot is made active
ClearHashes ==
    /\ hash' = [hash EXCEPT ![Target] = [p \in Partitions |-> NoHash]]
    /\ UNCHANGED <<content, active, booted, flashing, done, step>>
SetActive == active' = Target /\ UNCHANGED <<content, hash, booted, flashing, done, step>>
BootSlot == booted' = active /\ flashing' = 0 /\ done' = {} /\ step' = "check"
            /\ UNCHANGED <<content, hash, active>>

-----------------------------------------------------------------------------
(* The slot that will be booted is always whole, whatever was interrupted    *)
(* while the other was flashed or swapped in.                                *)
ActiveIsWhole == \E v \in OsVersions : Whole(active, v)
==============================================================================
