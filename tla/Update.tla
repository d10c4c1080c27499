-------------------------------- MODULE Update --------------------------------
(***************************************************************************)
(* The update of the software: updated (system/updated/updated.py) fetches *)
(* it into an overlay of BASEDIR, flashes the operating system it needs,   *)
(* and leaves a finalized copy with a flag; launch_chffrplus.sh swaps the  *)
(* copy in at the next start.  updated is killed when the car is driven,   *)
(* any command may fail, and the power is cut at any point.                *)
(***************************************************************************)
EXTENDS Agnos, Sequences

CONSTANTS
    Latest,         \* bound: the server offers the versions 1 .. Latest
    OsOf,           \* AGNOS_VERSION of each version
    OldReleases,    \* those from before the move to openpilot/: agnos.json is no symlink
    MaxFaults       \* bound: kills, failures and power cuts of a behaviour

ASSUME HeadAssumption == Latest \in Nat \ {0} /\ OsOf \in [1 .. Latest -> OsVersions] /\ MaxFaults \in Nat
ASSUME ReleaseAssumption == OldReleases \subseteq 1 .. Latest

VARIABLES
    base,       \* BASEDIR
    final,      \* safe_staging/finalized
    old,        \* safe_staging/old_openpilot
    trail,      \* what the three were at each step since the last sync
    merged,     \* the overlay, as long as it is mounted
    head,       \* the version the server offers
    metered,    \* NetworkMetered
    boot,       \* where the start of the system is
    upd,        \* where updated is
    faults      \* how many faults may still come

updVars == <<base, final, old, trail, merged, head, metered, boot, upd, faults>>
vars == <<updVars, osVars>>
trees == <<base, final, old, trail>>
outside == <<head, metered>>

(* A directory: its version (0 if there is none), whether its files are all *)
(* there and on the disk, .overlay_init, .overlay_consistent, and whether a *)
(* file of its .git is newer than .overlay_init.                            *)
Tree(v) == [v |-> v, data |-> "synced", init |-> FALSE, flag |-> FALSE, edited |-> FALSE]
NoTree == Tree(0)
TreeType == [v : 0 .. Latest, data : {"partial", "copied", "synced"}, init : BOOLEAN,
             flag : BOOLEAN, edited : BOOLEAN]

UpdateTypeOK ==
    /\ OsTypeOK
    /\ base \in TreeType /\ final \in TreeType /\ old \in TreeType /\ merged \in TreeType
    /\ trail \in Seq(TreeType \X TreeType \X TreeType)
    /\ head \in 1 .. Latest /\ metered \in BOOLEAN
    /\ boot \in {"boot", "launch", "moved", "agnos", "swap", "activate", "foreground", "running"}
    /\ upd \in {"off", "main", "loop", "clear", "touch", "mount", "check", "fetch", "reset",
                "agnos", "flash", "finalize", "copy", "flag", "sleep"}
    /\ faults \in 0 .. MaxFaults

UpdateInit ==
    /\ base = Tree(1) /\ final = NoTree /\ old = NoTree /\ trail = <<>> /\ merged = NoTree
    /\ head = 1 /\ metered \in BOOLEAN
    /\ boot = "boot" /\ upd = "off" /\ faults = MaxFaults
    /\ OsInit(OsOf[1])

Fault == faults > 0 /\ faults' = faults - 1
Goes(l) == upd' = l /\ UNCHANGED boot
Running == boot = "running"

\* a change of the three directories that is not synced; os.sync makes all that is there durable
Unsynced == trail' = Append(trail, <<base, final, old>>)
OnDisk(t) == IF t.data = "copied" THEN [t EXCEPT !.data = "synced"] ELSE t
Sync(b, f, o) == base' = OnDisk(b) /\ final' = OnDisk(f) /\ old' = OnDisk(o) /\ trail' = <<>>

\* set_consistent_flag(False)
FlagOff == Sync(base, [final EXCEPT !.flag = FALSE], old)

-----------------------------------------------------------------------------
\* main, up to the loop; DisableUpdates is not set
UpdatedStarts ==
    /\ Running /\ upd = "off" /\ FlagOff /\ Goes("loop")
    /\ UNCHANGED <<merged, outside, faults, osVars>>

\* init_overlay: the overlay that is there is used again, or a new one is made
InitOverlay ==
    /\ upd = "loop"
    /\ IF base.init /\ merged # NoTree /\ ~base.edited
       THEN UNCHANGED trees /\ Goes("check")
       ELSE FlagOff /\ Goes("clear")
    /\ UNCHANGED <<merged, outside, faults, osVars>>

\* umount and rm -rf STAGING_ROOT
ClearStaging ==
    /\ upd = "clear" /\ merged' = NoTree
    /\ final' = NoTree /\ old' = NoTree /\ UNCHANGED base /\ Unsynced /\ Goes("touch")
    /\ UNCHANGED <<outside, faults, osVars>>

TouchInit ==
    /\ upd = "touch"
    /\ Sync([base EXCEPT !.flag = FALSE, !.init = TRUE, !.edited = FALSE], final, old)
    /\ Goes("mount") /\ UNCHANGED <<merged, outside, faults, osVars>>

Mount ==
    /\ upd = "mount" /\ merged' = base /\ Goes("check")
    /\ UNCHANGED <<trees, outside, faults, osVars>>

\* the first pass of the loop only waits; check_for_update; fetch, unless the network is metered
\* and the last fetch less than three days old, or the user has only asked for a check
Check ==
    /\ upd = "check"
    /\ \/ Goes("fetch") /\ UNCHANGED faults
       \/ metered /\ Goes("sleep") /\ UNCHANGED faults
       \/ Fault /\ Goes("sleep")
    /\ UNCHANGED <<trees, merged, outside, osVars>>

\* fetch_update: the old update is invalidated before the overlay is changed
Fetch ==
    /\ upd = "fetch" /\ FlagOff /\ Goes("reset")
    /\ UNCHANGED <<merged, outside, faults, osVars>>

\* git fetch, checkout, reset and clean of the overlay, which is neither of two versions on the way
Reset ==
    /\ upd = "reset"
    /\ \/ merged.data # "partial" /\ merged' = [merged EXCEPT !.data = "partial"] /\ Goes("reset")
       \/ merged.data = "partial" /\ merged' = [Tree(head) EXCEPT !.data = "copied"] /\ Goes("agnos")
    /\ UNCHANGED <<trees, outside, faults, osVars>>

\* handle_agnos_update: the version that runs is compared
HandleAgnos ==
    /\ upd = "agnos"
    /\ IF OsVersion = OsOf[merged.v]
       THEN UNCHANGED <<trees, osVars>> /\ Goes("finalize")
       ELSE FlagOff /\ StartFlash(OsOf[merged.v]) /\ Goes("flash")
    /\ UNCHANGED <<merged, outside, faults>>

Flash ==
    /\ upd = "flash"
    /\ \/ FlashStep /\ UNCHANGED updVars
       \/ Flashed /\ StopFlash /\ Goes("finalize") /\ UNCHANGED <<trees, merged, outside, faults>>

\* finalize_update: the old copy goes, the copy of the overlay begins
Finalize ==
    /\ upd = "finalize"
    /\ base' = OnDisk(base) /\ old' = OnDisk(old)
    /\ trail' = <<<<base', [OnDisk(final) EXCEPT !.flag = FALSE], old'>>>>
    /\ final' = [merged EXCEPT !.data = "partial"]
    /\ Goes("copy") /\ UNCHANGED <<merged, outside, faults, osVars>>

Copied ==
    /\ upd = "copy" /\ final' = [final EXCEPT !.data = "copied"] /\ UNCHANGED <<base, old>>
    /\ Unsynced /\ Goes("flag")
    /\ UNCHANGED <<merged, outside, faults, osVars>>

\* mutant: the flag is set without a sync before it
SetFlagUnsynced ==
    /\ upd = "flag" /\ final' = [final EXCEPT !.flag = TRUE] /\ UNCHANGED <<base, old>>
    /\ Unsynced /\ Goes("sleep")
    /\ UNCHANGED <<merged, outside, faults, osVars>>

\* set_consistent_flag(True)
SetFlag ==
    /\ upd = "flag" /\ Sync(base, [final EXCEPT !.flag = TRUE], old) /\ Goes("sleep")
    /\ UNCHANGED <<merged, outside, faults, osVars>>

WakeUp ==
    /\ upd = "sleep" /\ Goes("loop") /\ UNCHANGED <<trees, merged, outside, faults, osVars>>

\* an exception: .overlay_init is removed, so that a new overlay is made
Fails ==
    /\ Fault /\ upd \notin {"off", "sleep"}
    /\ base' = [base EXCEPT !.init = FALSE] /\ UNCHANGED <<final, old>> /\ Unsynced
    /\ Goes("sleep") /\ StopFlash
    /\ UNCHANGED <<merged, outside>>

\* the car is driven: manager kills updated
Killed ==
    /\ Fault /\ upd # "off" /\ Goes("off") /\ StopFlash
    /\ UNCHANGED <<trees, merged, outside>>

-----------------------------------------------------------------------------
\* the boot loader starts the active slot, and that the launch script, if there is one
Boot ==
    /\ boot = "boot" /\ base # NoTree /\ BootSlot /\ boot' = "launch"
    /\ UNCHANGED <<trees, merged, outside, upd, faults>>

\* launch: is there a valid update?
Valid == base.init /\ ~base.edited /\ final.flag /\ old = NoTree

\* mv DIR old_openpilot
Launch ==
    /\ boot = "launch" /\ UNCHANGED final /\ UNCHANGED <<merged, outside, upd, faults, osVars>>
    /\ IF Valid
       THEN old' = base /\ base' = NoTree /\ Unsynced /\ boot' = "moved"
       ELSE UNCHANGED <<base, old, trail>> /\ boot' = "agnos"

\* mv finalized DIR, and the script starts again; for an old release, which may not be able to,
\* the script of the release before swaps the other slot in first, if it is verified
Move ==
    /\ boot = "moved" /\ base' = final /\ final' = NoTree /\ UNCHANGED old /\ Unsynced
    /\ boot' = IF final.v \in OldReleases /\ VerifiedAll(OsOf[final.v]) THEN "swap" ELSE "launch"
    /\ UNCHANGED <<merged, outside, upd, faults, osVars>>

\* agnos_init: the operating system fits, or the other slot is verified and swapped in
AgnosInit ==
    /\ boot = "agnos"
    /\ boot' = IF OsVersion = OsOf[base.v] THEN "running"
               ELSE IF VerifiedAll(OsOf[base.v]) THEN "swap" ELSE "foreground"
    /\ UNCHANGED <<trees, merged, outside, upd, faults, osVars>>

\* clear_partition_hash of each partition, with a sync
Swap ==
    /\ boot = "swap" /\ ClearHashes /\ boot' = "activate" /\ Sync(base, final, old)
    /\ UNCHANGED <<merged, outside, upd, faults>>

\* abctl --set_active, and a reboot
Activate ==
    /\ boot = "activate" /\ SetActive /\ boot' = "boot" /\ Sync(base, final, old)
    /\ UNCHANGED <<merged, outside, upd, faults>>

\* the updater that the user sees: flash until all is verified, then swap
Foreground ==
    /\ boot = "foreground" /\ UNCHANGED <<trees, merged, outside, upd, faults>>
    /\ \/ flashing = 0 /\ StartFlash(OsOf[base.v]) /\ UNCHANGED boot
       \/ FlashStep /\ UNCHANGED boot
       \/ Flashed /\ VerifiedAll(OsOf[base.v]) /\ StopFlash /\ boot' = "swap"

\* the user restarts the device, at another time than between two attempts as a fault
Reboot ==
    /\ Running /\ (IF upd = "sleep" THEN UNCHANGED faults ELSE Fault)
    /\ Sync(base, final, old) /\ merged' = NoTree /\ upd' = "off" /\ boot' = "boot"
    /\ UNCHANGED <<outside, osVars>>

\* what was copied and not synced may be incomplete
MayBe(t) == {t} \cup IF t.data = "copied" THEN {[t EXCEPT !.data = "partial"]} ELSE {}

\* the directories are as after any of the steps since the last sync
PowerCut ==
    /\ Fault /\ merged' = NoTree /\ upd' = "off" /\ boot' = "boot" /\ trail' = <<>>
    /\ \E i \in 1 .. Len(trail) + 1 :
        LET t == Append(trail, <<base, final, old>>)[i] IN
        base' \in MayBe(t[1]) /\ final' \in MayBe(t[2]) /\ old' \in MayBe(t[3])
    /\ UNCHANGED <<outside, osVars>>

-----------------------------------------------------------------------------
NewVersion ==
    /\ head < Latest /\ head' = head + 1
    /\ UNCHANGED <<trees, merged, metered, boot, upd, faults, osVars>>

\* the user selects another branch, UpdaterTargetBranch
SelectBranch ==
    /\ Fault /\ head' \in (1 .. Latest) \ {head}
    /\ UNCHANGED <<trees, merged, metered, boot, upd, osVars>>

NetworkChanges ==
    /\ metered' = ~metered /\ UNCHANGED <<trees, merged, head, boot, upd, faults, osVars>>

\* the user commits work of his own in BASEDIR, or checks another version out
UserWorks ==
    /\ Fault /\ Running
    /\ \E v \in 1 .. Latest : base' = [base EXCEPT !.v = v, !.edited = TRUE]
    /\ UNCHANGED <<final, old, trail, merged, outside, boot, upd, osVars>>

Overlay == InitOverlay \/ ClearStaging \/ TouchInit \/ Mount \/ Check
Download == Fetch \/ Reset \/ HandleAgnos \/ Flash
Stage == Finalize \/ Copied \/ SetFlag
Updater == UpdatedStarts \/ Overlay \/ Download \/ Stage \/ WakeUp
Launcher == Boot \/ Launch \/ Move \/ AgnosInit \/ Swap \/ Activate \/ Foreground

UpdateNext ==
    \/ Updater \/ Fails \/ Killed \/ Launcher \/ Reboot \/ PowerCut
    \/ NewVersion \/ SelectBranch \/ NetworkChanges \/ UserWorks

UpdateSpec == UpdateInit /\ [][UpdateNext]_vars

-----------------------------------------------------------------------------
(* BASEDIR is never a directory with files missing, whatever was cut short.  *)
BaseIsWhole == base # NoTree => base.data = "synced"

(* "prevent an openpilot getting swapped in with a mismatched or partially   *)
(* downloaded agnos": the operating system that a copy needs which the next  *)
(* start swaps in runs already or is verified in the other slot.             *)
FlagMeansReady ==
    Running /\ Valid =>
        /\ final.data = "synced"
        /\ OsVersion = OsOf[final.v] \/ VerifiedAll(OsOf[final.v])

(* There is always a whole directory to start from or to restore, also when  *)
(* the power is cut between the two moves of the launch script.              *)
NothingLost == base # NoTree \/ (old # NoTree /\ old.data = "synced")

(* However often the power is cut, there is a whole version to start from,   *)
(* or, if it was cut between the two moves of the launch script, to restore  *)
(* by hand, and a system that was flashed as a whole to start it on.         *)
DiskIsWhole == UpdateTypeOK /\ BaseIsWhole /\ FlagMeansReady /\ NothingLost /\ ActiveIsWhole

(* As long as the network is not metered and nothing is cut short, the       *)
(* newest version is installed in the end.                                   *)
Calm == ~metered /\ faults = 0
NewestInstalled == []<>(base.v = head \/ ~Calm \/ base = NoTree)

-----------------------------------------------------------------------------
(* updated and the launch script run; the user restarts when an update is   *)
(* ready.  A restart in the middle of a fetch is a fault of the weather.    *)
UpdateFairness ==
    /\ WF_vars(Updater) /\ WF_vars(Launcher) /\ SF_vars(Reboot /\ upd = "sleep" /\ final.flag)
==============================================================================
