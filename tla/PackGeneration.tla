--------------------------- MODULE PackGeneration ---------------------------
(***************************************************************************)
(* Garbage collection of the object store: gc.rs, with the parts of        *)
(* store.rs, catalog.rs, retention.rs and repository.rs it meets.          *)
(*                                                                         *)
(* A collection marks what the retained snapshots, the pins and a pending  *)
(* restore need, copies it to a pack of a new generation, points the       *)
(* catalog at it, renames CURRENT and removes the other packs.  Captures,  *)
(* pins, rewinds and other processes go on around it; any process can be   *)
(* killed and the machine can lose power between any two steps.            *)
(*                                                                         *)
(* A pack is the set of its objects: what a torn or unflushed suffix does  *)
(* is the subject of ObjectStore.  A clock tick is more than one day, so a *)
(* snapshot sealed today is inside every retention window and an older one *)
(* is outside the window of the classes in Expiring.                       *)
(***************************************************************************)
EXTENDS Integers, Sequences, FiniteSets

CONSTANTS
    Procs,          \* processes with the store open
    Files,          \* files of the workspace, each with one content
    Expiring,       \* those of a class whose bytes expire (scratch)
    None,           \* no snapshot
    Scenarios       \* bounds, chosen together: processes open at a time, snapshots
                    \* stored, packs written by a collection, clock ticks, kills
                    \* and power losses

ASSUME GenerationBounds ==
    /\ Scenarios \subseteq [procs : Nat, captures : Nat, collections : Nat, days : Nat,
                             kills : Nat, losses : Nat]
    /\ Expiring \subseteq Files

Snapshots(bound) ==
    [kind : {"snap"}, n : 1..bound.captures, files : SUBSET Files, day : 0..bound.days]

ASSUME NoneIsApart ==
    \A bound \in Scenarios :
        /\ None \notin Snapshots(bound)
        /\ None \notin [pre : Snapshots(bound), target : Snapshots(bound)]

(* Five orders of events against which the code has no defence.  They happen here
   as they do there; the history variable races notes the ones that did, so that
   the properties can say that nothing else breaks them:
     swap       a power loss undoes the catalog swap of a collection, which is
                not flushed, and leaves the CURRENT that followed it;
     current    a capture goes to the new pack while the rename of CURRENT, left
                by a killed collection, is not flushed;
     cached     a collection drops the bytes of a file that is still on disk as
                its stat row says, because the head does not hold it (the
                policy excluded it, or two captures were published in the
                opposite order);
     resurrect  a plan retains a snapshot an earlier one thinned (see Retention,
                which computes when that happens);
     midnight   a day passes between the capture of a rewind and its intent. *)
Race == {"swap", "current", "cached", "resurrect", "midnight"}

VARIABLES
    scenario,   \* the bounds of this behaviour
    packs,      \* generation -> the objects in its pack file
    there,      \* generations whose file is in packs/
    limbo,      \* removed, but the directory has not been flushed since
    current,    \* packs/CURRENT
    currents,   \* the versions of it a power loss can leave behind
    catalog,    \* the committed catalog
    commits,    \* catalog states a power loss can fall back to (every one: a
                \* checkpoint of SQLite only makes the set smaller)
    log,        \* refs.log: the published snapshots in order
    retention,  \* the latest state of retention.log
    intent,     \* restore.intent
    disk,       \* files on disk
    stale,      \* files whose stat cache row, if any, no longer matches
    proc,       \* per process: where it is and what it holds
    today,      \* the clock, in days
    captures, collections, kills, losses,   \* how much of each bound is used
    races       \* history: which of the orders above have happened

vars == <<scenario, packs, there, limbo, current, currents, catalog, commits, log,
          retention, intent, disk, stale, proc, today, captures, collections,
          kills, losses, races>>

bounds == <<scenario, captures, collections, kills, losses>>
MaxCaptures == scenario.captures
MaxCollections == scenario.collections
store == <<packs, there, limbo, current, currents, catalog, commits>>
tree == <<disk, stale>>

When(race, happens) == IF happens THEN {race} ELSE {}

-----------------------------------------------------------------------------
(* Objects.  A snapshot stands for its trees as well; a blob lists the chunks
   of one file, which hold its bytes. *)
Generation == 0..MaxCollections
Snap == Snapshots(scenario)
Leaf == [kind : {"blob", "chunk"}, n : {0}, files : {{f} : f \in Files}, day : {0}]
Object == Snap \cup Leaf
Blob(f) == [kind |-> "blob", n |-> 0, files |-> {f}, day |-> 0]
Chunk(f) == [kind |-> "chunk", n |-> 0, files |-> {f}, day |-> 0]

(* What a snapshot needs when the bytes of the given files are wanted: all of
   the manifest (traverse marks every blob), and those bytes. *)
Graph(s, bytes) ==
    {s} \cup {Blob(f) : f \in s.files} \cup {Chunk(f) : f \in s.files \cap bytes}
Whole(s) == Graph(s, Files)

(* The catalog: object rows naming a pack, and the stat cache. *)
Catalog == [rows : SUBSET (Object \X Generation), cache : SUBSET Files]
HasRow(c, o) == \E r \in c.rows : r[1] = o
(* read_located: the row names a file that is there and holds the object. *)
Readable(o) == \E r \in catalog.rows :
                  r[1] = o /\ r[2] \in there /\ o \in packs[r[2]]
Exact(s) == \A o \in Whole(s) : Readable(o)

Commit(c) == catalog' = c /\ commits' = commits \cup {c}

(* RetentionState, over the positions of log. *)
Retention == [through : 0..MaxCaptures, keep : SUBSET (1..MaxCaptures),
              pins : SUBSET (1..MaxCaptures)]
Retains(r, i) == i > r.through \/ i \in r.keep \/ i \in r.pins
Retained == {i \in 1..Len(log) : Retains(retention, i)}

Intent == [pre : Snap, target : Snap]

(* PublishPlaces hold the maintenance lock shared, GcPlaces exclusively. *)
PublishPlaces == {"publish", "rescue"}
GcPlaces == {"write", "swap", "rename", "syncDir", "remove"}
Places == {"closed", "idle", "planned", "armed", "apply", "rollback"}
          \cup PublishPlaces \cup GcPlaces
Process == [at : Places, snap : Snap \cup {None}, target : Snap \cup {None},
            marks : SUBSET Object]
ClosedProcess == [at |-> "closed", snap |-> None, target |-> None, marks |-> {}]

GcRunning == \E q \in Procs : proc[q].at \in GcPlaces
(* Mutant: a collection shares the lock with captures. *)
MaintenanceShared == ~GcRunning

(* The maintenance lock can be taken exclusively. *)
MaintenanceFree == ~GcRunning /\ \A q \in Procs : proc[q].at \notin PublishPlaces

(* mutation.lock: one rewind at a time, and recovery of one. *)
MutationFree(p) == \A q \in Procs \ {p} : proc[q].target = None

TypeOK ==
    /\ scenario \in Scenarios
    /\ packs \in [Generation -> SUBSET Object]
    /\ there \subseteq Generation /\ limbo \subseteq Generation
    /\ current \in Generation /\ currents \subseteq Generation /\ current \in currents
    /\ catalog \in Catalog /\ commits \subseteq Catalog /\ catalog \in commits
    /\ log \in Seq(Snap)
    /\ retention \in Retention
    /\ intent \in Intent \cup {None}
    /\ disk \subseteq Files /\ stale \subseteq Files
    /\ proc \in [Procs -> Process]
    /\ today \in 0..scenario.days
    /\ captures \in 0..MaxCaptures /\ collections \in 0..MaxCollections
    /\ kills \in 0..scenario.kills /\ losses \in 0..scenario.losses
    /\ races \subseteq Race

Init ==
    /\ scenario \in Scenarios
    /\ packs = [g \in Generation |-> {}]
    /\ there = {0} /\ limbo = {} /\ current = 0 /\ currents = {0}
    /\ catalog = [rows |-> {}, cache |-> {}] /\ commits = {catalog}
    /\ log = << >>
    /\ retention = [through |-> 0, keep |-> {}, pins |-> {}]
    /\ intent = None
    /\ disk = Files /\ stale = {}
    /\ proc = [p \in Procs |-> ClosedProcess]
    /\ today = 0
    /\ captures = 0 /\ collections = 0 /\ kills = 0 /\ losses = 0
    /\ races = {}

-----------------------------------------------------------------------------
(* Opening the store: rows are added for the objects of the active pack that
   have none (INSERT OR IGNORE); rows that name another pack are left alone. *)
Rescanned(c) ==
    [c EXCEPT !.rows = @ \cup {<<o, current>> : o \in {x \in packs[current] : ~HasRow(c, x)}}]

Open(p) ==
    /\ proc[p].at = "closed" /\ ~GcRunning
    /\ Cardinality({q \in Procs : proc[q].at # "closed"}) < scenario.procs
    /\ Commit(Rescanned(catalog))
    /\ proc' = [proc EXCEPT ![p].at = "idle"]
    /\ UNCHANGED <<packs, there, limbo, current, currents, log, retention, intent,
                   tree, today, bounds, races>>

(* Mutant: the pack that was active when the store was created is used for as
   long as the process lives. *)
ActivePackAtOpen(p) == 0

(* acquire_maintenance reads CURRENT again, so a long-lived process follows
   an activation by another. *)
ActivePack(p) == current

(* The objects a capture of files stores: a file whose stat matches its cache
   row is not read, and an object that has a row is not appended. *)
Stored(s) ==
    LET read == {f \in s.files : f \in stale \/ f \notin catalog.cache}
        put == {s} \cup {Blob(f) : f \in read} \cup {Chunk(f) : f \in read}
    IN  {o \in put : ~HasRow(catalog, o)}

StoreSnapshot(p, s) ==
    LET g == ActivePack(p)
    IN  /\ packs' = [packs EXCEPT ![g] = @ \cup Stored(s)]
        /\ Commit([rows |-> catalog.rows \cup {<<o, g>> : o \in Stored(s)},
                   cache |-> catalog.cache \cup s.files])
        /\ stale' = stale \ s.files
        /\ captures' = captures + 1
        /\ races' = races \cup When("current", currents # {current})
        /\ UNCHANGED <<there, limbo, current, currents>>

(* The snapshot a capture makes of the files on disk less the excluded ones. *)
Taken(excluded) ==
    [kind |-> "snap", n |-> captures + 1, files |-> disk \ excluded, day |-> today]

Exclusions == SUBSET disk

(* snapshot_internal up to the end of the batch, under the shared maintenance
   lock; the reference is appended by Publish. *)
Capture(p, excluded) ==
    /\ proc[p].at = "idle" /\ ~GcRunning
    /\ captures < MaxCaptures
    /\ StoreSnapshot(p, Taken(excluded))
    /\ proc' = [proc EXCEPT ![p].at = "publish", ![p].snap = Taken(excluded)]
    /\ UNCHANGED <<log, retention, intent, disk, today, scenario, collections, kills, losses>>

(* A capture that belongs to a rewind goes back to it: the first leads to the
   intent, a second, the rescue, to the rollback. *)
AfterPublish(r) ==
    IF r.target = None THEN [r EXCEPT !.at = "idle", !.snap = None]
    ELSE [r EXCEPT !.at = IF r.at = "publish" THEN "armed" ELSE "rollback"]

(* publish_snapshot *)
Publish(p) ==
    /\ proc[p].at \in PublishPlaces
    /\ log' = Append(log, proc[p].snap)
    /\ proc' = [proc EXCEPT ![p] = AfterPublish(@)]
    /\ UNCHANGED <<store, retention, intent, tree, today, bounds, races>>

(* The user removes a file, or writes it anew: its stat changes. *)
Edit(f) ==
    /\ disk' = IF f \in disk THEN disk \ {f} ELSE disk \cup {f}
    /\ stale' = stale \cup {f}
    /\ UNCHANGED <<store, log, retention, intent, proc, today, bounds, races>>

(* The snapshot that the intent of a rewind will name is made. *)
BeforeIntent(p) == proc[p].at \in {"armed", "publish"} /\ proc[p].target # None

Tick ==
    /\ today < scenario.days
    /\ today' = today + 1
    /\ races' = races \cup When("midnight", \E p \in Procs : BeforeIntent(p))
    /\ UNCHANGED <<store, log, retention, intent, tree, proc, bounds>>

(* pin refuses a snapshot that is not exact. *)
Pin(p, i) ==
    /\ proc[p].at = "idle" /\ MaintenanceFree
    /\ i \in 1..Len(log) \ retention.pins
    /\ Exact(log[i])
    /\ retention' = [retention EXCEPT !.pins = @ \cup {i}]
    /\ UNCHANGED <<store, log, intent, tree, proc, today, bounds, races>>

Unpin(p, i) ==
    /\ proc[p].at = "idle" /\ MaintenanceFree
    /\ i \in retention.pins
    /\ retention' = [retention EXCEPT !.pins = @ \ {i}]
    /\ UNCHANGED <<store, log, intent, tree, proc, today, bounds, races>>

-----------------------------------------------------------------------------
(* Rewind.  It does not hold the maintenance lock across its steps: from the
   time the intent is on disk, the intent keeps its snapshots alive. *)

(* plan_rewind refuses a target that is not exact.  An intent that a killed
   process left is not looked at: RewindIntent writes over it. *)
RewindPlan(p, i) ==
    /\ proc[p].at = "idle" /\ ~GcRunning /\ MutationFree(p)
    /\ i \in Retained /\ Exact(log[i])
    /\ proc' = [proc EXCEPT ![p].at = "planned", ![p].target = log[i]]
    /\ UNCHANGED <<store, log, retention, intent, tree, today, bounds, races>>

(* The snapshot "before rewind". *)
RewindCapture(p, excluded) ==
    /\ proc[p].at = "planned" /\ ~GcRunning
    /\ captures < MaxCaptures
    /\ StoreSnapshot(p, Taken(excluded))
    /\ proc' = [proc EXCEPT ![p].at = "publish", ![p].snap = Taken(excluded)]
    /\ UNCHANGED <<log, retention, intent, disk, today, scenario, collections, kills, losses>>

RewindIntent(p) ==
    /\ proc[p].at = "armed"
    /\ intent' = [pre |-> proc[p].snap, target |-> proc[p].target]
    /\ proc' = [proc EXCEPT ![p].at = "apply"]
    /\ UNCHANGED <<store, log, retention, tree, today, bounds, races>>

(* Excluded files are left alone; a file that is restored gets a new stat. *)
Replace(s) ==
    \E kept \in Exclusions :
        /\ disk' = s.files \cup kept
        /\ stale' = stale \cup ((disk \cup s.files) \ (disk \cap disk'))

RewindDone(p) == [proc EXCEPT ![p].at = "idle", ![p].snap = None, ![p].target = None]

(* The tree is no longer what the capture saw: nothing is changed. *)
RewindCancel(p) ==
    /\ proc[p].at = "armed"
    /\ proc' = RewindDone(p)
    /\ UNCHANGED <<store, log, retention, intent, tree, today, bounds, races>>

(* The tree becomes the target, then the intent is removed. *)
RewindApply(p) ==
    /\ proc[p].at = "apply" /\ ~GcRunning
    /\ Exact(intent.target) /\ Replace(intent.target)
    /\ intent' = None
    /\ proc' = RewindDone(p)
    /\ UNCHANGED <<store, log, retention, today, bounds, races>>

(* Interference, or a target that can no longer be read: what is on disk (part
   old, part new: Edit) is captured for rescue unless that fails too, and the
   pre-rewind snapshot is restored. *)
RewindRescue(p, excluded) ==
    /\ proc[p].at = "apply" /\ ~GcRunning
    /\ captures < MaxCaptures
    /\ StoreSnapshot(p, Taken(excluded))
    /\ proc' = [proc EXCEPT ![p].at = "rescue", ![p].snap = Taken(excluded)]
    /\ UNCHANGED <<log, retention, intent, disk, today, scenario, collections, kills, losses>>

RewindNoRescue(p) ==
    /\ proc[p].at = "apply"
    /\ proc' = [proc EXCEPT ![p].at = "rollback"]
    /\ UNCHANGED <<store, log, retention, intent, tree, today, bounds, races>>

RewindRollback(p) ==
    /\ proc[p].at = "rollback" /\ ~GcRunning
    /\ Exact(intent.pre) /\ Replace(intent.pre)
    /\ intent' = None
    /\ proc' = RewindDone(p)
    /\ UNCHANGED <<store, log, retention, today, bounds, races>>

(* recover_interrupted_rewind, when a repository is opened. *)
RecoverRewind(p) ==
    /\ proc[p].at = "idle" /\ ~GcRunning /\ MutationFree(p)
    /\ intent # None
    /\ Exact(intent.pre)
    /\ Replace(intent.pre)
    /\ intent' = None
    /\ UNCHANGED <<store, log, retention, proc, today, bounds, races>>

-----------------------------------------------------------------------------
(* Collection *)

(* plan_state: kept are the snapshots of the last day, the pinned, the newest
   of every older bucket and the head; which of the older share a bucket is
   left open, but the newest of them is always the newest of its bucket. *)
Plans ==
    LET all == 1..Len(log)
        recent == {i \in all : log[i].day = today}
        old == all \ recent
        newest == {i \in old : \A j \in old : j <= i}
        last == {i \in all : i = Len(log)}
    IN  {[through |-> Len(log),
          keep |-> recent \cup (retention.pins \cap all) \cup newest \cup last \cup k,
          pins |-> retention.pins] : k \in SUBSET old}

(* Mutant: the head and the pinned age like any other snapshot. *)
BytesByAge(r, i) == IF log[i].day = today THEN Files ELSE Files \ Expiring

(* byte_mask: the head and the pinned keep all bytes, others those of the
   classes whose window they are in. *)
Bytes(r, i) ==
    IF i = Len(log) \/ i \in r.pins \/ log[i].day = today
    THEN Files ELSE Files \ Expiring

(* Mutant: only the snapshot being restored is a root. *)
TargetRoots == IF intent = None THEN {} ELSE {intent.target}

IntentRoots == IF intent = None THEN {} ELSE {intent.pre, intent.target}

(* enqueue_roots and traverse *)
Marks(r) ==
    (UNION {Graph(log[i], Bytes(r, i)) : i \in {j \in 1..Len(log) : Retains(r, j)}})
    \cup UNION {Whole(s) : s \in IntentRoots}

(* Of a file that is on disk as its stat row says, some snapshot needs the bytes
   and they are not marked. *)
DropsCached(marks) ==
    \E f \in (disk \cap catalog.cache) \ stale :
        Chunk(f) \notin marks /\ \E i \in 1..Len(log) : f \in log[i].files

(* The plan is written to retention.log before anything is read; an object
   that cannot be read then ends the collection. *)
GcMark(p) ==
    /\ proc[p].at = "idle" /\ MaintenanceFree
    /\ collections < MaxCollections
    /\ \E r \in Plans :
        /\ retention' = r
        /\ races' = races \cup When("resurrect", ~(r.keep \subseteq Retained))
                         \cup When("cached", DropsCached(Marks(r)))
        /\ IF \A o \in Marks(r) : Readable(o)
           THEN proc' = [proc EXCEPT ![p].at = "write", ![p].marks = Marks(r)]
           ELSE UNCHANGED proc
    /\ UNCHANGED <<store, log, intent, tree, today, bounds>>

Fresh == collections

(* The new pack is written aside, flushed and renamed into packs/. *)
GcWrite(p) ==
    /\ proc[p].at = "write"
    /\ collections' = collections + 1
    /\ packs' = [packs EXCEPT ![collections'] = proc[p].marks]
    /\ there' = there \cup {collections'}
    /\ proc' = [proc EXCEPT ![p].at = "swap"]
    /\ UNCHANGED <<limbo, current, currents, catalog, commits, log, retention,
                   intent, tree, today, scenario, captures, kills, losses, races>>

(* replace_objects_from_gc: one transaction, not flushed. *)
Swapped(marks) ==
    [rows |-> {<<o, Fresh>> : o \in marks},
     cache |-> {f \in catalog.cache : Blob(f) \in marks}]

GcSwap(p) ==
    /\ proc[p].at = "swap"
    /\ Commit(Swapped(proc[p].marks))
    /\ proc' = [proc EXCEPT ![p].at = "rename"]
    /\ UNCHANGED <<packs, there, limbo, current, currents, log, retention, intent,
                   tree, today, bounds, races>>

(* activate_pack *)
GcRename(p) ==
    /\ proc[p].at = "rename"
    /\ current' = Fresh /\ currents' = currents \cup {Fresh}
    /\ proc' = [proc EXCEPT ![p].at = "syncDir"]
    /\ UNCHANGED <<packs, there, limbo, catalog, commits, log, retention, intent,
                   tree, today, bounds, races>>

GcSyncDir(p) ==
    /\ proc[p].at = "syncDir"
    /\ currents' = {current} /\ limbo' = {}
    /\ proc' = [proc EXCEPT ![p].at = "remove"]
    /\ UNCHANGED <<packs, there, current, catalog, commits, log, retention, intent,
                   tree, today, bounds, races>>

GcRemove(p, g) ==
    /\ proc[p].at = "remove"
    /\ g \in there \ {Fresh}
    /\ there' = there \ {g} /\ limbo' = limbo \cup {g}
    /\ UNCHANGED <<packs, current, currents, catalog, commits, log, retention,
                   intent, tree, proc, today, bounds, races>>

GcFinish(p) ==
    /\ proc[p].at = "remove" /\ there = {Fresh}
    /\ limbo' = {}
    /\ proc' = [proc EXCEPT ![p].at = "idle", ![p].marks = {}]
    /\ UNCHANGED <<packs, there, current, currents, catalog, commits, log,
                   retention, intent, tree, today, bounds, races>>

-----------------------------------------------------------------------------
(* Faults *)

(* A group commit flushes the directory packs/. *)
SyncPacks(p) ==
    /\ proc[p].at = "idle" /\ ~GcRunning
    /\ currents' = {current} /\ limbo' = {}
    /\ UNCHANGED <<packs, there, current, catalog, commits, log, retention, intent,
                   tree, proc, today, bounds, races>>

(* Killing an idle process leaves what its never acting again leaves. *)
Kill(p) ==
    /\ proc[p].at \notin {"closed", "idle"} /\ kills < scenario.kills
    /\ kills' = kills + 1
    /\ proc' = [proc EXCEPT ![p] = ClosedProcess]
    /\ UNCHANGED <<store, log, retention, intent, tree, today, scenario, captures,
                   collections, losses, races>>

PowerLoss ==
    /\ losses < scenario.losses
    /\ losses' = losses + 1
    /\ current' \in currents /\ currents' = {current'}
    /\ \E back \in SUBSET limbo : there' = there \cup back
    /\ limbo' = {}
    /\ catalog' \in commits /\ commits' = {catalog'}
    /\ races' = races \cup When("swap",
          ~\A r \in catalog'.rows : r[1] \in packs[current'] /\ r[2] \in there')
    /\ proc' = [p \in Procs |-> ClosedProcess]
    /\ UNCHANGED <<packs, log, retention, intent, tree, today, scenario, captures,
                   collections, kills>>

-----------------------------------------------------------------------------
Collect(p) ==
    \/ GcMark(p) \/ GcWrite(p) \/ GcSwap(p) \/ GcRename(p) \/ GcSyncDir(p)
    \/ \E g \in Generation : GcRemove(p, g)
    \/ GcFinish(p)

Rewind(p) ==
    \/ \E i \in 1..Len(log) : RewindPlan(p, i)
    \/ \E x \in Exclusions : RewindCapture(p, x) \/ RewindRescue(p, x)
    \/ RewindIntent(p) \/ RewindCancel(p) \/ RewindApply(p)
    \/ RewindNoRescue(p) \/ RewindRollback(p) \/ RecoverRewind(p)

Next ==
    \/ \E p \in Procs :
        \/ Open(p) \/ Publish(p) \/ Collect(p) \/ Rewind(p) \/ Kill(p)
        \/ SyncPacks(p)
        \/ \E x \in Exclusions : Capture(p, x)
        \/ \E i \in 1..Len(log) : Pin(p, i) \/ Unpin(p, i)
    \/ \E f \in Files : Edit(f)
    \/ Tick \/ PowerLoss

Spec == Init /\ [][Next]_vars

-----------------------------------------------------------------------------
(* Properties *)

Opened == \E p \in Procs : proc[p].at # "closed"

(* What must not be lost: the retained snapshots, with the bytes kept at their
   age, and the snapshot an interrupted rewind goes back to. *)
Needed ==
    (UNION {Graph(log[i], Bytes(retention, i)) : i \in Retained})
    \cup (IF intent = None THEN {} ELSE Whole(intent.pre))

(* The pack of any CURRENT a power loss can leave is there and holds it all. *)
PacksHoldAll == \A g \in currents : g \in there /\ Needed \subseteq packs[g]

(* With the store open, what is kept of a retained snapshot can be read. *)
AllReadable ==
    Opened => \A i \in Retained : \A o \in Graph(log[i], Bytes(retention, i)) : Readable(o)

HeadPinsHold ==
    Opened => \A i \in 1..Len(log) :
        i = Len(log) \/ i \in retention.pins => Exact(log[i])

PreHolds == Opened /\ intent # None => Exact(intent.pre)

Unraced == races = {}

(* Whatever CURRENT a power loss leaves, the pack it names is there and holds
   all that the retained snapshots, the pins and a pending rollback need: the
   catalog can be deleted at any time and rebuilt ("SQLite is an advisory
   index, never the truth").  Only the five races break this. *)
Rebuildable == Unraced => PacksHoldAll

(* With the store open, every retained snapshot can be read: its manifest, and
   the bytes of the classes that are kept for its age.  Only the five races break
   this: every other interleaving of captures, collections, kills and power losses
   leaves what is retained readable. *)
RetainedReadable == Unraced => AllReadable

(* The head and the pinned snapshots stay byte-exact, whatever is collected
   ("Pins override everything"), until one of the five races has happened. *)
HeadAndPinsExact == Unraced => HeadPinsHold

(* From the moment restore.intent is on disk its pre-rewind snapshot can be
   restored byte for byte, so an interrupted rewind can always be undone,
   even when collections run between the capture and the recovery; until one of
   the five races has happened. *)
IntentRestorable == Unraced => PreHolds
=============================================================================
