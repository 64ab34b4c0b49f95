---------------------------- MODULE ObjectStore ----------------------------
(***************************************************************************)
(* The object store of furrow-core: an append-only pack of records, the    *)
(* SQLite catalog that indexes it, the reference log that makes a capture  *)
(* visible, and the durable frontier written by the group commit.          *)
(*                                                                         *)
(* Several processes share the files.  A capture writes its objects inside *)
(* one catalog transaction and then appends one reference.  It is either   *)
(* synchronous (pack and reference are flushed before it returns) or       *)
(* deferred (everything stays in the kernel until a group commit).  A      *)
(* process can be killed at any step; the machine can lose power, which    *)
(* keeps only what was flushed plus an arbitrary, possibly damaged, part   *)
(* of the rest.  Opening the store repairs the pack, the catalog and the   *)
(* reference log.                                                          *)
(*                                                                         *)
(* Record boundaries stand for byte offsets: the "length" of the pack is   *)
(* its number of records, a half-written record being one more.  One pack  *)
(* and one reference log are modelled; PackGeneration models what garbage  *)
(* collection does to the set of packs.                                    *)
(***************************************************************************)
EXTENDS Integers, Sequences, FiniteSets

CONSTANTS
    Procs,          \* processes that open the store (commands, the daemon)
    Blobs,          \* file contents a capture can find in the workspace
    Torn,           \* a record whose end is missing (a short read)
    Garbage,        \* a record of full length that fails its checksum
    None,           \* no process, no object
    MaxCaptures,    \* bound: captures started
    MaxKills,       \* bound: processes killed
    MaxPowerLosses, \* bound: power losses
    MaxTornRefs     \* bound: kills between the writes of one reference frame

ASSUME BoundsAreNaturals ==
    /\ MaxCaptures \in Nat
    /\ MaxKills \in Nat
    /\ MaxPowerLosses \in Nat
    /\ MaxTornRefs \in Nat

(* Nothing in the code prevents five orders of steps that break guarantees
   below.  They happen here as they do there; the history variable races
   remembers which of them have happened:
     kill     a writer is killed inside a record while another process is
              between recovering the pack and noting the pack's length;
     rename   a capture defers on the strength of another process's first
              frontier whose rename is not flushed yet;
     publish  a deferred capture starts after a synchronous one has flushed
              the pack and before that one appends its reference;
     count    a group commit counts a frame that a kill or a power loss has left
              damaged among the complete references;
     undone   a power loss takes the catalog back to the state an earlier one
              left, before recovery mended it. *)
Race == {"kill", "rename", "publish", "count", "undone"}

VARIABLES
    pack,           \* the pack file as the kernel serves it
    packSynced,     \* how many of its records have reached the device
    refs,           \* refs.log as the kernel serves it
    refsSynced,     \* how many of its frames have reached the device
    catalog,        \* the committed catalog
    commits,        \* catalog states a power loss can fall back to
    fallen,         \* the one the last power loss fell back to, if not folded
    frontier,       \* group-commit.json
    frontiers,      \* the versions of it a power loss can leave behind
    proc,           \* per process: where it is and what it holds in memory
    group,          \* the group commit in progress (group.lock admits one)
    captures, kills, losses, tears,     \* how much of each bound is used
    acked,          \* history: references reported durable, in log order
    opened,         \* history: the store has been opened since power came up
    refused,        \* history: an open was refused although a frontier exists
    races           \* history: which of the orders above have happened

vars == <<pack, packSynced, refs, refsSynced, catalog, commits, fallen,
          frontier, frontiers, proc, group, captures, kills, losses, tears, acked,
          opened, refused, races>>

bounds == <<captures, kills, losses, tears>>

When(race, happens) == IF happens THEN {race} ELSE {}

-----------------------------------------------------------------------------
(* Objects.  n = 0 is the blob of a file's content; n > 0 is the snapshot of
   the n-th capture, which names that blob. *)
Object == [blob : Blobs, n : 0..MaxCaptures]
BlobOf(b) == [blob |-> b, n |-> 0]
Needs(s) == {s, BlobOf(s.blob)}
Damaged == {Torn, Garbage}
Entry == Object \cup Damaged

ASSUME DamageIsNoObject ==
    Damaged \cap Object = {} /\ Torn # Garbage /\ None \notin Entry \cup Procs

(* The catalog: object rows (an object and its place in the pack), the pack
   checkpoint (verified length and last object), and the stat cache, which
   names the blob of every file it believes unchanged. *)
Row == Object \X Nat
Catalog == [rows : SUBSET Row, vlen : Nat, vlast : Object \cup {None},
            cache : SUBSET Blobs]
EmptyCatalog == [rows |-> {}, vlen |-> 0, vlast |-> None, cache |-> {}]

HasRow(c, o) == \E r \in c.rows : r[1] = o
(* pack_high_water(pack) > n *)
RowsBeyond(c, n) == \E r \in c.rows : r[2] > n
(* pack_high_water(pack) = n *)
HighWater(c, n) == /\ \A r \in c.rows : r[2] <= n
                   /\ n > 0 => \E r \in c.rows : r[2] = n

Frontier == [exists : BOOLEAN, pack : Nat, refs : Nat]
NoFrontier == [exists |-> FALSE, pack |-> 0, refs |-> 0]

(* Where a process is.  closed; repair and attach finish an open; idle; blob
   and snap write a capture's objects inside the catalog transaction; commit
   ends the transaction; publish appends the reference. *)
Places == {"closed", "repair", "attach", "idle",
           "blob", "snap", "commit", "publish"}
InBatch == {"blob", "snap", "commit"}
Capturing == InBatch \cup {"publish"}
Live == {"attach", "idle", "blob", "snap", "commit", "publish"}

(* txn is the catalog as the transaction sees it; (start, end] with last at its
   end is the run of records appended since the last checkpoint; known is the
   length of the pack this process last saw. *)
Process == [at : Places, deferred : BOOLEAN, snap : Object \cup {None}, txn : Catalog,
            start : Nat, end : Nat, last : Object \cup {None}, known : Nat]

GroupPlaces == {"idle", "refs", "packs", "flushRefs", "rename", "syncDir"}
Group == [at : GroupPlaces, by : Procs \cup {None}, refs : Nat, pack : Nat]
NoGroup == [at |-> "idle", by |-> None, refs |-> 0, pack |-> 0]

TypeOK ==
    /\ pack \in Seq(Entry)
    /\ packSynced \in Nat /\ packSynced <= Len(pack)
    /\ refs \in Seq(Entry)
    /\ refsSynced \in Nat /\ refsSynced <= Len(refs)
    /\ catalog \in Catalog
    /\ commits \subseteq Catalog /\ catalog \in commits
    /\ fallen \in Catalog \cup {None}
    /\ frontier \in Frontier
    /\ frontiers \subseteq Frontier /\ frontier \in frontiers
    /\ proc \in [Procs -> Process]
    /\ \A p \in Procs : proc[p].at \in Capturing => proc[p].snap \in Object
    /\ group \in Group
    /\ captures \in 0..MaxCaptures
    /\ kills \in 0..MaxKills
    /\ losses \in 0..MaxPowerLosses
    /\ tears \in 0..MaxTornRefs
    /\ acked \in Seq(Entry)
    /\ opened \in BOOLEAN
    /\ refused \in BOOLEAN
    /\ races \subseteq Race

ClosedProcess ==
    [at |-> "closed", deferred |-> FALSE, snap |-> None,
     txn |-> EmptyCatalog, start |-> 0, end |-> 0, last |-> None,
     known |-> 0]

Init ==
    /\ pack = << >> /\ packSynced = 0
    /\ refs = << >> /\ refsSynced = 0
    /\ catalog = EmptyCatalog /\ commits = {EmptyCatalog} /\ fallen = None
    /\ frontier = NoFrontier /\ frontiers = {NoFrontier}
    /\ proc = [p \in Procs |-> ClosedProcess]
    /\ group = NoGroup
    /\ captures = 0 /\ kills = 0 /\ losses = 0 /\ tears = 0
    /\ acked = << >> /\ opened = FALSE /\ refused = FALSE /\ races = {}

-----------------------------------------------------------------------------
(* Recovery of the pack and its index *)

(* validate_checkpoint: no row lies past the checkpoint and the last record
   it names is where it says. *)
CheckpointValid(c) ==
    /\ c.vlen <= Len(pack)
    /\ ~RowsBeyond(c, c.vlen)
    /\ c.vlen > 0 => /\ <<c.vlast, c.vlen>> \in c.rows
                     /\ pack[c.vlen] = c.vlast

(* Where the scan starts.  A checkpoint past the durable frontier is not
   believed. *)
ScanBase(c) ==
    IF /\ frontier.exists => c.vlen <= frontier.pack
       /\ CheckpointValid(c)
    THEN c.vlen ELSE 0

(* The scan from base reads whole records up to stop, where it meets the end
   of the file or a damaged record. *)
ScanStops(base, stop) ==
    /\ \A i \in (base + 1)..stop : pack[i] \notin Damaged
    /\ stop < Len(pack) => pack[stop + 1] \in Damaged

(* truncate_pack_tail: a record that runs past the end of the file is cut, one
   that fails its checksum only under a frontier; nothing durable is cut. *)
MayTruncate(stop) ==
    /\ stop >= frontier.pack
    /\ pack[stop + 1] = Torn \/ frontier.exists

(* Otherwise the scan fails.  A torn record with others behind it reads as
   either, depending on the bytes. *)
MayRefuse(stop) ==
    \/ stop < frontier.pack
    \/ ~frontier.exists /\ ~(pack[stop + 1] = Torn /\ stop + 1 = Len(pack))

(* The rows after the scan: the index up to base is kept, every scanned
   record that has no row yet gets one (INSERT OR IGNORE). *)
ScannedRows(c, base, stop) ==
    LET kept == {r \in c.rows : r[2] <= base}
    IN  kept \cup
        {<<pack[i], i>> : i \in
            {j \in (base + 1)..stop :
                /\ \A r \in kept : r[1] # pack[j]
                /\ \A k \in (base + 1)..(j - 1) : pack[k] # pack[j]}}

(* Mutant: recovery that cuts a tail and keeps the capture caches. *)
RecoveredKeepingCaches(c, base, stop) ==
    [rows  |-> ScannedRows(c, base, stop),
     vlen  |-> stop,
     vlast |-> IF stop = base THEN (IF base = 0 THEN None ELSE c.vlast)
                              ELSE pack[stop],
     cache |-> c.cache]

(* The catalog after the scan.  The capture caches are forgotten when rows
   lay past the end of the file or when a tail was cut. *)
Recovered(c, base, stop) ==
    [rows  |-> ScannedRows(c, base, stop),
     vlen  |-> stop,
     vlast |-> IF stop = base THEN (IF base = 0 THEN None ELSE c.vlast)
                              ELSE pack[stop],
     cache |-> IF RowsBeyond(c, Len(pack)) \/ stop < Len(pack)
               THEN {} ELSE c.cache]

(* recover_pack_under_catalog_lock, when it succeeds with the scan ending at
   stop: the tail is cut, and whatever was scanned is flushed. *)
RecoverPack(c, stop) ==
    /\ Len(pack) >= frontier.pack
    /\ ScanStops(ScanBase(c), stop)
    /\ stop < Len(pack) => MayTruncate(stop)
    /\ pack' = SubSeq(pack, 1, stop)
    /\ packSynced' = IF stop > ScanBase(c) THEN stop
                     ELSE IF packSynced > stop THEN stop ELSE packSynced

(* The cases in which it gives up instead. *)
RecoverRefused(c) ==
    \/ Len(pack) < frontier.pack
    \/ \E stop \in ScanBase(c)..Len(pack) :
        /\ ScanStops(ScanBase(c), stop)
        /\ stop < Len(pack)
        /\ MayRefuse(stop)

CatalogFree == \A q \in Procs : proc[q].at \notin InBatch

Commit(c) == catalog' = c /\ commits' = commits \cup {c} /\ UNCHANGED fallen

-----------------------------------------------------------------------------
(* Opening the store *)

StartupFree == \A q \in Procs : proc[q].at # "repair"

(* pack_is_settled: the pack ends at its verified checkpoint and at the
   frontier, so the open takes no lock and writes nothing. *)
OpenSettled(p) ==
    /\ proc[p].at = "closed" /\ StartupFree
    /\ catalog.vlen = Len(pack)
    /\ frontier.exists => frontier.pack = Len(pack)
    /\ CheckpointValid(catalog)
    /\ proc' = [proc EXCEPT ![p].at = "repair"]
    /\ UNCHANGED <<pack, packSynced, refs, refsSynced, catalog, commits, fallen, frontier,
                   frontiers, group, bounds, races, acked, opened, refused>>

(* recover_pack under the catalog's write lock. *)
OpenRecover(p) ==
    /\ proc[p].at = "closed" /\ StartupFree /\ CatalogFree
    /\ \E stop \in ScanBase(catalog)..Len(pack) :
        /\ RecoverPack(catalog, stop)
        /\ Commit(Recovered(catalog, ScanBase(catalog), stop))
    /\ proc' = [proc EXCEPT ![p].at = "repair"]
    /\ UNCHANGED <<refs, refsSynced, frontier, frontiers, group, bounds, races, acked,
                   opened, refused>>

OpenRefused(p) ==
    /\ proc[p].at = "closed" /\ StartupFree /\ CatalogFree
    /\ RecoverRefused(catalog)
    /\ refused' = (refused \/ frontier.exists)
    /\ UNCHANGED <<pack, packSynced, refs, refsSynced, catalog, commits, fallen, frontier,
                   frontiers, proc, group, bounds, races, acked, opened>>

(* A frame repair_suffix keeps: whole, and past the durable boundary its
   snapshot must be in the catalog. *)
RefValid(i) ==
    /\ refs[i] \notin Damaged
    /\ i > frontier.refs => HasRow(catalog, refs[i])

RefsStop(stop) ==
    /\ \A i \in 1..stop : RefValid(i)
    /\ stop < Len(refs) => ~RefValid(stop + 1)

(* The log ends, or is damaged, below what the frontier calls durable. *)
DurableRefsLost ==
    /\ frontier.exists
    /\ \/ Len(refs) < frontier.refs
       \/ \E stop \in 0..(Len(refs) - 1) : RefsStop(stop) /\ stop < frontier.refs

(* Mutant: the repair cuts the log back to the durable frontier. *)
RepairRefsToFrontier(p) ==
    /\ proc[p].at = "repair"
    /\ \/ /\ ~frontier.exists
          /\ UNCHANGED <<refs, refsSynced>>
       \/ /\ frontier.exists
          /\ Len(refs) >= frontier.refs
          /\ refs' = SubSeq(refs, 1, frontier.refs)
          /\ refsSynced' = frontier.refs
    /\ proc' = [proc EXCEPT ![p].at = "attach", ![p].known = Len(pack)]
    /\ UNCHANGED <<pack, packSynced, catalog, commits, fallen, frontier, frontiers, group,
                   bounds, races, acked, opened, refused>>

(* repair_deferred_refs: the log is cut at the first bad frame.  Without a
   frontier there is nothing to repair. *)
RepairRefs(p) ==
    /\ proc[p].at = "repair"
    /\ \/ /\ ~frontier.exists
          /\ UNCHANGED <<refs, refsSynced>>
       \/ /\ frontier.exists
          /\ Len(refs) >= frontier.refs
          /\ \E stop \in 0..Len(refs) :
              /\ RefsStop(stop)
              /\ stop < Len(refs) => stop >= frontier.refs
              /\ refs' = SubSeq(refs, 1, stop)
              /\ refsSynced' = IF stop < Len(refs) THEN stop ELSE refsSynced
    /\ proc' = [proc EXCEPT ![p].at = "attach", ![p].known = Len(pack)]
    /\ UNCHANGED <<pack, packSynced, catalog, commits, fallen, frontier, frontiers, group,
                   bounds, races, acked, opened, refused>>

RepairRefused(p) ==
    /\ proc[p].at = "repair"
    /\ DurableRefsLost
    /\ proc' = [proc EXCEPT ![p] = ClosedProcess]
    /\ refused' = TRUE
    /\ UNCHANGED <<pack, packSynced, refs, refsSynced, catalog, commits, fallen, frontier,
                   frontiers, group, bounds, races, acked, opened>>

(* ensure_index: a short tail of the log is cut before it is read. *)
WholeFrames(s) ==
    IF Len(s) > 0 /\ s[Len(s)] = Torn THEN SubSeq(s, 1, Len(s) - 1) ELSE s

(* ensure_workspace reads the head of the log.  A frame that fails its
   checksum refuses the workspace. *)
Attach(p) ==
    /\ proc[p].at = "attach"
    /\ \A i \in 1..Len(refs) : refs[i] # Garbage
    /\ refs' = WholeFrames(refs)
    /\ refsSynced' = IF WholeFrames(refs) # refs THEN Len(refs') ELSE refsSynced
    /\ proc' = [proc EXCEPT ![p].at = "idle"]
    /\ opened' = TRUE
    /\ UNCHANGED <<pack, packSynced, catalog, commits, fallen, frontier, frontiers, group,
                   bounds, races, acked, refused>>

AttachRefused(p) ==
    /\ proc[p].at = "attach"
    /\ \E i \in 1..Len(refs) : refs[i] = Garbage
    /\ proc' = [proc EXCEPT ![p] = ClosedProcess]
    /\ refused' = (refused \/ frontier.exists)
    /\ UNCHANGED <<pack, packSynced, refs, refsSynced, catalog, commits, fallen, frontier,
                   frontiers, group, bounds, races, acked, opened>>

-----------------------------------------------------------------------------
(* A capture *)

SyncPublishing == \E q \in Procs : proc[q].at = "publish" /\ ~proc[q].deferred

(* batched: BEGIN IMMEDIATE takes the catalog's write lock.  A deferred
   capture needs a frontier: defer_durability writes the first one. *)
BeginCapture(p, b, d) ==
    /\ proc[p].at = "idle" /\ CatalogFree
    /\ captures < MaxCaptures
    /\ d => frontier.exists
    /\ races' = races \cup When("rename", d /\ \E f \in frontiers : ~f.exists)
                     \cup When("publish", d /\ SyncPublishing)
    /\ captures' = captures + 1
    /\ proc' = [proc EXCEPT ![p].at = "blob", ![p].deferred = d,
                            ![p].snap = [blob |-> b, n |-> captures + 1],
                            ![p].txn = catalog]
    /\ UNCHANGED <<pack, packSynced, refs, refsSynced, catalog, commits, fallen, frontier,
                   frontiers, group, kills, losses, tears, acked, opened, refused>>

(* What put_bytes_locked is asked to store next. *)
Wanted(p) == IF proc[p].at = "blob" THEN BlobOf(proc[p].snap.blob) ELSE proc[p].snap

(* The stat cache says the file is unchanged, so nothing is read or stored. *)
CacheHit(p) == proc[p].at = "blob" /\ proc[p].snap.blob \in proc[p].txn.cache

(* put_bytes_locked must append: the object has no row. *)
MustAppend(p) ==
    /\ proc[p].at \in {"blob", "snap"}
    /\ ~CacheHit(p)
    /\ ~HasRow(proc[p].txn, Wanted(p))

(* Another process changed the length of the pack: recover it first, inside
   this transaction. *)
PutRecover(p) ==
    /\ MustAppend(p)
    /\ Len(pack) # proc[p].known
    /\ \E stop \in ScanBase(proc[p].txn)..Len(pack) :
        /\ RecoverPack(proc[p].txn, stop)
        /\ proc' = [proc EXCEPT
                       ![p].txn = Recovered(proc[p].txn, ScanBase(proc[p].txn), stop),
                       ![p].known = stop]
    /\ UNCHANGED <<refs, refsSynced, catalog, commits, fallen, frontier, frontiers, group,
                   bounds, races, acked, opened, refused>>

(* The capture moves on; a file that was read is entered in the stat cache. *)
NextPlace(p) == IF proc[p].at = "blob" THEN "snap" ELSE "commit"
CacheAfter(p) ==
    IF proc[p].at = "blob" THEN proc[p].txn.cache \cup {proc[p].snap.blob}
                           ELSE proc[p].txn.cache

(* The transaction once the record at the end of the pack has its row. *)
WithRow(p) ==
    [proc[p].txn EXCEPT !.rows = @ \cup {<<Wanted(p), Len(pack) + 1>>},
                        !.cache = CacheAfter(p)]

(* AppendRun::then: the run of records not yet checkpointed grows, or starts
   afresh when the new record does not follow it. *)
RunStart(p) ==
    IF proc[p].end > proc[p].start /\ proc[p].end = Len(pack)
    THEN proc[p].start ELSE Len(pack)

(* The record is appended whole and its row joins the transaction. *)
PutAppend(p) ==
    LET here == Len(pack) + 1
    IN  /\ MustAppend(p)
        /\ Len(pack) = proc[p].known
        /\ pack' = Append(pack, Wanted(p))
        /\ proc' = [proc EXCEPT ![p].at = NextPlace(p),
                                ![p].txn = WithRow(p),
                                ![p].start = RunStart(p),
                                ![p].end = here, ![p].last = Wanted(p),
                                ![p].known = here]
        /\ UNCHANGED <<packSynced, refs, refsSynced, catalog, commits, fallen, frontier,
                       frontiers, group, bounds, races, acked, opened, refused>>

(* Nothing to append: the file is unchanged by its stat cache row, or the
   object already has a row. *)
PutKnown(p) ==
    /\ proc[p].at \in {"blob", "snap"}
    /\ CacheHit(p) \/ HasRow(proc[p].txn, Wanted(p))
    /\ proc' = [proc EXCEPT ![p].at = NextPlace(p),
                            ![p].txn = [@ EXCEPT !.cache = CacheAfter(p)]]
    /\ UNCHANGED <<pack, packSynced, refs, refsSynced, catalog, commits, fallen, frontier,
                   frontiers, group, bounds, races, acked, opened, refused>>

(* AppendRun::extend through advance_checkpoint. *)
Checkpointed(p) ==
    LET c == proc[p].txn
    IN  IF proc[p].end > proc[p].start /\ c.vlen = proc[p].start
        THEN [c EXCEPT !.vlen = proc[p].end, !.vlast = proc[p].last]
        ELSE c

(* Mutant: a synchronous capture commits without flushing the pack. *)
CommitBatchUnflushed(p) ==
    /\ proc[p].at = "commit"
    /\ Commit(Checkpointed(p))
    /\ proc' = [proc EXCEPT ![p].at = "publish", ![p].txn = EmptyCatalog,
                            ![p].start = 0, ![p].end = 0, ![p].last = None]
    /\ UNCHANGED <<pack, packSynced, refs, refsSynced, frontier, frontiers, group,
                   bounds, races, acked, opened, refused>>

(* The end of batched: a synchronous capture flushes the pack, then COMMIT. *)
CommitBatch(p) ==
    /\ proc[p].at = "commit"
    /\ Commit(Checkpointed(p))
    /\ packSynced' = IF ~proc[p].deferred /\ proc[p].end > proc[p].start
                     THEN Len(pack) ELSE packSynced
    /\ proc' = [proc EXCEPT ![p].at = "publish", ![p].txn = EmptyCatalog,
                            ![p].start = 0, ![p].end = 0, ![p].last = None]
    /\ UNCHANGED <<pack, refs, refsSynced, frontier, frontiers, group, bounds,
                   races, acked, opened, refused>>

(* A capture that fails rolls its rows back; its records stay in the pack. *)
Rollback(p) ==
    /\ proc[p].at \in InBatch
    /\ proc' = [proc EXCEPT ![p].at = "idle", ![p].deferred = FALSE,
                            ![p].snap = None, ![p].txn = EmptyCatalog]
    /\ UNCHANGED <<pack, packSynced, refs, refsSynced, catalog, commits, fallen, frontier,
                   frontiers, group, bounds, races, acked, opened, refused>>

Longer(s, t) == IF Len(s) >= Len(t) THEN s ELSE t

(* publish_snapshot: the append to the reference log is the visibility
   boundary; a synchronous one is flushed before it returns. *)
Publish(p) ==
    LET log == Append(WholeFrames(refs), proc[p].snap)
    IN  /\ proc[p].at = "publish"
        /\ refs' = log
        /\ IF proc[p].deferred
           THEN /\ refsSynced' = IF refsSynced < Len(log) THEN refsSynced
                                 ELSE Len(log) - 1
                /\ UNCHANGED acked
           ELSE /\ refsSynced' = Len(log)
                /\ acked' = Longer(acked, log)
        /\ proc' = [proc EXCEPT ![p].at = "idle", ![p].deferred = FALSE,
                                ![p].snap = None]
        /\ UNCHANGED <<pack, packSynced, catalog, commits, fallen, frontier, frontiers,
                       group, bounds, races, opened, refused>>

(* reset_pack_index: the rows and the checkpoint are dropped, the caches stay. *)
Unindexed(c) == [c EXCEPT !.rows = {}, !.vlen = 0, !.vlast = None]

(* verify_index: the index is built anew from the whole pack, in one
   transaction, by `furrow verify` or by a read that failed (heal_index). *)
VerifyIndex(p) ==
    /\ proc[p].at = "idle" /\ CatalogFree
    /\ \E stop \in 0..Len(pack) :
        /\ RecoverPack(Unindexed(catalog), stop)
        /\ Commit(Recovered(Unindexed(catalog), 0, stop))
    /\ UNCHANGED <<refs, refsSynced, frontier, frontiers, proc, group, bounds, races, acked,
                   opened, refused>>

-----------------------------------------------------------------------------
(* The group commit: GroupCommit::sync_locked, run by an open process beside
   its captures. *)

GroupStays == UNCHANGED <<pack, refs, catalog, commits, fallen, proc, bounds, opened,
                          refused>>

(* The lengths of the reference logs are sampled FIRST. *)
GroupSampleRefs(p) ==
    /\ group.at = "idle" /\ proc[p].at \in Live
    /\ group' = [at |-> "refs", by |-> p, refs |-> Len(refs), pack |-> 0]
    /\ races' = races \cup When("count", \E i \in 1..Len(refs) : refs[i] \in Damaged)
    /\ GroupStays
    /\ UNCHANGED <<packSynced, refsSynced, frontier, frontiers, acked>>

(* Then, per pack, the end of the last committed row; a pack shorter than its
   rows ends the commit with an error. *)
GroupSamplePacks ==
    /\ group.at = "refs"
    /\ \/ \E written \in 0..Len(pack) :
            /\ HighWater(catalog, written)
            /\ group' = [group EXCEPT !.at = "packs", !.pack = written]
       \/ /\ RowsBeyond(catalog, Len(pack))
          /\ group' = NoGroup
    /\ GroupStays
    /\ UNCHANGED <<packSynced, refsSynced, frontier, frontiers, acked, races>>

(* Mutant: the packs are not flushed. *)
GroupSkipPacks ==
    /\ group.at = "packs"
    /\ group' = [group EXCEPT !.at = "flushRefs"]
    /\ GroupStays
    /\ UNCHANGED <<packSynced, refsSynced, frontier, frontiers, acked, races>>

GroupFlushPacks ==
    /\ group.at = "packs"
    /\ packSynced' = Len(pack)
    /\ group' = [group EXCEPT !.at = "flushRefs"]
    /\ GroupStays
    /\ UNCHANGED <<refsSynced, frontier, frontiers, acked, races>>

(* Mutant: the reference logs are not flushed. *)
GroupSkipRefs ==
    /\ group.at = "flushRefs"
    /\ group' = [group EXCEPT !.at = "rename"]
    /\ GroupStays
    /\ UNCHANGED <<packSynced, refsSynced, frontier, frontiers, acked, races>>

GroupFlushRefs ==
    /\ group.at = "flushRefs"
    /\ refsSynced' = Len(refs)
    /\ group' = [group EXCEPT !.at = "rename"]
    /\ GroupStays
    /\ UNCHANGED <<packSynced, frontier, frontiers, acked, races>>

(* Mutant: the reference logs are sampled last instead of first. *)
GroupRenameSamplingLast ==
    /\ group.at = "rename"
    /\ frontier' = [exists |-> TRUE, pack |-> group.pack, refs |-> Len(refs)]
    /\ frontiers' = frontiers \cup {frontier'}
    /\ group' = [group EXCEPT !.at = "syncDir"]
    /\ GroupStays
    /\ UNCHANGED <<packSynced, refsSynced, acked, races>>

(* The frontier is written to a temporary file, flushed and renamed into
   place; until the directory is flushed a power loss may undo the rename. *)
GroupRename ==
    /\ group.at = "rename"
    /\ frontier' = [exists |-> TRUE, pack |-> group.pack, refs |-> group.refs]
    /\ frontiers' = frontiers \cup {frontier'}
    /\ group' = [group EXCEPT !.at = "syncDir"]
    /\ GroupStays
    /\ UNCHANGED <<packSynced, refsSynced, acked, races>>

(* The caller is told that everything published before it asked is durable. *)
GroupSyncDir ==
    /\ group.at = "syncDir"
    /\ frontiers' = {frontier}
    /\ acked' = Longer(acked, WholeFrames(SubSeq(refs, 1,
                    IF group.refs <= Len(refs) THEN group.refs ELSE Len(refs))))
    /\ group' = NoGroup
    /\ GroupStays
    /\ UNCHANGED <<packSynced, refsSynced, frontier, races>>

(* checkpoint_indexes and SQLite's own checkpoints fold the log into the
   database file: earlier catalog states can no longer come back. *)
FoldCatalog ==
    /\ \E p \in Procs : proc[p].at # "closed"
    /\ commits # {catalog}
    /\ commits' = {catalog} /\ fallen' = None
    /\ UNCHANGED <<pack, packSynced, refs, refsSynced, catalog, frontier,
                   frontiers, proc, group, bounds, races, acked, opened, refused>>

-----------------------------------------------------------------------------
(* Faults *)

(* In the middle of writing a record. *)
Appending(p) == MustAppend(p) /\ Len(pack) = proc[p].known

(* Killing a process ends its transaction and its group commit.  One that was
   appending may leave a torn record behind. *)
Die(p) ==
    /\ proc' = [proc EXCEPT ![p] = ClosedProcess]
    /\ group' = IF group.by = p THEN NoGroup ELSE group

Kill(p) ==
    /\ proc[p].at # "closed" /\ kills < MaxKills
    /\ kills' = kills + 1
    /\ Die(p)
    /\ \/ pack' = pack /\ UNCHANGED races
       \/ /\ Appending(p)
          /\ pack' = Append(pack, Torn)
          /\ races' = races \cup When("kill", \E q \in Procs \ {p} : proc[q].at = "repair")
    /\ UNCHANGED <<packSynced, refs, refsSynced, catalog, commits, fallen, frontier,
                   frontiers, captures, losses, tears, acked, opened, refused>>

(* The frame of a reference is written by four calls; a kill between them
   leaves a torn frame. *)
KillInPublish(p) ==
    /\ proc[p].at = "publish" /\ tears < MaxTornRefs
    /\ tears' = tears + 1
    /\ Die(p)
    /\ refs' = Append(WholeFrames(refs), Torn)
    /\ refsSynced' = IF refsSynced < Len(refs') THEN refsSynced ELSE Len(refs') - 1
    /\ UNCHANGED <<pack, packSynced, catalog, commits, fallen, frontier, frontiers,
                   captures, kills, losses, races, acked, opened, refused>>

(* What a power loss makes of a file: the flushed prefix and some of the rest,
   any of which may be damaged; the first record that is gone, or one that was
   being appended, may leave a torn piece. *)
Kept(file, n, bad) == [i \in 1..n |-> IF i \in bad THEN Garbage ELSE file[i]]

AfterPowerLoss(file, synced, appending) ==
    UNION {LET whole == Kept(file, n, bad)
           IN  {whole} \cup (IF n < Len(file) \/ appending
                             THEN {Append(whole, Torn)} ELSE {}) :
              n \in synced..Len(file), bad \in SUBSET ((synced + 1)..Len(file))}

(* The log with the frame, if any, that a capture has written and not yet
   flushed. *)
RefsWritten ==
    {refs} \cup {Append(WholeFrames(refs), proc[p].snap) :
                    p \in {q \in Procs : proc[q].at = "publish"}}

PowerLoss ==
    /\ losses < MaxPowerLosses
    /\ losses' = losses + 1
    /\ pack' \in AfterPowerLoss(pack, packSynced, \E p \in Procs : Appending(p))
    /\ packSynced' = Len(pack')
    /\ \E written \in RefsWritten : refs' \in AfterPowerLoss(written, refsSynced, FALSE)
    /\ refsSynced' = Len(refs')
    /\ catalog' \in commits /\ commits' = {catalog'} /\ fallen' = catalog'
    /\ races' = races \cup When("undone", catalog' = fallen /\ catalog # fallen)
    /\ frontier' \in frontiers /\ frontiers' = {frontier'}
    /\ proc' = [p \in Procs |-> ClosedProcess]
    /\ group' = NoGroup
    /\ opened' = FALSE
    /\ UNCHANGED <<captures, kills, tears, acked, refused>>

-----------------------------------------------------------------------------
Open(p) ==
    \/ OpenSettled(p) \/ OpenRecover(p) \/ OpenRefused(p)
    \/ IF DurableRefsLost THEN RepairRefused(p) ELSE RepairRefs(p)
    \/ Attach(p) \/ AttachRefused(p)

Capture(p) ==
    \/ \E b \in Blobs, d \in BOOLEAN : BeginCapture(p, b, d)
    \/ PutRecover(p) \/ PutAppend(p) \/ PutKnown(p)
    \/ CommitBatch(p) \/ Rollback(p) \/ Publish(p) \/ VerifyIndex(p)

GroupCommit ==
    \/ \E p \in Procs : GroupSampleRefs(p)
    \/ GroupSamplePacks \/ GroupFlushPacks \/ GroupFlushRefs
    \/ GroupRename \/ GroupSyncDir

Next ==
    \/ \E p \in Procs : Open(p) \/ Capture(p) \/ Kill(p) \/ KillInPublish(p)
    \/ GroupCommit \/ FoldCatalog \/ PowerLoss

Spec == Init /\ [][Next]_vars

-----------------------------------------------------------------------------
(* Properties *)

(* o is whole in the pack, wherever it lies. *)
Stored(o) == \E i \in 1..Len(pack) : pack[i] = o
(* verify_index: the rows are as many as the records the checkpoint counts. *)
Agrees(c) == \A k \in 1..c.vlen : \E r \in c.rows : r[2] = k
(* A reader that follows the catalog finds o: by its row, or, when the index
   disagrees with its checkpoint, after building it anew (heal_index). *)
Readable(o) ==
    \/ \E r \in catalog.rows : r[1] = o /\ r[2] <= Len(pack) /\ pack[r[2]] = o
    \/ /\ ~Agrees(catalog) /\ ~RecoverRefused(Unindexed(catalog))
       /\ \E k \in 1..Len(pack) :
             pack[k] = o /\ \A i \in 1..k : pack[i] \notin Damaged

(* The first n records of the pack are there and whole. *)
Clean(n) == n <= Len(pack) /\ \A i \in 1..n : pack[i] \notin Damaged

(* None of the orders above has happened.  What follows a race is not excluded;
   the properties say what the code keeps without one, and that there is no
   other way to break it. *)
Unraced == races = {}

(* What the frontier claims of the pack is true of the device, whichever
   version of group-commit.json a power loss leaves: that prefix has been
   flushed and holds no damaged record, so recovery never has to give up
   ("durable object pack prefix was lost"). *)
PackPromise == \A f \in frontiers : f.pack <= packSynced /\ Clean(f.pack)

(* Only the races kill and rename make that claim false. *)
FrontierPacks == races \cap {"kill", "rename"} = {} => PackPromise

(* What it claims of the reference log is true as well, and every reference
   inside it finds its snapshot and its blob inside the pack prefix: this is
   why sync_locked samples the references before the packs. *)
RefPromise ==
    \A f \in frontiers :
        /\ f.refs <= refsSynced
        /\ \A i \in 1..f.refs :
            /\ refs[i] \notin Damaged
            /\ \A o \in Needs(refs[i]) : \E k \in 1..f.pack : pack[k] = o

(* Only a race makes that claim false. *)
FrontierRefs == Unraced => RefPromise

(* A capture reported durable stays in the log, at its place, with its objects
   in the pack (README, "without changing the last durable capture"). *)
DurableIntact ==
    /\ Len(acked) <= Len(refs)
    /\ \A i \in 1..Len(acked) :
        /\ refs[i] = acked[i]
        /\ \A o \in Needs(acked[i]) : Stored(o)

(* It survives kills, power losses, recoveries and rollbacks: the five races are
   the only ways to lose it. *)
DurableCapturesSurvive == Unraced => DurableIntact

(* Whenever a process has the store open, every reference in the log leads a
   reader to the snapshot and to the blob it names. *)
AllReadable ==
    (\E p \in Procs : proc[p].at \in Live) =>
        \A i \in 1..Len(refs) :
            refs[i] \notin Damaged => \A o \in Needs(refs[i]) : Readable(o)

(* Only a race leaves a reference that leads nowhere. *)
PublishedComplete == Unraced => AllReadable

(* Once a frontier exists, no crash leaves a store that cannot be opened. *)
NotRefused == ~refused

(* An open is refused only after one of the five races. *)
OpenNeverRefused == Unraced => NotRefused

(* "A terminated caller or daemon leaves completed captures recoverable": once
   the store has been opened, no step short of a power loss drops or changes a
   published reference, unless a race has happened. *)
PublishedStays ==
    [][Unraced' /\ opened /\ opened' =>
        /\ Len(WholeFrames(refs)) <= Len(refs')
        /\ \A i \in 1..Len(WholeFrames(refs)) : refs'[i] = refs[i]]_vars
=============================================================================
