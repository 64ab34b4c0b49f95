------------------------- MODULE ObjectStoreProofs -------------------------
(***************************************************************************)
(* Theorems about ObjectStore, for any number of processes, contents,      *)
(* captures, kills and power losses.                                       *)
(*                                                                         *)
(* Three inductive invariants, each resting on the one before: TypeOK;     *)
(* PackInv, about the pack and what the frontier claims of it; RefInv,     *)
(* about the references, the catalog and the objects they need.            *)
(***************************************************************************)
EXTENDS ObjectStore, SequenceTheorems, WellFoundedInduction, TLAPS

-----------------------------------------------------------------------------
(* Types of the values the actions compute *)

(* The scan starts at the checkpoint or at the beginning of the pack. *)
LEMMA ScanBaseType ==
    ASSUME NEW c \in Catalog
    PROVE  ScanBase(c) \in Nat /\ ScanBase(c) \in {0, c.vlen}
  BY DEF ScanBase, Catalog

(* The catalog a successful scan leaves is a catalog. *)
LEMMA RecoveredType ==
    ASSUME pack \in Seq(Entry), NEW c \in Catalog,
           NEW stop \in ScanBase(c)..Len(pack),
           ScanStops(ScanBase(c), stop)
    PROVE  Recovered(c, ScanBase(c), stop) \in Catalog
<1> DEFINE base == ScanBase(c)
<1>1. base \in Nat /\ stop \in Nat /\ stop >= base /\ stop <= Len(pack)
  BY ScanBaseType
<1>2. \A i \in (base + 1)..stop : pack[i] \in Object /\ i \in Nat
  BY <1>1 DEF ScanStops, Entry
<1>3. ScannedRows(c, base, stop) \subseteq Row
  <2>1. c.rows \subseteq Row
    BY DEF Catalog
  <2> QED
    BY <1>1, <1>2, <2>1 DEF ScannedRows, Row
<1>4. stop # base => pack[stop] \in Object
  BY <1>1, <1>2
<1>5. c.vlast \in Object \cup {None} /\ c.cache \subseteq Blobs
  BY DEF Catalog
<1> HIDE DEF base
<1> QED
  BY <1>1, <1>3, <1>4, <1>5 DEF Recovered, Catalog, base

(* An index that was dropped is scanned from the beginning. *)
LEMMA UnindexedType ==
    ASSUME NEW c \in Catalog, pack \in Seq(Entry), frontier \in Frontier
    PROVE  /\ Unindexed(c) \in Catalog /\ Unindexed(c).rows = {}
           /\ Unindexed(c).vlen = 0 /\ Unindexed(c).cache = c.cache
           /\ ScanBase(Unindexed(c)) = 0
<1>1. /\ Unindexed(c) \in Catalog /\ Unindexed(c).rows = {}
      /\ Unindexed(c).vlen = 0 /\ Unindexed(c).cache = c.cache
  BY DEF Unindexed, Catalog
<1> QED
  BY <1>1 DEF ScanBase

(* The pack a successful recovery leaves. *)
LEMMA RecoverPackType ==
    ASSUME pack \in Seq(Entry), packSynced \in Nat, packSynced <= Len(pack),
           NEW c \in Catalog, NEW stop \in ScanBase(c)..Len(pack),
           RecoverPack(c, stop)
    PROVE  /\ pack' \in Seq(Entry)
           /\ Len(pack') = stop
           /\ \A i \in 1..stop : pack'[i] = pack[i]
           /\ packSynced' \in Nat /\ packSynced' <= Len(pack')
<1>1. stop \in Nat /\ stop <= Len(pack)
  BY ScanBaseType
<1>2. pack' = SubSeq(pack, 1, stop)
  BY DEF RecoverPack
<1>3. /\ pack' \in Seq(Entry) /\ Len(pack') = stop
      /\ \A i \in 1..stop : pack'[i] = pack[i]
  BY <1>1, <1>2
<1> QED
  BY <1>1, <1>3 DEF RecoverPack

(* Dropping a torn tail of the reference log leaves a log. *)
LEMMA WholeFramesType ==
    ASSUME NEW s \in Seq(Entry)
    PROVE  /\ WholeFrames(s) \in Seq(Entry)
           /\ Len(WholeFrames(s)) <= Len(s)
           /\ Len(WholeFrames(s)) \in Nat
           /\ Len(WholeFrames(s)) >= Len(s) - 1
           /\ \A i \in 1..Len(WholeFrames(s)) : WholeFrames(s)[i] = s[i]
  BY DEF WholeFrames

(* What a power loss makes of a file keeps its flushed prefix. *)
LEMMA PowerLossKeeps ==
    ASSUME NEW file \in Seq(Entry), NEW synced \in Nat, synced <= Len(file),
           NEW appending, NEW left \in AfterPowerLoss(file, synced, appending)
    PROVE  /\ left \in Seq(Entry)
           /\ synced <= Len(left) /\ Len(left) \in Nat
           /\ \A i \in 1..synced : left[i] = file[i]
<1>1. PICK n \in synced..Len(file), bad \in SUBSET ((synced + 1)..Len(file)) :
         \/ left = Kept(file, n, bad)
         \/ left = Append(Kept(file, n, bad), Torn)
  BY DEF AfterPowerLoss
<1> DEFINE whole == Kept(file, n, bad)
<1>2. n \in Nat /\ n >= synced /\ n <= Len(file)
  OBVIOUS
<1>3. whole = [i \in 1..n |-> IF i \in bad THEN Garbage ELSE file[i]]
  BY DEF Kept
<1>4. \A i \in 1..n : whole[i] \in Entry
  BY <1>2, <1>3 DEF Entry, Damaged
<1>5. whole \in [1..n -> Entry]
  BY <1>3, <1>4
<1>6. whole \in Seq(Entry) /\ Len(whole) = n
  BY <1>2, <1>5
<1>7. \A i \in 1..synced : whole[i] = file[i]
  BY <1>2, <1>3
<1>8. Torn \in Entry
  BY DEF Entry, Damaged
<1> HIDE DEF whole
<1> QED
  BY <1>1, <1>2, <1>6, <1>7, <1>8 DEF whole

-----------------------------------------------------------------------------
(* Type correctness *)

(* What a capture asks the store for next is an object. *)
LEMMA WantedType ==
    ASSUME TypeOK, NEW p \in Procs, MustAppend(p)
    PROVE  Wanted(p) \in Object
<1>1. proc[p].snap \in Object
  BY DEF TypeOK, MustAppend, Capturing, InBatch
<1> QED
  BY <1>1, BoundsAreNaturals DEF Wanted, BlobOf, Object

(* The part of TypeOK about the processes. *)
ProcOK == /\ proc \in [Procs -> Process]
          /\ \A p \in Procs : proc[p].at \in Capturing => proc[p].snap \in Object

(* A step that changes one process keeps it when the new record is well
   formed. *)
LEMMA ProcUpdate ==
    ASSUME TypeOK, NEW p \in Procs, NEW v \in Process,
           v.at \in Capturing => v.snap \in Object,
           proc' = [proc EXCEPT ![p] = v]
    PROVE  ProcOK'
  BY DEF TypeOK, ProcOK

(* Every step keeps the types. *)
LEMMA TypeStep ==
    ASSUME TypeOK, [Next]_vars
    PROVE  TypeOK'
<1> USE BoundsAreNaturals
<1>1. ClosedProcess \in Process /\ ClosedProcess.at \notin Capturing
  BY DEF ClosedProcess, Process, Places, EmptyCatalog, Catalog, Capturing, InBatch
<1>2. NoGroup \in Group
  BY DEF NoGroup, Group, GroupPlaces
<1>3. EmptyCatalog \in Catalog
  BY DEF EmptyCatalog, Catalog
<1>4. CASE UNCHANGED vars
  BY <1>4 DEF vars, TypeOK
<1>5. ASSUME NEW p \in Procs, OpenSettled(p)
      PROVE  TypeOK'
  <2> DEFINE v == [proc[p] EXCEPT !.at = "repair"]
  <2>1. v \in Process /\ v.at \notin Capturing
    BY DEF TypeOK, Process, Places, Capturing, InBatch
  <2>2. proc' = [proc EXCEPT ![p] = v]
    BY <1>5 DEF OpenSettled
  <2>3. ProcOK'
    BY <2>1, <2>2, ProcUpdate
  <2> QED
    BY <1>5, <2>3 DEF OpenSettled, TypeOK, ProcOK, bounds
<1>6. ASSUME NEW p \in Procs, OpenRecover(p)
      PROVE  TypeOK'
  <2>1. PICK stop \in ScanBase(catalog)..Len(pack) :
           /\ RecoverPack(catalog, stop)
           /\ Commit(Recovered(catalog, ScanBase(catalog), stop))
    BY <1>6 DEF OpenRecover
  <2>2. /\ pack' \in Seq(Entry)
        /\ packSynced' \in Nat /\ packSynced' <= Len(pack')
    BY <2>1, RecoverPackType DEF TypeOK
  <2>3. /\ catalog' \in Catalog /\ commits' \subseteq Catalog /\ catalog' \in commits'
        /\ fallen' = fallen
    BY <2>1, RecoveredType DEF TypeOK, Commit, RecoverPack
  <2>4. ProcOK'
    <3> DEFINE v == [proc[p] EXCEPT !.at = "repair"]
    <3>1. v \in Process /\ v.at \notin Capturing
      BY DEF TypeOK, Process, Places, Capturing, InBatch
    <3>2. proc' = [proc EXCEPT ![p] = v]
      BY <1>6 DEF OpenRecover
    <3> QED
      BY <3>1, <3>2, ProcUpdate
  <2> QED
    BY <1>6, <2>2, <2>3, <2>4 DEF OpenRecover, TypeOK, ProcOK, bounds
<1>7. ASSUME NEW p \in Procs, OpenRefused(p)
      PROVE  TypeOK'
  BY <1>7 DEF OpenRefused, TypeOK, bounds, Frontier
<1>8. ASSUME NEW p \in Procs, RepairRefs(p)
      PROVE  TypeOK'
  <2>1. /\ refs' \in Seq(Entry)
        /\ refsSynced' \in Nat /\ refsSynced' <= Len(refs')
    <3>1. CASE ~frontier.exists
      BY <1>8, <3>1 DEF RepairRefs, TypeOK
    <3>2. CASE frontier.exists
      <4>1. PICK stop \in 0..Len(refs) :
               /\ refs' = SubSeq(refs, 1, stop)
               /\ refsSynced' = IF stop < Len(refs) THEN stop ELSE refsSynced
        BY <1>8, <3>2 DEF RepairRefs
      <4> QED
        BY <4>1 DEF TypeOK
    <3> QED
      BY <3>1, <3>2
  <2>2. ProcOK'
    <3> DEFINE v == [proc[p] EXCEPT !.at = "attach", !.known = Len(pack)]
    <3>1. proc[p] \in Process /\ Len(pack) \in Nat
      BY DEF TypeOK
    <3>2. v \in Process /\ v.at \notin Capturing
      BY <3>1 DEF Process, Places, Capturing, InBatch
    <3>3. proc' = [proc EXCEPT ![p] = v]
      BY <1>8 DEF RepairRefs, TypeOK
    <3> QED
      BY <3>2, <3>3, ProcUpdate
  <2> QED
    BY <1>8, <2>1, <2>2 DEF RepairRefs, TypeOK, ProcOK, bounds
<1>9. ASSUME NEW p \in Procs, RepairRefused(p)
      PROVE  TypeOK'
  BY <1>9, <1>1 DEF RepairRefused, TypeOK, bounds
<1>10. ASSUME NEW p \in Procs, Attach(p)
       PROVE  TypeOK'
  <2>1. /\ refs' \in Seq(Entry)
        /\ refsSynced' \in Nat /\ refsSynced' <= Len(refs')
    BY <1>10, WholeFramesType DEF Attach, TypeOK
  <2>2. ProcOK'
    <3> DEFINE v == [proc[p] EXCEPT !.at = "idle"]
    <3>1. v \in Process /\ v.at \notin Capturing
      BY DEF TypeOK, Process, Places, Capturing, InBatch
    <3>2. proc' = [proc EXCEPT ![p] = v]
      BY <1>10 DEF Attach
    <3> QED
      BY <3>1, <3>2, ProcUpdate
  <2> QED
    BY <1>10, <2>1, <2>2 DEF Attach, TypeOK, ProcOK, bounds
<1>11. ASSUME NEW p \in Procs, AttachRefused(p)
       PROVE  TypeOK'
  BY <1>11, <1>1 DEF AttachRefused, TypeOK, bounds, Frontier
<1>12. ASSUME NEW p \in Procs, NEW b \in Blobs, NEW d \in BOOLEAN,
              BeginCapture(p, b, d)
       PROVE  TypeOK'
  <2>1. captures' \in 0..MaxCaptures
    BY <1>12 DEF BeginCapture, TypeOK
  <2>2. [blob |-> b, n |-> captures + 1] \in Object
    BY <1>12 DEF BeginCapture, TypeOK, Object
  <2>3. ProcOK'
    <3> DEFINE v == [proc[p] EXCEPT !.at = "blob", !.deferred = d,
                                    !.snap = [blob |-> b, n |-> captures + 1],
                                    !.txn = catalog]
    <3>1. v \in Process /\ v.snap \in Object
      <4>1. proc[p] \in Process /\ catalog \in Catalog
        BY DEF TypeOK
      <4> QED
        BY <2>2, <4>1 DEF Process, Places
    <3>2. proc' = [proc EXCEPT ![p] = v]
      BY <1>12 DEF BeginCapture, TypeOK
    <3> QED
      BY <3>1, <3>2, ProcUpdate
  <2>4. races' \subseteq Race
    BY <1>12 DEF BeginCapture, TypeOK, When, Race
  <2> QED
    BY <1>12, <2>1, <2>3, <2>4 DEF BeginCapture, TypeOK, ProcOK
<1>13. ASSUME NEW p \in Procs, PutRecover(p)
       PROVE  TypeOK'
  <2>1. proc[p].txn \in Catalog
    BY DEF TypeOK, Process
  <2>2. PICK stop \in ScanBase(proc[p].txn)..Len(pack) :
           /\ RecoverPack(proc[p].txn, stop)
           /\ proc' = [proc EXCEPT
                 ![p].txn = Recovered(proc[p].txn, ScanBase(proc[p].txn), stop),
                 ![p].known = stop]
    BY <1>13 DEF PutRecover
  <2>3. /\ pack' \in Seq(Entry)
        /\ packSynced' \in Nat /\ packSynced' <= Len(pack')
    BY <2>1, <2>2, RecoverPackType DEF TypeOK
  <2>4. Recovered(proc[p].txn, ScanBase(proc[p].txn), stop) \in Catalog
    BY <2>1, <2>2, RecoveredType DEF TypeOK, RecoverPack
  <2>5. stop \in Nat
    BY <2>1, ScanBaseType
  <2>6. ProcOK'
    <3> DEFINE c == Recovered(proc[p].txn, ScanBase(proc[p].txn), stop)
               v == [proc[p] EXCEPT !.txn = c, !.known = stop]
    <3> HIDE DEF c
    <3>1. v \in Process /\ v.at = proc[p].at /\ v.snap = proc[p].snap
      BY <2>4, <2>5 DEF TypeOK, Process, c
    <3>2. proc' = [proc EXCEPT ![p] = v]
      BY <2>2 DEF TypeOK, c
    <3> QED
      BY <3>1, <3>2, ProcUpdate DEF TypeOK
  <2> QED
    BY <1>13, <2>3, <2>6 DEF PutRecover, TypeOK, ProcOK, bounds
<1>14. ASSUME NEW p \in Procs, PutAppend(p)
       PROVE  TypeOK'
  <2> DEFINE here == Len(pack) + 1
  <2>1. Wanted(p) \in Object /\ here \in Nat
    <3>1. MustAppend(p)
      BY <1>14 DEF PutAppend
    <3>2. here \in Nat
      BY DEF TypeOK
    <3> QED
      BY <3>1, <3>2, WantedType
  <2>2. pack' = Append(pack, Wanted(p)) /\ packSynced' = packSynced
    BY <1>14 DEF PutAppend
  <2>3. /\ pack' \in Seq(Entry) /\ Len(pack') = here
        /\ packSynced' \in Nat /\ packSynced' <= Len(pack')
    BY <2>1, <2>2 DEF TypeOK, Entry
  <2>4. proc[p].txn \in Catalog /\ proc[p].snap \in Object
    BY <1>14 DEF TypeOK, Process, PutAppend, MustAppend, Capturing, InBatch
  <2>5. CacheAfter(p) \subseteq Blobs
    BY <2>4 DEF CacheAfter, Catalog, Object
  <2>6. WithRow(p) \in Catalog
    <3>1. <<Wanted(p), here>> \in Row
      BY <2>1 DEF Row
    <3>2. proc[p].txn.rows \cup {<<Wanted(p), here>>} \in SUBSET Row
      BY <2>4, <3>1 DEF Catalog
    <3> QED
      BY <2>4, <2>5, <3>2 DEF Catalog, WithRow
  <2>7. RunStart(p) \in Nat /\ NextPlace(p) \in Capturing /\ NextPlace(p) \in Places
    BY DEF RunStart, NextPlace, TypeOK, Process, Capturing, InBatch, Places
  <2> DEFINE v == [proc[p] EXCEPT !.at = NextPlace(p), !.txn = WithRow(p),
                                  !.start = RunStart(p), !.end = here,
                                  !.last = Wanted(p), !.known = here]
  <2>8. proc' = [proc EXCEPT ![p] = v]
    BY <1>14 DEF PutAppend, TypeOK
  <2> HIDE DEF here
  <2>9. v \in Process /\ v.snap = proc[p].snap
    BY <2>1, <2>6, <2>7 DEF TypeOK, Process
  <2>10. ProcOK'
    BY <2>4, <2>8, <2>9, ProcUpdate
  <2> QED
    BY <1>14, <2>3, <2>10 DEF PutAppend, TypeOK, ProcOK, bounds
<1>15. ASSUME NEW p \in Procs, PutKnown(p)
       PROVE  TypeOK'
  <2>1. proc[p].txn \in Catalog /\ proc[p].snap \in Object
    BY <1>15 DEF TypeOK, Process, PutKnown, Capturing, InBatch
  <2>2. CacheAfter(p) \subseteq Blobs
    BY <2>1 DEF CacheAfter, Catalog, Object
  <2>3. NextPlace(p) \in Capturing /\ NextPlace(p) \in Places
    BY DEF NextPlace, Capturing, InBatch, Places
  <2>4. [proc[p].txn EXCEPT !.cache = CacheAfter(p)] \in Catalog
    BY <2>1, <2>2 DEF Catalog
  <2> DEFINE c == [proc[p].txn EXCEPT !.cache = CacheAfter(p)]
             v == [proc[p] EXCEPT !.at = NextPlace(p), !.txn = c]
  <2>5. proc' = [proc EXCEPT ![p] = v]
    BY <1>15 DEF PutKnown, TypeOK, Process, Catalog
  <2> HIDE DEF c
  <2>6. v \in Process /\ v.snap = proc[p].snap
    BY <2>3, <2>4 DEF TypeOK, Process, c
  <2>7. ProcOK'
    BY <2>1, <2>5, <2>6, ProcUpdate
  <2> QED
    BY <1>15, <2>7 DEF PutKnown, TypeOK, ProcOK, bounds
<1>16. ASSUME NEW p \in Procs, CommitBatch(p)
       PROVE  TypeOK'
  <2>1. Checkpointed(p) \in Catalog
    BY DEF Checkpointed, TypeOK, Process, Catalog
  <2>2. /\ catalog' \in Catalog /\ commits' \subseteq Catalog /\ catalog' \in commits'
        /\ fallen' = fallen
    BY <1>16, <2>1 DEF CommitBatch, Commit, TypeOK
  <2>3. packSynced' \in Nat /\ packSynced' <= Len(pack)
    BY <1>16 DEF CommitBatch, TypeOK
  <2>4. ProcOK'
    <3> DEFINE v == [proc[p] EXCEPT !.at = "publish", !.txn = EmptyCatalog,
                                    !.start = 0, !.end = 0, !.last = None]
    <3>1. proc[p] \in Process /\ proc[p].snap \in Object
      BY <1>16 DEF CommitBatch, TypeOK, Capturing, InBatch
    <3>2. v \in Process /\ v.snap = proc[p].snap
      BY <1>3, <3>1 DEF Process, Places
    <3>3. proc' = [proc EXCEPT ![p] = v]
      BY <1>16 DEF CommitBatch, TypeOK
    <3> QED
      BY <3>1, <3>2, <3>3, ProcUpdate
  <2> QED
    BY <1>16, <2>2, <2>3, <2>4 DEF CommitBatch, TypeOK, ProcOK, bounds
<1>17. ASSUME NEW p \in Procs, Rollback(p)
       PROVE  TypeOK'
  <2>1. ProcOK'
    <3> DEFINE v == [proc[p] EXCEPT !.at = "idle", !.deferred = FALSE,
                                    !.snap = None, !.txn = EmptyCatalog]
    <3>1. v \in Process /\ v.at \notin Capturing
      BY <1>3 DEF TypeOK, Process, Places, Capturing, InBatch
    <3>2. proc' = [proc EXCEPT ![p] = v]
      BY <1>17 DEF Rollback, TypeOK
    <3> QED
      BY <3>1, <3>2, ProcUpdate
  <2> QED
    BY <1>17, <2>1 DEF Rollback, TypeOK, ProcOK, bounds
<1>18. ASSUME NEW p \in Procs, Publish(p)
       PROVE  TypeOK'
  <2> DEFINE log == Append(WholeFrames(refs), proc[p].snap)
  <2>1. proc[p].snap \in Entry
    BY <1>18 DEF Publish, TypeOK, Capturing, Entry
  <2>2. log \in Seq(Entry) /\ Len(log) \in Nat /\ Len(log) > 0
    BY <2>1, WholeFramesType DEF TypeOK
  <2>3. /\ refs' = log
        /\ IF proc[p].deferred
           THEN /\ refsSynced' = IF refsSynced < Len(log) THEN refsSynced
                                 ELSE Len(log) - 1
                /\ UNCHANGED acked
           ELSE /\ refsSynced' = Len(log)
                /\ acked' = Longer(acked, log)
    BY <1>18 DEF Publish
  <2> HIDE DEF log
  <2>4. /\ refs' \in Seq(Entry) /\ acked' \in Seq(Entry)
        /\ refsSynced' \in Nat /\ refsSynced' <= Len(refs')
    BY <2>2, <2>3 DEF TypeOK, Longer
  <2>5. ProcOK'
    <3> DEFINE v == [proc[p] EXCEPT !.at = "idle", !.deferred = FALSE,
                                    !.snap = None]
    <3>1. v \in Process /\ v.at \notin Capturing
      BY DEF TypeOK, Process, Places, Capturing, InBatch
    <3>2. proc' = [proc EXCEPT ![p] = v]
      BY <1>18 DEF Publish, TypeOK
    <3> QED
      BY <3>1, <3>2, ProcUpdate
  <2> QED
    BY <1>18, <2>4, <2>5 DEF Publish, TypeOK, ProcOK, bounds
<1>19. ASSUME NEW p \in Procs, GroupSampleRefs(p)
       PROVE  TypeOK'
  <2>1. group' \in Group
    BY <1>19 DEF GroupSampleRefs, TypeOK, Group, GroupPlaces
  <2>2. races' \subseteq Race
    BY <1>19 DEF GroupSampleRefs, TypeOK, When, Race
  <2> QED
    BY <1>19, <2>1, <2>2 DEF GroupSampleRefs, GroupStays, TypeOK, bounds
<1>20. CASE GroupSamplePacks
  <2>1. group' \in Group
    <3>1. CASE group' = NoGroup
      BY <1>2, <3>1
    <3>2. CASE group' # NoGroup
      <4>1. PICK written \in 0..Len(pack) :
               group' = [group EXCEPT !.at = "packs", !.pack = written]
        BY <1>20, <3>2 DEF GroupSamplePacks
      <4>2. group \in Group /\ written \in Nat
        BY DEF TypeOK
      <4> QED
        BY <4>1, <4>2 DEF Group, GroupPlaces
    <3> QED
      BY <3>1, <3>2
  <2> QED
    BY <1>20, <2>1 DEF GroupSamplePacks, GroupStays, TypeOK, bounds
<1>21. CASE GroupFlushPacks
  <2>1. group' \in Group
    BY <1>21 DEF GroupFlushPacks, TypeOK, Group, GroupPlaces
  <2> QED
    BY <1>21, <2>1 DEF GroupFlushPacks, GroupStays, TypeOK, bounds
<1>22. CASE GroupFlushRefs
  <2>1. group' \in Group
    BY <1>22 DEF GroupFlushRefs, TypeOK, Group, GroupPlaces
  <2> QED
    BY <1>22, <2>1 DEF GroupFlushRefs, GroupStays, TypeOK, bounds
<1>23. CASE GroupRename
  <2>1. group' \in Group
    BY <1>23 DEF GroupRename, TypeOK, Group, GroupPlaces
  <2>2. frontier' \in Frontier
    BY <1>23 DEF GroupRename, TypeOK, Frontier, Group
  <2>3. frontiers' \subseteq Frontier /\ frontier' \in frontiers'
    BY <1>23, <2>2 DEF GroupRename, TypeOK
  <2> QED
    BY <1>23, <2>1, <2>2, <2>3 DEF GroupRename, GroupStays, TypeOK, bounds
<1>24. CASE GroupSyncDir
  <2> DEFINE n == IF group.refs <= Len(refs) THEN group.refs ELSE Len(refs)
  <2>1. SubSeq(refs, 1, n) \in Seq(Entry)
    BY DEF TypeOK, Group
  <2>2. acked' \in Seq(Entry)
    BY <1>24, <2>1, WholeFramesType DEF GroupSyncDir, Longer, TypeOK
  <2> QED
    BY <1>2, <1>24, <2>2 DEF GroupSyncDir, GroupStays, TypeOK, bounds
<1>25. CASE FoldCatalog
  BY <1>25 DEF FoldCatalog, TypeOK, bounds
<1>26. ASSUME NEW p \in Procs, Kill(p)
       PROVE  TypeOK'
  <2>1. pack' \in Seq(Entry) /\ packSynced' <= Len(pack') /\ packSynced' \in Nat
    <3>1. (pack' = pack \/ pack' = Append(pack, Torn)) /\ packSynced' = packSynced
      BY <1>26 DEF Kill
    <3>2. Torn \in Entry
      BY DEF Entry, Damaged
    <3>3. pack \in Seq(Entry) /\ packSynced \in Nat /\ packSynced <= Len(pack)
      BY DEF TypeOK
    <3> QED
      BY <3>1, <3>2, <3>3
  <2>2. group' \in Group /\ ProcOK'
    BY <1>26, <1>1, <1>2, ProcUpdate DEF Kill, Die, TypeOK
  <2>3. races' \subseteq Race
    BY <1>26 DEF Kill, TypeOK, When, Race
  <2> QED
    BY <1>26, <2>1, <2>2, <2>3 DEF Kill, TypeOK, ProcOK
<1>27. ASSUME NEW p \in Procs, KillInPublish(p)
       PROVE  TypeOK'
  <2> DEFINE log == Append(WholeFrames(refs), Torn)
  <2>1. log \in Seq(Entry) /\ Len(log) \in Nat /\ Len(log) > 0
    <3>1. WholeFrames(refs) \in Seq(Entry)
      BY WholeFramesType DEF TypeOK
    <3>2. Torn \in Entry
      BY DEF Entry, Damaged
    <3> QED
      BY <3>1, <3>2
  <2>2. refs' = log /\ refsSynced' = IF refsSynced < Len(refs') THEN refsSynced
                                      ELSE Len(refs') - 1
    BY <1>27 DEF KillInPublish
  <2> HIDE DEF log
  <2>3. refs' \in Seq(Entry) /\ refsSynced' \in Nat /\ refsSynced' <= Len(refs')
    BY <2>1, <2>2 DEF TypeOK
  <2>4. group' \in Group /\ ProcOK'
    BY <1>27, <1>1, <1>2, ProcUpdate DEF KillInPublish, Die, TypeOK
  <2> QED
    BY <1>27, <2>3, <2>4 DEF KillInPublish, TypeOK, ProcOK
<1>28. CASE PowerLoss
  <2> DEFINE appending == \E p \in Procs : Appending(p)
  <2>1. /\ pack \in Seq(Entry) /\ packSynced \in Nat /\ packSynced <= Len(pack)
        /\ refs \in Seq(Entry) /\ refsSynced \in Nat /\ refsSynced <= Len(refs)
    BY DEF TypeOK
  <2>2. /\ pack' \in AfterPowerLoss(pack, packSynced, appending)
        /\ packSynced' = Len(pack')
        /\ \E written \in RefsWritten : refs' \in AfterPowerLoss(written, refsSynced, FALSE)
        /\ refsSynced' = Len(refs')
    BY <1>28 DEF PowerLoss
  <2> HIDE DEF appending
  <2>3. pack' \in Seq(Entry) /\ Len(pack') \in Nat
    BY <2>1, <2>2, PowerLossKeeps
  <2>4. refs' \in Seq(Entry) /\ Len(refs') \in Nat
    <3>1. PICK written \in RefsWritten : refs' \in AfterPowerLoss(written, refsSynced, FALSE)
      BY <2>2
    <3>2. written \in Seq(Entry) /\ refsSynced <= Len(written)
      <4>1. \A p \in Procs : proc[p].at = "publish" => proc[p].snap \in Entry
        BY DEF TypeOK, Capturing, Entry
      <4>2. CASE written = refs
        BY <4>2, <2>1
      <4>3. ASSUME NEW p \in Procs, proc[p].at = "publish",
                   written = Append(WholeFrames(refs), proc[p].snap)
            PROVE  written \in Seq(Entry) /\ refsSynced <= Len(written)
        <5>1. /\ WholeFrames(refs) \in Seq(Entry) /\ Len(WholeFrames(refs)) \in Nat
              /\ Len(WholeFrames(refs)) >= Len(refs) - 1
          BY <2>1, WholeFramesType
        <5> QED
          BY <4>1, <4>3, <2>1, <5>1
      <4> QED
        BY <3>1, <4>2, <4>3 DEF RefsWritten
    <3> QED
      BY <2>1, <3>1, <3>2, PowerLossKeeps
  <2>5. ProcOK'
    BY <1>28, <1>1 DEF PowerLoss, ProcOK
  <2>6. /\ catalog' \in Catalog /\ commits' \subseteq Catalog /\ catalog' \in commits'
        /\ fallen' \in Catalog
        /\ frontier' \in Frontier /\ frontiers' \subseteq Frontier
        /\ frontier' \in frontiers'
    BY <1>28 DEF PowerLoss, TypeOK
  <2>7. losses' \in 0..MaxPowerLosses
    <3>1. losses' = losses + 1 /\ losses < MaxPowerLosses
      BY <1>28 DEF PowerLoss
    <3>2. losses \in 0..MaxPowerLosses
      BY DEF TypeOK
    <3> QED
      BY <3>1, <3>2
  <2>8. /\ UNCHANGED <<captures, kills, tears, acked, refused>>
        /\ opened' \in BOOLEAN /\ group' \in Group
    BY <1>28, <1>2 DEF PowerLoss
  <2>9. packSynced' <= Len(pack') /\ refsSynced' <= Len(refs')
    BY <2>2, <2>3, <2>4
  <2>10. races' \subseteq Race
    BY <1>28 DEF PowerLoss, TypeOK, When, Race
  <2> QED
    BY <2>2, <2>3, <2>4, <2>5, <2>6, <2>7, <2>8, <2>9, <2>10 DEF TypeOK, ProcOK
<1>29. ASSUME NEW p \in Procs, VerifyIndex(p)
       PROVE  TypeOK'
  <2>1. Unindexed(catalog) \in Catalog /\ ScanBase(Unindexed(catalog)) = 0
    BY UnindexedType DEF TypeOK
  <2>2. PICK stop \in 0..Len(pack) :
           /\ RecoverPack(Unindexed(catalog), stop)
           /\ Commit(Recovered(Unindexed(catalog), 0, stop))
    BY <1>29 DEF VerifyIndex
  <2>3. /\ pack' \in Seq(Entry)
        /\ packSynced' \in Nat /\ packSynced' <= Len(pack')
    BY <2>1, <2>2, RecoverPackType DEF TypeOK
  <2>4. Recovered(Unindexed(catalog), 0, stop) \in Catalog
    BY <2>1, <2>2, RecoveredType DEF TypeOK, RecoverPack
  <2>5. /\ catalog' \in Catalog /\ commits' \subseteq Catalog /\ catalog' \in commits'
        /\ fallen' = fallen
    BY <2>2, <2>4 DEF TypeOK, Commit
  <2> QED
    BY <1>29, <2>3, <2>5 DEF VerifyIndex, TypeOK, bounds
<1> QED
  BY <1>4, <1>5, <1>6, <1>7, <1>8, <1>9, <1>10, <1>11, <1>12, <1>13, <1>14,
     <1>15, <1>16, <1>17, <1>18, <1>19, <1>20, <1>21, <1>22, <1>23, <1>24,
     <1>25, <1>26, <1>27, <1>28, <1>29
  DEF Next, Open, Capture, GroupCommit

(* TypeOK holds in every reachable state of every instance: whatever the
   interleaving of captures, group commits, kills and power losses, the flushed
   lengths stay inside their files and recovery leaves a well-formed catalog. *)
THEOREM TypeCorrect == Spec => []TypeOK
<1>1. Init => TypeOK
  <2> SUFFICES ASSUME Init PROVE TypeOK
    OBVIOUS
  <2>1. EmptyCatalog \in Catalog /\ NoFrontier \in Frontier /\ NoGroup \in Group
    BY DEF EmptyCatalog, Catalog, NoFrontier, Frontier, NoGroup, Group, GroupPlaces
  <2>2. ClosedProcess \in Process /\ ClosedProcess.at \notin Capturing
    BY <2>1 DEF ClosedProcess, Process, Places, Capturing, InBatch
  <2>3. ProcOK
    BY <2>2 DEF Init, ProcOK
  <2>4. /\ captures \in 0..MaxCaptures /\ kills \in 0..MaxKills
        /\ losses \in 0..MaxPowerLosses /\ tears \in 0..MaxTornRefs
    BY BoundsAreNaturals DEF Init
  <2>5. /\ pack \in Seq(Entry) /\ Len(pack) = 0
        /\ refs \in Seq(Entry) /\ Len(refs) = 0 /\ acked \in Seq(Entry)
    BY DEF Init
  <2>6. /\ catalog \in Catalog /\ commits \subseteq Catalog /\ catalog \in commits
        /\ fallen \in Catalog \cup {None}
    BY <2>1 DEF Init
  <2>7. frontier \in Frontier /\ frontiers \subseteq Frontier /\ frontier \in frontiers
    BY <2>1 DEF Init
  <2>8. /\ packSynced \in Nat /\ packSynced = 0 /\ refsSynced \in Nat /\ refsSynced = 0
        /\ group \in Group /\ opened \in BOOLEAN /\ refused \in BOOLEAN
        /\ races \subseteq Race
    BY <2>1 DEF Init
  <2> QED
    BY <2>3, <2>4, <2>5, <2>6, <2>7, <2>8 DEF TypeOK, ProcOK
<1>2. TypeOK /\ [Next]_vars => TypeOK'
  BY TypeStep
<1> QED
  BY <1>1, <1>2, PTL DEF Spec

-----------------------------------------------------------------------------
(* The frontier's promise about the pack *)

(* The first n records have been flushed and are whole. *)
Safe(n) == n <= packSynced /\ Clean(n)

(* A power loss could leave the store without a frontier. *)
Undeferred == \E f \in frontiers : ~f.exists

(* Somebody has recovered the pack since power came up. *)
Up == (\E p \in Procs : proc[p].at # "closed") \/ group.at # "idle"

Sampled == {"packs", "flushRefs", "rename", "syncDir"}
Flushed == {"flushRefs", "rename", "syncDir"}

(* Until the first frontier is durable, nothing is committed to the catalog
   ahead of the pack's flush. *)
CommitsSafe == Undeferred => \A c \in commits : Safe(c.vlen)

(* The same holds of an open transaction; its rows lie in the whole part of the
   pack, and so does all that the process remembers of the pack. *)
ProcInv(p) ==
    /\ Undeferred /\ proc[p].at \in InBatch =>
          ~proc[p].deferred /\ Safe(proc[p].txn.vlen)
    /\ proc[p].at \in InBatch => \A r \in proc[p].txn.rows : Clean(r[2])
    /\ Clean(proc[p].known) /\ proc[p].end <= proc[p].known

(* Between its recovery and the end of an open nothing damages the pack. *)
RepairClean == \A p \in Procs : proc[p].at = "repair" => Clean(Len(pack))

(* Once recovered, every row of the index lies in the whole part of the pack. *)
RowsClean == Up => \A r \in catalog.rows : Clean(r[2])

(* The lengths the group commit has sampled are whole, then flushed. *)
GroupClean == /\ group.at \in Sampled => Clean(group.pack)
              /\ group.at \in Flushed => group.pack <= packSynced

PackInv == /\ PackPromise /\ CommitsSafe /\ RowsClean /\ RepairClean
           /\ GroupClean /\ \A p \in Procs : ProcInv(p)

(* A step that keeps whole what was whole and flushed what was flushed. *)
Keeps == \A n \in Nat : /\ Clean(n) => Clean(n)'
                        /\ Safe(n) => Safe(n)'

(* The lengths and positions the invariant speaks of are numbers. *)
LEMMA Numbers ==
    ASSUME TypeOK
    PROVE  /\ \A f \in frontiers : f.pack \in Nat
           /\ frontier \in frontiers /\ frontier.exists \in BOOLEAN
           /\ \A c \in commits : c \in Catalog /\ c.vlen \in Nat
           /\ catalog \in commits
           /\ \A r \in catalog.rows : r[2] \in Nat
           /\ \A p \in Procs : /\ proc[p].txn \in Catalog
                               /\ proc[p].txn.vlen \in Nat
                               /\ \A r \in proc[p].txn.rows : r[2] \in Nat
                               /\ proc[p].known \in Nat
                               /\ proc[p].start \in Nat
                               /\ proc[p].end \in Nat
           /\ group.pack \in Nat
           /\ Len(pack) \in Nat
<1>1. \A f \in Frontier : f.pack \in Nat /\ f.exists \in BOOLEAN
  BY DEF Frontier
<1>2. \A c \in Catalog : c.vlen \in Nat /\ \A r \in c.rows : r[2] \in Nat
  BY DEF Catalog, Row
<1>3. \A v \in Process : /\ v.txn \in Catalog /\ v.known \in Nat
                         /\ v.start \in Nat /\ v.end \in Nat
  BY DEF Process
<1>4. group.pack \in Nat
  BY DEF TypeOK, Group
<1> QED
  BY <1>1, <1>2, <1>3, <1>4 DEF TypeOK

(* A shorter prefix of a whole prefix is whole. *)
LEMMA CleanMono ==
    ASSUME NEW n \in Nat, NEW m \in Nat, m <= n, Clean(n),
           pack \in Seq(Entry)
    PROVE  Clean(m)
  BY DEF Clean

(* Recovery cuts the pack at a damaged record, so never inside a whole
   prefix. *)
LEMMA CutKeeps ==
    ASSUME TypeOK, NEW c \in Catalog, NEW stop \in ScanBase(c)..Len(pack),
           RecoverPack(c, stop)
    PROVE  Keeps /\ Len(pack') = stop
<1>1. /\ pack \in Seq(Entry) /\ packSynced \in Nat /\ packSynced <= Len(pack)
      /\ stop \in Nat /\ stop <= Len(pack) /\ ScanBase(c) \in Nat
  BY ScanBaseType DEF TypeOK
<1>2. /\ Len(pack') = stop
      /\ \A i \in 1..stop : pack'[i] = pack[i]
  BY <1>1, RecoverPackType
<1>3. stop < Len(pack) => pack[stop + 1] \in Damaged
  BY DEF RecoverPack, ScanStops
<1>4. packSynced' = IF stop > ScanBase(c) THEN stop
                    ELSE IF packSynced > stop THEN stop ELSE packSynced
  BY DEF RecoverPack
<1>5. ASSUME NEW n \in Nat, Clean(n)
      PROVE  n <= stop /\ Clean(n)' /\ (Safe(n) => Safe(n)')
  <2>1. n <= stop
    <3> SUFFICES ASSUME stop < n PROVE FALSE
      BY <1>1
    <3>1. n <= Len(pack) /\ \A i \in 1..n : pack[i] \notin Damaged
      BY <1>5 DEF Clean
    <3>2. stop + 1 \in 1..n
      BY <1>1
    <3> QED
      BY <1>1, <1>3, <3>1, <3>2
  <2>2. Clean(n)'
    BY <1>1, <1>2, <1>5, <2>1 DEF Clean
  <2> QED
    BY <1>1, <1>4, <2>1, <2>2 DEF Safe
<1> QED
  BY <1>2, <1>5 DEF Keeps, Safe

(* What recovery leaves is whole, when the scan started in the whole part. *)
LEMMA CutCleans ==
    ASSUME TypeOK, NEW c \in Catalog, NEW stop \in ScanBase(c)..Len(pack),
           RecoverPack(c, stop), Clean(ScanBase(c))
    PROVE  Clean(stop)'
<1>1. /\ pack \in Seq(Entry) /\ packSynced \in Nat /\ packSynced <= Len(pack)
      /\ stop \in Nat /\ stop <= Len(pack) /\ ScanBase(c) \in Nat
  BY ScanBaseType DEF TypeOK
<1>2. /\ Len(pack') = stop
      /\ \A i \in 1..stop : pack'[i] = pack[i]
  BY <1>1, RecoverPackType
<1>3. \A i \in (ScanBase(c) + 1)..stop : pack[i] \notin Damaged
  BY DEF RecoverPack, ScanStops
<1>4. \A i \in 1..ScanBase(c) : pack[i] \notin Damaged
  BY DEF Clean
<1>5. \A i \in 1..stop : pack[i] \notin Damaged
  BY <1>1, <1>3, <1>4
<1> QED
  BY <1>1, <1>2, <1>5 DEF Clean

(* The scan starts inside the whole part of the pack. *)
LEMMA BaseClean ==
    ASSUME TypeOK, PackPromise, NEW c \in Catalog,
           Undeferred => Safe(c.vlen)
    PROVE  Clean(ScanBase(c))
<1>1. Clean(0)
  BY DEF Clean, TypeOK
<1>2. CASE ScanBase(c) # 0
  <2>1. /\ ScanBase(c) = c.vlen
        /\ frontier.exists => c.vlen <= frontier.pack
    BY <1>2 DEF ScanBase
  <2>2. CASE frontier.exists
    BY <2>1, <2>2, Numbers, CleanMono, ScanBaseType DEF PackPromise, TypeOK
  <2>3. CASE ~frontier.exists
    BY <2>1, <2>3, Numbers DEF Undeferred, Safe
  <2> QED
    BY <2>2, <2>3
<1> QED
  BY <1>1, <1>2

(* What the scan went over has been flushed. *)
LEMMA CutFlushes ==
    ASSUME TypeOK, NEW c \in Catalog, NEW stop \in ScanBase(c)..Len(pack),
           RecoverPack(c, stop), Clean(stop)', Safe(c.vlen)
    PROVE  Safe(stop)'
<1>1. /\ stop \in Nat /\ ScanBase(c) \in Nat /\ ScanBase(c) \in {0, c.vlen}
      /\ packSynced \in Nat /\ c.vlen \in Nat
  <2>1. ScanBase(c) \in Nat /\ ScanBase(c) \in {0, c.vlen}
    BY ScanBaseType
  <2>2. stop \in Nat /\ packSynced \in Nat
    BY <2>1 DEF TypeOK
  <2>3. c.vlen \in Nat
    BY DEF Catalog
  <2> QED
    BY <2>1, <2>2, <2>3
<1>2. packSynced' = IF stop > ScanBase(c) THEN stop
                    ELSE IF packSynced > stop THEN stop ELSE packSynced
  BY DEF RecoverPack
<1>3. c.vlen <= packSynced
  BY DEF Safe
<1> QED
  BY <1>1, <1>2, <1>3 DEF Safe

(* The rows recovery leaves lie in the part of the pack it went over. *)
LEMMA RecoveredRows ==
    ASSUME TypeOK, NEW c \in Catalog, NEW stop \in ScanBase(c)..Len(pack),
           RecoverPack(c, stop), Clean(stop)'
    PROVE  /\ \A r \in Recovered(c, ScanBase(c), stop).rows : Clean(r[2])'
           /\ Recovered(c, ScanBase(c), stop).vlen = stop
<1>1. stop \in Nat /\ ScanBase(c) \in Nat /\ ScanBase(c) <= stop
  BY ScanBaseType DEF TypeOK
<1>2. \A r \in c.rows : r[2] \in Nat
  BY DEF Catalog, Row
<1>3. \A r \in ScannedRows(c, ScanBase(c), stop) : r[2] \in Nat /\ r[2] <= stop
  BY <1>1, <1>2 DEF ScannedRows
<1>4. \A m \in Nat : m <= stop => Clean(m)'
  BY <1>1 DEF Clean
<1> QED
  BY <1>3, <1>4 DEF Recovered

(* Appending keeps every prefix. *)
LEMMA AppendKeeps ==
    ASSUME TypeOK, NEW e, pack' = Append(pack, e), packSynced' = packSynced
    PROVE  Keeps
<1>1. /\ pack \in Seq(Entry) /\ Len(pack) \in Nat /\ Len(pack') = Len(pack) + 1
      /\ \A i \in 1..Len(pack) : pack'[i] = pack[i]
  BY DEF TypeOK
<1>2. ASSUME NEW n \in Nat, Clean(n)
      PROVE  Clean(n)'
  BY <1>1, <1>2 DEF Clean
<1> QED
  BY <1>2 DEF Keeps, Safe

(* So does a step that leaves the pack alone and forgets no flush. *)
LEMMA StillKeeps ==
    ASSUME TypeOK, pack' = pack,
           packSynced' = packSynced \/ packSynced' = Len(pack)
    PROVE  Keeps
<1>1. packSynced \in Nat /\ Len(pack) \in Nat /\ packSynced <= Len(pack)
  BY DEF TypeOK
<1>2. \A n \in Nat : Clean(n) => Clean(n)'
  BY DEF Clean
<1>3. \A n \in Nat : Safe(n) => Safe(n)'
  BY <1>1, <1>2 DEF Safe
<1> QED
  BY <1>2, <1>3 DEF Keeps

-----------------------------------------------------------------------------
(* What a step that keeps the pack does to the parts it does not change *)

(* ... the frontier's promise, *)
LEMMA FrontiersKept ==
    ASSUME TypeOK, PackPromise, Keeps, frontiers' \subseteq frontiers
    PROVE  PackPromise'
  BY Numbers DEF PackPromise, Keeps, Safe

(* ... the catalog states a power loss can fall back to, *)
LEMMA CommitsKept ==
    ASSUME TypeOK, CommitsSafe, Keeps, frontiers' \subseteq frontiers,
           commits' \subseteq commits
    PROVE  CommitsSafe'
  BY Numbers DEF CommitsSafe, Undeferred, Keeps

(* ... the group commit's sample, *)
LEMMA GroupKept ==
    ASSUME TypeOK, GroupClean, Keeps, group' = group
    PROVE  GroupClean'
<1>1. group.pack \in Nat /\ (group.at \in Flushed => group.at \in Sampled)
  BY Numbers DEF Flushed, Sampled
<1> QED
  BY <1>1 DEF GroupClean, Keeps, Safe

(* ... the other processes, *)
LEMMA ProcKept ==
    ASSUME TypeOK, NEW q \in Procs, ProcInv(q), Keeps,
           frontiers' \subseteq frontiers, proc'[q] = proc[q]
    PROVE  ProcInv(q)'
<1>1. Undeferred' => Undeferred
  BY DEF Undeferred
<1>2. /\ proc[q].txn.vlen \in Nat /\ proc[q].known \in Nat
      /\ \A r \in proc[q].txn.rows : r[2] \in Nat
  BY Numbers
<1> QED
  BY <1>1, <1>2 DEF ProcInv, Keeps

(* ... and the rows of the index. *)
LEMMA RowsKept ==
    ASSUME TypeOK, RowsClean, Keeps, Up, catalog' = catalog
    PROVE  RowsClean'
  BY Numbers DEF RowsClean, Keeps

(* A process that moves outside a transaction, and remembers what it did. *)
LEMMA ProcMoves ==
    ASSUME TypeOK, NEW p \in Procs, ProcInv(p), Keeps,
           proc'[p].at \notin InBatch,
           proc'[p].known = proc[p].known, proc'[p].end = proc[p].end
    PROVE  ProcInv(p)'
  BY Numbers DEF ProcInv, Keeps

(* A process that is closed remembers nothing. *)
LEMMA ProcClosed ==
    ASSUME NEW p \in Procs, proc'[p] = ClosedProcess, Len(pack') \in Nat
    PROVE  ProcInv(p)' /\ proc'[p].at = "closed"
  BY DEF ProcInv, ClosedProcess, InBatch, Clean

(* A step that changes one process keeps the others. *)
LEMMA OthersKept ==
    ASSUME TypeOK, NEW p \in Procs, NEW v, proc' = [proc EXCEPT ![p] = v],
           \A q \in Procs : ProcInv(q), ProcInv(p)',
           Keeps, frontiers' \subseteq frontiers
    PROVE  \A q \in Procs : ProcInv(q)'
<1> SUFFICES ASSUME NEW q \in Procs, q # p PROVE ProcInv(q)'
  OBVIOUS
<1>1. proc'[q] = proc[q]
  BY DEF TypeOK
<1> QED
  BY <1>1, ProcKept

(* No process comes to the end of its recovery without one. *)
LEMMA RepairKept ==
    ASSUME TypeOK, RepairClean, Keeps, Len(pack') = Len(pack),
           \A q \in Procs : proc'[q].at = "repair" => proc[q].at = "repair"
    PROVE  RepairClean'
  BY DEF RepairClean, Keeps, TypeOK

-----------------------------------------------------------------------------
(* Every step keeps the invariant, unless a writer is killed inside a record
   during another's open or a capture defers on an unflushed first frontier. *)
LEMMA PackStep ==
    ASSUME "kill" \notin races', "rename" \notin races',
           TypeOK, TypeOK', PackInv, [Next]_vars
    PROVE  PackInv'
<1>1. /\ PackPromise /\ CommitsSafe /\ RowsClean /\ RepairClean /\ GroupClean
      /\ \A p \in Procs : ProcInv(p)
  BY DEF PackInv
<1>2. /\ pack \in Seq(Entry) /\ Len(pack) \in Nat /\ packSynced \in Nat
      /\ packSynced <= Len(pack)
  BY DEF TypeOK
<1>3. Len(pack') \in Nat
  BY DEF TypeOK
<1>4. \A p \in Procs : proc[p] \in Process
  BY DEF TypeOK
<1>6. CASE UNCHANGED vars
  <2>1. Keeps
    BY <1>6, StillKeeps DEF vars
  <2>2. \A q \in Procs : ProcInv(q)'
    BY <1>1, <1>6, <2>1, ProcKept DEF vars
  <2>3. Up' <=> Up
    BY <1>6 DEF vars, Up
  <2>4. RowsClean'
    BY <1>1, <1>6, <2>1, <2>3, RowsKept DEF vars, RowsClean
  <2>5. RepairClean'
    BY <1>1, <1>6, <2>1, RepairKept DEF vars
  <2> QED
    BY <1>1, <1>6, <2>1, <2>2, <2>4, <2>5, FrontiersKept, CommitsKept, GroupKept
    DEF vars, PackInv
<1>7. ASSUME NEW p \in Procs, OpenSettled(p)
      PROVE  PackInv'
  <2>1. Keeps
    BY <1>7, StillKeeps DEF OpenSettled
  <2>2. Clean(Len(pack))
    <3>1. CASE frontier.exists
      BY <1>1, <1>7, <3>1, Numbers DEF OpenSettled, PackPromise
    <3>2. CASE ~frontier.exists
      BY <1>1, <1>7, <3>2, Numbers DEF OpenSettled, CommitsSafe, Undeferred, Safe
    <3> QED
      BY <3>1, <3>2
  <2>3. RowsClean'
    <3>1. \A r \in catalog.rows : r[2] <= Len(pack)
      BY <1>7, Numbers DEF OpenSettled, CheckpointValid, RowsBeyond
    <3> QED
      BY <1>2, <1>7, <2>1, <2>2, <3>1, Numbers, CleanMono
      DEF OpenSettled, RowsClean, Keeps
  <2>4. RepairClean'
    BY <1>2, <1>7, <2>1, <2>2 DEF OpenSettled, RepairClean, Keeps
  <2>5. /\ proc'[p].at \notin InBatch
        /\ proc'[p].known = proc[p].known /\ proc'[p].end = proc[p].end
    BY <1>4, <1>7 DEF OpenSettled, TypeOK, Process, InBatch
  <2>6. \A q \in Procs : ProcInv(q)'
    BY <1>1, <1>7, <2>1, <2>5, ProcMoves, OthersKept DEF OpenSettled
  <2> QED
    BY <1>1, <1>7, <2>1, <2>3, <2>4, <2>6, FrontiersKept, CommitsKept, GroupKept
    DEF OpenSettled, PackInv
<1>8. ASSUME NEW p \in Procs, OpenRecover(p)
      PROVE  PackInv'
  <2>1. PICK stop \in ScanBase(catalog)..Len(pack) :
           /\ RecoverPack(catalog, stop)
           /\ Commit(Recovered(catalog, ScanBase(catalog), stop))
    BY <1>8 DEF OpenRecover
  <2>2. /\ catalog \in Catalog /\ catalog \in commits /\ stop \in Nat
        /\ Undeferred => Safe(catalog.vlen)
    BY <1>1, Numbers, ScanBaseType DEF CommitsSafe
  <2>3. Keeps /\ Len(pack') = stop /\ Clean(stop)'
    BY <1>1, <2>1, <2>2, CutKeeps, CutCleans, BaseClean
  <2>4. /\ catalog' = Recovered(catalog, ScanBase(catalog), stop)
        /\ commits' = commits \cup {catalog'}
        /\ frontiers' = frontiers /\ group' = group
    BY <1>8, <2>1 DEF OpenRecover, Commit
  <2>5. catalog'.vlen = stop /\ \A r \in catalog'.rows : Clean(r[2])'
    BY <2>1, <2>2, <2>3, <2>4, RecoveredRows
  <2>6. CommitsSafe'
    <3>1. Undeferred' => Undeferred
      BY <2>4 DEF Undeferred
    <3>2. Undeferred => Safe(stop)'
      BY <2>1, <2>2, <2>3, CutFlushes
    <3>3. Undeferred => \A c \in commits : Safe(c.vlen)'
      BY <1>1, <2>3, Numbers DEF CommitsSafe, Keeps
    <3> QED
      BY <2>4, <2>5, <3>1, <3>2, <3>3 DEF CommitsSafe
  <2>7. RowsClean' /\ RepairClean'
    BY <2>3, <2>5 DEF RowsClean, RepairClean
  <2>8. /\ proc'[p].at \notin InBatch
        /\ proc'[p].known = proc[p].known /\ proc'[p].end = proc[p].end
    BY <1>4, <1>8 DEF OpenRecover, TypeOK, Process, InBatch
  <2>9. \A q \in Procs : ProcInv(q)'
    BY <1>1, <1>8, <2>3, <2>4, <2>8, ProcMoves, OthersKept DEF OpenRecover
  <2> QED
    BY <1>1, <2>3, <2>4, <2>6, <2>7, <2>9, FrontiersKept, GroupKept DEF PackInv
<1>9. ASSUME NEW p \in Procs, OpenRefused(p)
      PROVE  PackInv'
  <2>1. Keeps
    BY <1>9, StillKeeps DEF OpenRefused
  <2>2. \A q \in Procs : ProcInv(q)'
    BY <1>1, <1>9, <2>1, ProcKept DEF OpenRefused
  <2>3. Up' <=> Up
    BY <1>9 DEF OpenRefused, Up
  <2>4. RowsClean' /\ RepairClean'
    BY <1>1, <1>9, <2>1, <2>3, RowsKept, RepairKept DEF OpenRefused, RowsClean
  <2> QED
    BY <1>1, <1>9, <2>1, <2>2, <2>4, FrontiersKept, CommitsKept, GroupKept
    DEF OpenRefused, PackInv
<1>10. ASSUME NEW p \in Procs, RepairRefs(p)
       PROVE  PackInv'
  <2>1. /\ Keeps /\ Up
        /\ UNCHANGED <<pack, packSynced, catalog, commits, frontiers, group>>
    BY <1>10, StillKeeps DEF RepairRefs, Up
  <2>2. RowsClean'
    BY <1>1, <2>1, RowsKept
  <2>3. Clean(Len(pack))
    BY <1>1, <1>10 DEF RepairRefs, RepairClean
  <2>4. RepairClean'
    BY <1>2, <2>1, <2>3 DEF RepairClean, Keeps
  <2>5. /\ proc'[p].at \notin InBatch
        /\ proc'[p].known = Len(pack) /\ proc'[p].end = proc[p].end
    BY <1>4, <1>10 DEF RepairRefs, TypeOK, Process, InBatch
  <2>6. ProcInv(p)'
    <3>1. proc[p].end <= Len(pack)
      BY <1>1, <1>2, Numbers DEF ProcInv, Clean
    <3> QED
      BY <1>2, <2>1, <2>3, <2>5, <3>1 DEF ProcInv, Keeps
  <2>7. \A q \in Procs : ProcInv(q)'
    <3>1. PICK v : proc' = [proc EXCEPT ![p] = v]
      BY <1>10 DEF RepairRefs, TypeOK
    <3> QED
      BY <1>1, <2>1, <2>6, <3>1, OthersKept
  <2> QED
    BY <1>1, <2>1, <2>2, <2>4, <2>7, FrontiersKept, CommitsKept, GroupKept
    DEF PackInv
<1>11. ASSUME NEW p \in Procs, RepairRefused(p) \/ AttachRefused(p)
       PROVE  PackInv'
  <2>1. /\ Keeps /\ Up
        /\ UNCHANGED <<pack, packSynced, catalog, commits, frontiers, group>>
        /\ proc' = [proc EXCEPT ![p] = ClosedProcess]
    BY <1>11, StillKeeps DEF RepairRefused, AttachRefused, Up
  <2>2. proc'[p] = ClosedProcess
    BY <2>1 DEF TypeOK
  <2>3. ProcInv(p)' /\ proc'[p].at = "closed"
    BY <1>3, <2>2, ProcClosed
  <2>4. RepairClean'
    <3>1. \A q \in Procs : proc'[q].at = "repair" => proc[q].at = "repair"
      BY <2>1, <2>3 DEF TypeOK
    <3> QED
      BY <1>1, <2>1, <3>1, RepairKept
  <2>5. \A q \in Procs : ProcInv(q)'
    BY <1>1, <2>1, <2>3, OthersKept
  <2> QED
    BY <1>1, <2>1, <2>4, <2>5, RowsKept, FrontiersKept, CommitsKept, GroupKept
    DEF PackInv
<1>12. ASSUME NEW p \in Procs, Attach(p) \/ Publish(p) \/ Rollback(p)
       PROVE  PackInv'
  <2>1. /\ Keeps /\ Up
        /\ UNCHANGED <<pack, packSynced, catalog, commits, frontiers, group>>
    BY <1>12, StillKeeps DEF Attach, Publish, Rollback, Up, InBatch
  <2>2. /\ proc'[p].at = "idle"
        /\ proc'[p].known = proc[p].known /\ proc'[p].end = proc[p].end
    <3>1. CASE Attach(p)
      BY <1>4, <3>1 DEF Attach, Process, TypeOK
    <3>2. CASE Publish(p)
      BY <1>4, <3>2 DEF Publish, Process, TypeOK
    <3>3. CASE Rollback(p)
      BY <1>4, <3>3 DEF Rollback, Process, TypeOK
    <3> QED
      BY <1>12, <3>1, <3>2, <3>3
  <2>3. PICK v : proc' = [proc EXCEPT ![p] = v]
    <3>1. proc' = [proc EXCEPT ![p] = proc'[p]]
      BY <1>12 DEF Attach, Publish, Rollback, TypeOK
    <3> QED
      BY <3>1
  <2>4. RepairClean'
    <3>1. \A q \in Procs : proc'[q].at = "repair" => proc[q].at = "repair"
      BY <2>2, <2>3 DEF TypeOK
    <3> QED
      BY <1>1, <2>1, <3>1, RepairKept
  <2>5. ProcInv(p)'
    BY <1>1, <2>1, <2>2, ProcMoves DEF InBatch
  <2>6. \A q \in Procs : ProcInv(q)'
    BY <1>1, <2>1, <2>3, <2>5, OthersKept
  <2> QED
    BY <1>1, <2>1, <2>4, <2>6, RowsKept, FrontiersKept, CommitsKept, GroupKept
    DEF PackInv
<1>13. ASSUME NEW p \in Procs, NEW b \in Blobs, NEW d \in BOOLEAN,
              BeginCapture(p, b, d)
       PROVE  PackInv'
  <2>1. /\ Keeps /\ Up
        /\ UNCHANGED <<pack, packSynced, catalog, commits, frontiers, group>>
    BY <1>13, StillKeeps DEF BeginCapture, Up
  <2>2. /\ proc'[p].at = "blob" /\ proc'[p].txn = catalog /\ proc'[p].deferred = d
        /\ proc'[p].known = proc[p].known /\ proc'[p].end = proc[p].end
    BY <1>4, <1>13 DEF BeginCapture, Process, TypeOK
  <2>3. PICK v : proc' = [proc EXCEPT ![p] = v]
    BY <1>13 DEF BeginCapture, TypeOK
  <2>4. ProcInv(p)'
    <3>1. Undeferred' => ~d /\ Safe(catalog.vlen)'
      <4>1. d => ~Undeferred
        BY <1>13 DEF BeginCapture, Undeferred, When
      <4>2. Undeferred' => Undeferred
        BY <2>1 DEF Undeferred
      <4> QED
        BY <1>1, <2>1, <4>1, <4>2, Numbers DEF CommitsSafe, Keeps
    <3>2. \A r \in catalog.rows : Clean(r[2])'
      BY <1>1, <2>1, Numbers DEF RowsClean, Keeps
    <3>3. Clean(proc[p].known)' /\ proc[p].end <= proc[p].known
      <4>1. Clean(proc[p].known) /\ proc[p].known \in Nat /\ proc[p].end <= proc[p].known
        BY <1>1, Numbers DEF ProcInv
      <4> QED
        BY <2>1, <2>2, <4>1 DEF Clean
    <3> QED
      BY <2>1, <2>2, <3>1, <3>2, <3>3 DEF ProcInv, Clean, Safe
  <2>5. RepairClean'
    <3>1. \A q \in Procs : proc'[q].at = "repair" => proc[q].at = "repair"
      BY <2>2, <2>3 DEF TypeOK
    <3> QED
      BY <1>1, <2>1, <3>1, RepairKept
  <2>6. \A q \in Procs : ProcInv(q)'
    BY <1>1, <2>1, <2>3, <2>4, OthersKept
  <2> QED
    BY <1>1, <2>1, <2>5, <2>6, RowsKept, FrontiersKept, CommitsKept, GroupKept
    DEF PackInv
<1>14. ASSUME NEW p \in Procs, PutRecover(p)
       PROVE  PackInv'
  <2> DEFINE c == proc[p].txn
  <2>1. PICK stop \in ScanBase(c)..Len(pack) :
           /\ RecoverPack(c, stop)
           /\ proc' = [proc EXCEPT ![p].txn = Recovered(c, ScanBase(c), stop),
                                  ![p].known = stop]
    BY <1>14 DEF PutRecover
  <2>2. /\ c \in Catalog /\ stop \in Nat /\ proc[p].at \in InBatch
        /\ UNCHANGED <<catalog, commits, frontiers, group>>
    BY <1>14, Numbers, ScanBaseType DEF PutRecover, MustAppend, InBatch
  <2>3. Undeferred => ~proc[p].deferred /\ Safe(c.vlen)
    BY <1>1, <2>2 DEF ProcInv
  <2>4. Keeps /\ Len(pack') = stop /\ Clean(stop)' /\ Up
    BY <1>1, <2>1, <2>2, <2>3, CutKeeps, CutCleans, BaseClean DEF Up, InBatch
  <2>5. /\ \A r \in Recovered(c, ScanBase(c), stop).rows : Clean(r[2])'
        /\ Recovered(c, ScanBase(c), stop).vlen = stop
    BY <2>1, <2>2, <2>4, RecoveredRows
  <2>6. Undeferred => Safe(stop)'
    BY <2>1, <2>2, <2>3, <2>4, CutFlushes
  <2>7. /\ proc'[p].at = proc[p].at /\ proc'[p].deferred = proc[p].deferred
        /\ proc'[p].txn = Recovered(c, ScanBase(c), stop)
        /\ proc'[p].known = stop /\ proc'[p].end = proc[p].end
    BY <1>4, <2>1 DEF Process, TypeOK
  <2>8. proc[p].end <= stop
    <3>1. proc[p].end <= proc[p].known
      BY <1>1 DEF ProcInv
    <3>2. proc[p].known <= Len(pack)
      BY <1>1 DEF ProcInv, Clean
    <3>3. proc[p].known <= stop
      <4> SUFFICES ASSUME stop < proc[p].known PROVE FALSE
        BY <2>2, Numbers
      <4>1. stop + 1 \in 1..proc[p].known /\ stop < Len(pack)
        BY <1>2, <2>2, <3>2, Numbers
      <4>2. pack[stop + 1] \in Damaged
        BY <2>1, <4>1 DEF RecoverPack, ScanStops
      <4> QED
        BY <1>1, <4>1, <4>2 DEF ProcInv, Clean
    <3> QED
      BY <2>2, <3>1, <3>3, Numbers
  <2> HIDE DEF c
  <2>9. ProcInv(p)'
    <3>1. Undeferred' => Undeferred
      BY <2>2 DEF Undeferred
    <3> QED
      BY <2>2, <2>3, <2>4, <2>5, <2>6, <2>7, <2>8, <3>1 DEF ProcInv
  <2>10. \A q \in Procs : ProcInv(q)'
    <3>1. PICK v : proc' = [proc EXCEPT ![p] = v]
      BY <2>1 DEF TypeOK
    <3> QED
      BY <1>1, <2>2, <2>4, <2>9, <3>1, OthersKept
  <2>11. RepairClean'
    BY <2>4 DEF RepairClean
  <2> QED
    BY <1>1, <2>2, <2>4, <2>10, <2>11, RowsKept, FrontiersKept, CommitsKept, GroupKept
    DEF PackInv
<1>15. ASSUME NEW p \in Procs, PutAppend(p)
       PROVE  PackInv'
  <2>1. /\ pack' = Append(pack, Wanted(p)) /\ packSynced' = packSynced
        /\ UNCHANGED <<catalog, commits, frontiers, group>>
        /\ Len(pack) = proc[p].known /\ proc[p].at \in InBatch
    BY <1>15 DEF PutAppend, MustAppend, InBatch
  <2>2. Keeps /\ Up
    BY <2>1, AppendKeeps DEF Up, InBatch
  <2>3. Wanted(p) \in Object /\ Wanted(p) \notin Damaged
    BY <1>15, WantedType, DamageIsNoObject DEF PutAppend
  <2>4. PICK here \in Nat : here = Len(pack) + 1
    BY <1>2
  <2>5. Len(pack') = here /\ Clean(here)'
    <3>1. Clean(Len(pack))
      BY <1>1, <2>1 DEF ProcInv
    <3>2. /\ Len(pack') = here /\ pack'[here] = Wanted(p)
          /\ \A i \in 1..Len(pack) : pack'[i] = pack[i]
      BY <1>2, <2>1, <2>4
    <3>3. \A i \in 1..here : pack'[i] \notin Damaged
      BY <1>2, <2>3, <2>4, <3>1, <3>2 DEF Clean
    <3> QED
      BY <3>2, <3>3 DEF Clean
  <2>6. /\ proc'[p].at \in InBatch /\ proc'[p].deferred = proc[p].deferred
        /\ proc'[p].txn = WithRow(p)
        /\ proc'[p].known = here /\ proc'[p].end = here
    <3> DEFINE v == [proc[p] EXCEPT !.at = NextPlace(p), !.txn = WithRow(p),
                                    !.start = RunStart(p), !.end = Len(pack) + 1,
                                    !.last = Wanted(p), !.known = Len(pack) + 1]
    <3>1. proc' = [proc EXCEPT ![p] = v]
      BY <1>15 DEF PutAppend, TypeOK
    <3>2. proc'[p] = v
      BY <3>1 DEF TypeOK
    <3>3. NextPlace(p) \in InBatch
      BY DEF NextPlace, InBatch
    <3> QED
      BY <1>4, <2>4, <3>2, <3>3 DEF Process
  <2>7. /\ WithRow(p).vlen = proc[p].txn.vlen
        /\ WithRow(p).rows = proc[p].txn.rows \cup {<<Wanted(p), here>>}
    BY <2>4, Numbers DEF WithRow, Catalog
  <2>8. ProcInv(p)' /\ RepairClean'
    <3>1. Undeferred' => ~proc[p].deferred /\ Safe(proc[p].txn.vlen)
      BY <1>1, <2>1 DEF ProcInv, Undeferred
    <3>2. PICK vlen \in Nat : vlen = proc[p].txn.vlen
      BY Numbers
    <3>3. Undeferred' => Safe(vlen)'
      BY <2>2, <3>1, <3>2 DEF Keeps
    <3>4. \A r \in proc[p].txn.rows : Clean(r[2])'
      BY <1>1, <2>1, <2>2, Numbers DEF ProcInv, Keeps
    <3>5. \A r \in proc'[p].txn.rows : Clean(r[2])'
      BY <2>5, <2>6, <2>7, <3>4
    <3>6. RepairClean'
      BY <2>5 DEF RepairClean
    <3>7. Clean(proc[p].known)' /\ (proc[p].end <= proc[p].known)'
      BY <2>5, <2>6
    <3>8. Undeferred' => ~proc'[p].deferred /\ Safe(proc[p].txn.vlen)'
      BY <2>6, <2>7, <3>1, <3>2, <3>3
    <3> QED
      BY <3>5, <3>6, <3>7, <3>8 DEF ProcInv
  <2>9. \A q \in Procs : ProcInv(q)'
    <3> DEFINE v == [proc[p] EXCEPT !.at = NextPlace(p), !.txn = WithRow(p),
                                    !.start = RunStart(p), !.end = Len(pack) + 1,
                                    !.last = Wanted(p), !.known = Len(pack) + 1]
    <3>1. proc' = [proc EXCEPT ![p] = v]
      BY <1>15 DEF PutAppend, TypeOK
    <3> HIDE DEF v
    <3> QED
      BY <1>1, <2>1, <2>2, <2>8, <3>1, OthersKept
  <2> QED
    BY <1>1, <2>1, <2>2, <2>8, <2>9, RowsKept, FrontiersKept, CommitsKept, GroupKept
    DEF PackInv
<1>16. ASSUME NEW p \in Procs, PutKnown(p)
       PROVE  PackInv'
  <2>1. /\ Keeps /\ Up /\ proc[p].at \in InBatch
        /\ UNCHANGED <<pack, packSynced, catalog, commits, frontiers, group>>
    BY <1>16, StillKeeps DEF PutKnown, Up, InBatch
  <2>2. /\ proc'[p].at \in InBatch /\ proc'[p].deferred = proc[p].deferred
        /\ proc'[p].txn.vlen = proc[p].txn.vlen /\ proc'[p].txn.rows = proc[p].txn.rows
        /\ proc'[p].known = proc[p].known /\ proc'[p].end = proc[p].end
    <3>1. proc'[p] = [proc[p] EXCEPT !.at = NextPlace(p),
                                     !.txn = [proc[p].txn EXCEPT !.cache = CacheAfter(p)]]
      BY <1>16 DEF PutKnown, TypeOK
    <3>2. NextPlace(p) \in InBatch
      BY DEF NextPlace, InBatch
    <3> QED
      BY <1>4, <3>1, <3>2 DEF Process, Catalog
  <2>3. ProcInv(p)'
    <3>1. Undeferred' => Undeferred
      BY <2>1 DEF Undeferred
    <3> QED
      BY <1>1, <2>1, <2>2, <3>1, Numbers DEF ProcInv, Keeps
  <2>4. PICK v : proc' = [proc EXCEPT ![p] = v]
    BY <1>16 DEF PutKnown, TypeOK
  <2>5. RepairClean'
    <3>1. \A q \in Procs : proc'[q].at = "repair" => proc[q].at = "repair"
      BY <2>2, <2>4 DEF TypeOK, InBatch
    <3> QED
      BY <1>1, <2>1, <3>1, RepairKept
  <2>6. \A q \in Procs : ProcInv(q)'
    BY <1>1, <2>1, <2>3, <2>4, OthersKept
  <2> QED
    BY <1>1, <2>1, <2>5, <2>6, RowsKept, FrontiersKept, CommitsKept, GroupKept
    DEF PackInv
<1>17. ASSUME NEW p \in Procs, CommitBatch(p)
       PROVE  PackInv'
  <2>1. /\ proc[p].at = "commit" /\ pack' = pack
        /\ UNCHANGED <<frontiers, group>>
        /\ catalog' = Checkpointed(p) /\ commits' = commits \cup {catalog'}
        /\ packSynced' = IF ~proc[p].deferred /\ proc[p].end > proc[p].start
                         THEN Len(pack) ELSE packSynced
    BY <1>17 DEF CommitBatch, Commit
  <2>2. Keeps /\ proc[p].at \in InBatch
    BY <2>1, StillKeeps DEF InBatch
  <2>3. /\ Checkpointed(p).rows = proc[p].txn.rows
        /\ \/ /\ Checkpointed(p).vlen = proc[p].end
              /\ proc[p].end > proc[p].start
           \/ Checkpointed(p).vlen = proc[p].txn.vlen
    BY Numbers DEF Checkpointed, Catalog
  <2>4. RowsClean'
    BY <1>1, <2>1, <2>2, <2>3, Numbers DEF RowsClean, ProcInv, Keeps
  <2>5. CommitsSafe'
    <3>1. Undeferred' => Undeferred
      BY <2>1 DEF Undeferred
    <3>2. PICK n \in Nat : n = catalog'.vlen
      BY <2>1, <2>3, Numbers
    <3>3. Clean(proc[p].end) /\ proc[p].end <= Len(pack)
      <4>1. Clean(proc[p].known) /\ proc[p].end <= proc[p].known
        BY <1>1 DEF ProcInv
      <4> QED
        BY <1>2, <4>1, CleanMono, Numbers DEF Clean
    <3>4. Undeferred => Safe(n)'
      <4> SUFFICES ASSUME Undeferred PROVE Safe(n)'
        OBVIOUS
      <4>1. ~proc[p].deferred /\ Safe(proc[p].txn.vlen)
        BY <1>1, <2>2 DEF ProcInv
      <4>2. CASE n = proc[p].end /\ proc[p].end > proc[p].start
        BY <2>1, <3>3, <4>1, <4>2 DEF Safe, Clean
      <4>3. CASE n = proc[p].txn.vlen
        BY <2>2, <4>1, <4>3 DEF Keeps
      <4> QED
        BY <2>1, <2>3, <3>2, <4>2, <4>3
    <3>5. Undeferred => \A c \in commits : Safe(c.vlen)'
      BY <1>1, <2>2, Numbers DEF CommitsSafe, Keeps
    <3> QED
      BY <2>1, <3>1, <3>2, <3>4, <3>5 DEF CommitsSafe
  <2>6. /\ proc'[p].at = "publish" /\ proc'[p].known = proc[p].known
        /\ proc'[p].end = 0
    BY <1>4, <1>17 DEF CommitBatch, TypeOK, Process
  <2>7. ProcInv(p)'
    BY <1>1, <2>2, <2>6, Numbers DEF ProcInv, Keeps, InBatch
  <2>8. PICK v : proc' = [proc EXCEPT ![p] = v]
    <3>1. proc' = [proc EXCEPT ![p] = proc'[p]]
      BY <1>17 DEF CommitBatch, TypeOK
    <3> QED
      BY <3>1
  <2>9. RepairClean'
    <3>1. \A q \in Procs : proc'[q].at = "repair" => proc[q].at = "repair"
      BY <2>6, <2>8 DEF TypeOK
    <3> QED
      BY <1>1, <2>1, <2>2, <3>1, RepairKept
  <2>10. \A q \in Procs : ProcInv(q)'
    BY <1>1, <2>1, <2>2, <2>7, <2>8, OthersKept
  <2> QED
    BY <1>1, <2>1, <2>2, <2>4, <2>5, <2>9, <2>10, FrontiersKept, GroupKept
    DEF PackInv
<1>18. ASSUME NEW p \in Procs, GroupSampleRefs(p)
       PROVE  PackInv'
  <2>1. /\ Keeps /\ Up
        /\ UNCHANGED <<pack, packSynced, catalog, commits, frontiers, proc>>
    BY <1>18, StillKeeps DEF GroupSampleRefs, GroupStays, Up, Live
  <2>2. GroupClean'
    BY <1>18 DEF GroupSampleRefs, GroupClean, Sampled, Flushed
  <2>3. RepairClean' /\ \A q \in Procs : ProcInv(q)'
    BY <1>1, <2>1, RepairKept, ProcKept
  <2> QED
    BY <1>1, <2>1, <2>2, <2>3, RowsKept, FrontiersKept, CommitsKept DEF PackInv
<1>19. CASE GroupSamplePacks
  <2>1. /\ Keeps /\ Up
        /\ UNCHANGED <<pack, packSynced, catalog, commits, frontiers, proc>>
    BY <1>19, StillKeeps DEF GroupSamplePacks, GroupStays, Up
  <2>2. GroupClean'
    <3>1. CASE group' = NoGroup
      BY <3>1 DEF GroupClean, NoGroup, Sampled, Flushed
    <3>2. CASE group' # NoGroup
      <4>1. PICK written \in 0..Len(pack) :
               /\ HighWater(catalog, written)
               /\ group' = [group EXCEPT !.at = "packs", !.pack = written]
        BY <1>19, <3>2 DEF GroupSamplePacks
      <4>2. group'.at = "packs" /\ group'.pack = written /\ written \in Nat
        BY <1>2, <4>1 DEF TypeOK, Group
      <4>3. Clean(written)
        <5>1. CASE written = 0
          BY <1>2, <5>1 DEF Clean
        <5>2. CASE written > 0
          <6>1. PICK r \in catalog.rows : r[2] = written
            BY <4>1, <5>2 DEF HighWater
          <6> QED
            BY <1>1, <2>1, <6>1 DEF RowsClean
        <5> QED
          BY <4>2, <5>1, <5>2
      <4>4. Clean(written)'
        BY <2>1, <4>2, <4>3 DEF Keeps
      <4> QED
        BY <4>2, <4>4 DEF GroupClean, Flushed
    <3> QED
      BY <3>1, <3>2
  <2>3. RepairClean' /\ \A q \in Procs : ProcInv(q)'
    BY <1>1, <2>1, RepairKept, ProcKept
  <2> QED
    BY <1>1, <2>1, <2>2, <2>3, RowsKept, FrontiersKept, CommitsKept DEF PackInv
<1>20. CASE GroupFlushPacks \/ GroupFlushRefs
  <2>1. /\ Keeps /\ Up
        /\ UNCHANGED <<pack, catalog, commits, frontiers, proc>>
    BY <1>20, StillKeeps DEF GroupFlushPacks, GroupFlushRefs, GroupStays, Up
  <2>2. group.pack \in Nat /\ group'.pack = group.pack /\ group.at \in Sampled
    BY <1>20 DEF GroupFlushPacks, GroupFlushRefs, TypeOK, Group, Sampled
  <2>3. Clean(group.pack)' /\ (group.pack <= packSynced)'
    <3>1. Clean(group.pack) /\ group.pack <= Len(pack)
      BY <1>1, <2>2 DEF GroupClean, Clean
    <3>2. group.pack <= packSynced'
      BY <1>1, <1>20, <3>1 DEF GroupFlushPacks, GroupFlushRefs, GroupClean, Flushed
    <3> QED
      BY <2>1, <2>2, <3>1, <3>2 DEF Keeps
  <2>4. RepairClean' /\ \A q \in Procs : ProcInv(q)'
    BY <1>1, <2>1, RepairKept, ProcKept
  <2> QED
    BY <1>1, <2>1, <2>3, <2>4, RowsKept, FrontiersKept, CommitsKept
    DEF PackInv, GroupClean
<1>21. CASE GroupRename
  <2>1. /\ Keeps /\ Up
        /\ UNCHANGED <<pack, packSynced, catalog, commits, proc>>
    BY <1>21, StillKeeps DEF GroupRename, GroupStays, Up
  <2>2. /\ group.pack \in Nat /\ group'.pack = group.pack
        /\ frontier'.pack = group.pack /\ frontier'.exists
        /\ frontiers' = frontiers \cup {frontier'}
    BY <1>21 DEF GroupRename, TypeOK, Group
  <2>3. Safe(group.pack)
    BY <1>1, <1>21 DEF GroupRename, GroupClean, Sampled, Flushed, Safe
  <2>4. GroupClean'
    BY <2>1, <2>2, <2>3 DEF GroupClean, Safe, Clean
  <2>5. PackPromise'
    BY <1>1, <2>1, <2>2, <2>3, Numbers DEF PackPromise, Safe, Clean
  <2>6. Undeferred' => Undeferred
    BY <2>2 DEF Undeferred
  <2>7. CommitsSafe'
    BY <1>1, <2>1, <2>6 DEF CommitsSafe, Safe, Clean
  <2>8. \A q \in Procs : ProcInv(q)'
    BY <1>1, <2>1, <2>6 DEF ProcInv, Safe, Clean
  <2> QED
    BY <1>1, <2>1, <2>4, <2>5, <2>7, <2>8, RowsKept, RepairKept DEF PackInv
<1>22. CASE GroupSyncDir
  <2>1. /\ Keeps /\ Up /\ frontiers' \subseteq frontiers
        /\ UNCHANGED <<pack, packSynced, catalog, commits, proc>>
    BY <1>22, StillKeeps, Numbers DEF GroupSyncDir, GroupStays, Up
  <2>2. GroupClean'
    BY <1>22 DEF GroupSyncDir, GroupClean, NoGroup, Sampled, Flushed
  <2>3. RepairClean' /\ \A q \in Procs : ProcInv(q)'
    BY <1>1, <2>1, RepairKept, ProcKept
  <2> QED
    BY <1>1, <2>1, <2>2, <2>3, RowsKept, FrontiersKept, CommitsKept DEF PackInv
<1>23. CASE FoldCatalog
  <2>1. /\ Keeps /\ Up /\ commits' \subseteq commits
        /\ UNCHANGED <<pack, packSynced, catalog, frontiers, proc, group>>
    BY <1>23, StillKeeps, Numbers DEF FoldCatalog, Up
  <2>2. RepairClean' /\ \A q \in Procs : ProcInv(q)'
    BY <1>1, <2>1, RepairKept, ProcKept
  <2> QED
    BY <1>1, <2>1, <2>2, RowsKept, FrontiersKept, CommitsKept, GroupKept
    DEF PackInv
<1>24. ASSUME NEW p \in Procs, Kill(p) \/ KillInPublish(p)
       PROVE  PackInv'
  <2>1. /\ UNCHANGED <<packSynced, catalog, commits, frontiers>>
        /\ Die(p) /\ proc[p].at # "closed"
        /\ \/ pack' = pack
           \/ /\ pack' = Append(pack, Torn)
              /\ \A q \in Procs \ {p} : proc[q].at # "repair"
    BY <1>24 DEF Kill, KillInPublish, When
  <2>2. Keeps /\ Up
    BY <2>1, StillKeeps, AppendKeeps DEF Up
  <2>3. proc' = [proc EXCEPT ![p] = ClosedProcess] /\ proc'[p] = ClosedProcess
    BY <2>1 DEF Die, TypeOK
  <2>4. ProcInv(p)' /\ proc'[p].at = "closed"
    BY <1>3, <2>3, ProcClosed
  <2>5. \A q \in Procs : ProcInv(q)'
    BY <1>1, <2>1, <2>2, <2>3, <2>4, OthersKept
  <2>6. RepairClean'
    <3>1. \A q \in Procs : proc'[q].at = "repair" => q # p /\ proc[q].at = "repair"
      BY <2>3, <2>4 DEF TypeOK
    <3>2. CASE pack' = pack
      BY <1>1, <2>2, <3>1, <3>2, RepairKept
    <3>3. CASE pack' # pack
      BY <2>1, <3>1, <3>3 DEF RepairClean
    <3> QED
      BY <3>2, <3>3
  <2>7. GroupClean'
    <3>1. CASE group' = group
      BY <1>1, <2>2, <3>1, GroupKept
    <3>2. CASE group' # group
      BY <2>1, <3>2 DEF Die, GroupClean, NoGroup, Sampled, Flushed
    <3> QED
      BY <3>1, <3>2
  <2> QED
    BY <1>1, <2>1, <2>2, <2>5, <2>6, <2>7, RowsKept, FrontiersKept, CommitsKept
    DEF PackInv
<1>25. CASE PowerLoss
  <2> DEFINE appending == \E p \in Procs : Appending(p)
  <2>1. /\ pack' \in AfterPowerLoss(pack, packSynced, appending)
        /\ packSynced' = Len(pack')
        /\ catalog' \in commits /\ commits' = {catalog'}
        /\ frontier' \in frontiers /\ frontiers' = {frontier'}
        /\ proc' = [p \in Procs |-> ClosedProcess]
        /\ group' = NoGroup
    BY <1>25 DEF PowerLoss
  <2> HIDE DEF appending
  <2>2. /\ packSynced <= Len(pack')
        /\ \A i \in 1..packSynced : pack'[i] = pack[i]
    BY <1>2, <2>1, PowerLossKeeps
  <2>3. \A n \in Nat : Safe(n) => Safe(n)'
    BY <1>2, <1>3, <2>1, <2>2 DEF Safe, Clean
  <2>4. PackPromise'
    BY <1>1, <2>1, <2>3, Numbers DEF PackPromise, Safe
  <2>5. CommitsSafe'
    <3>1. Undeferred' => Undeferred
      BY <2>1 DEF Undeferred
    <3> QED
      BY <1>1, <2>1, <2>3, <3>1, Numbers DEF CommitsSafe
  <2>6. \A q \in Procs : ProcInv(q)' /\ proc'[q].at = "closed"
    BY <1>3, <2>1, ProcClosed
  <2>7. ~Up'
    BY <2>1, <2>6 DEF Up, NoGroup
  <2>8. RowsClean' /\ RepairClean'
    BY <2>6, <2>7 DEF RowsClean, RepairClean
  <2>9. GroupClean'
    BY <2>1 DEF GroupClean, NoGroup, Sampled, Flushed
  <2> QED
    BY <2>4, <2>5, <2>6, <2>8, <2>9 DEF PackInv
<1>26. ASSUME NEW p \in Procs, VerifyIndex(p)
       PROVE  PackInv'
  <2> DEFINE c == Unindexed(catalog)
  <2>1. c \in Catalog /\ ScanBase(c) = 0 /\ c.vlen = 0
    BY UnindexedType DEF TypeOK
  <2>2. PICK stop \in 0..Len(pack) :
           RecoverPack(c, stop) /\ Commit(Recovered(c, 0, stop))
    BY <1>26 DEF VerifyIndex
  <2> HIDE DEF c
  <2>3. Clean(0) /\ Safe(0) /\ Up
    BY <1>2, <1>26 DEF Clean, Safe, Up, VerifyIndex
  <2>4. Keeps /\ Len(pack') = stop /\ Clean(stop)' /\ Safe(stop)'
    BY <2>1, <2>2, <2>3, CutKeeps, CutCleans, CutFlushes
  <2>5. /\ catalog' = Recovered(c, 0, stop)
        /\ commits' = commits \cup {catalog'}
        /\ frontiers' = frontiers /\ group' = group /\ proc' = proc
    BY <1>26, <2>2 DEF VerifyIndex, Commit
  <2>6. catalog'.vlen = stop /\ \A r \in catalog'.rows : Clean(r[2])'
    BY <2>1, <2>2, <2>4, <2>5, RecoveredRows
  <2>7. CommitsSafe'
    <3>1. Undeferred' => Undeferred
      BY <2>5 DEF Undeferred
    <3>2. Undeferred => \A d \in commits : Safe(d.vlen)'
      BY <1>1, <2>4, Numbers DEF CommitsSafe, Keeps
    <3> QED
      BY <2>4, <2>5, <2>6, <3>1, <3>2 DEF CommitsSafe
  <2>8. RowsClean' /\ RepairClean'
    BY <2>4, <2>6 DEF RowsClean, RepairClean
  <2>9. \A q \in Procs : ProcInv(q)'
    BY <1>1, <2>4, <2>5, ProcKept
  <2> QED
    BY <1>1, <2>4, <2>5, <2>7, <2>8, <2>9, FrontiersKept, GroupKept DEF PackInv
<1> QED
  BY <1>6, <1>7, <1>8, <1>9, <1>10, <1>11, <1>12, <1>13, <1>14, <1>15, <1>16,
     <1>17, <1>18, <1>19, <1>20, <1>21, <1>22, <1>23, <1>24, <1>25, <1>26
  DEF Next, Open, Capture, GroupCommit

(* A race that has happened stays on record. *)
LEMMA RacesStay ==
    ASSUME [Next]_vars
    PROVE  races \subseteq races'
<1>1. CASE UNCHANGED vars
  BY <1>1 DEF vars
<1>2. ASSUME NEW p \in Procs, Open(p) PROVE races \subseteq races'
  BY <1>2 DEF Open, OpenSettled, OpenRecover, OpenRefused, RepairRefused, RepairRefs,
              Attach, AttachRefused
<1>3. ASSUME NEW p \in Procs, Capture(p) PROVE races \subseteq races'
  BY <1>3 DEF Capture, BeginCapture, PutRecover, PutAppend, PutKnown, CommitBatch,
              Rollback, Publish, VerifyIndex
<1>4. ASSUME NEW p \in Procs, Kill(p) \/ KillInPublish(p) PROVE races \subseteq races'
  BY <1>4 DEF Kill, KillInPublish
<1>5. CASE GroupCommit
  BY <1>5 DEF GroupCommit, GroupSampleRefs, GroupSamplePacks, GroupFlushPacks,
              GroupFlushRefs, GroupRename, GroupSyncDir
<1>6. CASE FoldCatalog \/ PowerLoss
  BY <1>6 DEF FoldCatalog, PowerLoss
<1> QED
  BY <1>1, <1>2, <1>3, <1>4, <1>5, <1>6 DEF Next

(* PackInv is inductive, as long as neither race has happened. *)
Unshaken == races \cap {"kill", "rename"} = {}
PackHolds == Unshaken => PackInv

LEMMA PackInvariant == Spec => []PackHolds
<1>1. Init => PackInv
  <2> SUFFICES ASSUME Init PROVE PackInv
    OBVIOUS
  <2>1. Len(pack) = 0 /\ packSynced = 0 /\ Safe(0) /\ Clean(0)
    BY DEF Init, Safe, Clean
  <2>2. \A p \in Procs : proc[p] = ClosedProcess
    BY DEF Init
  <2>3. \A p \in Procs : ProcInv(p) /\ proc[p].at = "closed"
    BY <2>1, <2>2 DEF ProcInv, ClosedProcess, InBatch
  <2>4. PackPromise /\ CommitsSafe
    BY <2>1 DEF Init, PackPromise, CommitsSafe, NoFrontier, EmptyCatalog, Safe
  <2>5. RowsClean /\ RepairClean /\ GroupClean
    BY <2>3 DEF Init, RowsClean, RepairClean, GroupClean, EmptyCatalog, NoGroup,
                Sampled, Flushed
  <2> QED
    BY <2>3, <2>4, <2>5 DEF PackInv
<1>2. TypeOK /\ TypeOK' /\ PackHolds /\ [Next]_vars => PackHolds'
  <2> SUFFICES ASSUME TypeOK, TypeOK', PackHolds, [Next]_vars, Unshaken'
               PROVE  PackInv'
    BY DEF PackHolds
  <2>1. "kill" \notin races' /\ "rename" \notin races' /\ Unshaken
    BY RacesStay DEF Unshaken
  <2> QED
    BY <2>1, PackStep DEF PackHolds
<1>3. Init => PackHolds
  BY <1>1 DEF PackHolds
<1> QED
  BY <1>2, <1>3, TypeCorrect, PTL DEF Spec

(* The frontier's promise about the pack holds in every instance in which no
   writer is killed inside a record during another's open ("kill") and no
   capture defers on an unflushed first frontier ("rename"): whichever version
   of group-commit.json survives, the pack prefix it names has been flushed and
   is whole.  It rests on the inductive invariant PackInv. *)
THEOREM FrontierPromise == Spec => []FrontierPacks
<1>1. PackHolds => FrontierPacks
  BY DEF PackHolds, PackInv, Unshaken, FrontierPacks
<1> QED
  BY <1>1, PackInvariant, PTL

(* With a frontier on disk, recovering the pack never gives up: the errors
   "durable object pack prefix was lost" and "... is corrupt" cannot happen. *)
PackAccepted == frontier.exists => ~RecoverRefused(catalog)
PackOpens == races \cap {"kill", "rename"} = {} => PackAccepted

(* What the frontier promises is enough for recovery. *)
LEMMA AcceptedByFrontier ==
    ASSUME TypeOK, PackPromise
    PROVE  PackAccepted
<1> SUFFICES ASSUME frontier.exists, RecoverRefused(catalog)
             PROVE  FALSE
  BY DEF PackAccepted
<1>1. /\ Clean(frontier.pack) /\ frontier.pack \in Nat /\ Len(pack) \in Nat
      /\ ScanBase(catalog) \in Nat
  BY Numbers, ScanBaseType DEF PackPromise
<1>2. PICK stop \in ScanBase(catalog)..Len(pack) :
         /\ ScanStops(ScanBase(catalog), stop)
         /\ stop < Len(pack)
         /\ MayRefuse(stop)
  BY <1>1 DEF RecoverRefused, Clean
<1>3. stop < frontier.pack /\ pack[stop + 1] \in Damaged
  BY <1>2 DEF MayRefuse, ScanStops
<1>4. stop + 1 \in 1..frontier.pack
  BY <1>1, <1>3
<1> QED
  BY <1>1, <1>3, <1>4 DEF Clean

(* Under the same assumption every open of a store that has a frontier gets
   past recover_pack_under_catalog_lock, after any sequence of kills and power
   losses; so does a capture that recovers inside its transaction. *)
THEOREM RecoveryNeverGivesUp == Spec => []PackOpens
<1>1. TypeOK /\ FrontierPacks => PackOpens
  BY AcceptedByFrontier DEF FrontierPacks, PackOpens
<1> QED
  BY <1>1, TypeCorrect, FrontierPromise, PTL

-----------------------------------------------------------------------------
(* References and the objects they need *)

(* o lies in the whole part of the pack, and in the part of it that is flushed. *)
Whole(o) == \E k \in 1..Len(pack) : pack[k] = o /\ Clean(k)
Lasting(o) == \E k \in 1..packSynced : pack[k] = o /\ Clean(k)

(* The snapshots that are in the log or about to be. *)
Logged == {refs[i] : i \in 1..Len(refs)} \ Damaged
Publishing == {proc[p].snap : p \in {q \in Procs : proc[q].at = "publish"}}
Published == Logged \cup Publishing

(* A snapshot lies behind its blob. *)
Ordered == \A i \in 1..Len(pack) : Clean(i) =>
              \E j \in 1..i : pack[j] = BlobOf(pack[i].blob)

(* Snapshots are numbered as their captures begin. *)
Numbered == \A i \in 1..Len(pack) : pack[i] \in Object => pack[i].n <= captures

(* Once recovered, only the last record can be damaged, by a kill. *)
TailTorn == Up => \A i \in 1..Len(pack) :
                     pack[i] \in Damaged => i = Len(pack) /\ pack[i] = Torn

-----------------------------------------------------------------------------
(* Catalog states *)

(* The rows of c name what lies in the whole part of the pack, where the
   checkpoint lies too. *)
Firm(c) == /\ \A r \in c.rows : r[2] > 0 /\ Clean(r[2]) /\ pack[r[2]] = r[1]
           /\ Clean(c.vlen)

(* What a power loss may leave of that: rows beyond the end and at damaged
   records. *)
Weak(c) == \A r \in c.rows :
              r[2] > 0 /\ (r[2] <= Len(pack) => pack[r[2]] \in {r[1]} \cup Damaged)

(* The stat cache names only blobs that have a row. *)
Cached(c) == \A b \in c.cache : HasRow(c, BlobOf(b))

(* A published snapshot under the checkpoint has a row: records without one
   are those of captures that were rolled back. *)
Counted(c) == \A k \in 1..Len(pack) :
                 k <= c.vlen /\ pack[k] \in Published => HasRow(c, pack[k])

(* o has a row or lies under the checkpoint, where a scan finds it. *)
Found(c, o) == HasRow(c, o) \/ \E k \in 1..Len(pack) : k <= c.vlen /\ pack[k] = o

(* What is published and whole can be found from c. *)
Leads(c) == \A s \in Published :
               Whole(s) => HasRow(c, s) /\ Found(c, BlobOf(s.blob))

(* A state that the next power loss may fall back to. *)
Admissible(c) == c # fallen \/ c = catalog

CommitsInv ==
    \A c \in commits : /\ Cached(c)
                       /\ Admissible(c) => Weak(c) /\ Counted(c)
                       /\ c # fallen \/ (Up /\ c = catalog) => Firm(c)

FoundInv == Up => Leads(catalog)

-----------------------------------------------------------------------------
(* Processes and the log *)

(* The transaction of a capture knows all that the catalog knows; the snapshot
   is new until it is appended, as the last record. *)
BatchInv(p) == proc[p].at \in InBatch =>
    /\ Firm(proc[p].txn) /\ Cached(proc[p].txn) /\ Leads(proc[p].txn)
    /\ proc[p].snap.n \in 1..captures
    /\ proc[p].deferred => ~SyncPublishing
    /\ proc[p].at \in {"blob", "snap"} =>
          \A i \in 1..Len(pack) : pack[i] # proc[p].snap
    /\ proc[p].at \in {"snap", "commit"} =>
          HasRow(proc[p].txn, BlobOf(proc[p].snap.blob))
    /\ proc[p].at = "commit" =>
          /\ HasRow(proc[p].txn, proc[p].snap)
          /\ proc[p].start < proc[p].end
          /\ proc[p].end = Len(pack) /\ proc[p].known = Len(pack)
          /\ \A i \in 1..(Len(pack) - 1) : pack[i] # proc[p].snap
          /\ \A c \in commits : Admissible(c) => c.vlen < Len(pack)

OneBatch == \A p, q \in Procs :
               proc[p].at \in InBatch /\ proc[q].at \in InBatch => p = q

(* Once somebody has repaired the log, what it names is there. *)
Mended == opened \/ \E p \in Procs : proc[p].at \in Live
MendedInv == Mended => \A s \in Published : Whole(s)

(* While a power loss could leave the store without a frontier, and while a
   synchronous capture is about to publish, what is published is flushed. *)
Solid == Undeferred \/ SyncPublishing
SolidInv ==
    /\ Solid => \A s \in Published : Lasting(s) /\ Lasting(BlobOf(s.blob))
    /\ Undeferred => \A p \in Procs : proc[p].at = "publish" => ~proc[p].deferred

(* What was reported durable is in the flushed part of the log, with all it
   needs in the flushed part of the pack. *)
AckedInv ==
    /\ Len(acked) <= refsSynced
    /\ \A i \in 1..Len(acked) :
          /\ refs[i] = acked[i] /\ acked[i] \in Object
          /\ Lasting(acked[i]) /\ Lasting(BlobOf(acked[i].blob))

(* The references a group commit has counted are whole; once it has sampled
   the packs, their objects lie below that sample; then they are flushed. *)
GroupRefs == group.at # "idle" =>
    /\ group.refs <= Len(refs)
    /\ \A i \in 1..group.refs : refs[i] \in Object /\ Whole(refs[i])
    /\ group.at \in Sampled =>
          \A i \in 1..group.refs : \A o \in Needs(refs[i]) :
             \E k \in 1..group.pack : pack[k] = o
    /\ group.at \in {"rename", "syncDir"} => group.refs <= refsSynced
    /\ \A i \in 1..Len(refs) : refs[i] # Garbage

(* Only the last frame can be torn; no frame of an opened log is damaged
   otherwise, nor of one that was repaired under a frontier. *)
LogInv ==
    /\ \A i \in 1..Len(refs) : refs[i] = Torn => i = Len(refs)
    /\ opened \/ (frontier.exists /\ \E p \in Procs : proc[p].at \in Live)
          => \A i \in 1..Len(refs) : refs[i] # Garbage
    /\ \A p \in Procs : proc[p].at \in Live \ {"attach"} => opened

-----------------------------------------------------------------------------
(* What a step does to the pack *)

(* It keeps the whole part and what of it is flushed. *)
Holds == \A k \in Nat : Clean(k) => /\ Clean(k)'
                                    /\ k > 0 => pack'[k] = pack[k]
                                    /\ k <= packSynced => k <= packSynced'

(* Flushing the pack keeps it. *)
LEMMA SameHolds ==
    ASSUME TypeOK, pack' = pack,
           packSynced' = packSynced \/ packSynced' = Len(pack)
    PROVE  Holds
  BY DEF Holds, Clean, TypeOK

(* So does appending a record. *)
LEMMA AppendHolds ==
    ASSUME TypeOK, NEW e, pack' = Append(pack, e), packSynced' = packSynced
    PROVE  /\ Holds /\ Len(pack') = Len(pack) + 1 /\ pack'[Len(pack) + 1] = e
           /\ \A i \in 1..Len(pack) : pack'[i] = pack[i]
<1>1. /\ pack \in Seq(Entry) /\ Len(pack) \in Nat /\ Len(pack') = Len(pack) + 1
      /\ \A i \in 1..Len(pack) : pack'[i] = pack[i]
      /\ pack'[Len(pack) + 1] = e
  BY DEF TypeOK
<1> QED
  BY <1>1 DEF Holds, Clean

(* So does recovery, which cuts behind the whole part. *)
LEMMA CutHolds ==
    ASSUME TypeOK, NEW c \in Catalog, NEW stop \in ScanBase(c)..Len(pack),
           RecoverPack(c, stop)
    PROVE  /\ Holds /\ stop \in Nat /\ stop <= Len(pack) /\ Len(pack') = stop
           /\ \A i \in 1..stop : pack'[i] = pack[i]
<1>1. /\ pack \in Seq(Entry) /\ packSynced \in Nat /\ packSynced <= Len(pack)
      /\ stop \in Nat /\ stop <= Len(pack)
  BY ScanBaseType DEF TypeOK
<1>2. Len(pack') = stop /\ \A i \in 1..stop : pack'[i] = pack[i]
  BY <1>1, RecoverPackType
<1>3. Keeps
  BY CutKeeps
<1>4. ASSUME NEW k \in Nat, Clean(k)
      PROVE  /\ Clean(k)' /\ (k > 0 => pack'[k] = pack[k])
             /\ (k <= packSynced => k <= packSynced')
  <2>1. Clean(k)' /\ (Safe(k) => Safe(k)')
    BY <1>3, <1>4 DEF Keeps
  <2>2. k <= stop
    BY <1>2, <2>1 DEF Clean
  <2> QED
    BY <1>2, <1>4, <2>1, <2>2 DEF Safe
<1> QED
  BY <1>1, <1>2, <1>4 DEF Holds

(* The lengths of the pack. *)
LEMMA PackNumbers ==
    ASSUME TypeOK
    PROVE  /\ pack \in Seq(Entry) /\ Len(pack) \in Nat
           /\ packSynced \in Nat /\ packSynced <= Len(pack)
  BY DEF TypeOK

LEMMA PackNumbersNext ==
    ASSUME TypeOK'
    PROVE  /\ pack' \in Seq(Entry) /\ Len(pack') \in Nat
           /\ packSynced' \in Nat /\ packSynced' <= Len(pack')
  BY DEF TypeOK

(* What lies in the whole part stays there. *)
LEMMA WholeHeld ==
    ASSUME TypeOK, TypeOK', Holds, NEW o
    PROVE  (Whole(o) => Whole(o)') /\ (Lasting(o) => Lasting(o)')
<1>1. /\ Len(pack) \in Nat /\ Len(pack') \in Nat
      /\ packSynced \in Nat /\ packSynced' \in Nat
  BY PackNumbers, PackNumbersNext
<1>2. ASSUME NEW k \in Nat, k > 0, Clean(k)
      PROVE  /\ k \in 1..Len(pack') /\ pack'[k] = pack[k] /\ Clean(k)'
             /\ (k <= packSynced => k \in 1..packSynced')
  <2>1. Clean(k)' /\ pack'[k] = pack[k] /\ (k <= packSynced => k <= packSynced')
    BY <1>2 DEF Holds
  <2>2. k <= Len(pack')
    BY <2>1 DEF Clean
  <2> QED
    BY <1>1, <1>2, <2>1, <2>2
<1>3. Whole(o) => Whole(o)'
  BY <1>1, <1>2 DEF Whole
<1>4. Lasting(o) => Lasting(o)'
  BY <1>1, <1>2 DEF Lasting
<1> QED
  BY <1>3, <1>4

(* What is flushed and whole is whole. *)
LEMMA LastingIsWhole ==
    ASSUME TypeOK, NEW o, Lasting(o)
    PROVE  Whole(o)
  BY DEF Lasting, Whole, TypeOK

(* The blob of a whole snapshot is whole, and as durable. *)
LEMMA BlobWhole ==
    ASSUME TypeOK, Ordered, NEW o
    PROVE  /\ Whole(o) => Whole(BlobOf(o.blob))
           /\ Lasting(o) => Lasting(BlobOf(o.blob))
<1>1. Len(pack) \in Nat /\ packSynced \in Nat /\ packSynced <= Len(pack)
      /\ pack \in Seq(Entry)
  BY DEF TypeOK
<1>2. ASSUME NEW k \in 1..Len(pack), Clean(k)
      PROVE  \E j \in 1..k : pack[j] = BlobOf(pack[k].blob) /\ Clean(j)
  <2>1. PICK j \in 1..k : pack[j] = BlobOf(pack[k].blob)
    BY <1>2 DEF Ordered
  <2>2. Clean(j)
    BY <1>1, <1>2, CleanMono
  <2> QED
    BY <2>1, <2>2
<1>3. Whole(o) => Whole(BlobOf(o.blob))
  <2> SUFFICES ASSUME Whole(o) PROVE Whole(BlobOf(o.blob))
    OBVIOUS
  <2>1. PICK k \in 1..Len(pack) : pack[k] = o /\ Clean(k)
    BY DEF Whole
  <2>2. PICK j \in 1..k : pack[j] = BlobOf(pack[k].blob) /\ Clean(j)
    BY <1>2, <2>1
  <2> QED
    BY <1>1, <2>1, <2>2 DEF Whole
<1>4. Lasting(o) => Lasting(BlobOf(o.blob))
  <2> SUFFICES ASSUME Lasting(o) PROVE Lasting(BlobOf(o.blob))
    OBVIOUS
  <2>1. PICK k \in 1..packSynced : pack[k] = o /\ Clean(k)
    BY DEF Lasting
  <2>2. PICK j \in 1..k : pack[j] = BlobOf(pack[k].blob) /\ Clean(j)
    BY <1>1, <1>2, <2>1
  <2> QED
    BY <1>1, <2>1, <2>2 DEF Lasting
<1> QED
  BY <1>3, <1>4

-----------------------------------------------------------------------------
(* Catalog states *)

(* Positions in a catalog are numbers. *)
LEMMA CatalogNumbers ==
    ASSUME NEW c \in Catalog
    PROVE  c.vlen \in Nat /\ \A r \in c.rows : r[2] \in Nat
  BY DEF Catalog, Row

(* Rows in the whole part of the pack stay true. *)
LEMMA FirmHeld ==
    ASSUME Holds, NEW c \in Catalog, Firm(c)
    PROVE  Firm(c)'
  BY CatalogNumbers DEF Firm, Holds

LEMMA FirmIsWeak ==
    ASSUME NEW c, Firm(c)
    PROVE  Weak(c)
  BY DEF Firm, Weak

(* What has a true row is whole. *)
LEMMA FirmWhole ==
    ASSUME TypeOK, NEW c \in Catalog, Firm(c), NEW o, HasRow(c, o)
    PROVE  Whole(o)
<1>1. PICK r \in c.rows : r[1] = o
  BY DEF HasRow
<1>2. /\ r[2] \in Nat /\ r[2] > 0 /\ Clean(r[2]) /\ pack[r[2]] = o
      /\ Len(pack) \in Nat
  BY <1>1, CatalogNumbers DEF Firm, TypeOK
<1>3. r[2] \in 1..Len(pack)
  BY <1>2 DEF Clean
<1> QED
  BY <1>2, <1>3 DEF Whole

(* No published snapshot becomes whole. *)
WholeBack == \A s \in Published : Whole(s)' => Whole(s)

(* What could be found stays to be found. *)
LEMMA LeadsHeld ==
    ASSUME TypeOK, TypeOK', Holds, NEW c \in Catalog, Firm(c), Leads(c),
           Published' \subseteq Published, WholeBack
    PROVE  Leads(c)'
<1>1. /\ c.vlen \in Nat /\ Clean(c.vlen) /\ pack \in Seq(Entry)
      /\ Len(pack) \in Nat /\ Len(pack') \in Nat
  BY CatalogNumbers, PackNumbers, PackNumbersNext DEF Firm
<1>2. ASSUME NEW o, Found(c, o)
      PROVE  Found(c, o)'
  <2>1. CASE HasRow(c, o)
    BY <2>1 DEF Found
  <2>2. ASSUME NEW k \in 1..Len(pack), k <= c.vlen, pack[k] = o
        PROVE  Found(c, o)'
    <3>1. Clean(k)
      BY <1>1, <2>2, CleanMono
    <3>2. Clean(k)' /\ pack'[k] = o
      BY <2>2, <3>1 DEF Holds
    <3>3. k \in 1..Len(pack')
      BY <1>1, <3>2 DEF Clean
    <3> QED
      BY <2>2, <3>2, <3>3 DEF Found
  <2> QED
    BY <1>2, <2>1, <2>2 DEF Found
<1>3. ASSUME NEW s \in Published', Whole(s)'
      PROVE  HasRow(c, s) /\ Found(c, BlobOf(s.blob))
  BY <1>3 DEF Leads, WholeBack
<1> QED
  BY <1>2, <1>3 DEF Leads

LEMMA FirmIsCounted ==
    ASSUME TypeOK, NEW c \in Catalog, Firm(c), Leads(c)
    PROVE  Counted(c)
<1> SUFFICES ASSUME NEW k \in 1..Len(pack), k <= c.vlen, pack[k] \in Published
             PROVE  HasRow(c, pack[k])
  BY DEF Counted
<1>1. /\ c.vlen \in Nat /\ Clean(c.vlen) /\ pack \in Seq(Entry)
  BY CatalogNumbers DEF Firm, TypeOK
<1>2. Clean(k)
  BY <1>1, CleanMono
<1>3. Whole(pack[k])
  BY <1>2 DEF Whole
<1> QED
  BY <1>3 DEF Leads

LEMMA CountedHeld ==
    ASSUME TypeOK, TypeOK', Holds, NEW c \in Catalog, Firm(c), Counted(c),
           Published' \subseteq Published
    PROVE  Counted(c)'
<1> SUFFICES ASSUME NEW k \in 1..Len(pack'), k <= c.vlen, pack'[k] \in Published'
             PROVE  HasRow(c, pack'[k])
  BY DEF Counted
<1>1. /\ c.vlen \in Nat /\ Clean(c.vlen) /\ pack \in Seq(Entry)
      /\ Len(pack) \in Nat /\ Len(pack') \in Nat
  BY CatalogNumbers, PackNumbers, PackNumbersNext DEF Firm
<1>2. Clean(k) /\ k \in Nat /\ k > 0
  BY <1>1, CleanMono
<1>3. pack'[k] = pack[k] /\ k \in 1..Len(pack)
  BY <1>1, <1>2 DEF Holds, Clean
<1> QED
  BY <1>3 DEF Counted

-----------------------------------------------------------------------------
(* What recovery makes of a catalog *)

(* The first of equal records after base. *)
LEMMA FirstRecord ==
    ASSUME NEW base \in Nat, NEW k \in Nat, base < k, pack \in Seq(Entry)
    PROVE  \E j \in (base + 1)..k :
              pack[j] = pack[k] /\ \A i \in (base + 1)..(j - 1) : pack[i] # pack[k]
<1> DEFINE T == {j \in Nat : j > base /\ j <= k /\ pack[j] = pack[k]}
           R == OpToRel(<, Nat)
<1>1. IsWellFoundedOn(R, Nat)
  BY NatLessThanWellFounded
<1>2. \A a, b \in Nat : a < b => <<a, b>> \in R
  BY DEF OpToRel
<1>3. T \subseteq Nat /\ k \in T
  OBVIOUS
<1> HIDE DEF R
<1>4. PICK j \in T : \A i \in T : ~(<<i, j>> \in R)
  <2> HIDE DEF T
  <2>1. T # {}
    BY <1>3
  <2> QED
    BY <1>1, <1>3, <2>1, WFMin, Zenon
<1>5. j \in (base + 1)..k /\ pack[j] = pack[k]
  BY <1>4
<1>6. ASSUME NEW i \in (base + 1)..(j - 1) PROVE pack[i] # pack[k]
  <2>1. i \in Nat /\ i < j /\ <<i, j>> \in R
    BY <1>2, <1>5
  <2>2. i \notin T
    BY <1>4, <2>1
  <2> QED
    BY <1>5, <2>1, <2>2
<1> QED
  BY <1>5, <1>6

(* From a catalog that a power loss may have left, recovery makes one whose
   rows are true, whose checkpoint is the end of the pack, and that leads to
   all that is published and whole. *)
LEMMA RecoveredGood ==
    ASSUME TypeOK, TypeOK', Ordered, NEW c \in Catalog,
           NEW stop \in ScanBase(c)..Len(pack), RecoverPack(c, stop),
           Clean(ScanBase(c)), Weak(c), Counted(c),
           \A b \in c.cache :
              HasRow(c, BlobOf(b)) \/ (c.vlen = 0 /\ Whole(BlobOf(b))),
           Published' \subseteq Published,
           NEW d, d = Recovered(c, ScanBase(c), stop)
    PROVE  /\ d \in Catalog /\ d.vlen = stop
           /\ Firm(d)' /\ Cached(d) /\ Counted(d)' /\ Leads(d)'
           /\ \A o : Firm(c) /\ HasRow(c, o) => HasRow(d, o)
<1> DEFINE base == ScanBase(c)
           kept == {r \in c.rows : r[2] <= base}
<1>1. /\ pack \in Seq(Entry) /\ Len(pack) \in Nat /\ stop \in Nat /\ base \in Nat
      /\ base <= stop /\ stop <= Len(pack) /\ c.vlen \in Nat
      /\ base \in {0, c.vlen} /\ \A r \in c.rows : r[2] \in Nat
  <2>1. base \in Nat /\ base \in {0, c.vlen}
    BY ScanBaseType
  <2> HIDE DEF base
  <2> QED
    BY <2>1, CatalogNumbers, PackNumbers DEF base
<1>2. /\ Holds /\ Len(pack') = stop /\ \A i \in 1..stop : pack'[i] = pack[i]
  BY CutHolds
<1>3. Clean(stop)'
  BY CutCleans
<1>4. \A i \in 1..stop : pack[i] \notin Damaged /\ Clean(i)' /\ Clean(i)
  BY <1>1, <1>2, <1>3 DEF Clean
<1>5. base = 0 \/ (base = c.vlen /\ kept = c.rows)
  BY <1>1 DEF ScanBase, CheckpointValid, RowsBeyond
<1>6. \A r \in c.rows : r[2] <= stop => /\ r[2] \in 1..stop
                                        /\ pack[r[2]] = r[1]
  BY <1>1, <1>4 DEF Weak
<1>7. /\ d \in Catalog /\ d.rows = ScannedRows(c, base, stop) /\ d.vlen = stop
      /\ d.cache = IF RowsBeyond(c, Len(pack)) \/ stop < Len(pack)
                   THEN {} ELSE c.cache
  <2>1. ScanStops(base, stop)
    BY DEF RecoverPack
  <2>2. d \in Catalog
    BY <1>1, <2>1, RecoveredType
  <2> QED
    BY <2>2 DEF Recovered
<1>8. kept \subseteq d.rows
  BY <1>7 DEF ScannedRows
<1>9. \A r \in d.rows : r \in kept \/ \E i \in (base + 1)..stop : r = <<pack[i], i>>
  BY <1>7 DEF ScannedRows
<1>10. ASSUME NEW k \in (base + 1)..stop
       PROVE  HasRow(d, pack[k])
  <2>1. CASE \E r \in kept : r[1] = pack[k]
    BY <1>8, <2>1 DEF HasRow
  <2>2. CASE \A r \in kept : r[1] # pack[k]
    <3>1. k \in Nat /\ base < k
      BY <1>1
    <3>2. PICK j \in (base + 1)..k :
             /\ pack[j] = pack[k]
             /\ \A i \in (base + 1)..(j - 1) : pack[i] # pack[k]
      BY <1>1, <3>1, FirstRecord
    <3>3. j \in (base + 1)..stop
      BY <1>1
    <3>4. <<pack[j], j>> \in d.rows
      BY <1>7, <2>2, <3>2, <3>3 DEF ScannedRows
    <3> QED
      BY <3>2, <3>4 DEF HasRow
  <2> QED
    BY <2>1, <2>2
<1>11. Firm(d)'
  <2>1. ASSUME NEW r \in d.rows
        PROVE  r[2] > 0 /\ Clean(r[2])' /\ pack'[r[2]] = r[1]
    <3>1. CASE r \in kept
      <4>1. r[2] \in 1..stop /\ pack[r[2]] = r[1]
        BY <1>1, <1>6, <3>1
      <4> QED
        BY <1>2, <1>4, <4>1
    <3>2. ASSUME NEW i \in (base + 1)..stop, r = <<pack[i], i>>
          PROVE  r[2] > 0 /\ Clean(r[2])' /\ pack'[r[2]] = r[1]
      <4>1. i \in 1..stop /\ i > 0
        BY <1>1
      <4> QED
        BY <1>2, <1>4, <3>2, <4>1
    <3> QED
      BY <1>9, <3>1, <3>2
  <2> QED
    BY <1>3, <1>7, <2>1 DEF Firm
<1>12. \A o : kept = c.rows /\ HasRow(c, o) => HasRow(d, o)
  BY <1>8 DEF HasRow
<1>13. Cached(d)
  <2> SUFFICES ASSUME NEW b \in d.cache PROVE HasRow(d, BlobOf(b))
    BY DEF Cached
  <2>1. b \in c.cache /\ ~RowsBeyond(c, Len(pack)) /\ stop = Len(pack)
    BY <1>1, <1>7
  <2>2. CASE HasRow(c, BlobOf(b)) /\ base = 0
    <3>1. PICK r \in c.rows : r[1] = BlobOf(b)
      BY <2>2 DEF HasRow
    <3>2. r[2] <= stop
      BY <1>1, <2>1 DEF RowsBeyond
    <3>3. r[2] \in (base + 1)..stop /\ pack[r[2]] = BlobOf(b)
      BY <1>1, <1>6, <2>2, <3>1, <3>2
    <3> QED
      BY <1>10, <3>3
  <2>3. CASE HasRow(c, BlobOf(b)) /\ base # 0
    BY <1>5, <1>12, <2>3
  <2>4. CASE c.vlen = 0 /\ Whole(BlobOf(b))
    <3>1. base = 0
      BY <1>1, <2>4
    <3>2. PICK k \in 1..Len(pack) : pack[k] = BlobOf(b)
      BY <2>4 DEF Whole
    <3> QED
      BY <1>1, <1>10, <2>1, <3>1, <3>2
  <2> QED
    BY <2>1, <2>2, <2>3, <2>4
<1>14. ASSUME NEW k \in 1..stop, pack[k] \in Published
       PROVE  HasRow(d, pack[k])
  <2>1. CASE k > base
    BY <1>1, <1>10, <2>1
  <2>2. CASE k <= base
    <3>1. base = c.vlen /\ kept = c.rows
      BY <1>1, <1>5, <2>2
    <3>2. HasRow(c, pack[k])
      BY <1>1, <1>14, <2>2, <3>1 DEF Counted
    <3> QED
      BY <1>12, <3>1, <3>2
  <2> QED
    BY <1>1, <2>1, <2>2
<1>15. Counted(d)'
  BY <1>2, <1>14 DEF Counted
<1>16. Leads(d)'
  <2> SUFFICES ASSUME NEW s \in Published', Whole(s)'
               PROVE  HasRow(d, s) /\ Found(d, BlobOf(s.blob))'
    BY DEF Leads
  <2>1. PICK k \in 1..Len(pack') : pack'[k] = s
    BY DEF Whole
  <2>2. k \in 1..stop /\ pack[k] = s /\ Clean(k)
    BY <1>2, <1>4, <2>1
  <2>3. HasRow(d, s)
    BY <1>14, <2>2
  <2>4. PICK j \in 1..k : pack[j] = BlobOf(s.blob)
    BY <1>1, <2>2 DEF Ordered
  <2>5. j \in 1..Len(pack') /\ j <= d.vlen /\ pack'[j] = BlobOf(s.blob)
    BY <1>1, <1>2, <1>7, <2>2, <2>4
  <2> QED
    BY <2>3, <2>5 DEF Found
<1>17. ASSUME NEW o, Firm(c), HasRow(c, o)
       PROVE  HasRow(d, o)
  <2>1. CASE base # 0
    BY <1>5, <1>12, <1>17, <2>1
  <2>2. CASE base = 0
    <3>1. PICK r \in c.rows : r[1] = o
      BY <1>17 DEF HasRow
    <3>2. r[2] > 0 /\ Clean(r[2]) /\ pack[r[2]] = o /\ r[2] \in Nat
      BY <1>1, <1>17, <3>1 DEF Firm
    <3>3. r[2] <= stop
      BY <1>2, <3>2 DEF Holds, Clean
    <3> QED
      BY <1>1, <1>10, <2>2, <3>2, <3>3
  <2> QED
    BY <2>1, <2>2
<1> QED
  BY <1>7, <1>11, <1>13, <1>15, <1>16, <1>17

-----------------------------------------------------------------------------
(* Steps that leave the objects alone *)

StoreInv == /\ Ordered /\ Numbered /\ TailTorn /\ CommitsInv /\ FoundInv
            /\ (\A p \in Procs : BatchInv(p)) /\ OneBatch
LogParts == /\ MendedInv /\ SolidInv /\ AckedInv /\ RefPromise /\ GroupRefs
            /\ LogInv

(* A value is the same under two names. *)
LEMMA CatalogNamed ==
    ASSUME NEW c, catalog' = c
    PROVE  (Firm(catalog)' <=> Firm(c)') /\ (Leads(catalog)' <=> Leads(c)')
  BY DEF Firm, Leads, Found

LEMMA TxnNamed ==
    ASSUME NEW p \in Procs, NEW c, proc'[p].txn = c
    PROVE  (Firm(proc[p].txn)' <=> Firm(c)') /\ (Leads(proc[p].txn)' <=> Leads(c)')
  BY DEF Firm, Leads, Found

(* A catalog sees the same pack. *)
LEMMA SameCatalog ==
    ASSUME NEW c, pack' = pack, Published' \subseteq Published
    PROVE  /\ Firm(c)' <=> Firm(c)
           /\ Weak(c)' <=> Weak(c)
           /\ Leads(c) => Leads(c)'
           /\ Counted(c) => Counted(c)'
<1>1. \A k : Clean(k)' <=> Clean(k)
  BY DEF Clean
<1>2. \A o : (Whole(o)' <=> Whole(o)) /\ (Found(c, o)' <=> Found(c, o))
  BY <1>1 DEF Whole, Found
<1>3. Firm(c)' <=> Firm(c)
  BY <1>1 DEF Firm
<1>4. Weak(c)' <=> Weak(c)
  BY DEF Weak
<1>5. Leads(c) => Leads(c)'
  BY <1>2 DEF Leads
<1>6. Counted(c) => Counted(c)'
  BY DEF Counted
<1> QED
  BY <1>3, <1>4, <1>5, <1>6

(* The transaction of a capture that another process leaves alone. *)
LEMMA BatchKept ==
    ASSUME NEW q \in Procs, BatchInv(q), proc'[q] = proc[q], pack' = pack,
           Published' \subseteq Published,
           captures \in Nat, captures' \in Nat, captures <= captures',
           SyncPublishing' => SyncPublishing,
           \A c \in commits' : Admissible(c)' => c \in commits /\ Admissible(c)
    PROVE  BatchInv(q)'
<1> SUFFICES ASSUME proc[q].at \in InBatch PROVE BatchInv(q)'
  BY DEF BatchInv
<1>1. PICK c : c = proc[q].txn
  OBVIOUS
<1>2. Firm(c) /\ Leads(c) /\ Cached(c)
  BY <1>1 DEF BatchInv
<1>3. Firm(c)' /\ Leads(c)' /\ proc'[q].txn = c
  BY <1>1, <1>2, SameCatalog
<1>4. Firm(proc[q].txn)' /\ Leads(proc[q].txn)'
  BY <1>3, TxnNamed
<1>5. Cached(proc'[q].txn)
  BY <1>2, <1>3
<1>6. proc'[q].snap.n \in 1..captures' /\ (proc'[q].deferred => ~SyncPublishing')
  BY DEF BatchInv
<1>7. /\ proc'[q].at \in {"blob", "snap"} =>
            \A i \in 1..Len(pack') : pack'[i] # proc'[q].snap
      /\ proc'[q].at \in {"snap", "commit"} =>
            HasRow(proc'[q].txn, BlobOf(proc'[q].snap.blob))
  BY DEF BatchInv
<1>8. proc'[q].at = "commit" =>
          /\ HasRow(proc'[q].txn, proc'[q].snap)
          /\ proc'[q].start < proc'[q].end
          /\ proc'[q].end = Len(pack') /\ proc'[q].known = Len(pack')
          /\ \A i \in 1..(Len(pack') - 1) : pack'[i] # proc'[q].snap
          /\ \A d \in commits' : Admissible(d)' => d.vlen < Len(pack')
  BY DEF BatchInv
<1> QED
  BY <1>4, <1>5, <1>6, <1>7, <1>8 DEF BatchInv

(* A step that does not touch the pack or the catalog, ... *)
SameStore == /\ pack' = pack /\ UNCHANGED <<catalog, commits, fallen>>
             /\ Published' \subseteq Published
             /\ captures \in Nat /\ captures' \in Nat /\ captures <= captures'
             /\ Up' => Up
             /\ SyncPublishing' => SyncPublishing

(* ... nor a transaction. *)
Still == /\ SameStore
         /\ \A q \in Procs : proc'[q].at \in InBatch => proc'[q] = proc[q]

(* Such a step keeps the catalog true. *)
LEMMA SameStoreKeeps ==
    ASSUME TypeOK, StoreInv, SameStore
    PROVE  /\ Ordered' /\ Numbered' /\ TailTorn' /\ CommitsInv' /\ FoundInv'
           /\ \A c : Admissible(c)' <=> Admissible(c)
<1> USE DEF StoreInv
<1>1. Ordered' /\ Numbered' /\ TailTorn'
  <2>1. /\ pack' = pack /\ captures \in Nat /\ captures' \in Nat
        /\ captures <= captures' /\ (Up' => Up)
    BY DEF SameStore
  <2>2. \A k : Clean(k)' <=> Clean(k)
    BY <2>1 DEF Clean
  <2>3. Ordered' /\ TailTorn'
    BY <2>1, <2>2 DEF Ordered, TailTorn
  <2>4. Numbered'
    BY <2>1 DEF Numbered, Object
  <2> QED
    BY <2>3, <2>4
<1>2. \A c : Admissible(c)' <=> Admissible(c)
  BY DEF SameStore, Admissible
<1>3. CommitsInv'
  <2> SUFFICES ASSUME NEW c \in commits
               PROVE  /\ Cached(c)
                      /\ Admissible(c)' => Weak(c)' /\ Counted(c)'
                      /\ c # fallen' \/ (Up' /\ c = catalog') => Firm(c)'
    BY DEF SameStore, CommitsInv
  <2>1. /\ Cached(c) /\ (Admissible(c) => Weak(c) /\ Counted(c))
        /\ c # fallen \/ (Up /\ c = catalog) => Firm(c)
    BY DEF CommitsInv
  <2>2. /\ Firm(c)' <=> Firm(c)
        /\ Weak(c)' <=> Weak(c)
        /\ Counted(c) => Counted(c)'
    BY SameCatalog DEF SameStore
  <2> QED
    BY <1>2, <2>1, <2>2 DEF SameStore
<1>4. FoundInv'
  <2>1. PICK c : c = catalog
    OBVIOUS
  <2>2. Up' => Leads(c)'
    BY <2>1, SameCatalog DEF SameStore, FoundInv
  <2> QED
    BY <2>1, <2>2, CatalogNamed DEF SameStore, FoundInv
<1> QED
  BY <1>1, <1>2, <1>3, <1>4

(* Such a step keeps the catalog and the transactions true. *)
LEMMA StillStore ==
    ASSUME TypeOK, StoreInv, Still
    PROVE  StoreInv'
<1>1. SameStore /\ \A c : Admissible(c)' <=> Admissible(c)
  BY SameStoreKeeps DEF Still
<1>2. ASSUME NEW q \in Procs PROVE BatchInv(q)'
  <2>1. CASE proc'[q].at \notin InBatch
    BY <2>1 DEF BatchInv
  <2>2. CASE proc'[q].at \in InBatch
    BY <1>1, <2>2, BatchKept DEF Still, SameStore, StoreInv
  <2> QED
    BY <2>1, <2>2
<1>3. OneBatch'
  BY DEF Still, OneBatch, StoreInv
<1> QED
  BY <1>1, <1>2, <1>3, SameStoreKeeps DEF StoreInv

-----------------------------------------------------------------------------
(* Steps that keep the log *)

(* The lengths of the log. *)
LEMMA RefsNumbers ==
    ASSUME TypeOK
    PROVE  /\ refs \in Seq(Entry) /\ Len(refs) \in Nat /\ refsSynced \in Nat
           /\ refsSynced <= Len(refs) /\ acked \in Seq(Entry) /\ Len(acked) \in Nat
           /\ \A i \in 1..Len(refs) : refs[i] \in Entry
  BY DEF TypeOK

LEMMA RefsNumbersNext ==
    ASSUME TypeOK'
    PROVE  /\ refs' \in Seq(Entry) /\ Len(refs') \in Nat /\ refsSynced' \in Nat
           /\ refsSynced' <= Len(refs')
  BY DEF TypeOK

(* The first n references are whole, and so is what they name. *)
Good(n) == n <= Len(refs) /\ \A i \in 1..n : refs[i] \in Object /\ Whole(refs[i])

(* They stay where they are, and flushed if they were. *)
Stays(n) == /\ n <= Len(refs') /\ \A i \in 1..n : refs'[i] = refs[i]
            /\ n <= refsSynced => n <= refsSynced'

LogKept == \A n \in Nat : Good(n) => Stays(n)

NoNewGarbage == (\A i \in 1..Len(refs) : refs[i] # Garbage)
                   => \A i \in 1..Len(refs') : refs'[i] # Garbage

(* What was reported durable is whole, and flushed. *)
LEMMA AckedGood ==
    ASSUME TypeOK, AckedInv
    PROVE  Good(Len(acked)) /\ Len(acked) <= refsSynced
<1>1. Len(acked) <= Len(refs)
  BY RefsNumbers DEF AckedInv
<1> QED
  BY <1>1, LastingIsWhole DEF AckedInv, Good

(* The flushed part of the pack stays whole and flushed, even over a power
   loss, and so does the flushed part of the log. *)
SafeHeld == \A k \in Nat : Safe(k) => Safe(k)' /\ (k > 0 => pack'[k] = pack[k])
LogSynced == \A n \in Nat : Good(n) /\ n <= refsSynced => Stays(n)

LEMMA HoldsSafe ==
    ASSUME Holds
    PROVE  SafeHeld
  BY DEF Holds, SafeHeld, Safe

(* What is flushed stays so. *)
LEMMA LastingHeld ==
    ASSUME TypeOK, TypeOK', SafeHeld, NEW o, Lasting(o)
    PROVE  Lasting(o)'
<1>1. PICK k \in 1..packSynced : pack[k] = o /\ Clean(k)
  BY DEF Lasting
<1>2. k \in Nat /\ k > 0 /\ Safe(k)
  BY <1>1, PackNumbers DEF Safe
<1>3. Safe(k)' /\ pack'[k] = o
  BY <1>1, <1>2 DEF SafeHeld
<1>4. k \in 1..packSynced'
  BY <1>2, <1>3, PackNumbersNext DEF Safe
<1> QED
  BY <1>3, <1>4 DEF Lasting, Safe

(* The captures reported durable stay as they are. *)
LEMMA AckedKept ==
    ASSUME TypeOK, TypeOK', AckedInv, SafeHeld, LogSynced, acked' = acked
    PROVE  AckedInv'
<1>1. Stays(Len(acked)) /\ Len(acked) <= refsSynced /\ Len(acked) \in Nat
  BY AckedGood, RefsNumbers DEF LogSynced
<1>2. ASSUME NEW i \in 1..Len(acked)
      PROVE  /\ refs'[i] = acked[i] /\ acked[i] \in Object
             /\ Lasting(acked[i])' /\ Lasting(BlobOf(acked[i].blob))'
  <2>1. /\ refs[i] = acked[i] /\ acked[i] \in Object
        /\ Lasting(acked[i]) /\ Lasting(BlobOf(acked[i].blob))
    BY DEF AckedInv
  <2>2. PICK s, b : s = acked[i] /\ b = BlobOf(acked[i].blob)
    OBVIOUS
  <2>3. Lasting(s)' /\ Lasting(b)'
    BY <2>1, <2>2, LastingHeld
  <2>4. s = acked'[i] /\ b = BlobOf(acked'[i].blob)
    BY <2>2
  <2>5. Lasting(acked[i])' /\ Lasting(BlobOf(acked[i].blob))'
    BY <2>3, <2>4 DEF Lasting
  <2> QED
    BY <1>1, <2>1, <2>5 DEF Stays
<1> QED
  BY <1>1, <1>2 DEF AckedInv, Stays

(* What a frontier counts is whole. *)
LEMMA FrontierGood ==
    ASSUME TypeOK, PackPromise, RefPromise, NEW f \in frontiers
    PROVE  /\ f.refs \in Nat /\ f.pack \in Nat /\ f.refs <= refsSynced
           /\ Clean(f.pack) /\ Good(f.refs)
<1>1. f.refs \in Nat /\ f.pack \in Nat
  BY DEF TypeOK, Frontier
<1>2. f.refs <= refsSynced /\ Clean(f.pack)
  BY DEF RefPromise, PackPromise
<1>3. f.refs <= Len(refs)
  BY <1>1, <1>2, RefsNumbers
<1>4. ASSUME NEW i \in 1..f.refs
      PROVE  refs[i] \in Object /\ Whole(refs[i])
  <2>1. refs[i] \notin Damaged /\ \E k \in 1..f.pack : pack[k] = refs[i]
    BY DEF RefPromise, Needs
  <2>2. PICK k \in 1..f.pack : pack[k] = refs[i]
    BY <2>1
  <2>3. Clean(k) /\ k \in 1..Len(pack)
    <3>1. Clean(k)
      BY <1>1, <1>2, CleanMono, PackNumbers
    <3> QED
      BY <1>1, <3>1, PackNumbers DEF Clean
  <2>4. refs[i] \in Entry
    BY <1>1, <1>3, RefsNumbers
  <2> QED
    BY <2>1, <2>2, <2>3, <2>4 DEF Whole, Entry
<1> QED
  BY <1>1, <1>2, <1>3, <1>4 DEF Good

(* Objects below a whole prefix stay there. *)
LEMMA BelowKept ==
    ASSUME TypeOK, Holds, NEW n \in Nat, Clean(n), NEW o,
           \E k \in 1..n : pack[k] = o
    PROVE  \E k \in 1..n : pack'[k] = o
<1>1. PICK k \in 1..n : pack[k] = o
  OBVIOUS
<1>2. Clean(k)
  BY CleanMono, PackNumbers
<1> QED
  BY <1>1, <1>2 DEF Holds

(* What a frontier counts stays as it is. *)
LEMMA FrontierRefsKept ==
    ASSUME TypeOK, TypeOK', PackPromise, RefPromise, SafeHeld, LogSynced,
           frontiers' \subseteq frontiers
    PROVE  RefPromise'
<1> SUFFICES ASSUME NEW f \in frontiers', NEW i \in 1..f.refs
             PROVE  /\ f.refs <= refsSynced' /\ refs'[i] \notin Damaged
                    /\ \A o \in Needs(refs'[i]) : \E k \in 1..f.pack : pack'[k] = o
  <2>1. \A f \in frontiers' : f.refs <= refsSynced'
    BY FrontierGood DEF LogSynced, Stays
  <2> QED
    BY <2>1 DEF RefPromise
<1>1. /\ f \in frontiers /\ f.refs \in Nat /\ f.pack \in Nat
      /\ f.refs <= refsSynced /\ Safe(f.pack) /\ Stays(f.refs)
  BY FrontierGood DEF LogSynced, PackPromise, Safe
<1>2. refs'[i] = refs[i] /\ f.refs <= refsSynced'
  BY <1>1 DEF Stays
<1>3. /\ refs[i] \notin Damaged
      /\ \A o \in Needs(refs[i]) : \E k \in 1..f.pack : pack[k] = o
  BY <1>1 DEF RefPromise
<1>4. \A k \in 1..f.pack : pack'[k] = pack[k]
  BY <1>1, CleanMono, PackNumbers DEF SafeHeld, Safe
<1> QED
  BY <1>2, <1>3, <1>4

(* The group commit counts the same references. *)
LEMMA GroupRefsKept ==
    ASSUME TypeOK, TypeOK', GroupClean, GroupRefs, Holds, LogKept, NoNewGarbage,
           group' = group
    PROVE  GroupRefs'
<1> SUFFICES ASSUME group.at # "idle" PROVE GroupRefs'
  BY DEF GroupRefs
<1>1. group.refs \in Nat /\ group.pack \in Nat
  BY DEF TypeOK, Group
<1>2. Good(group.refs)
  BY DEF GroupRefs, Good
<1>3. Stays(group.refs)
  BY <1>1, <1>2 DEF LogKept
<1>4. ASSUME NEW i \in 1..group.refs
      PROVE  refs'[i] = refs[i] /\ refs[i] \in Object /\ Whole(refs[i])'
  <2>1. refs'[i] = refs[i] /\ refs[i] \in Object /\ Whole(refs[i])
    BY <1>2, <1>3 DEF Stays, Good
  <2>2. PICK s : s = refs[i]
    OBVIOUS
  <2>3. Whole(s)'
    BY <2>1, <2>2, WholeHeld
  <2> QED
    BY <2>1, <2>2, <2>3 DEF Whole
<1>5. group.at \in Sampled =>
          \A i \in 1..group.refs : \A o \in Needs(refs'[i]) :
             \E k \in 1..group.pack : pack'[k] = o
  BY <1>1, <1>4, BelowKept DEF GroupRefs, GroupClean
<1>6. group.at \in {"rename", "syncDir"} => group.refs <= refsSynced'
  BY <1>3 DEF GroupRefs, Stays
<1>7. \A i \in 1..Len(refs') : refs'[i] # Garbage
  BY DEF GroupRefs, NoNewGarbage
<1>8. group.refs <= Len(refs')
  BY <1>3 DEF Stays
<1> QED
  BY <1>4, <1>5, <1>6, <1>7, <1>8 DEF GroupRefs

LEMMA GroupRefsNone ==
    ASSUME group' = NoGroup
    PROVE  GroupRefs'
  BY DEF GroupRefs, NoGroup

(* A repaired log stays one. *)
LEMMA MendedKept ==
    ASSUME TypeOK, TypeOK', MendedInv, Holds, Published' \subseteq Published,
           Mended' => Mended
    PROVE  MendedInv'
  BY WholeHeld DEF MendedInv

(* No process starts publishing. *)
NoNewPublisher ==
    \A q \in Procs : proc'[q].at = "publish" =>
        /\ proc[q].at = "publish" /\ proc'[q].snap = proc[q].snap
        /\ proc'[q].deferred = proc[q].deferred

(* What is flushed stays published and flushed. *)
LEMMA SolidKept ==
    ASSUME TypeOK, TypeOK', SolidInv, Holds, Published' \subseteq Published,
           NoNewPublisher, Undeferred' => Undeferred
    PROVE  SolidInv'
<1>1. Solid' => Solid
  BY DEF Solid, SyncPublishing, NoNewPublisher
<1>2. ASSUME Solid', NEW s \in Published'
      PROVE  Lasting(s)' /\ Lasting(BlobOf(s.blob))'
  BY <1>1, <1>2, WholeHeld DEF SolidInv
<1>3. Undeferred' => \A p \in Procs : proc'[p].at = "publish" => ~proc'[p].deferred
  BY DEF SolidInv, NoNewPublisher
<1> QED
  BY <1>2, <1>3 DEF SolidInv

(* A step that does not touch the log or the frontier. *)
Quiet ==
    /\ UNCHANGED <<refs, refsSynced, acked, frontier, frontiers, opened>>
    /\ group' \in {group, NoGroup}
    /\ Holds /\ NoNewPublisher
    /\ \A q \in Procs : proc'[q].at \in Live =>
          proc[q].at \in Live /\ (proc[q].at = "attach" => proc'[q].at = "attach")

(* Such a step publishes nothing. *)
LEMMA QuietPublishes ==
    ASSUME refs' = refs, NoNewPublisher
    PROVE  /\ Published' \subseteq Published
           /\ SyncPublishing' => SyncPublishing
<1>1. Publishing' \subseteq Publishing /\ (SyncPublishing' => SyncPublishing)
  BY DEF Publishing, SyncPublishing, NoNewPublisher
<1>2. Logged' = Logged
  BY DEF Logged
<1> QED
  BY <1>1, <1>2 DEF Published

(* It keeps all that is said of the log. *)
LEMMA QuietLog ==
    ASSUME TypeOK, TypeOK', PackInv, LogParts, Quiet
    PROVE  LogParts'
<1> USE DEF LogParts
<1>1. LogKept /\ NoNewGarbage
  BY DEF Quiet, LogKept, NoNewGarbage, Good, Stays
<1>2. Published' \subseteq Published
  BY QuietPublishes DEF Quiet
<1>3. MendedInv'
  <2>1. Mended' => Mended
    BY DEF Quiet, Mended
  <2> QED
    BY <1>2, <2>1, MendedKept DEF Quiet
<1>4. SolidInv'
  <2>1. Undeferred' => Undeferred
    BY DEF Undeferred, Quiet
  <2> QED
    BY <1>2, <2>1, SolidKept DEF Quiet
<1>5. AckedInv' /\ RefPromise'
  <2>1. SafeHeld /\ LogSynced
    BY <1>1, HoldsSafe DEF Quiet, LogKept, LogSynced
  <2> QED
    BY <2>1, AckedKept, FrontierRefsKept DEF Quiet, PackInv
<1>7. GroupRefs'
  BY <1>1, GroupRefsKept, GroupRefsNone DEF Quiet, PackInv
<1>8. LogInv'
  <2>1. /\ refs' = refs /\ frontier' = frontier /\ opened' = opened
        /\ \A q \in Procs : proc'[q].at \in Live =>
             proc[q].at \in Live /\ (proc[q].at = "attach" => proc'[q].at = "attach")
    BY DEF Quiet
  <2> QED
    BY <2>1 DEF LogInv
<1> QED
  BY <1>3, <1>4, <1>5, <1>7, <1>8

-----------------------------------------------------------------------------
(* Steps that change the pack or the catalog *)

(* Damage is never published. *)
LEMMA PublishedObjects ==
    ASSUME TypeOK
    PROVE  \A s \in Published : s \in Object /\ s \notin Damaged
<1>1. \A s \in Publishing : s \in Object
  BY DEF TypeOK, Publishing, Capturing
<1>2. \A s \in Logged : s \in Object
  BY RefsNumbers DEF Logged, Entry
<1> QED
  BY <1>1, <1>2, DamageIsNoObject DEF Published

(* Every record is as it was, or damaged. *)
Worn == \A i \in 1..Len(pack') :
           pack'[i] \in Damaged \/ (i <= Len(pack) /\ pack'[i] = pack[i])

(* A worn pack is in order and has nothing new. *)
LEMMA WornPack ==
    ASSUME TypeOK, TypeOK', Worn, Ordered, Numbered, captures' = captures
    PROVE  /\ Ordered' /\ Numbered' /\ \A o : Whole(o)' => Whole(o)
<1>1. Len(pack) \in Nat /\ Len(pack') \in Nat
  BY PackNumbers, PackNumbersNext
<1>2. ASSUME NEW k \in 1..Len(pack'), Clean(k)'
      PROVE  /\ k \in 1..Len(pack) /\ Clean(k)
             /\ \A i \in 1..k : pack'[i] = pack[i]
  <2>1. \A i \in 1..k : i <= Len(pack) /\ pack'[i] = pack[i] /\ pack[i] \notin Damaged
    BY <1>1, <1>2 DEF Clean, Worn
  <2>2. k \in 1..Len(pack)
    BY <1>1, <2>1
  <2> QED
    BY <2>1, <2>2 DEF Clean
<1>3. Ordered'
  <2> SUFFICES ASSUME NEW k \in 1..Len(pack'), Clean(k)'
               PROVE  \E j \in 1..k : pack'[j] = BlobOf(pack'[k].blob)
    BY DEF Ordered
  <2>1. PICK j \in 1..k : pack[j] = BlobOf(pack[k].blob)
    BY <1>2 DEF Ordered
  <2>2. pack'[j] = pack[j] /\ pack'[k] = pack[k]
    BY <1>1, <1>2
  <2> QED
    BY <2>1, <2>2
<1>4. Numbered'
  BY <1>1, DamageIsNoObject DEF Numbered, Worn
<1>5. ASSUME NEW o, Whole(o)' PROVE Whole(o)
  <2>1. PICK k \in 1..Len(pack') : pack'[k] = o /\ Clean(k)'
    BY <1>5 DEF Whole
  <2>2. k \in 1..Len(pack) /\ Clean(k) /\ pack[k] = o
    BY <1>1, <1>2, <2>1
  <2> QED
    BY <2>2 DEF Whole
<1> QED
  BY <1>3, <1>4, <1>5

(* Recovery only cuts. *)
LEMMA CutWorn ==
    ASSUME TypeOK, NEW c \in Catalog, NEW stop \in ScanBase(c)..Len(pack),
           RecoverPack(c, stop)
    PROVE  Worn
  BY CutHolds, PackNumbers DEF Worn

(* Once somebody is up, a catalog state that may come back is true. *)
LEMMA AdmissibleFirm ==
    ASSUME CommitsInv, Up, NEW c \in commits, Admissible(c)
    PROVE  Firm(c) /\ Cached(c) /\ Counted(c)
  BY DEF CommitsInv, Admissible

(* So is the catalog. *)
LEMMA CatalogFirm ==
    ASSUME TypeOK, CommitsInv, Up
    PROVE  catalog \in Catalog /\ Firm(catalog) /\ Cached(catalog) /\ Counted(catalog)
<1>1. catalog \in commits /\ catalog \in Catalog /\ Admissible(catalog)
  BY DEF TypeOK, Admissible
<1> QED
  BY <1>1 DEF CommitsInv, Admissible

(* The catalog states stay true of a pack that holds. *)
LEMMA CommitsHeld ==
    ASSUME TypeOK, TypeOK', CommitsInv, Up, Holds, Published' \subseteq Published,
           UNCHANGED <<catalog, commits, fallen>>
    PROVE  CommitsInv'
<1> SUFFICES ASSUME NEW c \in commits
             PROVE  /\ Cached(c)
                    /\ Admissible(c)' => Weak(c)' /\ Counted(c)'
                    /\ c # fallen' \/ (Up' /\ c = catalog') => Firm(c)'
  BY DEF CommitsInv
<1>1. c \in Catalog /\ Cached(c)
  BY DEF TypeOK, CommitsInv
<1>2. ASSUME c # fallen \/ c = catalog
      PROVE  Firm(c)' /\ Weak(c)' /\ Counted(c)'
  <2>1. Firm(c) /\ Counted(c)
    BY <1>2, AdmissibleFirm DEF Admissible
  <2>2. Firm(c)' /\ Counted(c)'
    BY <1>1, <2>1, FirmHeld, CountedHeld
  <2> QED
    BY <2>2 DEF Firm, Weak
<1> QED
  BY <1>1, <1>2 DEF Admissible

(* What the catalog leads to stays in reach. *)
LEMMA FoundHeld ==
    ASSUME TypeOK, TypeOK', CommitsInv, FoundInv, Up, Holds, WholeBack,
           Published' \subseteq Published, catalog' = catalog
    PROVE  FoundInv'
<1>1. PICK c : c = catalog
  OBVIOUS
<1>2. c \in Catalog /\ Firm(c) /\ Leads(c)
  BY <1>1, CatalogFirm DEF FoundInv
<1>3. Leads(c)'
  BY <1>2, LeadsHeld
<1> QED
  BY <1>1, <1>3, CatalogNamed DEF FoundInv

(* A commit adds a state. *)
LEMMA CommitsNew ==
    ASSUME TypeOK, TypeOK', CommitsInv, Holds, NEW d \in Catalog,
           catalog' = d, commits' = commits \cup {d}, fallen' = fallen,
           Firm(d)', Cached(d), Counted(d)',
           \A c \in commits : Firm(c) /\ Counted(c) /\ Admissible(c) => Counted(c)'
    PROVE  CommitsInv'
<1>1. Weak(d)'
  BY DEF Firm, Weak
<1>2. ASSUME NEW c \in commits, c # fallen
      PROVE  Firm(c)' /\ Weak(c)' /\ Counted(c)'
  <2>1. c \in Catalog /\ Firm(c) /\ Counted(c) /\ Admissible(c)
    BY <1>2 DEF CommitsInv, Admissible, TypeOK
  <2>2. Firm(c)' /\ Counted(c)'
    BY <2>1, FirmHeld
  <2> QED
    BY <2>2 DEF Firm, Weak
<1>3. \A c \in commits : Cached(c)
  BY DEF CommitsInv
<1> QED
  BY <1>1, <1>2, <1>3 DEF CommitsInv, Admissible

RefInv == StoreInv /\ LogParts

-----------------------------------------------------------------------------
(* Opening *)

(* An open that takes the checkpoint at its word finds it true: no row lies
   beyond the end, no record is damaged. *)
LEMMA OpenSettledStore ==
    ASSUME TypeOK, TypeOK', PackInv', RefInv, NEW p \in Procs, OpenSettled(p)
    PROVE  StoreInv' /\ Quiet
<1> USE DEF RefInv, StoreInv
<1>1. /\ pack' = pack /\ packSynced' = packSynced /\ captures' = captures
      /\ UNCHANGED <<refs, refsSynced, catalog, commits, fallen, frontier, frontiers,
                     group, acked, opened>>
      /\ proc' = [proc EXCEPT ![p].at = "repair"]
  BY DEF OpenSettled, bounds
<1>2. \A q \in Procs : IF q = p THEN proc'[q].at = "repair" ELSE proc'[q] = proc[q]
  BY <1>1 DEF TypeOK, Process
<1>3. Holds
  BY <1>1, SameHolds
<1>4. Quiet
  BY <1>1, <1>2, <1>3 DEF Quiet, NoNewPublisher, Live
<1>5. Published' \subseteq Published /\ (SyncPublishing' => SyncPublishing)
  BY <1>4, QuietPublishes DEF Quiet
<1>6. Clean(Len(pack)) /\ Len(pack) \in Nat
  <2>1. Clean(Len(pack))'
    BY <1>2 DEF PackInv, RepairClean
  <2> QED
    BY <1>1, <2>1, PackNumbers DEF Clean
<1>7. PICK c : c = catalog
  OBVIOUS
<1>8. /\ c \in Catalog /\ c \in commits /\ Weak(c) /\ Counted(c) /\ c.vlen = Len(pack)
      /\ \A r \in c.rows : r[2] <= Len(pack) /\ r[2] \in Nat
  <2>1. c \in Catalog /\ c \in commits
    BY <1>7 DEF TypeOK
  <2>2. c.vlen = Len(pack) /\ ~RowsBeyond(c, c.vlen)
    BY <1>7 DEF OpenSettled, CheckpointValid
  <2>3. Weak(c) /\ Counted(c)
    BY <1>7, <2>1 DEF CommitsInv, Admissible
  <2> QED
    BY <1>6, <2>1, <2>2, <2>3, CatalogNumbers DEF RowsBeyond
<1>9. Firm(c)
  <2>1. ASSUME NEW r \in c.rows
        PROVE  r[2] > 0 /\ Clean(r[2]) /\ pack[r[2]] = r[1]
    <3>1. r[2] > 0 /\ pack[r[2]] \in {r[1]} \cup Damaged
      BY <1>8 DEF Weak
    <3>2. r[2] \in 1..Len(pack) /\ Clean(r[2])
      BY <1>6, <1>8, <3>1, CleanMono, PackNumbers
    <3> QED
      BY <1>6, <3>1, <3>2 DEF Clean
  <2> QED
    BY <1>6, <1>8, <2>1 DEF Firm
<1>10. Leads(c)
  <2> SUFFICES ASSUME NEW s \in Published, Whole(s)
               PROVE  HasRow(c, s) /\ Found(c, BlobOf(s.blob))
    BY DEF Leads
  <2>1. PICK k \in 1..Len(pack) : pack[k] = s
    BY DEF Whole
  <2>2. Whole(BlobOf(s.blob))
    BY BlobWhole
  <2>3. PICK j \in 1..Len(pack) : pack[j] = BlobOf(s.blob)
    BY <2>2 DEF Whole
  <2> QED
    BY <1>8, <2>1, <2>3 DEF Counted, Found
<1>11. Ordered' /\ Numbered' /\ TailTorn'
  <2>1. \A k : Clean(k)' <=> Clean(k)
    BY <1>1 DEF Clean
  <2>2. TailTorn'
    BY <1>1, <1>6 DEF TailTorn, Clean
  <2> QED
    BY <1>1, <2>1, <2>2 DEF Ordered, Numbered
<1>12. \A d : Admissible(d)' <=> Admissible(d)
  BY <1>1 DEF Admissible
<1>13. CommitsInv'
  <2> SUFFICES ASSUME NEW d \in commits
               PROVE  /\ Cached(d)
                      /\ Admissible(d)' => Weak(d)' /\ Counted(d)'
                      /\ d # fallen' \/ (Up' /\ d = catalog') => Firm(d)'
    BY <1>1 DEF CommitsInv
  <2>1. /\ Cached(d) /\ (Admissible(d) => Weak(d) /\ Counted(d))
        /\ d # fallen => Firm(d)
    BY DEF CommitsInv
  <2>2. d = catalog => Firm(d)
    BY <1>7, <1>9
  <2>3. /\ Firm(d)' <=> Firm(d)
        /\ Weak(d)' <=> Weak(d)
        /\ Counted(d) => Counted(d)'
    BY <1>1, <1>5, SameCatalog
  <2> QED
    BY <1>1, <1>12, <2>1, <2>2, <2>3
<1>14. FoundInv'
  <2>1. Leads(c)'
    BY <1>1, <1>5, <1>10, SameCatalog
  <2> QED
    BY <1>1, <1>7, <2>1, CatalogNamed DEF FoundInv
<1>15. ASSUME NEW q \in Procs PROVE BatchInv(q)'
  <2>1. CASE proc'[q].at \notin InBatch
    BY <2>1 DEF BatchInv
  <2>2. CASE proc'[q].at \in InBatch
    <3>1. proc'[q] = proc[q]
      BY <1>2, <2>2 DEF InBatch
    <3>2. captures \in Nat
      BY BoundsAreNaturals DEF TypeOK
    <3> QED
      BY <1>1, <1>5, <1>12, <3>1, <3>2, BatchKept
  <2> QED
    BY <2>1, <2>2
<1>16. OneBatch'
  BY <1>2 DEF OneBatch, InBatch
<1> QED
  BY <1>4, <1>11, <1>13, <1>14, <1>15, <1>16

(* Recovery mends the catalog. *)
LEMMA RecoverStore ==
    ASSUME TypeOK, TypeOK', RefInv, NEW c \in Catalog,
           NEW stop \in ScanBase(c)..Len(pack), RecoverPack(c, stop),
           Clean(ScanBase(c)), Weak(c), Counted(c),
           \A b \in c.cache :
              HasRow(c, BlobOf(b)) \/ (c.vlen = 0 /\ Whole(BlobOf(b))),
           Commit(Recovered(c, ScanBase(c), stop)),
           Published' \subseteq Published, captures' = captures,
           \A q \in Procs : proc'[q].at \notin InBatch
    PROVE  StoreInv'
<1> USE DEF RefInv, StoreInv
<1>1. PICK d : d = Recovered(c, ScanBase(c), stop)
  OBVIOUS
<1>2. catalog' = d /\ commits' = commits \cup {d} /\ fallen' = fallen
  BY <1>1 DEF Commit
<1>3. /\ d \in Catalog /\ d.vlen = stop
      /\ Firm(d)' /\ Cached(d) /\ Counted(d)' /\ Leads(d)'
  BY <1>1, RecoveredGood
<1>4. Holds /\ Worn
  BY CutHolds, CutWorn
<1>5. Ordered' /\ Numbered'
  BY <1>4, WornPack
<1>6. TailTorn'
  <2>1. Clean(stop)' /\ Len(pack') = stop
    BY CutCleans, CutHolds
  <2> QED
    BY <2>1 DEF TailTorn, Clean
<1>7. CommitsInv'
  <2>1. \A a \in commits : Firm(a) /\ Counted(a) => Counted(a)'
    <3>1. commits \subseteq Catalog
      BY DEF TypeOK
    <3> QED
      BY <1>4, <3>1, CountedHeld
  <2> QED
    BY <1>2, <1>3, <1>4, <2>1, CommitsNew
<1>8. FoundInv'
  BY <1>2, <1>3, CatalogNamed DEF FoundInv
<1>9. OneBatch' /\ \A q \in Procs : BatchInv(q)'
  BY DEF OneBatch, BatchInv
<1> QED
  BY <1>5, <1>6, <1>7, <1>8, <1>9

LEMMA OpenRecoverStore ==
    ASSUME TypeOK, TypeOK', PackInv, RefInv, NEW p \in Procs, OpenRecover(p)
    PROVE  StoreInv' /\ Quiet
<1>1. PICK stop \in ScanBase(catalog)..Len(pack) :
         /\ RecoverPack(catalog, stop)
         /\ Commit(Recovered(catalog, ScanBase(catalog), stop))
  BY DEF OpenRecover
<1>2. /\ proc' = [proc EXCEPT ![p].at = "repair"] /\ CatalogFree /\ captures' = captures
      /\ UNCHANGED <<refs, refsSynced, frontier, frontiers, group, acked, opened>>
  BY DEF OpenRecover, bounds
<1>3. \A q \in Procs : IF q = p THEN proc'[q].at = "repair" ELSE proc'[q] = proc[q]
  BY <1>2 DEF TypeOK, Process
<1>4. PICK c : c = catalog
  OBVIOUS
<1>5. c \in Catalog /\ c \in commits
  BY <1>4 DEF TypeOK
<1>6. Cached(c) /\ Weak(c) /\ Counted(c)
  BY <1>4, <1>5 DEF RefInv, StoreInv, CommitsInv, Admissible
<1>7. Clean(ScanBase(c))
  BY <1>5, BaseClean DEF PackInv, CommitsSafe
<1>8. Holds
  BY <1>1, <1>4, <1>5, CutHolds
<1>9. Quiet
  BY <1>2, <1>3, <1>8 DEF Quiet, NoNewPublisher, Live
<1>10. Published' \subseteq Published
  BY <1>9, QuietPublishes DEF Quiet
<1>11. \A q \in Procs : proc'[q].at \notin InBatch
  BY <1>2, <1>3 DEF CatalogFree, InBatch
<1>12. \A b \in c.cache : HasRow(c, BlobOf(b))
  BY <1>6 DEF Cached
<1>13. RecoverPack(c, stop) /\ Commit(Recovered(c, ScanBase(c), stop))
  BY <1>1, <1>4
<1>14. StoreInv'
  BY <1>2, <1>4, <1>5, <1>6, <1>7, <1>10, <1>11, <1>12, <1>13, RecoverStore
<1> QED
  BY <1>9, <1>14

LEMMA VerifyIndexStore ==
    ASSUME TypeOK, TypeOK', PackInv, RefInv, NEW p \in Procs, VerifyIndex(p)
    PROVE  StoreInv' /\ Quiet
<1>1. PICK c : c = Unindexed(catalog)
  OBVIOUS
<1>2. /\ c \in Catalog /\ ScanBase(c) = 0 /\ c.vlen = 0 /\ c.rows = {}
      /\ c.cache = catalog.cache
  BY <1>1, UnindexedType DEF TypeOK
<1>3. PICK stop \in ScanBase(c)..Len(pack) :
         /\ RecoverPack(c, stop)
         /\ Commit(Recovered(c, ScanBase(c), stop))
  BY <1>1, <1>2 DEF VerifyIndex
<1>4. /\ proc' = proc /\ CatalogFree /\ captures' = captures /\ Up
      /\ UNCHANGED <<refs, refsSynced, frontier, frontiers, group, acked, opened>>
  BY DEF VerifyIndex, bounds, Up
<1>5. Clean(ScanBase(c)) /\ Weak(c) /\ Counted(c)
  BY <1>2, PackNumbers DEF Clean, Weak, Counted
<1>6. \A b \in c.cache : Whole(BlobOf(b))
  <2>1. catalog \in Catalog /\ Firm(catalog) /\ Cached(catalog)
    BY <1>4, CatalogFirm DEF RefInv, StoreInv
  <2> QED
    BY <1>2, <2>1, FirmWhole DEF Cached
<1>7. Holds
  BY <1>2, <1>3, CutHolds
<1>8. Quiet
  BY <1>4, <1>7 DEF Quiet, NoNewPublisher
<1>9. Published' \subseteq Published
  BY <1>8, QuietPublishes DEF Quiet
<1>10. \A q \in Procs : proc'[q].at \notin InBatch
  BY <1>4 DEF CatalogFree
<1>11. StoreInv'
  BY <1>2, <1>3, <1>4, <1>5, <1>6, <1>9, <1>10, RecoverStore
<1> QED
  BY <1>8, <1>11

-----------------------------------------------------------------------------
(* Captures *)

(* A process that has the store open sees a log that has been repaired. *)
LEMMA LiveWhole ==
    ASSUME RefInv, NEW p \in Procs, proc[p].at \in Live
    PROVE  (\A s \in Published : Whole(s)) /\ Up /\ WholeBack
<1>1. Mended /\ Up
  BY DEF Mended, Up, Live
<1> QED
  BY <1>1 DEF RefInv, LogParts, MendedInv, WholeBack

(* While p writes, no other process does. *)
LEMMA OnlyBatch ==
    ASSUME OneBatch, NEW p \in Procs, proc[p].at \in InBatch,
           \A q \in Procs \ {p} : proc'[q] = proc[q]
    PROVE  OneBatch' /\ \A q \in Procs \ {p} : BatchInv(q)'
  BY DEF OneBatch, BatchInv

LEMMA BeginCaptureStore ==
    ASSUME "publish" \notin races', TypeOK, TypeOK', RefInv,
           NEW p \in Procs, NEW b \in Blobs, NEW d \in BOOLEAN, BeginCapture(p, b, d)
    PROVE  StoreInv' /\ Quiet
<1> USE DEF RefInv, StoreInv
<1> DEFINE v == [proc[p] EXCEPT !.at = "blob", !.deferred = d,
                                !.snap = [blob |-> b, n |-> captures + 1],
                                !.txn = catalog]
<1>1. /\ pack' = pack /\ packSynced' = packSynced /\ captures' = captures + 1
      /\ UNCHANGED <<refs, refsSynced, catalog, commits, fallen, frontier, frontiers,
                     group, acked, opened>>
      /\ proc' = [proc EXCEPT ![p] = v]
      /\ proc[p].at = "idle" /\ CatalogFree /\ (d => ~SyncPublishing)
      /\ captures < MaxCaptures
  BY DEF BeginCapture, TypeOK, When
<1>2. /\ captures \in Nat /\ captures + 1 \in 0..MaxCaptures
  BY <1>1, BoundsAreNaturals DEF TypeOK
<1>3. proc[p] \in Process
  BY DEF TypeOK
<1>4. /\ v.at = "blob" /\ v.deferred = d /\ v.txn = catalog
      /\ v.snap = [blob |-> b, n |-> captures + 1]
  BY <1>3 DEF Process
<1> HIDE DEF v
<1>5. proc'[p] = v /\ \A q \in Procs \ {p} : proc'[q] = proc[q]
  BY <1>1 DEF TypeOK
<1>6. Holds
  BY <1>1, SameHolds
<1>7. Quiet
  BY <1>1, <1>4, <1>5, <1>6 DEF Quiet, NoNewPublisher, Live
<1>8. Published' \subseteq Published /\ (SyncPublishing' => SyncPublishing)
  BY <1>7, QuietPublishes DEF Quiet
<1>9. Up
  BY <1>1 DEF Up
<1>10. SameStore
  BY <1>1, <1>2, <1>8, <1>9 DEF SameStore
<1>11. PICK c : c = catalog
  OBVIOUS
<1>12. Firm(c) /\ Cached(c) /\ Leads(c)
  BY <1>9, <1>11, CatalogFirm DEF FoundInv
<1>13. Firm(c)' /\ Leads(c)' /\ proc'[p].txn = c
  BY <1>1, <1>4, <1>5, <1>8, <1>11, <1>12, SameCatalog
<1>14. ASSUME NEW i \in 1..Len(pack) PROVE pack[i] # v.snap
  <2>1. v.snap \in Object /\ v.snap.n = captures + 1
    BY <1>2, <1>4 DEF Object
  <2>2. pack[i] = v.snap => captures + 1 <= captures
    BY <2>1 DEF Numbered
  <2> QED
    BY <1>2, <2>2
<1>15. BatchInv(p)'
  <2>1. Firm(proc[p].txn)' /\ Leads(proc[p].txn)'
    BY <1>13, TxnNamed
  <2>2. Cached(proc'[p].txn)
    BY <1>12, <1>13
  <2>3. /\ proc'[p].at = "blob" /\ proc'[p].snap.n \in 1..captures'
        /\ (proc'[p].deferred => ~SyncPublishing')
    BY <1>1, <1>2, <1>4, <1>5, <1>8
  <2>4. \A i \in 1..Len(pack') : pack'[i] # proc'[p].snap
    BY <1>1, <1>5, <1>14
  <2> QED
    BY <2>1, <2>2, <2>3, <2>4 DEF BatchInv
<1>16. OneBatch' /\ \A q \in Procs \ {p} : BatchInv(q)'
  BY <1>1, <1>5 DEF CatalogFree, OneBatch, BatchInv
<1> QED
  BY <1>7, <1>10, <1>15, <1>16, SameStoreKeeps

LEMMA PutRecoverStore ==
    ASSUME TypeOK, TypeOK', PackInv, RefInv, NEW p \in Procs, PutRecover(p)
    PROVE  StoreInv' /\ Quiet
<1> USE DEF RefInv, StoreInv
<1>1. PICK c : c = proc[p].txn
  OBVIOUS
<1>2. PICK stop \in ScanBase(c)..Len(pack) :
         /\ RecoverPack(c, stop)
         /\ proc' = [proc EXCEPT ![p].txn = Recovered(c, ScanBase(c), stop),
                                 ![p].known = stop]
  BY <1>1 DEF PutRecover
<1>3. /\ proc[p].at \in {"blob", "snap"} /\ captures' = captures
      /\ UNCHANGED <<refs, refsSynced, catalog, commits, fallen, frontier, frontiers,
                     group, acked, opened>>
  BY DEF PutRecover, MustAppend, bounds
<1>4. PICK d : d = Recovered(c, ScanBase(c), stop)
  OBVIOUS
<1>5. proc[p] \in Process /\ c \in Catalog
  BY <1>1, Numbers DEF TypeOK
<1>6. /\ proc'[p].at = proc[p].at /\ proc'[p].txn = d
      /\ proc'[p].snap = proc[p].snap /\ proc'[p].deferred = proc[p].deferred
      /\ \A q \in Procs \ {p} : proc'[q] = proc[q]
  BY <1>2, <1>4, <1>5 DEF TypeOK, Process
<1>7. Holds /\ Worn /\ Len(pack') <= Len(pack)
      /\ \A i \in 1..Len(pack') : pack'[i] = pack[i]
  BY <1>2, <1>5, CutHolds, CutWorn
<1>8. Quiet
  BY <1>3, <1>6, <1>7 DEF Quiet, NoNewPublisher
<1>9. Published' \subseteq Published /\ (SyncPublishing' => SyncPublishing)
  BY <1>8, QuietPublishes DEF Quiet
<1>10. Up /\ WholeBack
  BY <1>3, LiveWhole DEF Live
<1>11. Firm(c) /\ Cached(c) /\ Leads(c)
  BY <1>1, <1>3 DEF BatchInv, InBatch
<1>12. Weak(c) /\ Counted(c)
  BY <1>5, <1>11, FirmIsWeak, FirmIsCounted
<1>13. Clean(ScanBase(c))
  <2>1. Clean(c.vlen) /\ Clean(0)
    BY <1>11, PackNumbers DEF Firm, Clean
  <2> QED
    BY <1>5, <2>1, ScanBaseType
<1>14. /\ Firm(d)' /\ Cached(d) /\ Leads(d)' /\ d.vlen = stop
       /\ \A o : HasRow(c, o) => HasRow(d, o)
  <2>1. \A b \in c.cache : HasRow(c, BlobOf(b))
    BY <1>11 DEF Cached
  <2> QED
    BY <1>2, <1>4, <1>5, <1>9, <1>11, <1>12, <1>13, <2>1, RecoveredGood
<1>15. BatchInv(p)'
  <2>1. Firm(proc[p].txn)' /\ Leads(proc[p].txn)'
    BY <1>6, <1>14, TxnNamed
  <2>2. Cached(proc'[p].txn)
    BY <1>6, <1>14
  <2>3. proc[p].at \in InBatch
    BY <1>3 DEF InBatch
  <2>4. /\ proc'[p].snap.n \in 1..captures' /\ (proc'[p].deferred => ~SyncPublishing')
    BY <1>3, <1>6, <1>9, <2>3 DEF BatchInv
  <2>5. \A i \in 1..Len(pack') : pack'[i] # proc'[p].snap
    BY <1>3, <1>6, <1>7, <2>3, PackNumbers, PackNumbersNext DEF BatchInv
  <2>6. proc'[p].at = "snap" => HasRow(proc'[p].txn, BlobOf(proc'[p].snap.blob))
    BY <1>1, <1>6, <1>14, <2>3 DEF BatchInv
  <2> QED
    BY <1>3, <1>6, <2>1, <2>2, <2>4, <2>5, <2>6 DEF BatchInv
<1>16. OneBatch' /\ \A q \in Procs \ {p} : BatchInv(q)'
  BY <1>3, <1>6, OnlyBatch DEF InBatch
<1>17. Ordered' /\ Numbered'
  BY <1>3, <1>7, WornPack
<1>18. TailTorn'
  <2>1. Clean(stop)' /\ Len(pack') = stop
    BY <1>2, <1>5, <1>13, CutCleans, CutHolds
  <2> QED
    BY <2>1 DEF TailTorn, Clean
<1>19. CommitsInv' /\ FoundInv'
  BY <1>3, <1>7, <1>9, <1>10, CommitsHeld, FoundHeld
<1> QED
  BY <1>8, <1>15, <1>16, <1>17, <1>18, <1>19

LEMMA PutKnownStore ==
    ASSUME TypeOK, TypeOK', RefInv, NEW p \in Procs, PutKnown(p)
    PROVE  StoreInv' /\ Quiet
<1> USE DEF RefInv, StoreInv
<1>1. PICK c : c = proc[p].txn
  OBVIOUS
<1>2. PICK d : d = [c EXCEPT !.cache = CacheAfter(p)]
  OBVIOUS
<1>3. /\ pack' = pack /\ packSynced' = packSynced /\ captures' = captures
      /\ UNCHANGED <<refs, refsSynced, catalog, commits, fallen, frontier, frontiers,
                     group, acked, opened>>
      /\ proc' = [proc EXCEPT ![p].at = NextPlace(p), ![p].txn = d]
      /\ proc[p].at \in {"blob", "snap"}
      /\ CacheHit(p) \/ HasRow(c, Wanted(p))
  BY <1>1, <1>2 DEF PutKnown, bounds
<1>4. proc[p] \in Process /\ c \in Catalog /\ proc[p].at \in InBatch
  BY <1>1, <1>3, Numbers DEF TypeOK, InBatch
<1>5. /\ Firm(c) /\ Cached(c) /\ Leads(c) /\ proc[p].snap.n \in 1..captures
      /\ (proc[p].deferred => ~SyncPublishing)
      /\ \A i \in 1..Len(pack) : pack[i] # proc[p].snap
  BY <1>1, <1>3, <1>4 DEF BatchInv
<1>6. /\ proc'[p].at = NextPlace(p) /\ proc'[p].txn = d
      /\ proc'[p].snap = proc[p].snap /\ proc'[p].deferred = proc[p].deferred
      /\ \A q \in Procs \ {p} : proc'[q] = proc[q]
  BY <1>3, <1>4 DEF TypeOK, Process
<1>7. proc[p].at = "blob"
  <2>1. ASSUME proc[p].at = "snap" PROVE FALSE
    <3>1. HasRow(c, proc[p].snap)
      BY <1>3, <2>1 DEF CacheHit, Wanted
    <3>2. Whole(proc[p].snap)
      BY <1>4, <1>5, <3>1, FirmWhole
    <3> QED
      BY <1>5, <3>2 DEF Whole
  <2> QED
    BY <1>3, <2>1
<1>8. HasRow(c, BlobOf(proc[p].snap.blob))
  BY <1>1, <1>3, <1>5, <1>7 DEF CacheHit, Wanted, Cached
<1>9. /\ d.rows = c.rows /\ d.vlen = c.vlen
      /\ d.cache = c.cache \cup {proc[p].snap.blob}
  BY <1>1, <1>2, <1>4, <1>7 DEF Catalog, CacheAfter
<1>10. Holds
  BY <1>3, SameHolds
<1>11. NextPlace(p) = "snap"
  BY <1>7 DEF NextPlace
<1>12. Quiet
  BY <1>3, <1>6, <1>7, <1>10, <1>11 DEF Quiet, NoNewPublisher, Live
<1>13. Published' \subseteq Published /\ (SyncPublishing' => SyncPublishing)
  BY <1>12, QuietPublishes DEF Quiet
<1>14. Up /\ captures \in Nat
  BY <1>7, BoundsAreNaturals DEF Up, TypeOK
<1>15. SameStore
  BY <1>3, <1>13, <1>14 DEF SameStore
<1>16. Firm(d)' /\ Leads(d)' /\ Cached(d)
  <2>1. Firm(d) /\ Leads(d)
    BY <1>5, <1>9 DEF Firm, Leads, Found, HasRow
  <2>2. Cached(d)
    BY <1>5, <1>8, <1>9 DEF Cached, HasRow
  <2> QED
    BY <1>3, <1>13, <2>1, <2>2, SameCatalog
<1>17. BatchInv(p)'
  <2>1. Firm(proc[p].txn)' /\ Leads(proc[p].txn)'
    BY <1>6, <1>16, TxnNamed
  <2>2. Cached(proc'[p].txn) /\ HasRow(proc'[p].txn, BlobOf(proc'[p].snap.blob))
    BY <1>6, <1>8, <1>9, <1>16 DEF HasRow
  <2>3. /\ proc'[p].snap.n \in 1..captures' /\ (proc'[p].deferred => ~SyncPublishing')
        /\ \A i \in 1..Len(pack') : pack'[i] # proc'[p].snap
    BY <1>3, <1>5, <1>6, <1>13
  <2> QED
    BY <1>6, <1>11, <2>1, <2>2, <2>3 DEF BatchInv
<1>18. OneBatch' /\ \A q \in Procs \ {p} : BatchInv(q)'
  BY <1>4, <1>6, OnlyBatch
<1> QED
  BY <1>12, <1>15, <1>17, <1>18, SameStoreKeeps

LEMMA PutAppendStore ==
    ASSUME TypeOK, TypeOK', PackInv, RefInv, NEW p \in Procs, PutAppend(p)
    PROVE  StoreInv' /\ Quiet
<1> USE DEF RefInv, StoreInv
<1>1. PICK c : c = proc[p].txn
  OBVIOUS
<1>2. PICK e : e = Wanted(p)
  OBVIOUS
<1>3. PICK d : d = WithRow(p)
  OBVIOUS
<1>4. /\ pack' = Append(pack, e) /\ packSynced' = packSynced /\ captures' = captures
      /\ UNCHANGED <<refs, refsSynced, catalog, commits, fallen, frontier, frontiers,
                     group, acked, opened>>
      /\ proc' = [proc EXCEPT ![p].at = NextPlace(p), ![p].txn = d,
                              ![p].start = RunStart(p), ![p].end = Len(pack) + 1,
                              ![p].last = e, ![p].known = Len(pack) + 1]
      /\ MustAppend(p) /\ Len(pack) = proc[p].known /\ proc[p].at \in {"blob", "snap"}
  BY <1>2, <1>3 DEF PutAppend, bounds, MustAppend
<1>5. proc[p] \in Process /\ c \in Catalog /\ proc[p].at \in InBatch
  BY <1>1, <1>4, Numbers DEF TypeOK, InBatch
<1>6. /\ Firm(c) /\ Cached(c) /\ Leads(c) /\ proc[p].snap.n \in 1..captures
      /\ (proc[p].deferred => ~SyncPublishing)
      /\ \A i \in 1..Len(pack) : pack[i] # proc[p].snap
      /\ proc[p].at = "snap" => HasRow(c, BlobOf(proc[p].snap.blob))
  BY <1>1, <1>4, <1>5 DEF BatchInv
<1>7. /\ proc'[p].at = NextPlace(p) /\ proc'[p].txn = d
      /\ proc'[p].snap = proc[p].snap /\ proc'[p].deferred = proc[p].deferred
      /\ proc'[p].start = RunStart(p) /\ proc'[p].end = Len(pack) + 1
      /\ proc'[p].known = Len(pack) + 1
      /\ \A q \in Procs \ {p} : proc'[q] = proc[q]
  BY <1>4, <1>5 DEF TypeOK, Process
<1>8. /\ e \in Object /\ e \notin Damaged /\ e.n <= captures
      /\ e = IF proc[p].at = "blob" THEN BlobOf(proc[p].snap.blob) ELSE proc[p].snap
  <2>1. e \in Object /\ e \notin Damaged
    BY <1>2, <1>4, WantedType, DamageIsNoObject
  <2>2. e = IF proc[p].at = "blob" THEN BlobOf(proc[p].snap.blob) ELSE proc[p].snap
    BY <1>2 DEF Wanted
  <2>3. captures \in Nat /\ (proc[p].at = "blob" => e.n = 0)
    BY <2>2, BoundsAreNaturals DEF TypeOK, BlobOf
  <2> QED
    BY <1>6, <2>1, <2>2, <2>3
<1>9. /\ Holds /\ Len(pack') = Len(pack) + 1 /\ pack'[Len(pack) + 1] = e
      /\ \A i \in 1..Len(pack) : pack'[i] = pack[i]
  BY <1>4, AppendHolds
<1>10. Len(pack) \in Nat /\ Clean(Len(pack)) /\ \A i \in 1..Len(pack) : Clean(i)
  <2>1. Clean(Len(pack)) /\ Len(pack) \in Nat
    BY <1>4, PackNumbers DEF PackInv, ProcInv
  <2> QED
    BY <2>1, CleanMono, PackNumbers
<1>11. Clean(Len(pack))' /\ \A i \in 1..Len(pack') : pack'[i] \notin Damaged
  <2>1. ASSUME NEW i \in 1..Len(pack') PROVE pack'[i] \notin Damaged
    <3>1. CASE i = Len(pack) + 1
      BY <1>8, <1>9, <3>1
    <3>2. CASE i \in 1..Len(pack)
      BY <1>9, <1>10, <3>2 DEF Clean
    <3> QED
      BY <1>9, <1>10, <3>1, <3>2
  <2> QED
    BY <1>9, <1>10, <2>1 DEF Clean
<1>12. Quiet
  <2>1. proc'[p].at \in {"snap", "commit"}
    BY <1>7 DEF NextPlace
  <2>2. \A q \in Procs : proc'[q].at \in Live =>
          proc[q].at \in Live /\ (proc[q].at = "attach" => proc'[q].at = "attach")
    BY <1>4, <1>7, <2>1 DEF Live
  <2>3. NoNewPublisher
    BY <1>7, <2>1 DEF NoNewPublisher
  <2> QED
    BY <1>4, <1>9, <2>2, <2>3 DEF Quiet
<1>13. Published' \subseteq Published /\ (SyncPublishing' => SyncPublishing)
  BY <1>12, QuietPublishes DEF Quiet
<1>14. Up /\ WholeBack
  BY <1>4, LiveWhole DEF Live
<1>15. Ordered'
  <2> SUFFICES ASSUME NEW k \in 1..Len(pack')
               PROVE  \E j \in 1..k : pack'[j] = BlobOf(pack'[k].blob)
    BY DEF Ordered
  <2>1. CASE k <= Len(pack)
    <3>1. PICK j \in 1..k : pack[j] = BlobOf(pack[k].blob)
      BY <1>10, <2>1 DEF Ordered
    <3> QED
      BY <1>9, <1>10, <2>1, <3>1
  <2>2. CASE k = Len(pack) + 1 /\ proc[p].at = "blob"
    BY <1>8, <1>9, <1>10, <2>2 DEF BlobOf
  <2>3. CASE k = Len(pack) + 1 /\ proc[p].at = "snap"
    <3>1. e = proc[p].snap /\ Whole(BlobOf(e.blob))
      BY <1>5, <1>6, <1>8, <2>3, FirmWhole
    <3>2. PICK j \in 1..Len(pack) : pack[j] = BlobOf(e.blob)
      BY <3>1 DEF Whole
    <3> QED
      BY <1>9, <1>10, <2>3, <3>2
  <2> QED
    BY <1>4, <1>9, <1>10, <2>1, <2>2, <2>3
<1>16. Numbered'
  BY <1>4, <1>8, <1>9, <1>10 DEF Numbered
<1>17. TailTorn'
  BY <1>11 DEF TailTorn
<1>18. CommitsInv' /\ FoundInv'
  BY <1>4, <1>9, <1>13, <1>14, CommitsHeld, FoundHeld
<1>19. /\ d.rows = c.rows \cup {<<e, Len(pack) + 1>>} /\ d.vlen = c.vlen
       /\ d.cache = IF proc[p].at = "blob" THEN c.cache \cup {proc[p].snap.blob}
                    ELSE c.cache
  BY <1>1, <1>2, <1>3, <1>5 DEF WithRow, CacheAfter, Catalog
<1>20. HasRow(d, e) /\ \A o : HasRow(c, o) => HasRow(d, o)
  <2>1. <<e, Len(pack) + 1>> \in d.rows /\ <<e, Len(pack) + 1>>[1] = e
    BY <1>19
  <2> QED
    BY <1>19, <2>1 DEF HasRow
<1>21. Firm(d)' /\ Leads(d)' /\ Cached(d)
  <2>1. Firm(c)' /\ Leads(c)'
    BY <1>5, <1>6, <1>9, <1>13, <1>14, FirmHeld, LeadsHeld
  <2>2. Firm(d)'
    <3>1. ASSUME NEW r \in d.rows
          PROVE  r[2] > 0 /\ Clean(r[2])' /\ pack'[r[2]] = r[1]
      <4>1. CASE r \in c.rows
        BY <2>1, <4>1 DEF Firm
      <4>2. CASE r = <<e, Len(pack) + 1>>
        <5>1. r[1] = e /\ r[2] = Len(pack') /\ r[2] > 0
          BY <1>9, <1>10, <4>2
        <5> QED
          BY <1>9, <1>11, <5>1 DEF Clean
      <4> QED
        BY <1>19, <4>1, <4>2
    <3> QED
      BY <1>19, <2>1, <3>1 DEF Firm
  <2>3. Leads(d)'
    BY <1>19, <1>20, <2>1 DEF Leads, Found
  <2>4. Cached(d)
    BY <1>6, <1>8, <1>19, <1>20 DEF Cached
  <2> QED
    BY <2>2, <2>3, <2>4
<1>22. BatchInv(p)'
  <2>1. Firm(proc[p].txn)' /\ Leads(proc[p].txn)'
    BY <1>7, <1>21, TxnNamed
  <2>2. Cached(proc'[p].txn) /\ HasRow(proc'[p].txn, BlobOf(proc'[p].snap.blob))
    BY <1>4, <1>6, <1>7, <1>8, <1>20, <1>21
  <2>3. proc'[p].snap.n \in 1..captures' /\ (proc'[p].deferred => ~SyncPublishing')
    BY <1>4, <1>6, <1>7, <1>13
  <2>4. CASE proc[p].at = "blob"
    <3>1. proc'[p].at = "snap" /\ e # proc[p].snap
      BY <1>6, <1>7, <1>8, <2>4 DEF NextPlace, BlobOf
    <3>2. \A i \in 1..Len(pack') : pack'[i] # proc'[p].snap
      BY <1>6, <1>7, <1>9, <1>10, <3>1
    <3> QED
      BY <2>1, <2>2, <2>3, <3>1, <3>2 DEF BatchInv
  <2>5. CASE proc[p].at = "snap"
    <3>1. proc'[p].at = "commit" /\ HasRow(proc'[p].txn, proc'[p].snap)
      BY <1>7, <1>8, <1>20, <2>5 DEF NextPlace
    <3>2. proc'[p].start < proc'[p].end
      <4>1. proc[p].start \in Nat /\ proc[p].end \in Nat
        BY Numbers
      <4> QED
        BY <1>7, <1>10, <4>1 DEF RunStart
    <3>3. /\ proc'[p].end = Len(pack') /\ proc'[p].known = Len(pack')
          /\ \A i \in 1..(Len(pack') - 1) : pack'[i] # proc'[p].snap
      BY <1>6, <1>7, <1>9, <1>10
    <3>4. ASSUME NEW a \in commits', Admissible(a)' PROVE a.vlen < Len(pack')
      <4>1. a \in commits /\ Admissible(a) /\ a \in Catalog
        BY <1>4, <3>4 DEF Admissible, TypeOK
      <4>2. Firm(a) /\ a.vlen \in Nat
        BY <1>14, <4>1, AdmissibleFirm, CatalogNumbers
      <4> QED
        BY <1>9, <1>10, <4>2 DEF Firm, Clean
    <3> QED
      BY <2>1, <2>2, <2>3, <3>1, <3>2, <3>3, <3>4 DEF BatchInv
  <2> QED
    BY <1>4, <2>4, <2>5
<1>23. OneBatch' /\ \A q \in Procs \ {p} : BatchInv(q)'
  BY <1>5, <1>7, OnlyBatch
<1> QED
  BY <1>12, <1>15, <1>16, <1>17, <1>18, <1>22, <1>23

(* COMMIT: the only step that publishes. *)
LEMMA CommitBatchStep ==
    ASSUME TypeOK, TypeOK', PackInv, RefInv, NEW p \in Procs, CommitBatch(p)
    PROVE  StoreInv' /\ LogParts'
<1> USE DEF RefInv, StoreInv, LogParts
<1>1. PICK c : c = proc[p].txn
  OBVIOUS
<1>2. PICK s : s = proc[p].snap
  OBVIOUS
<1>3. PICK d : d = Checkpointed(p)
  OBVIOUS
<1>4. /\ pack' = pack /\ captures' = captures /\ proc[p].at = "commit"
      /\ packSynced' = IF ~proc[p].deferred /\ proc[p].end > proc[p].start
                       THEN Len(pack) ELSE packSynced
      /\ catalog' = d /\ commits' = commits \cup {d} /\ fallen' = fallen
      /\ UNCHANGED <<refs, refsSynced, frontier, frontiers, group, acked, opened>>
      /\ proc' = [proc EXCEPT ![p].at = "publish", ![p].txn = EmptyCatalog,
                              ![p].start = 0, ![p].end = 0, ![p].last = None]
  BY <1>3 DEF CommitBatch, Commit, bounds
<1>5. proc[p] \in Process /\ c \in Catalog /\ proc[p].at \in InBatch
  BY <1>1, <1>4, Numbers DEF TypeOK, InBatch
<1>6. /\ Firm(c) /\ Cached(c) /\ Leads(c)
      /\ (proc[p].deferred => ~SyncPublishing)
      /\ HasRow(c, s) /\ HasRow(c, BlobOf(s.blob))
      /\ proc[p].start < proc[p].end
      /\ proc[p].end = Len(pack) /\ proc[p].known = Len(pack)
      /\ \A i \in 1..(Len(pack) - 1) : pack[i] # s
      /\ \A a \in commits : Admissible(a) => a.vlen < Len(pack)
  BY <1>1, <1>2, <1>4, <1>5 DEF BatchInv
<1>7. /\ proc'[p].at = "publish" /\ proc'[p].snap = s
      /\ proc'[p].deferred = proc[p].deferred
      /\ \A q \in Procs \ {p} : proc'[q] = proc[q]
  BY <1>2, <1>4, <1>5 DEF TypeOK, Process
<1>8. /\ Len(pack) \in Nat /\ Clean(Len(pack)) /\ \A i \in 1..Len(pack) : Clean(i)
      /\ proc[p].start \in Nat /\ c.vlen \in Nat
  <2>1. Clean(Len(pack)) /\ Len(pack) \in Nat
    BY <1>6, PackNumbers DEF PackInv, ProcInv
  <2> QED
    BY <1>5, <2>1, CleanMono, PackNumbers, Numbers, CatalogNumbers
<1>9. Holds
  BY <1>4, SameHolds
<1>10. Published' \subseteq Published \cup {s}
  <2>1. Publishing' \subseteq Publishing \cup {s}
    BY <1>7 DEF Publishing
  <2>2. Logged' = Logged
    BY <1>4 DEF Logged
  <2> QED
    BY <2>1, <2>2 DEF Published
<1>11. Up /\ Mended /\ \A o \in Published : Whole(o)
  BY <1>4, LiveWhole DEF Live, Mended
<1>12. /\ d \in Catalog /\ d.rows = c.rows /\ d.cache = c.cache
       /\ d.vlen \in {c.vlen, Len(pack)} /\ d.vlen >= c.vlen
  <2>1. d \in Catalog
    BY <1>4 DEF TypeOK
  <2> QED
    BY <1>1, <1>3, <1>5, <1>6, <1>8, <2>1 DEF Checkpointed, Catalog
<1>13. \A k : Clean(k)' <=> Clean(k)
  BY <1>4 DEF Clean
<1>14. Firm(d)' /\ Cached(d)
  BY <1>4, <1>6, <1>8, <1>12, <1>13 DEF Firm, Cached, HasRow
<1>15. Leads(d)'
  <2> SUFFICES ASSUME NEW o \in Published', Whole(o)'
               PROVE  HasRow(d, o) /\ Found(d, BlobOf(o.blob))'
    BY DEF Leads
  <2>1. CASE o = s
    BY <1>6, <1>12, <2>1 DEF HasRow, Found
  <2>2. CASE o \in Published
    <3>1. HasRow(c, o) /\ Found(c, BlobOf(o.blob))
      BY <1>6, <1>11, <2>2 DEF Leads
    <3>2. Found(d, BlobOf(o.blob))'
      BY <1>4, <1>8, <1>12, <3>1 DEF Found, HasRow
    <3> QED
      BY <1>12, <3>1, <3>2 DEF HasRow
  <2> QED
    BY <1>10, <2>1, <2>2
<1>16. Counted(d)'
  <2> SUFFICES ASSUME NEW k \in 1..Len(pack'), k <= d.vlen, pack'[k] \in Published'
               PROVE  HasRow(d, pack'[k])
    BY DEF Counted
  <2>1. PICK o : o = pack'[k]
    OBVIOUS
  <2>2. Whole(o)'
    BY <1>4, <1>8, <1>13, <2>1 DEF Whole
  <2> QED
    BY <1>15, <2>1, <2>2 DEF Leads
<1>17. ASSUME NEW a \in commits, Counted(a), Admissible(a)
       PROVE  Counted(a)'
  <2> SUFFICES ASSUME NEW k \in 1..Len(pack), k <= a.vlen, pack[k] \in Published'
               PROVE  HasRow(a, pack[k])
    BY <1>4 DEF Counted
  <2>1. k \in 1..(Len(pack) - 1)
    <3>1. a.vlen < Len(pack) /\ a.vlen \in Nat
      BY <1>6, <1>17, Numbers
    <3> QED
      BY <1>8, <3>1
  <2>2. pack[k] # s
    BY <1>6, <2>1
  <2> QED
    BY <1>10, <1>17, <2>2 DEF Counted
<1>18. CommitsInv'
  BY <1>4, <1>9, <1>12, <1>14, <1>16, <1>17, CommitsNew
<1>19. FoundInv'
  BY <1>4, <1>15, CatalogNamed DEF FoundInv
<1>20. Ordered' /\ Numbered' /\ TailTorn'
  BY <1>4, <1>11, <1>13 DEF Ordered, Numbered, TailTorn
<1>21. BatchInv(p)' /\ OneBatch' /\ \A q \in Procs \ {p} : BatchInv(q)'
  BY <1>5, <1>7, OnlyBatch DEF BatchInv, InBatch
<1>22. Whole(s) /\ Whole(BlobOf(s.blob))
  BY <1>5, <1>6, FirmWhole
<1>23. \A o : (Whole(o) => Whole(o)') /\ (Lasting(o) => Lasting(o)')
  BY <1>9, WholeHeld
<1>24. MendedInv'
  BY <1>10, <1>11, <1>22, <1>23 DEF MendedInv
<1>25. SolidInv'
  <2>1. CASE proc[p].deferred
    <3>1. ~Undeferred
      BY <1>5, <2>1 DEF PackInv, ProcInv
    <3>2. ~SyncPublishing
      BY <1>6, <2>1
    <3>3. ~Undeferred'
      BY <1>4, <3>1 DEF Undeferred
    <3>4. ~SyncPublishing'
      BY <1>7, <2>1, <3>2 DEF SyncPublishing
    <3> QED
      BY <3>3, <3>4 DEF SolidInv, Solid
  <2>2. CASE ~proc[p].deferred
    <3>1. packSynced' = Len(pack)
      BY <1>4, <1>6, <1>8, <2>2
    <3>2. \A o : Whole(o) => Lasting(o)'
      BY <1>4, <1>13, <3>1 DEF Whole, Lasting
    <3>3. \A o \in Published' : Whole(o) /\ Whole(BlobOf(o.blob))
      BY <1>10, <1>11, <1>22, BlobWhole
    <3>4. Undeferred' => Undeferred
      BY <1>4 DEF Undeferred
    <3>5. Undeferred' => \A q \in Procs : proc'[q].at = "publish" => ~proc'[q].deferred
      BY <1>7, <2>2, <3>4 DEF SolidInv
    <3> QED
      BY <3>2, <3>3, <3>5 DEF SolidInv
  <2> QED
    BY <2>1, <2>2
<1>26. LogKept /\ NoNewGarbage
  BY <1>4 DEF LogKept, NoNewGarbage, Good, Stays
<1>27. AckedInv' /\ RefPromise' /\ GroupRefs'
  <2>1. SafeHeld /\ LogSynced
    BY <1>9, <1>26, HoldsSafe DEF LogKept, LogSynced
  <2> QED
    BY <1>4, <1>9, <1>26, <2>1, AckedKept, FrontierRefsKept, GroupRefsKept
    DEF PackInv
<1>28. LogInv'
  <2>1. \A q \in Procs : proc'[q].at \in Live =>
           proc[q].at \in Live /\ (proc[q].at = "attach" => proc'[q].at = "attach")
    BY <1>4, <1>7 DEF Live
  <2> QED
    BY <1>4, <2>1 DEF LogInv
<1> QED
  BY <1>18, <1>19, <1>20, <1>21, <1>24, <1>25, <1>27, <1>28

LEMMA FoldCatalogStore ==
    ASSUME TypeOK, TypeOK', RefInv, FoldCatalog
    PROVE  StoreInv' /\ Quiet
<1> USE DEF RefInv, StoreInv
<1>1. /\ pack' = pack /\ packSynced' = packSynced /\ captures' = captures
      /\ catalog' = catalog /\ commits' = {catalog} /\ fallen' = None /\ Up
      /\ UNCHANGED <<refs, refsSynced, frontier, frontiers, proc, group, acked, opened>>
  BY DEF FoldCatalog, bounds, Up
<1>2. Holds
  BY <1>1, SameHolds
<1>3. Quiet
  BY <1>1, <1>2 DEF Quiet, NoNewPublisher
<1>4. Published' \subseteq Published /\ (SyncPublishing' => SyncPublishing)
  BY <1>3, QuietPublishes DEF Quiet
<1>5. PICK c : c = catalog
  OBVIOUS
<1>6. /\ c \in Catalog /\ Firm(c) /\ Cached(c) /\ Counted(c) /\ Leads(c)
      /\ c \in commits /\ Admissible(c)
  BY <1>1, <1>5, CatalogFirm DEF FoundInv, TypeOK, Admissible
<1>7. Firm(c)' /\ Weak(c)' /\ Counted(c)' /\ Leads(c)'
  BY <1>1, <1>4, <1>6, SameCatalog, FirmIsWeak
<1>8. CommitsInv'
  BY <1>1, <1>5, <1>6, <1>7 DEF CommitsInv
<1>9. FoundInv'
  BY <1>1, <1>5, <1>7, CatalogNamed DEF FoundInv
<1>10. \A k : Clean(k)' <=> Clean(k)
  BY <1>1 DEF Clean
<1>11. Ordered' /\ Numbered' /\ TailTorn'
  BY <1>1, <1>10 DEF Ordered, Numbered, TailTorn
<1>12. captures \in Nat
  BY BoundsAreNaturals DEF TypeOK
<1>13. ASSUME NEW q \in Procs PROVE BatchInv(q)'
  BY <1>1, <1>4, <1>5, <1>6, <1>12, BatchKept
<1>14. OneBatch'
  BY <1>1 DEF OneBatch
<1> QED
  BY <1>3, <1>8, <1>9, <1>11, <1>13, <1>14

LEMMA KillStore ==
    ASSUME TypeOK, TypeOK', PackInv, RefInv, NEW p \in Procs, Kill(p)
    PROVE  StoreInv' /\ Quiet
<1> USE DEF RefInv, StoreInv
<1>1. /\ packSynced' = packSynced /\ captures' = captures /\ proc[p].at # "closed" /\ Up
      /\ UNCHANGED <<refs, refsSynced, catalog, commits, fallen, frontier, frontiers,
                     acked, opened>>
      /\ group' \in {group, NoGroup}
      /\ proc' = [proc EXCEPT ![p] = ClosedProcess]
      /\ pack' = pack \/ (Appending(p) /\ pack' = Append(pack, Torn))
  BY DEF Kill, Die, Up
<1>2. proc'[p].at = "closed" /\ \A q \in Procs \ {p} : proc'[q] = proc[q]
  BY <1>1 DEF TypeOK, ClosedProcess
<1>3. Holds
  BY <1>1, SameHolds, AppendHolds
<1>4. Quiet
  BY <1>1, <1>2, <1>3 DEF Quiet, NoNewPublisher, Live
<1>5. Published' \subseteq Published /\ (SyncPublishing' => SyncPublishing)
  BY <1>4, QuietPublishes DEF Quiet
<1>6. CASE pack' = pack
  <2>1. captures \in Nat
    BY BoundsAreNaturals DEF TypeOK
  <2>2. Still
    BY <1>1, <1>2, <1>5, <1>6, <2>1 DEF Still, SameStore, InBatch
  <2> QED
    BY <1>4, <2>2, StillStore
<1>7. CASE Appending(p) /\ pack' = Append(pack, Torn)
  <2>1. proc[p].at \in InBatch /\ proc[p].at \in Live /\ Len(pack) = proc[p].known
    BY <1>7 DEF Appending, MustAppend, InBatch, Live
  <2>2. /\ Len(pack') = Len(pack) + 1 /\ pack'[Len(pack) + 1] = Torn
        /\ \A i \in 1..Len(pack) : pack'[i] = pack[i]
    BY <1>1, <1>7, AppendHolds
  <2>3. Len(pack) \in Nat /\ Clean(Len(pack))
    BY <2>1, PackNumbers DEF PackInv, ProcInv
  <2>4. Worn
    BY <2>2, <2>3 DEF Worn, Damaged
  <2>5. Ordered' /\ Numbered'
    BY <1>1, <2>4, WornPack
  <2>6. TailTorn'
    BY <2>2, <2>3 DEF TailTorn, Clean
  <2>7. WholeBack
    BY <2>1, LiveWhole
  <2>8. CommitsInv' /\ FoundInv'
    BY <1>1, <1>3, <1>5, <2>7, CommitsHeld, FoundHeld
  <2>9. OneBatch' /\ BatchInv(p)' /\ \A q \in Procs \ {p} : BatchInv(q)'
    BY <1>2, <2>1, OnlyBatch DEF BatchInv, InBatch
  <2> QED
    BY <1>4, <2>5, <2>6, <2>8, <2>9
<1> QED
  BY <1>1, <1>6, <1>7

-----------------------------------------------------------------------------
(* Steps on the log *)

(* What cutting a torn tail leaves. *)
LEMMA FramesKept ==
    ASSUME TypeOK, LogInv, NEW w, w = WholeFrames(refs)
    PROVE  /\ w \in Seq(Entry) /\ Len(w) \in Nat /\ Len(w) <= Len(refs)
           /\ \A i \in 1..Len(w) : w[i] = refs[i] /\ refs[i] # Torn
           /\ \A n \in Nat : Good(n) => n <= Len(w)
<1>1. /\ refs \in Seq(Entry) /\ Len(refs) \in Nat
      /\ \A i \in 1..Len(refs) : refs[i] = Torn => i = Len(refs)
  BY RefsNumbers DEF LogInv
<1>2. /\ w \in Seq(Entry) /\ Len(w) \in Nat /\ Len(w) <= Len(refs)
      /\ \A i \in 1..Len(w) : w[i] = refs[i]
  BY <1>1, WholeFramesType
<1>3. CASE Len(refs) > 0 /\ refs[Len(refs)] = Torn
  <2>1. Len(w) = Len(refs) - 1
    <3>1. w = SubSeq(refs, 1, Len(refs) - 1)
      BY <1>3 DEF WholeFrames
    <3>2. PICK m \in Nat : m = Len(refs) - 1
      BY <1>1, <1>3
    <3>3. w = SubSeq(refs, 1, m) /\ m <= Len(refs)
      BY <1>1, <3>1, <3>2
    <3>4. Len(w) = m
      BY <1>1, <3>3
    <3> QED
      BY <3>2, <3>4
  <2>2. \A i \in 1..Len(w) : refs[i] # Torn
    BY <1>1, <2>1
  <2>3. ASSUME NEW n \in Nat, Good(n) PROVE n <= Len(w)
    <3>1. n <= Len(refs) /\ \A i \in 1..n : refs[i] \in Object
      BY <2>3 DEF Good
    <3>2. n # Len(refs)
      BY <1>3, <3>1, DamageIsNoObject DEF Damaged
    <3> QED
      BY <1>1, <2>1, <3>1, <3>2
  <2> QED
    BY <1>2, <2>2, <2>3
<1>4. CASE ~(Len(refs) > 0 /\ refs[Len(refs)] = Torn)
  <2>1. w = refs
    BY <1>4 DEF WholeFrames
  <2> QED
    BY <1>1, <1>2, <1>4, <2>1 DEF Good
<1> QED
  BY <1>3, <1>4

(* A frame is appended to what is whole of the log. *)
LEMMA AppendLog ==
    ASSUME TypeOK, TypeOK', LogInv, NEW x, x # Garbage,
           refs' = Append(WholeFrames(refs), x),
           \/ refsSynced' = Len(refs')
           \/ refsSynced' = IF refsSynced < Len(refs') THEN refsSynced
                            ELSE Len(refs') - 1
    PROVE  /\ LogKept /\ NoNewGarbage
           /\ Logged' \subseteq Logged \cup ({x} \ Damaged)
           /\ Len(refs') \in Nat /\ Len(refs') > 0 /\ refs'[Len(refs')] = x
           /\ Len(refs') - 1 <= Len(refs)
           /\ \A i \in 1..(Len(refs') - 1) : refs'[i] = refs[i] /\ refs[i] # Torn
           /\ \A n \in Nat : Good(n) => n < Len(refs')
<1>1. PICK w : w = WholeFrames(refs)
  OBVIOUS
<1>2. /\ w \in Seq(Entry) /\ Len(w) \in Nat /\ Len(w) <= Len(refs)
      /\ \A i \in 1..Len(w) : w[i] = refs[i] /\ refs[i] # Torn
      /\ \A n \in Nat : Good(n) => n <= Len(w)
  BY <1>1, FramesKept
<1>3. /\ Len(refs') = Len(w) + 1 /\ refs'[Len(w) + 1] = x
      /\ \A i \in 1..Len(w) : refs'[i] = w[i]
  BY <1>1, <1>2
<1>4. Len(refs) \in Nat /\ refsSynced \in Nat
  BY RefsNumbers
<1>5. LogKept
  <2> SUFFICES ASSUME NEW n \in Nat, Good(n) PROVE Stays(n)
    BY DEF LogKept
  <2>1. n <= Len(w)
    BY <1>2
  <2> QED
    BY <1>2, <1>3, <1>4, <2>1 DEF Stays
<1>6. NoNewGarbage
  BY <1>2, <1>3, <1>4 DEF NoNewGarbage
<1>7. Logged' \subseteq Logged \cup ({x} \ Damaged)
  BY <1>2, <1>3, <1>4 DEF Logged
<1> QED
  BY <1>2, <1>3, <1>4, <1>5, <1>6, <1>7

(* What holds of the log when its whole part is kept. *)
LEMMA LogFrame ==
    ASSUME TypeOK, TypeOK', PackInv, RefInv, Still,
           packSynced' = packSynced \/ packSynced' = Len(pack),
           LogKept, NoNewPublisher, Undeferred' => Undeferred
    PROVE  /\ StoreInv' /\ Holds /\ SafeHeld /\ LogSynced /\ SolidInv'
           /\ (Mended' => Mended) => MendedInv'
           /\ frontiers' \subseteq frontiers => RefPromise'
           /\ acked' = acked => AckedInv'
           /\ group' \in {group, NoGroup} /\ NoNewGarbage => GroupRefs'
<1> USE DEF RefInv, LogParts
<1>1. StoreInv'
  BY StillStore
<1>2. Holds
  BY SameHolds DEF Still, SameStore
<1>3. SafeHeld /\ LogSynced
  BY <1>2, HoldsSafe DEF LogKept, LogSynced
<1>4. Published' \subseteq Published
  BY DEF Still, SameStore
<1>5. SolidInv'
  BY <1>2, <1>4, SolidKept
<1>6. (Mended' => Mended) => MendedInv'
  BY <1>2, <1>4, MendedKept
<1>7. frontiers' \subseteq frontiers => RefPromise'
  BY <1>3, FrontierRefsKept DEF PackInv
<1>8. acked' = acked => AckedInv'
  BY <1>3, AckedKept
<1>9. group' \in {group, NoGroup} /\ NoNewGarbage => GroupRefs'
  BY <1>2, GroupRefsKept, GroupRefsNone DEF PackInv
<1> QED
  BY <1>1, <1>2, <1>3, <1>5, <1>6, <1>7, <1>8, <1>9

LEMMA CapturesNat ==
    ASSUME TypeOK
    PROVE  captures \in Nat
  BY BoundsAreNaturals DEF TypeOK

(* repair_deferred_refs cuts no reference whose snapshot is whole. *)
LEMMA RepairRefsStep ==
    ASSUME TypeOK, TypeOK', PackInv, RefInv, NEW p \in Procs, RepairRefs(p)
    PROVE  RefInv' /\ LogKept
<1> USE DEF RefInv, LogParts
<1>1. /\ proc[p].at = "repair" /\ pack' = pack /\ packSynced' = packSynced
      /\ UNCHANGED <<catalog, commits, fallen, frontier, frontiers, group, captures,
                     acked, opened>>
      /\ proc' = [proc EXCEPT ![p].at = "attach", ![p].known = Len(pack)]
  BY DEF RepairRefs, bounds
<1>2. proc'[p].at = "attach" /\ \A q \in Procs \ {p} : proc'[q] = proc[q]
  BY <1>1 DEF TypeOK, Process
<1>3. Up
  BY <1>1 DEF Up
<1>4. PICK stop \in Nat :
         /\ stop <= Len(refs) /\ Len(refs') = stop
         /\ \A i \in 1..stop : refs'[i] = refs[i] /\ (frontier.exists => RefValid(i))
         /\ stop < Len(refs) => /\ frontier.exists /\ ~RefValid(stop + 1)
                                /\ refsSynced' = stop
         /\ stop = Len(refs) => refsSynced' = refsSynced
  <2>1. CASE ~frontier.exists
    BY <1>1, <2>1, RefsNumbers DEF RepairRefs
  <2>2. CASE frontier.exists
    <3>1. PICK stop \in 0..Len(refs) :
             /\ RefsStop(stop)
             /\ refs' = SubSeq(refs, 1, stop)
             /\ refsSynced' = IF stop < Len(refs) THEN stop ELSE refsSynced
      BY <2>2 DEF RepairRefs
    <3>2. stop \in Nat /\ stop <= Len(refs)
      BY RefsNumbers
    <3>3. Len(refs') = stop /\ \A i \in 1..stop : refs'[i] = refs[i]
      BY <3>1, <3>2, RefsNumbers
    <3> QED
      BY <2>2, <3>1, <3>2, <3>3, RefsNumbers DEF RefsStop
  <2> QED
    BY <2>1, <2>2
<1>5. /\ Len(refs) \in Nat /\ refsSynced \in Nat /\ refsSynced <= Len(refs)
      /\ \A i \in 1..Len(refs) : refs[i] \in Entry
  BY RefsNumbers
<1>6. Logged' \subseteq Logged /\ NoNewGarbage
  BY <1>4, <1>5 DEF Logged, NoNewGarbage
<1>7. NoNewPublisher
  BY <1>2 DEF NoNewPublisher
<1>8. Published' \subseteq Published /\ (SyncPublishing' => SyncPublishing)
  <2>1. Publishing' \subseteq Publishing /\ (SyncPublishing' => SyncPublishing)
    BY <1>7 DEF Publishing, SyncPublishing, NoNewPublisher
  <2> QED
    BY <1>6, <2>1 DEF Published
<1>9. Still
  <2>1. captures \in Nat
    BY CapturesNat
  <2>2. SameStore
    BY <1>1, <1>3, <1>8, <2>1 DEF SameStore
  <2>3. \A q \in Procs : proc'[q].at \in InBatch => proc'[q] = proc[q]
    BY <1>2 DEF InBatch
  <2> QED
    BY <2>2, <2>3 DEF Still
<1>10. PICK c : c = catalog
  OBVIOUS
<1>11. Leads(c) /\ Firm(c) /\ c \in Catalog
  BY <1>3, <1>10, CatalogFirm DEF StoreInv, FoundInv
<1>12. LogKept
  <2> SUFFICES ASSUME NEW n \in Nat, Good(n) PROVE Stays(n)
    BY DEF LogKept
  <2>1. n <= Len(refs) /\ \A i \in 1..n : refs[i] \in Object /\ Whole(refs[i])
    BY DEF Good
  <2>2. n <= stop
    <3> SUFFICES ASSUME stop < n PROVE FALSE
      BY <1>4
    <3>1. stop + 1 \in 1..n /\ stop + 1 \in 1..Len(refs) /\ stop < Len(refs)
      BY <1>4, <1>5, <2>1
    <3>2. PICK s : s = refs[stop + 1]
      OBVIOUS
    <3>3. s \in Object /\ Whole(s) /\ s \notin Damaged
      BY <2>1, <3>1, <3>2, DamageIsNoObject
    <3>4. s \in Published
      BY <3>1, <3>2, <3>3 DEF Published, Logged
    <3>5. HasRow(catalog, refs[stop + 1])
      BY <1>10, <1>11, <3>2, <3>3, <3>4 DEF Leads
    <3> QED
      BY <1>4, <3>1, <3>2, <3>3, <3>5 DEF RefValid
  <2> QED
    BY <1>4, <1>5, <2>1, <2>2 DEF Stays
<1>13. /\ StoreInv' /\ SolidInv' /\ RefPromise' /\ AckedInv' /\ GroupRefs'
       /\ ((Mended' => Mended) => MendedInv') /\ Holds
  BY <1>1, <1>6, <1>7, <1>9, <1>12, LogFrame DEF Undeferred
<1>14. MendedInv'
  <2>1. CASE Mended
    BY <1>13, <2>1
  <2>2. CASE ~Mended
    <3>1. Publishing' = {}
      BY <1>2, <2>2 DEF Publishing, Mended, Live
    <3> SUFFICES ASSUME NEW s \in Logged' PROVE Whole(s)
      BY <1>13, <3>1, WholeHeld DEF MendedInv, Published
    <3>2. PICK i \in 1..Len(refs') : refs'[i] = s /\ s \notin Damaged
      BY DEF Logged
    <3>3. refs[i] = s /\ i \in 1..Len(refs) /\ (frontier.exists => RefValid(i))
      BY <1>4, <1>5, <3>2
    <3>4. s \in Published
      BY <3>2, <3>3 DEF Published, Logged
    <3>5. CASE ~frontier.exists
      <4>1. Solid
        BY <3>5 DEF Solid, Undeferred, TypeOK
      <4> QED
        BY <3>4, <4>1, LastingIsWhole DEF SolidInv
    <3>6. CASE frontier.exists /\ i <= frontier.refs
      <4>1. frontier \in frontiers
        BY DEF TypeOK
      <4>2. Good(frontier.refs) /\ frontier.refs \in Nat
        BY <4>1, FrontierGood DEF PackInv
      <4> QED
        BY <3>3, <3>6, <4>2 DEF Good
    <3>7. CASE frontier.exists /\ i > frontier.refs
      <4>1. HasRow(c, s)
        BY <1>10, <3>3, <3>7 DEF RefValid
      <4> QED
        BY <1>11, <4>1, FirmWhole
    <3>8. frontier.refs \in Nat
      BY DEF TypeOK, Frontier
    <3> QED
      BY <3>5, <3>6, <3>7, <3>8
  <2> QED
    BY <2>1, <2>2
<1>15. LogInv'
  <2>1. \A i \in 1..Len(refs') : refs'[i] = Torn => i = Len(refs')
    <3> SUFFICES ASSUME NEW i \in 1..Len(refs'), refs'[i] = Torn PROVE i = Len(refs')
      OBVIOUS
    <3>1. i \in 1..Len(refs) /\ refs[i] = Torn
      BY <1>4, <1>5
    <3>2. i = Len(refs)
      BY <3>1 DEF LogInv
    <3> QED
      BY <1>4, <1>5, <3>2
  <2>2. frontier.exists => \A i \in 1..Len(refs') : refs'[i] # Garbage
    BY <1>4 DEF RefValid, Damaged
  <2>3. opened => \A i \in 1..Len(refs') : refs'[i] # Garbage
    BY <1>6 DEF LogInv, NoNewGarbage
  <2>4. \A q \in Procs : proc'[q].at \in Live \ {"attach"} => opened
    BY <1>2 DEF LogInv
  <2> QED
    BY <1>1, <2>1, <2>2, <2>3, <2>4 DEF LogInv
<1> QED
  BY <1>12, <1>13, <1>14, <1>15

(* ensure_workspace cuts at most a torn tail. *)
LEMMA AttachStep ==
    ASSUME TypeOK, TypeOK', PackInv, RefInv, NEW p \in Procs, Attach(p)
    PROVE  RefInv' /\ LogKept
<1> USE DEF RefInv, LogParts
<1>1. /\ proc[p].at = "attach" /\ pack' = pack /\ packSynced' = packSynced
      /\ UNCHANGED <<catalog, commits, fallen, frontier, frontiers, group, captures,
                     acked>>
      /\ opened' = TRUE
      /\ proc' = [proc EXCEPT ![p].at = "idle"]
      /\ \A i \in 1..Len(refs) : refs[i] # Garbage
      /\ refs' = WholeFrames(refs)
      /\ refsSynced' = IF WholeFrames(refs) # refs THEN Len(refs') ELSE refsSynced
  BY DEF Attach, bounds
<1>2. proc'[p].at = "idle" /\ \A q \in Procs \ {p} : proc'[q] = proc[q]
  BY <1>1 DEF TypeOK, Process
<1>3. Up /\ Mended
  BY <1>1 DEF Up, Mended, Live
<1>4. PICK w : w = WholeFrames(refs)
  OBVIOUS
<1>5. /\ refs' = w /\ Len(w) \in Nat /\ Len(w) <= Len(refs)
      /\ \A i \in 1..Len(w) : w[i] = refs[i] /\ refs[i] # Torn
      /\ \A n \in Nat : Good(n) => n <= Len(w)
  BY <1>1, <1>4, FramesKept
<1>6. Len(refs) \in Nat /\ refsSynced \in Nat
  BY RefsNumbers
<1>7. Logged' \subseteq Logged /\ NoNewGarbage
  BY <1>5, <1>6 DEF Logged, NoNewGarbage
<1>8. NoNewPublisher
  BY <1>2 DEF NoNewPublisher
<1>9. Published' \subseteq Published /\ (SyncPublishing' => SyncPublishing)
  <2>1. Publishing' \subseteq Publishing /\ (SyncPublishing' => SyncPublishing)
    BY <1>8 DEF Publishing, SyncPublishing, NoNewPublisher
  <2> QED
    BY <1>7, <2>1 DEF Published
<1>10. Still
  BY <1>1, <1>2, <1>3, <1>9, CapturesNat DEF Still, SameStore, InBatch
<1>11. LogKept
  BY <1>1, <1>5, <1>6 DEF LogKept, Stays
<1>12. /\ StoreInv' /\ SolidInv' /\ RefPromise' /\ AckedInv' /\ GroupRefs' /\ MendedInv'
  BY <1>1, <1>3, <1>7, <1>8, <1>10, <1>11, LogFrame DEF Undeferred
<1>13. LogInv'
  BY <1>1, <1>5, <1>7 DEF LogInv, NoNewGarbage
<1> QED
  BY <1>11, <1>12, <1>13

(* The append that makes a capture visible. *)
LEMMA PublishStep ==
    ASSUME TypeOK, TypeOK', PackInv, RefInv, NEW p \in Procs, Publish(p)
    PROVE  RefInv' /\ LogKept
<1> USE DEF RefInv, LogParts
<1>1. PICK s : s = proc[p].snap
  OBVIOUS
<1>2. /\ proc[p].at = "publish" /\ pack' = pack /\ packSynced' = packSynced
      /\ UNCHANGED <<catalog, commits, fallen, frontier, frontiers, group, captures,
                     opened>>
      /\ proc' = [proc EXCEPT ![p].at = "idle", ![p].deferred = FALSE, ![p].snap = None]
      /\ refs' = Append(WholeFrames(refs), s)
      /\ IF proc[p].deferred
         THEN /\ refsSynced' = IF refsSynced < Len(refs') THEN refsSynced
                               ELSE Len(refs') - 1
              /\ acked' = acked
         ELSE refsSynced' = Len(refs') /\ acked' = Longer(acked, refs')
  BY <1>1 DEF Publish, bounds
<1>3. proc'[p].at = "idle" /\ \A q \in Procs \ {p} : proc'[q] = proc[q]
  BY <1>2 DEF TypeOK, Process
<1>4. Up /\ Mended /\ opened
  BY <1>2 DEF Up, Mended, Live, LogInv
<1>5. s \in Object /\ s \notin Damaged /\ s # Garbage /\ s # Torn /\ s \in Published
  <2>1. s \in Object /\ s \in Publishing
    BY <1>1, <1>2 DEF TypeOK, Capturing, Publishing
  <2> QED
    BY <2>1, DamageIsNoObject DEF Published, Damaged
<1>6. /\ LogKept /\ NoNewGarbage /\ Logged' \subseteq Logged \cup {s}
      /\ Len(refs') \in Nat /\ Len(refs') > 0 /\ refs'[Len(refs')] = s
      /\ Len(refs') - 1 <= Len(refs)
      /\ \A i \in 1..(Len(refs') - 1) : refs'[i] = refs[i] /\ refs[i] # Torn
      /\ \A n \in Nat : Good(n) => n < Len(refs')
  BY <1>2, <1>5, AppendLog
<1>7. NoNewPublisher
  BY <1>3 DEF NoNewPublisher
<1>8. Published' \subseteq Published /\ (SyncPublishing' => SyncPublishing)
  <2>1. Publishing' \subseteq Publishing /\ (SyncPublishing' => SyncPublishing)
    BY <1>7 DEF Publishing, SyncPublishing, NoNewPublisher
  <2> QED
    BY <1>5, <1>6, <2>1 DEF Published
<1>9. Still
  <2>1. SameStore
    BY <1>2, <1>4, <1>8, CapturesNat DEF SameStore
  <2>2. \A q \in Procs : proc'[q].at \in InBatch => proc'[q] = proc[q]
    BY <1>3 DEF InBatch
  <2> QED
    BY <2>1, <2>2 DEF Still
<1>10. /\ StoreInv' /\ SolidInv' /\ RefPromise' /\ GroupRefs' /\ MendedInv' /\ SafeHeld
       /\ (acked' = acked => AckedInv')
  BY <1>2, <1>4, <1>6, <1>7, <1>9, LogFrame DEF Undeferred
<1>11. LogInv'
  <2>1. \A i \in 1..Len(refs') : refs'[i] = Torn => i = Len(refs')
    BY <1>6
  <2>2. \A i \in 1..Len(refs') : refs'[i] # Garbage
    BY <1>4, <1>6 DEF LogInv, NoNewGarbage
  <2> QED
    BY <1>2, <1>4, <2>1, <2>2 DEF LogInv
<1>12. CASE proc[p].deferred
  BY <1>2, <1>6, <1>10, <1>11, <1>12
<1>13. CASE ~proc[p].deferred
  <2>1. acked' = refs' /\ refsSynced' = Len(refs')
    <3>1. Len(acked) < Len(refs') /\ Len(acked) \in Nat
      BY <1>6, AckedGood, RefsNumbers
    <3> QED
      BY <1>2, <1>6, <1>13, <3>1 DEF Longer
  <2>2. Solid
    BY <1>2, <1>13 DEF Solid, SyncPublishing
  <2>3. ASSUME NEW i \in 1..Len(refs')
        PROVE  refs'[i] \in Object /\ refs'[i] \in Published
    <3>1. CASE i = Len(refs')
      BY <1>5, <1>6, <3>1
    <3>2. CASE i # Len(refs')
      <4>1. i \in 1..(Len(refs') - 1) /\ i \in 1..Len(refs)
        BY <1>6, <3>2, RefsNumbers
      <4>2. refs'[i] = refs[i] /\ refs[i] # Torn /\ refs[i] # Garbage /\ refs[i] \in Entry
        BY <1>4, <1>6, <4>1, RefsNumbers DEF LogInv
      <4> QED
        BY <4>1, <4>2 DEF Entry, Damaged, Published, Logged
    <3> QED
      BY <3>1, <3>2
  <2>4. ASSUME NEW i \in 1..Len(acked')
        PROVE  /\ refs'[i] = acked'[i] /\ acked'[i] \in Object
               /\ Lasting(acked[i])' /\ Lasting(BlobOf(acked[i].blob))'
    <3>1. PICK o, b : o = acked'[i] /\ b = BlobOf(acked'[i].blob)
      OBVIOUS
    <3>2. o \in Object /\ o \in Published /\ b = BlobOf(o.blob)
      BY <2>1, <2>3, <3>1
    <3>3. Lasting(o) /\ Lasting(b)
      BY <2>2, <3>2 DEF SolidInv
    <3>4. Lasting(o)' /\ Lasting(b)'
      BY <1>10, <3>3, LastingHeld
    <3>5. Lasting(acked[i])' /\ Lasting(BlobOf(acked[i].blob))'
      BY <3>1, <3>4 DEF Lasting
    <3> QED
      BY <2>1, <3>1, <3>2, <3>5
  <2>5. Len(acked') <= refsSynced'
    BY <1>6, <2>1
  <2>6. AckedInv'
    BY <2>4, <2>5 DEF AckedInv
  <2> QED
    BY <1>6, <1>10, <1>11, <2>6
<1> QED
  BY <1>12, <1>13

(* A kill between the writes of a frame leaves a torn tail. *)
LEMMA KillInPublishStep ==
    ASSUME TypeOK, TypeOK', PackInv, RefInv, NEW p \in Procs, KillInPublish(p)
    PROVE  RefInv' /\ LogKept
<1> USE DEF RefInv, LogParts
<1>1. /\ proc[p].at = "publish" /\ pack' = pack /\ packSynced' = packSynced
      /\ UNCHANGED <<catalog, commits, fallen, frontier, frontiers, captures, acked,
                     opened>>
      /\ group' \in {group, NoGroup}
      /\ proc' = [proc EXCEPT ![p] = ClosedProcess]
      /\ refs' = Append(WholeFrames(refs), Torn)
      /\ refsSynced' = IF refsSynced < Len(refs') THEN refsSynced ELSE Len(refs') - 1
  BY DEF KillInPublish, Die
<1>2. proc'[p].at = "closed" /\ \A q \in Procs \ {p} : proc'[q] = proc[q]
  BY <1>1 DEF TypeOK, ClosedProcess
<1>3. Up /\ Mended /\ opened
  BY <1>1 DEF Up, Mended, Live, LogInv
<1>4. /\ LogKept /\ NoNewGarbage /\ Logged' \subseteq Logged
      /\ Len(refs') \in Nat
      /\ \A i \in 1..(Len(refs') - 1) : refs'[i] = refs[i] /\ refs[i] # Torn
  <2>1. Torn # Garbage /\ Torn \in Damaged
    BY DamageIsNoObject DEF Damaged
  <2> QED
    BY <1>1, <2>1, AppendLog
<1>5. NoNewPublisher
  BY <1>2 DEF NoNewPublisher
<1>6. Published' \subseteq Published /\ (SyncPublishing' => SyncPublishing)
  <2>1. Publishing' \subseteq Publishing /\ (SyncPublishing' => SyncPublishing)
    BY <1>5 DEF Publishing, SyncPublishing, NoNewPublisher
  <2> QED
    BY <1>4, <2>1 DEF Published
<1>7. Still
  <2>1. SameStore
    BY <1>1, <1>3, <1>6, CapturesNat DEF SameStore
  <2>2. \A q \in Procs : proc'[q].at \in InBatch => proc'[q] = proc[q]
    BY <1>2 DEF InBatch
  <2> QED
    BY <2>1, <2>2 DEF Still
<1>8. /\ StoreInv' /\ SolidInv' /\ RefPromise' /\ GroupRefs' /\ MendedInv' /\ AckedInv'
  BY <1>1, <1>3, <1>4, <1>5, <1>7, LogFrame DEF Undeferred
<1>9. LogInv'
  <2>1. \A i \in 1..Len(refs') : refs'[i] = Torn => i = Len(refs')
    BY <1>4
  <2>2. \A i \in 1..Len(refs') : refs'[i] # Garbage
    BY <1>3, <1>4 DEF LogInv, NoNewGarbage
  <2> QED
    BY <1>1, <1>3, <2>1, <2>2 DEF LogInv
<1> QED
  BY <1>4, <1>8, <1>9

-----------------------------------------------------------------------------
(* The group commit *)

(* What the steps of a group commit have in common. *)
LEMMA GroupFrame ==
    ASSUME TypeOK, TypeOK', PackInv, RefInv, Up, GroupStays,
           packSynced' = packSynced \/ packSynced' = Len(pack),
           refsSynced' = refsSynced \/ refsSynced' = Len(refs),
           Undeferred' => Undeferred
    PROVE  /\ StoreInv' /\ Holds /\ SafeHeld /\ SolidInv' /\ MendedInv'
           /\ frontiers' \subseteq frontiers => RefPromise'
           /\ acked' = acked => AckedInv'
           /\ frontier' = frontier => LogInv'
           /\ pack' = pack /\ refs' = refs /\ refsSynced <= refsSynced'
           /\ \A k : Clean(k)' <=> Clean(k)
           /\ \A o : Whole(o)' <=> Whole(o)
<1> USE DEF RefInv, LogParts
<1>1. /\ pack' = pack /\ refs' = refs /\ captures' = captures
      /\ UNCHANGED <<catalog, commits, fallen, proc, opened>>
  BY DEF GroupStays, bounds
<1>2. LogKept /\ refsSynced <= refsSynced'
  BY <1>1, RefsNumbers DEF LogKept, Good, Stays
<1>3. NoNewPublisher
  BY <1>1 DEF NoNewPublisher
<1>4. Published' \subseteq Published /\ (SyncPublishing' => SyncPublishing)
  BY <1>1, <1>3, QuietPublishes
<1>5. Still
  <2>1. SameStore
    BY <1>1, <1>4, CapturesNat DEF SameStore
  <2> QED
    BY <1>1, <2>1 DEF Still
<1>6. Mended' => Mended
  BY <1>1 DEF Mended
<1>7. frontier' = frontier => LogInv'
  BY <1>1 DEF LogInv
<1>8. /\ \A k : Clean(k)' <=> Clean(k)
      /\ \A o : Whole(o)' <=> Whole(o)
  BY <1>1 DEF Clean, Whole
<1> QED
  BY <1>1, <1>2, <1>3, <1>5, <1>6, <1>7, <1>8, LogFrame

(* The references that are counted are whole. *)
LEMMA GroupSampleRefsStep ==
    ASSUME "count" \notin races', TypeOK, TypeOK', PackInv, RefInv,
           NEW p \in Procs, GroupSampleRefs(p)
    PROVE  RefInv'
<1>1. /\ proc[p].at \in Live /\ GroupStays
      /\ \A i \in 1..Len(refs) : refs[i] \notin Damaged
      /\ group' = [at |-> "refs", by |-> p, refs |-> Len(refs), pack |-> 0]
      /\ UNCHANGED <<packSynced, refsSynced, frontier, frontiers, acked>>
  BY DEF GroupSampleRefs, When
<1>2. (\A s \in Published : Whole(s)) /\ Up
  BY <1>1, LiveWhole
<1>3. /\ StoreInv' /\ SolidInv' /\ MendedInv' /\ RefPromise' /\ AckedInv' /\ LogInv'
      /\ refs' = refs /\ \A o : Whole(o)' <=> Whole(o)
  BY <1>1, <1>2, GroupFrame DEF Undeferred
<1>4. ASSUME NEW i \in 1..Len(refs)
      PROVE  refs'[i] \in Object /\ Whole(refs[i])' /\ refs'[i] # Garbage
  <2>1. refs[i] \in Object /\ refs[i] # Garbage /\ refs[i] \in Published
    BY <1>1, RefsNumbers DEF Entry, Damaged, Published, Logged
  <2>2. PICK s : s = refs[i]
    OBVIOUS
  <2>3. Whole(s)'
    BY <1>2, <1>3, <2>1, <2>2
  <2> QED
    BY <1>3, <2>1, <2>2, <2>3 DEF Whole
<1>5. GroupRefs'
  BY <1>1, <1>3, <1>4, RefsNumbers DEF GroupRefs, Sampled
<1> QED
  BY <1>3, <1>5 DEF RefInv, LogParts

(* The packs are sampled after the references: every reference that was
   counted has its row by then, so the last row lies behind what it needs. *)
LEMMA GroupSamplePacksStep ==
    ASSUME TypeOK, TypeOK', PackInv, RefInv, GroupSamplePacks
    PROVE  RefInv'
<1> USE DEF RefInv, LogParts, StoreInv
<1>1. /\ group.at = "refs" /\ GroupStays
      /\ UNCHANGED <<packSynced, refsSynced, frontier, frontiers, acked>>
  BY DEF GroupSamplePacks
<1>2. Up
  BY <1>1 DEF Up
<1>3. /\ StoreInv' /\ SolidInv' /\ MendedInv' /\ RefPromise' /\ AckedInv' /\ LogInv'
      /\ refs' = refs /\ pack' = pack /\ \A o : Whole(o)' <=> Whole(o)
  BY <1>1, <1>2, GroupFrame DEF Undeferred
<1>4. CASE group' = NoGroup
  BY <1>3, <1>4, GroupRefsNone
<1>5. ASSUME NEW written \in 0..Len(pack), HighWater(catalog, written),
             group' = [group EXCEPT !.at = "packs", !.pack = written]
      PROVE  RefInv'
  <2>1. /\ group'.at = "packs" /\ group'.pack = written /\ group'.refs = group.refs
        /\ group.refs \in Nat
    BY <1>5 DEF TypeOK, Group
  <2>2. /\ group.refs <= Len(refs)
        /\ \A i \in 1..group.refs : refs[i] \in Object /\ Whole(refs[i])
        /\ \A i \in 1..Len(refs) : refs[i] # Garbage
    BY <1>1 DEF GroupRefs
  <2>3. PICK c : c = catalog
    OBVIOUS
  <2>4. c \in Catalog /\ Firm(c) /\ Leads(c)
    BY <1>2, <2>3, CatalogFirm DEF FoundInv
  <2>5. ASSUME NEW i \in 1..group.refs, NEW o \in Needs(refs[i])
        PROVE  \E k \in 1..written : pack[k] = o
    <3>1. PICK s : s = refs[i]
      OBVIOUS
    <3>2. s \in Object /\ Whole(s) /\ i \in 1..Len(refs)
      BY <2>1, <2>2, <3>1, RefsNumbers
    <3>3. s \in Published
      BY <3>1, <3>2, DamageIsNoObject DEF Published, Logged
    <3>4. PICK r \in c.rows : r[1] = s
      BY <2>4, <3>2, <3>3 DEF Leads, HasRow
    <3>5. /\ r[2] \in Nat /\ r[2] > 0 /\ r[2] <= written /\ Clean(r[2])
          /\ pack[r[2]] = s
      BY <1>5, <2>3, <2>4, <3>4, CatalogNumbers DEF Firm, HighWater
    <3>6. r[2] \in 1..Len(pack)
      BY <3>5, PackNumbers
    <3>7. PICK j \in 1..r[2] : pack[j] = BlobOf(s.blob)
      BY <3>5, <3>6 DEF Ordered
    <3>8. r[2] \in 1..written /\ j \in 1..written
      BY <3>5, <3>7
    <3> QED
      BY <3>1, <3>5, <3>7, <3>8 DEF Needs
  <2>6. \A i \in 1..group.refs : Whole(refs[i])'
    <3> SUFFICES ASSUME NEW i \in 1..group.refs PROVE Whole(refs[i])'
      OBVIOUS
    <3>1. PICK s : s = refs[i]
      OBVIOUS
    <3>2. Whole(s)'
      BY <1>3, <2>2, <3>1
    <3> QED
      BY <1>3, <3>1, <3>2 DEF Whole
  <2>7. GroupRefs'
    BY <1>3, <2>1, <2>2, <2>5, <2>6 DEF GroupRefs
  <2> QED
    BY <1>3, <2>7
<1> QED
  BY <1>4, <1>5 DEF GroupSamplePacks

(* The group commit goes on with what it counted. *)
LEMMA GroupRefsGoOn ==
    ASSUME TypeOK, GroupRefs, group.at \in Sampled, group'.at \in Sampled,
           group'.refs = group.refs, group'.pack = group.pack,
           pack' = pack, refs' = refs, refsSynced <= refsSynced',
           refsSynced' \in Nat, \A o : Whole(o)' <=> Whole(o),
           group'.at \in {"rename", "syncDir"} =>
              group.at \in {"rename", "syncDir"} \/ refsSynced' = Len(refs)
    PROVE  GroupRefs'
<1>1. /\ group.refs <= Len(refs)
      /\ \A i \in 1..group.refs : refs[i] \in Object /\ Whole(refs[i])
      /\ \A i \in 1..group.refs : \A o \in Needs(refs[i]) :
            \E k \in 1..group.pack : pack[k] = o
      /\ group.at \in {"rename", "syncDir"} => group.refs <= refsSynced
      /\ \A i \in 1..Len(refs) : refs[i] # Garbage
  BY DEF GroupRefs, Sampled
<1>2. \A i \in 1..group.refs : Whole(refs[i])'
  <2> SUFFICES ASSUME NEW i \in 1..group.refs PROVE Whole(refs[i])'
    OBVIOUS
  <2>1. PICK s : s = refs[i]
    OBVIOUS
  <2>2. Whole(s)'
    BY <1>1, <2>1
  <2> QED
    BY <2>1, <2>2 DEF Whole
<1>3. group.refs \in Nat /\ refsSynced \in Nat /\ Len(refs) \in Nat
  BY RefsNumbers DEF TypeOK, Group
<1>4. group'.at \in {"rename", "syncDir"} => group'.refs <= refsSynced'
  BY <1>1, <1>3
<1> QED
  BY <1>1, <1>2, <1>4 DEF GroupRefs

(* The flushes. *)
LEMMA GroupFlushStep ==
    ASSUME TypeOK, TypeOK', PackInv, RefInv, GroupFlushPacks \/ GroupFlushRefs
    PROVE  RefInv'
<1> USE DEF RefInv, LogParts
<1>1. /\ GroupStays /\ UNCHANGED <<frontier, frontiers, acked>>
      /\ packSynced' = packSynced \/ packSynced' = Len(pack)
      /\ refsSynced' = refsSynced \/ refsSynced' = Len(refs)
      /\ group.at \in Sampled /\ group.at # "idle"
      /\ \/ group' = [group EXCEPT !.at = "flushRefs"]
         \/ group' = [group EXCEPT !.at = "rename"] /\ refsSynced' = Len(refs)
  BY DEF GroupFlushPacks, GroupFlushRefs, Sampled
<1>2. Up
  BY <1>1 DEF Up
<1>3. /\ StoreInv' /\ SolidInv' /\ MendedInv' /\ RefPromise' /\ AckedInv' /\ LogInv'
      /\ refs' = refs /\ pack' = pack /\ refsSynced <= refsSynced'
      /\ \A o : Whole(o)' <=> Whole(o)
  BY <1>1, <1>2, GroupFrame DEF Undeferred
<1>4. /\ group'.refs = group.refs /\ group'.pack = group.pack
      /\ group'.at = "flushRefs" \/ (group'.at = "rename" /\ refsSynced' = Len(refs))
  BY <1>1 DEF TypeOK, Group
<1>5. GroupRefs'
  BY <1>1, <1>3, <1>4, GroupRefsGoOn, RefsNumbersNext DEF Sampled
<1> QED
  BY <1>3, <1>5

(* What the frontier claims of the log was checked by the sample. *)
LEMMA GroupRenameStep ==
    ASSUME TypeOK, TypeOK', PackInv, RefInv, GroupRename
    PROVE  RefInv'
<1> USE DEF RefInv, LogParts
<1>1. /\ group.at = "rename" /\ GroupStays /\ UNCHANGED <<packSynced, refsSynced, acked>>
      /\ frontier' = [exists |-> TRUE, pack |-> group.pack, refs |-> group.refs]
      /\ frontiers' = frontiers \cup {frontier'}
      /\ group' = [group EXCEPT !.at = "syncDir"]
  BY DEF GroupRename
<1>2. Up
  BY <1>1 DEF Up
<1>3. Undeferred' => Undeferred
  BY <1>1 DEF Undeferred
<1>4. /\ StoreInv' /\ SolidInv' /\ MendedInv' /\ AckedInv'
      /\ refs' = refs /\ pack' = pack /\ \A o : Whole(o)' <=> Whole(o)
  BY <1>1, <1>2, <1>3, GroupFrame
<1>5. /\ group.refs <= refsSynced
      /\ \A i \in 1..group.refs : refs[i] \in Object
      /\ \A i \in 1..group.refs : \A o \in Needs(refs[i]) :
            \E k \in 1..group.pack : pack[k] = o
      /\ \A i \in 1..Len(refs) : refs[i] # Garbage
  BY <1>1 DEF GroupRefs, Sampled
<1>6. RefPromise'
  <2> SUFFICES ASSUME NEW f \in frontiers'
               PROVE  /\ f.refs <= refsSynced
                      /\ \A i \in 1..f.refs :
                            /\ refs[i] \notin Damaged
                            /\ \A o \in Needs(refs[i]) : \E k \in 1..f.pack : pack[k] = o
    BY <1>1, <1>4 DEF RefPromise
  <2>1. CASE f \in frontiers
    BY <2>1 DEF RefPromise
  <2>2. CASE f = frontier'
    BY <1>1, <1>5, <2>2, DamageIsNoObject
  <2> QED
    BY <1>1, <2>1, <2>2
<1>7. GroupRefs'
  <2>1. group'.refs = group.refs /\ group'.pack = group.pack /\ group'.at = "syncDir"
    BY <1>1 DEF TypeOK, Group
  <2> QED
    BY <1>1, <1>4, <2>1, GroupRefsGoOn, RefsNumbers DEF Sampled
<1>8. LogInv'
  <2>1. proc' = proc /\ opened' = opened
    BY <1>1 DEF GroupStays
  <2> QED
    BY <1>4, <1>5, <2>1 DEF LogInv
<1> QED
  BY <1>4, <1>6, <1>7, <1>8

(* What the caller is told is durable. *)
LEMMA GroupSyncDirStep ==
    ASSUME TypeOK, TypeOK', PackInv, RefInv, GroupSyncDir
    PROVE  RefInv'
<1> USE DEF RefInv, LogParts
<1>1. /\ group.at = "syncDir" /\ GroupStays
      /\ UNCHANGED <<packSynced, refsSynced, frontier>>
      /\ frontiers' = {frontier} /\ group' = NoGroup
      /\ acked' = Longer(acked, WholeFrames(SubSeq(refs, 1,
                    IF group.refs <= Len(refs) THEN group.refs ELSE Len(refs))))
  BY DEF GroupSyncDir
<1>2. Up /\ frontiers' \subseteq frontiers
  BY <1>1 DEF Up, TypeOK
<1>3. /\ StoreInv' /\ SolidInv' /\ MendedInv' /\ RefPromise' /\ LogInv' /\ SafeHeld
      /\ refs' = refs /\ pack' = pack /\ (acked' = acked => AckedInv')
  BY <1>1, <1>2, GroupFrame DEF Undeferred
<1>4. GroupRefs'
  BY <1>1, GroupRefsNone
<1>5. /\ group.refs <= Len(refs) /\ group.refs <= refsSynced
      /\ \A i \in 1..group.refs : refs[i] \in Object
      /\ \A i \in 1..group.refs : \A o \in Needs(refs[i]) :
            \E k \in 1..group.pack : pack[k] = o
      /\ group.refs \in Nat /\ group.pack \in Nat
      /\ Clean(group.pack) /\ group.pack <= packSynced
  BY <1>1 DEF GroupRefs, Sampled, Flushed, TypeOK, Group, PackInv, GroupClean
<1>6. PICK log : log = SubSeq(refs, 1, group.refs)
  OBVIOUS
<1>7. Len(log) = group.refs /\ \A i \in 1..group.refs : log[i] = refs[i]
  BY <1>5, <1>6, RefsNumbers
<1>8. WholeFrames(log) = log
  <2>1. Len(log) > 0 => log[Len(log)] # Torn
    BY <1>5, <1>7, DamageIsNoObject DEF Damaged
  <2> QED
    BY <2>1 DEF WholeFrames
<1>9. acked' = acked \/ acked' = log
  BY <1>1, <1>5, <1>6, <1>8 DEF Longer
<1>10. CASE acked' = log
  <2>1. ASSUME NEW i \in 1..Len(acked')
        PROVE  /\ refs'[i] = acked'[i] /\ acked'[i] \in Object
               /\ Lasting(acked[i])' /\ Lasting(BlobOf(acked[i].blob))'
    <3>1. PICK s, b : s = acked'[i] /\ b = BlobOf(acked'[i].blob)
      OBVIOUS
    <3>2. /\ i \in 1..group.refs /\ s = refs[i] /\ b = BlobOf(s.blob) /\ s \in Object
          /\ s \in Needs(refs[i]) /\ b \in Needs(refs[i])
      BY <1>5, <1>7, <1>10, <3>1 DEF Needs
    <3>3. ASSUME NEW o \in Needs(refs[i]) PROVE Lasting(o)
      <4>1. PICK k \in 1..group.pack : pack[k] = o
        BY <1>5, <3>2
      <4>2. Clean(k) /\ k \in 1..packSynced
        BY <1>5, CleanMono, PackNumbers
      <4> QED
        BY <4>1, <4>2 DEF Lasting
    <3>4. Lasting(s)' /\ Lasting(b)'
      BY <1>3, <3>2, <3>3, LastingHeld
    <3>5. Lasting(acked[i])' /\ Lasting(BlobOf(acked[i].blob))'
      BY <3>1, <3>4 DEF Lasting
    <3> QED
      BY <1>3, <3>1, <3>2, <3>5
  <2>2. Len(acked') <= refsSynced'
    BY <1>1, <1>5, <1>7, <1>10
  <2>3. AckedInv'
    BY <2>1, <2>2 DEF AckedInv
  <2> QED
    BY <1>3, <1>4, <2>3
<1> QED
  BY <1>3, <1>4, <1>9, <1>10

-----------------------------------------------------------------------------
(* Power loss *)

(* Every record of what is left is as it was, or damaged. *)
LEMMA PowerLossWears ==
    ASSUME NEW file \in Seq(Entry), NEW synced \in Nat, synced <= Len(file),
           NEW appending, NEW left \in AfterPowerLoss(file, synced, appending)
    PROVE  \A i \in 1..Len(left) :
              left[i] \in Damaged \/ (i <= Len(file) /\ left[i] = file[i])
<1>1. PICK n \in synced..Len(file), bad \in SUBSET ((synced + 1)..Len(file)) :
         \/ left = Kept(file, n, bad)
         \/ left = Append(Kept(file, n, bad), Torn)
  BY DEF AfterPowerLoss
<1>2. PICK whole : whole = Kept(file, n, bad)
  OBVIOUS
<1>3. n \in Nat /\ n <= Len(file)
  OBVIOUS
<1>4. whole = [i \in 1..n |-> IF i \in bad THEN Garbage ELSE file[i]]
  BY <1>2 DEF Kept
<1>5. \A i \in 1..n : whole[i] \in Entry /\ (whole[i] = file[i] \/ whole[i] = Garbage)
  BY <1>3, <1>4 DEF Entry, Damaged
<1>6. whole \in Seq(Entry) /\ Len(whole) = n
  <2>1. whole \in [1..n -> Entry]
    BY <1>4, <1>5
  <2> QED
    BY <1>3, <2>1
<1>7. Torn \in Entry /\ Torn \in Damaged /\ Garbage \in Damaged
  BY DEF Entry, Damaged
<1>8. CASE left = whole
  BY <1>3, <1>5, <1>6, <1>7, <1>8
<1>9. CASE left = Append(whole, Torn)
  <2>1. /\ Len(left) = n + 1 /\ left[n + 1] = Torn
        /\ \A i \in 1..n : left[i] = whole[i]
    BY <1>6, <1>7, <1>9
  <2> QED
    BY <1>3, <1>5, <1>7, <2>1
<1> QED
  BY <1>1, <1>2, <1>8, <1>9

(* A file that only its last record could be torn in stays one. *)
LEMMA PowerLossTears ==
    ASSUME NEW file \in Seq(Entry), NEW synced \in Nat, synced <= Len(file),
           \A i \in 1..Len(file) : file[i] = Torn => i = Len(file),
           NEW left \in AfterPowerLoss(file, synced, FALSE)
    PROVE  \A i \in 1..Len(left) : left[i] = Torn => i = Len(left)
<1>1. PICK n \in synced..Len(file), bad \in SUBSET ((synced + 1)..Len(file)) :
         \/ left = Kept(file, n, bad)
         \/ n < Len(file) /\ left = Append(Kept(file, n, bad), Torn)
  BY DEF AfterPowerLoss
<1>2. PICK whole : whole = Kept(file, n, bad)
  OBVIOUS
<1>3. n \in Nat /\ n <= Len(file) /\ Len(file) \in Nat
  OBVIOUS
<1>4. whole = [i \in 1..n |-> IF i \in bad THEN Garbage ELSE file[i]]
  BY <1>2 DEF Kept
<1>5. \A i \in 1..n : whole[i] \in Entry /\ (whole[i] = file[i] \/ whole[i] = Garbage)
  BY <1>3, <1>4 DEF Entry, Damaged
<1>6. whole \in Seq(Entry) /\ Len(whole) = n
  <2>1. whole \in [1..n -> Entry]
    BY <1>4, <1>5
  <2> QED
    BY <1>3, <2>1
<1>7. \A i \in 1..n : whole[i] = Torn => i = Len(file)
  BY <1>3, <1>5, DamageIsNoObject
<1>8. CASE left = whole
  BY <1>3, <1>6, <1>7, <1>8
<1>9. CASE n < Len(file) /\ left = Append(whole, Torn)
  <2>1. /\ Len(left) = n + 1
        /\ \A i \in 1..n : left[i] = whole[i]
    BY <1>6, <1>9
  <2> QED
    BY <1>3, <1>7, <1>9, <2>1
<1> QED
  BY <1>1, <1>2, <1>8, <1>9

(* The log as a capture may be writing it when the power goes. *)
LEMMA WrittenLog ==
    ASSUME TypeOK, LogInv, NEW written \in RefsWritten
    PROVE  /\ written \in Seq(Entry) /\ Len(written) \in Nat
           /\ refsSynced <= Len(written)
           /\ \A i \in 1..Len(written) : written[i] \in Damaged \cup Published
           /\ \A i \in 1..Len(written) : written[i] = Torn => i = Len(written)
           /\ \A n \in Nat : Good(n) =>
                 n <= Len(written) /\ \A i \in 1..n : written[i] = refs[i]
<1>1. /\ refs \in Seq(Entry) /\ Len(refs) \in Nat /\ refsSynced \in Nat
      /\ refsSynced <= Len(refs)
  BY RefsNumbers
<1>2. \A i \in 1..Len(refs) : refs[i] \in Damaged \cup Published
  BY DEF Published, Logged
<1>3. CASE written = refs
  <2>1. \A i \in 1..Len(refs) : refs[i] = Torn => i = Len(refs)
    BY DEF LogInv
  <2> QED
    BY <1>1, <1>2, <1>3, <2>1 DEF Good
<1>4. ASSUME NEW p \in Procs, proc[p].at = "publish",
             written = Append(WholeFrames(refs), proc[p].snap)
      PROVE  /\ written \in Seq(Entry) /\ Len(written) \in Nat
             /\ refsSynced <= Len(written)
             /\ \A i \in 1..Len(written) : written[i] \in Damaged \cup Published
             /\ \A i \in 1..Len(written) : written[i] = Torn => i = Len(written)
             /\ \A n \in Nat : Good(n) =>
                   n <= Len(written) /\ \A i \in 1..n : written[i] = refs[i]
  <2>1. PICK w, s : w = WholeFrames(refs) /\ s = proc[p].snap
    OBVIOUS
  <2>2. /\ w \in Seq(Entry) /\ Len(w) \in Nat /\ Len(w) <= Len(refs)
        /\ Len(w) >= Len(refs) - 1
        /\ \A i \in 1..Len(w) : w[i] = refs[i] /\ refs[i] # Torn
        /\ \A n \in Nat : Good(n) => n <= Len(w)
    BY <1>1, <2>1, FramesKept, WholeFramesType
  <2>3. s \in Publishing /\ s \in Object
    BY <1>4, <2>1 DEF Publishing, TypeOK, Capturing
  <2>4. s \in Entry /\ s \in Published
    BY <2>3 DEF Entry, Published
  <2>5. /\ written \in Seq(Entry) /\ Len(written) = Len(w) + 1
        /\ written[Len(w) + 1] = s
        /\ \A i \in 1..Len(w) : written[i] = w[i]
    BY <1>4, <2>1, <2>2, <2>4
  <2>6. \A i \in 1..Len(written) : written[i] \in Damaged \cup Published
    BY <1>1, <1>2, <2>2, <2>4, <2>5
  <2>7. \A i \in 1..Len(written) : written[i] = Torn => i = Len(written)
    BY <1>1, <2>2, <2>5
  <2>8. \A n \in Nat : Good(n) =>
           n <= Len(written) /\ \A i \in 1..n : written[i] = refs[i]
    BY <1>1, <2>2, <2>5
  <2>9. refsSynced <= Len(written) /\ Len(written) \in Nat
    BY <1>1, <2>2, <2>5
  <2> QED
    BY <2>5, <2>6, <2>7, <2>8, <2>9
<1>5. written = refs \/ \E p \in Procs :
         proc[p].at = "publish" /\ written = Append(WholeFrames(refs), proc[p].snap)
  BY DEF RefsWritten
<1> QED
  BY <1>3, <1>4, <1>5

(* A power loss keeps what was flushed and falls back to a catalog state that
   says nothing false of what is left. *)
LEMMA PowerLossStep ==
    ASSUME "undone" \notin races', TypeOK, TypeOK', PackInv, RefInv, PowerLoss
    PROVE  RefInv'
<1> USE DEF RefInv, LogParts, StoreInv
<1> DEFINE appending == \E p \in Procs : Appending(p)
           flushing == FALSE
<1>1. PICK c : c = catalog'
  OBVIOUS
<1>2. /\ pack' \in AfterPowerLoss(pack, packSynced, appending)
      /\ packSynced' = Len(pack') /\ refsSynced' = Len(refs')
      /\ c \in commits /\ commits' = {c} /\ fallen' = c
      /\ c # fallen \/ c = catalog
      /\ frontier' \in frontiers /\ frontiers' = {frontier'}
      /\ proc' = [p \in Procs |-> ClosedProcess]
      /\ group' = NoGroup /\ opened' = FALSE
      /\ captures' = captures /\ acked' = acked
  BY <1>1 DEF PowerLoss, When
<1>3. PICK written \in RefsWritten : refs' \in AfterPowerLoss(written, refsSynced, FALSE)
  BY DEF PowerLoss
<1>3a. refs' \in AfterPowerLoss(written, refsSynced, flushing)
  BY <1>3
<1> HIDE DEF appending, flushing
<1>4. /\ pack \in Seq(Entry) /\ Len(pack) \in Nat /\ packSynced \in Nat
      /\ packSynced <= Len(pack) /\ Len(pack') \in Nat
  BY PackNumbers, PackNumbersNext
<1>5. Worn
  BY <1>2, <1>4, PowerLossWears DEF Worn
<1>6. SafeHeld
  <2>1. /\ packSynced <= Len(pack')
        /\ \A i \in 1..packSynced : pack'[i] = pack[i]
    BY <1>2, <1>4, PowerLossKeeps
  <2> QED
    BY <1>2, <1>4, <2>1 DEF SafeHeld, Safe, Clean
<1>7. /\ written \in Seq(Entry) /\ Len(written) \in Nat
      /\ refsSynced \in Nat /\ refsSynced <= Len(written)
      /\ \A i \in 1..Len(written) : written[i] \in Damaged \cup Published
      /\ \A i \in 1..Len(written) : written[i] = Torn => i = Len(written)
      /\ \A n \in Nat : Good(n) =>
            n <= Len(written) /\ \A i \in 1..n : written[i] = refs[i]
  BY WrittenLog, RefsNumbers
<1>8. LogSynced
  <2>1. /\ refsSynced <= Len(refs') /\ Len(refs') \in Nat
        /\ \A i \in 1..refsSynced : refs'[i] = written[i]
    BY <1>3a, <1>7, PowerLossKeeps
  <2> QED
    BY <1>2, <1>7, <2>1 DEF LogSynced, Stays
<1>9. /\ \A p \in Procs : proc'[p].at = "closed"
      /\ ~Up' /\ ~Mended' /\ ~SyncPublishing'
  <2>1. \A p \in Procs : proc'[p].at = "closed"
    BY <1>2 DEF ClosedProcess
  <2> QED
    BY <1>2, <2>1 DEF Up, Mended, Live, SyncPublishing, NoGroup
<1>10. Published' \subseteq Published
  <2>1. Publishing' = {}
    BY <1>9 DEF Publishing
  <2>2. \A i \in 1..Len(refs') :
           refs'[i] \in Damaged \/ (i <= Len(written) /\ refs'[i] = written[i])
    BY <1>3a, <1>7, PowerLossWears
  <2>3. Logged' \subseteq Published
    <3> SUFFICES ASSUME NEW s \in Logged' PROVE s \in Published
      OBVIOUS
    <3>1. PICK i \in 1..Len(refs') : refs'[i] = s /\ s \notin Damaged
      BY DEF Logged
    <3>2. i \in 1..Len(written) /\ written[i] = s
      BY <1>7, <2>2, <3>1, RefsNumbersNext
    <3> QED
      BY <1>7, <3>1, <3>2
  <2> QED
    BY <2>1, <2>3 DEF Published
<1>11. Ordered' /\ Numbered'
  BY <1>2, <1>5, WornPack
<1>12. CommitsInv'
  <2>1. Cached(c) /\ Weak(c) /\ Counted(c)
    BY <1>2 DEF CommitsInv, Admissible
  <2>2. c \in Catalog /\ \A r \in c.rows : r[2] \in Nat
    BY <1>2, CatalogNumbers DEF TypeOK
  <2>3. Weak(c)'
    BY <1>4, <1>5, <2>1, <2>2 DEF Weak, Worn
  <2>4. Counted(c)'
    <3> SUFFICES ASSUME NEW k \in 1..Len(pack'), k <= c.vlen, pack'[k] \in Published'
                 PROVE  HasRow(c, pack'[k])
      BY DEF Counted
    <3>1. pack'[k] \in Published /\ pack'[k] \notin Damaged
      BY <1>10, PublishedObjects
    <3>2. k \in 1..Len(pack) /\ pack'[k] = pack[k]
      BY <1>4, <1>5, <3>1 DEF Worn
    <3> QED
      BY <2>1, <3>1, <3>2 DEF Counted
  <2> QED
    BY <1>2, <1>9, <2>1, <2>3, <2>4 DEF CommitsInv
<1>13. TailTorn' /\ FoundInv' /\ OneBatch' /\ MendedInv' /\ \A p \in Procs : BatchInv(p)'
  BY <1>9 DEF TailTorn, FoundInv, OneBatch, MendedInv, BatchInv, InBatch
<1>14. SolidInv'
  <2>1. Undeferred' => Undeferred
    BY <1>2 DEF Undeferred
  <2>2. ASSUME Solid', NEW s \in Published'
        PROVE  Lasting(s)' /\ Lasting(BlobOf(s.blob))'
    <3>1. Solid
      BY <1>9, <2>1, <2>2 DEF Solid
    <3>2. Lasting(s) /\ Lasting(BlobOf(s.blob))
      BY <1>10, <3>1 DEF SolidInv
    <3> QED
      BY <1>6, <3>2, LastingHeld
  <2> QED
    BY <1>9, <2>2 DEF SolidInv
<1>15. AckedInv' /\ RefPromise' /\ GroupRefs'
  <2>1. frontiers' \subseteq frontiers
    BY <1>2
  <2> QED
    BY <1>2, <1>6, <1>8, <2>1, AckedKept, FrontierRefsKept, GroupRefsNone DEF PackInv
<1>16. LogInv'
  <2>1. \A i \in 1..Len(refs') : refs'[i] = Torn => i = Len(refs')
    BY <1>3, <1>7, PowerLossTears
  <2> QED
    BY <1>2, <1>9, <2>1 DEF LogInv, Live
<1> QED
  BY <1>11, <1>12, <1>13, <1>14, <1>15, <1>16

-----------------------------------------------------------------------------
(* The invariant *)

(* Steps that touch neither the store nor the log. *)
LEMMA IdleStep ==
    ASSUME TypeOK, TypeOK', PackInv, RefInv,
           UNCHANGED <<pack, packSynced, refs, refsSynced, catalog, commits, fallen,
                       frontier, frontiers, group, captures, acked, opened>>,
           \A q \in Procs : proc'[q] = proc[q] \/ proc'[q].at = "closed"
                            \/ (proc[q].at \in InBatch /\ proc'[q].at = "idle")
    PROVE  RefInv'
<1> USE DEF RefInv
<1>1. /\ NoNewPublisher
      /\ \A q \in Procs : proc'[q].at \in Live =>
            proc[q].at \in Live /\ (proc[q].at = "attach" => proc'[q].at = "attach")
  BY DEF NoNewPublisher, Live, InBatch
<1>2. Quiet
  BY <1>1, SameHolds DEF Quiet
<1>3. SameStore
  <2>1. Published' \subseteq Published /\ (SyncPublishing' => SyncPublishing)
    BY <1>1, QuietPublishes
  <2>2. Up' => Up
    BY DEF Up, InBatch
  <2> QED
    BY <2>1, <2>2, CapturesNat DEF SameStore
<1>4. Still
  BY <1>3 DEF Still, InBatch
<1> QED
  BY <1>2, <1>4, StillStore, QuietLog

(* Every step keeps the invariant, and short of a power loss it keeps what the
   log has of whole references. *)
LEMMA RefStep ==
    ASSUME Unraced', TypeOK, TypeOK', PackInv, PackInv', RefInv, [Next]_vars
    PROVE  RefInv' /\ (refs' = refs \/ LogKept \/ ~opened')
<1>0. "publish" \notin races' /\ "count" \notin races' /\ "undone" \notin races'
  BY DEF Unraced
<1>1. ASSUME StoreInv' /\ Quiet PROVE RefInv' /\ refs' = refs
  <2>1. LogParts'
    BY <1>1, QuietLog DEF RefInv
  <2> QED
    BY <1>1, <2>1 DEF RefInv, Quiet
<1>2. CASE UNCHANGED vars
  <2>1. UNCHANGED <<pack, packSynced, refs, refsSynced, catalog, commits, fallen,
                    frontier, frontiers, group, captures, acked, opened>> /\ proc' = proc
    BY <1>2 DEF vars, bounds
  <2> QED
    BY <2>1, IdleStep
<1>3. ASSUME NEW p \in Procs, OpenSettled(p) \/ OpenRecover(p)
      PROVE  RefInv' /\ refs' = refs
  BY <1>1, <1>3, OpenSettledStore, OpenRecoverStore
<1>4. ASSUME NEW p \in Procs,
             OpenRefused(p) \/ RepairRefused(p) \/ AttachRefused(p) \/ Rollback(p)
      PROVE  RefInv' /\ refs' = refs
  <2>1. /\ UNCHANGED <<pack, packSynced, refs, refsSynced, catalog, commits, fallen,
                       frontier, frontiers, group, captures, acked, opened>>
        /\ \/ proc' = proc
           \/ proc' = [proc EXCEPT ![p] = ClosedProcess]
           \/ /\ proc[p].at \in InBatch
              /\ proc' = [proc EXCEPT ![p].at = "idle", ![p].deferred = FALSE,
                                      ![p].snap = None, ![p].txn = EmptyCatalog]
    BY <1>4 DEF OpenRefused, RepairRefused, AttachRefused, Rollback, bounds
  <2>2. \A q \in Procs : proc'[q] = proc[q] \/ proc'[q].at = "closed"
                         \/ (proc[q].at \in InBatch /\ proc'[q].at = "idle")
    <3>1. CASE proc' = proc
      BY <3>1
    <3>2. CASE proc' = [proc EXCEPT ![p] = ClosedProcess]
      <4>1. proc'[p].at = "closed" /\ \A q \in Procs \ {p} : proc'[q] = proc[q]
        BY <3>2 DEF TypeOK, ClosedProcess
      <4> QED
        BY <4>1
    <3>3. CASE /\ proc[p].at \in InBatch
               /\ proc' = [proc EXCEPT ![p].at = "idle", ![p].deferred = FALSE,
                                       ![p].snap = None, ![p].txn = EmptyCatalog]
      <4>1. proc'[p].at = "idle" /\ \A q \in Procs \ {p} : proc'[q] = proc[q]
        BY <3>3 DEF TypeOK, Process
      <4> QED
        BY <3>3, <4>1
    <3> QED
      BY <2>1, <3>1, <3>2, <3>3
  <2> QED
    BY <2>1, <2>2, IdleStep
<1>5. ASSUME NEW p \in Procs,
             RepairRefs(p) \/ Attach(p) \/ Publish(p) \/ KillInPublish(p)
      PROVE  RefInv' /\ LogKept
  BY <1>5, RepairRefsStep, AttachStep, PublishStep, KillInPublishStep
<1>6. ASSUME NEW p \in Procs, NEW b \in Blobs, NEW d \in BOOLEAN, BeginCapture(p, b, d)
      PROVE  RefInv' /\ refs' = refs
  BY <1>0, <1>1, <1>6, BeginCaptureStore
<1>7. ASSUME NEW p \in Procs, PutRecover(p) \/ PutAppend(p) \/ PutKnown(p)
      PROVE  RefInv' /\ refs' = refs
  BY <1>1, <1>7, PutRecoverStore, PutAppendStore, PutKnownStore
<1>8. ASSUME NEW p \in Procs, CommitBatch(p) PROVE RefInv' /\ refs' = refs
  BY <1>8, CommitBatchStep DEF RefInv, CommitBatch
<1>9. ASSUME NEW p \in Procs, VerifyIndex(p) \/ Kill(p)
      PROVE  RefInv' /\ refs' = refs
  BY <1>1, <1>9, VerifyIndexStore, KillStore
<1>10. CASE FoldCatalog
  BY <1>1, <1>10, FoldCatalogStore
<1>11. CASE GroupCommit
  <2>1. refs' = refs
    BY <1>11 DEF GroupCommit, GroupSampleRefs, GroupSamplePacks, GroupFlushPacks,
                 GroupFlushRefs, GroupRename, GroupSyncDir, GroupStays
  <2>2. RefInv'
    BY <1>0, <1>11, GroupSampleRefsStep, GroupSamplePacksStep, GroupFlushStep,
       GroupRenameStep, GroupSyncDirStep DEF GroupCommit
  <2> QED
    BY <2>1, <2>2
<1>12. CASE PowerLoss
  BY <1>0, <1>12, PowerLossStep DEF PowerLoss
<1> QED
  BY <1>2, <1>3, <1>4, <1>5, <1>6, <1>7, <1>8, <1>9, <1>10, <1>11, <1>12
  DEF Next, Open, Capture

(* RefInv is inductive, given TypeOK and PackInv, until a race happens. *)
RefHolds == Unraced => PackInv /\ RefInv

LEMMA RefInvariant == Spec => []RefHolds
<1>1. Init => RefInv
  <2> SUFFICES ASSUME Init PROVE RefInv
    OBVIOUS
  <2>1. /\ Len(pack) = 0 /\ Len(refs) = 0 /\ Len(acked) = 0 /\ packSynced = 0
        /\ refsSynced = 0 /\ group.at = "idle" /\ opened = FALSE
        /\ commits = {EmptyCatalog} /\ catalog = EmptyCatalog
        /\ \A f \in frontiers : f.refs = 0
        /\ \A p \in Procs : proc[p].at = "closed"
    BY DEF Init, NoGroup, NoFrontier, ClosedProcess
  <2>2. ~Up /\ ~Mended /\ Published = {}
    BY <2>1 DEF Up, Mended, Live, Published, Publishing, Logged
  <2>3. Ordered /\ Numbered /\ TailTorn
    BY <2>1 DEF Ordered, Numbered, TailTorn
  <2>4. CommitsInv
    <3>1. EmptyCatalog.rows = {} /\ EmptyCatalog.vlen = 0 /\ EmptyCatalog.cache = {}
      BY DEF EmptyCatalog
    <3>2. Firm(EmptyCatalog) /\ Weak(EmptyCatalog) /\ Cached(EmptyCatalog)
          /\ Counted(EmptyCatalog)
      BY <2>1, <3>1 DEF Firm, Weak, Cached, Counted, Clean
    <3> QED
      BY <2>1, <3>2 DEF CommitsInv
  <2>5. FoundInv /\ OneBatch /\ \A p \in Procs : BatchInv(p)
    BY <2>1, <2>2 DEF FoundInv, OneBatch, BatchInv, InBatch
  <2>6. MendedInv /\ SolidInv /\ AckedInv /\ RefPromise
    BY <2>1, <2>2 DEF MendedInv, SolidInv, AckedInv, RefPromise
  <2>7. GroupRefs /\ LogInv
    BY <2>1 DEF GroupRefs, LogInv, Live
  <2> QED
    BY <2>3, <2>4, <2>5, <2>6, <2>7 DEF RefInv, StoreInv, LogParts
<1>2. TypeOK /\ TypeOK' /\ PackHolds /\ PackHolds' /\ RefHolds /\ [Next]_vars => RefHolds'
  <2> SUFFICES ASSUME TypeOK, TypeOK', PackHolds, PackHolds', RefHolds, [Next]_vars, Unraced'
               PROVE  PackInv' /\ RefInv'
    BY DEF RefHolds
  <2>1. Unraced /\ PackInv'
    BY RacesStay DEF Unraced, PackHolds, Unshaken
  <2> QED
    BY <2>1, RefStep DEF RefHolds
<1>3. PackHolds /\ Init => RefHolds
  BY <1>1 DEF Init, PackHolds, RefHolds, Unshaken, Unraced
<1> QED
  BY <1>2, <1>3, PackInvariant, TypeCorrect, PTL DEF Spec

-----------------------------------------------------------------------------
(* What follows *)

(* What the frontier claims of the reference log holds until a race
   happens: whichever version of group-commit.json survives, the
   references it counts are flushed and whole, and the snapshot and the blob of
   each lie inside the pack prefix it names.  This is why GroupCommit::sync_locked
   samples the references before the packs. *)
THEOREM FrontierIsComplete == Spec => []FrontierRefs
<1>1. RefHolds => FrontierRefs
  BY DEF RefHolds, RefInv, LogParts, FrontierRefs
<1> QED
  BY <1>1, RefInvariant, PTL

(* A capture reported durable, by a synchronous publish or by a group commit,
   keeps its place in the log and its objects in the pack through any sequence
   of kills, power losses and recoveries in which none of the five races
   happens: there is no other way to lose it. *)
THEOREM DurableCapturesAreKept == Spec => []DurableCapturesSurvive
<1>1. TypeOK /\ RefHolds => DurableCapturesSurvive
  <2> SUFFICES ASSUME TypeOK, AckedInv PROVE DurableIntact
    BY DEF RefHolds, RefInv, LogParts, DurableCapturesSurvive
  <2>1. Len(acked) <= Len(refs)
    BY RefsNumbers DEF AckedInv
  <2>2. ASSUME NEW o, Lasting(o) PROVE Stored(o)
    BY <2>2, PackNumbers DEF Lasting, Stored
  <2>3. ASSUME NEW i \in 1..Len(acked)
        PROVE  refs[i] = acked[i] /\ \A o \in Needs(acked[i]) : Stored(o)
    <3>1. /\ refs[i] = acked[i]
          /\ Lasting(acked[i]) /\ Lasting(BlobOf(acked[i].blob))
      BY DEF AckedInv
    <3>2. Stored(acked[i]) /\ Stored(BlobOf(acked[i].blob))
      BY <2>2, <3>1
    <3> QED
      BY <3>1, <3>2 DEF Needs
  <2> QED
    BY <2>1, <2>3 DEF DurableIntact
<1> QED
  BY <1>1, RefInvariant, TypeCorrect, PTL

(* A store that is up can always build its index anew. *)
LEMMA HealAccepted ==
    ASSUME TypeOK, PackPromise, TailTorn, Up
    PROVE  ~RecoverRefused(Unindexed(catalog))
<1> SUFFICES ASSUME RecoverRefused(Unindexed(catalog)) PROVE FALSE
  OBVIOUS
<1>1. /\ Clean(frontier.pack) /\ frontier.pack \in Nat /\ Len(pack) \in Nat
      /\ ScanBase(Unindexed(catalog)) = 0
  BY Numbers, UnindexedType DEF PackPromise, TypeOK
<1>2. PICK stop \in 0..Len(pack) :
         ScanStops(0, stop) /\ stop < Len(pack) /\ MayRefuse(stop)
  BY <1>1 DEF RecoverRefused, Clean
<1>3. stop \in Nat /\ stop + 1 \in 1..Len(pack) /\ pack[stop + 1] \in Damaged
  BY <1>1, <1>2 DEF ScanStops
<1>4. stop + 1 = Len(pack) /\ pack[stop + 1] = Torn
  BY <1>3 DEF TailTorn
<1>5. stop < frontier.pack
  BY <1>2, <1>4 DEF MayRefuse
<1>6. stop + 1 \in 1..frontier.pack
  BY <1>1, <1>3, <1>5
<1> QED
  BY <1>1, <1>3, <1>6 DEF Clean

(* What the catalog leads to can be read. *)
LEMMA FoundIsReadable ==
    ASSUME TypeOK, PackPromise, TailTorn, Up, Firm(catalog),
           NEW o, Found(catalog, o)
    PROVE  Readable(o)
<1>1. /\ catalog \in Catalog /\ catalog.vlen \in Nat /\ Len(pack) \in Nat
      /\ \A r \in catalog.rows : r[2] \in Nat
  BY Numbers, CatalogNumbers DEF TypeOK
<1>2. CASE HasRow(catalog, o)
  <2>1. PICK r \in catalog.rows : r[1] = o
    BY <1>2 DEF HasRow
  <2>2. Clean(r[2]) /\ pack[r[2]] = r[1]
    BY DEF Firm
  <2> QED
    BY <2>1, <2>2 DEF Readable, Clean
<1>3. CASE ~HasRow(catalog, o)
  <2>1. PICK k \in 1..Len(pack) : k <= catalog.vlen /\ pack[k] = o
    BY <1>3 DEF Found
  <2>2. k \in 1..catalog.vlen
    BY <1>1, <2>1
  <2>3. ~Agrees(catalog)
    <3> SUFFICES ASSUME Agrees(catalog) PROVE FALSE
      OBVIOUS
    <3>1. PICK r \in catalog.rows : r[2] = k
      BY <2>2 DEF Agrees
    <3>2. r[1] = o
      BY <2>1, <3>1 DEF Firm
    <3> QED
      BY <1>3, <3>2 DEF HasRow
  <2>4. \A i \in 1..k : pack[i] \notin Damaged
    BY <1>1, <2>1, <2>2 DEF Firm, Clean
  <2> QED
    BY <2>1, <2>3, <2>4, HealAccepted DEF Readable
<1> QED
  BY <1>2, <1>3

(* While any process has the store open, every whole reference in the log leads a
   reader to its snapshot and to its blob: by their rows, or, where a capture that
   was rolled back has left records without rows under the checkpoint, after
   heal_index has built the index anew, which is never refused. Only a race
   changes that. *)
THEOREM PublishedIsComplete == Spec => []PublishedComplete
<1>1. TypeOK /\ PackInv /\ RefInv => AllReadable
  <2> SUFFICES ASSUME TypeOK, PackInv, RefInv, NEW p \in Procs, proc[p].at \in Live,
                      NEW i \in 1..Len(refs), refs[i] \notin Damaged,
                      NEW o \in Needs(refs[i])
               PROVE  Readable(o)
    BY DEF AllReadable
  <2>1. (\A s \in Published : Whole(s)) /\ Up
    BY LiveWhole
  <2>2. /\ TailTorn /\ CommitsInv /\ FoundInv /\ PackPromise
    BY DEF RefInv, StoreInv, PackInv
  <2>3. Firm(catalog) /\ Leads(catalog)
    BY <2>1, <2>2, CatalogFirm DEF FoundInv
  <2>4. refs[i] \in Published
    BY DEF Published, Logged
  <2>5. HasRow(catalog, refs[i]) /\ Found(catalog, BlobOf(refs[i].blob))
    BY <2>1, <2>3, <2>4 DEF Leads
  <2>6. Found(catalog, refs[i])
    BY <2>5 DEF Found
  <2>7. \A x : Found(catalog, x) => Readable(x)
    BY <2>1, <2>2, <2>3, FoundIsReadable
  <2> QED
    BY <2>5, <2>6, <2>7 DEF Needs
<1>2. TypeOK /\ RefHolds => PublishedComplete
  BY <1>1 DEF RefHolds, PublishedComplete
<1> QED
  BY <1>2, RefInvariant, TypeCorrect, PTL

(* Once a frontier exists no crash leaves a store that cannot be opened: neither
   recover_pack_under_catalog_lock, nor repair_deferred_refs, nor the read of the
   log in ensure_workspace ever refuses it, unless one of the five races has
   happened. *)
THEOREM OpenIsNeverRefused == Spec => []OpenNeverRefused
<1>1. Init => OpenNeverRefused
  BY DEF Init, NotRefused, OpenNeverRefused
<1>2. TypeOK /\ PackInv /\ RefInv /\ NotRefused /\ [Next]_vars => NotRefused'
  <2> SUFFICES ASSUME TypeOK, PackInv, RefInv, ~refused, [Next]_vars PROVE refused' = FALSE
    BY DEF NotRefused
  <2>1. ASSUME NEW p \in Procs, OpenRefused(p) PROVE refused' = FALSE
    <3>1. PackAccepted
      BY AcceptedByFrontier DEF PackInv
    <3> QED
      BY <2>1, <3>1 DEF OpenRefused, PackAccepted, TypeOK
  <2>2. ASSUME NEW p \in Procs, RepairRefused(p) PROVE FALSE
    <3>1. DurableRefsLost
      BY <2>2 DEF RepairRefused
    <3>2. /\ frontier \in frontiers /\ frontier.refs \in Nat
          /\ frontier.refs <= refsSynced
          /\ \A i \in 1..frontier.refs : refs[i] \notin Damaged
      BY DEF TypeOK, Frontier, RefInv, LogParts, RefPromise
    <3>3. frontier.refs <= Len(refs)
      BY <3>2, RefsNumbers
    <3>4. PICK stop \in 0..(Len(refs) - 1) : RefsStop(stop) /\ stop < frontier.refs
      BY <3>1, <3>2, <3>3, RefsNumbers DEF DurableRefsLost
    <3>5. /\ stop < Len(refs) /\ stop + 1 \in 1..frontier.refs
          /\ ~(stop + 1 > frontier.refs)
      BY <3>2, <3>4, RefsNumbers
    <3> QED
      BY <3>2, <3>4, <3>5 DEF RefsStop, RefValid
  <2>3. ASSUME NEW p \in Procs, AttachRefused(p) PROVE refused' = FALSE
    <3>1. frontier.exists => \A i \in 1..Len(refs) : refs[i] # Garbage
      BY <2>3 DEF AttachRefused, RefInv, LogParts, LogInv, Live
    <3> QED
      BY <2>3, <3>1 DEF AttachRefused, TypeOK, Frontier
  <2>4. CASE UNCHANGED vars
    BY <2>4 DEF vars, TypeOK
  <2>5. ASSUME NEW p \in Procs,
               \/ OpenSettled(p) \/ OpenRecover(p) \/ RepairRefs(p) \/ Attach(p)
               \/ PutRecover(p) \/ PutAppend(p) \/ PutKnown(p)
               \/ CommitBatch(p) \/ Rollback(p) \/ Publish(p) \/ VerifyIndex(p)
               \/ Kill(p) \/ KillInPublish(p)
               \/ \E b \in Blobs, d \in BOOLEAN : BeginCapture(p, b, d)
        PROVE  refused' = refused
    BY <2>5 DEF OpenSettled, OpenRecover, RepairRefs, Attach, PutRecover, PutAppend,
       PutKnown, CommitBatch, Rollback, Publish, VerifyIndex, Kill, KillInPublish,
       BeginCapture
  <2>6. ASSUME GroupCommit \/ FoldCatalog \/ PowerLoss PROVE refused' = refused
    BY <2>6 DEF GroupCommit, GroupSampleRefs, GroupSamplePacks, GroupFlushPacks,
       GroupFlushRefs, GroupRename, GroupSyncDir, GroupStays, FoldCatalog, PowerLoss
  <2> QED
    BY <2>1, <2>2, <2>3, <2>4, <2>5, <2>6 DEF Next, Open, Capture, TypeOK
<1>3. TypeOK /\ RefHolds /\ OpenNeverRefused /\ [Next]_vars => OpenNeverRefused'
  BY <1>2, RacesStay DEF RefHolds, OpenNeverRefused, Unraced
<1> QED
  BY <1>1, <1>3, RefInvariant, TypeCorrect, PTL DEF Spec

(* "A terminated caller or daemon leaves completed captures recoverable": once the
   store has been opened, no step short of a power loss drops or changes a
   published reference, whoever is killed in the middle of whatever. *)
THEOREM PublishedReferencesStay == Spec => PublishedStays
<1>1. ASSUME TypeOK, TypeOK', RefHolds, RefHolds', [Next]_vars
      PROVE  [Unraced' /\ opened /\ opened' =>
                /\ Len(WholeFrames(refs)) <= Len(refs')
                /\ \A i \in 1..Len(WholeFrames(refs)) : refs'[i] = refs[i]]_vars
  <2> SUFFICES ASSUME Unraced', opened, opened'
               PROVE  /\ Len(WholeFrames(refs)) <= Len(refs')
                      /\ \A i \in 1..Len(WholeFrames(refs)) : refs'[i] = refs[i]
    OBVIOUS
  <2>0. PackInv /\ PackInv' /\ RefInv
    BY <1>1, RacesStay DEF RefHolds, Unraced
  <2>1. PICK w : w = WholeFrames(refs)
    OBVIOUS
  <2>2. /\ Len(w) \in Nat /\ Len(w) <= Len(refs)
        /\ \A i \in 1..Len(w) : w[i] = refs[i] /\ refs[i] # Torn
    BY <1>1, <2>0, <2>1, FramesKept DEF RefInv, LogParts
  <2>3. refs' = refs \/ LogKept
    BY <1>1, <2>0, RefStep
  <2>4. Good(Len(w))
    <3> SUFFICES ASSUME NEW i \in 1..Len(w) PROVE refs[i] \in Object /\ Whole(refs[i])
      BY <2>2 DEF Good
    <3>1. i \in 1..Len(refs) /\ refs[i] \in Entry
      BY <1>1, <2>2, RefsNumbers
    <3>2. refs[i] # Torn /\ refs[i] # Garbage
      BY <1>1, <2>0, <2>2, <3>1 DEF RefInv, LogParts, LogInv
    <3>3. refs[i] \in Object /\ refs[i] \in Published
      BY <3>1, <3>2 DEF Entry, Damaged, Published, Logged
    <3> QED
      BY <1>1, <2>0, <3>3 DEF RefInv, LogParts, MendedInv, Mended
  <2> QED
    BY <2>1, <2>2, <2>3, <2>4 DEF LogKept, Stays
<1> QED
  BY <1>1, RefInvariant, TypeCorrect, PTL DEF Spec, PublishedStays

=============================================================================
