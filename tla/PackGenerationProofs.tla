------------------------ MODULE PackGenerationProofs ------------------------
(***************************************************************************)
(* Theorems about PackGeneration, for any number of processes, files,      *)
(* snapshots, collections, days, kills and power losses: until one of the  *)
(* five races happens no collection loses what is retained, pinned or      *)
(* about to be restored, and the catalog can be rebuilt from the packs.    *)
(***************************************************************************)
EXTENDS PackGeneration, TLAPS

-----------------------------------------------------------------------------
(* The inductive invariant *)

Typed ==
    /\ scenario \in Scenarios
    /\ packs \in [Generation -> SUBSET Object]
    /\ there \subseteq Generation /\ limbo \subseteq Generation /\ current \in Generation
    /\ catalog \in Catalog /\ commits \subseteq Catalog
    /\ log \in Seq(Snap)
    /\ intent \in Intent \cup {None}
    /\ disk \subseteq Files /\ stale \subseteq Files
    /\ proc \in [Procs -> Process]
    /\ today \in 0..scenario.days
    /\ captures \in 0..MaxCaptures /\ collections \in 0..MaxCollections

(* A published snapshot is s, or holds f. *)
Logged(s) == \E i \in 1..Len(log) : log[i] = s
LogHas(f) == \E i \in 1..Len(log) : f \in log[i].files

(* What the two locks keep apart. *)
Locks ==
    \A p, q \in Procs : p # q =>
        /\ proc[p].at \in GcPlaces => proc[q].at \notin GcPlaces \cup PublishPlaces
        /\ proc[p].target = None \/ proc[q].target = None

Restoring == {"apply", "rescue", "rollback"}

(* A capture that is being published has a row for all it holds; the snapshot
   before a rewind is of today until the intent names it. *)
Underway(p) ==
    /\ proc[p].at \in Restoring \cup {"planned", "armed"} => proc[p].target # None
    /\ proc[p].at \in Restoring => intent # None
    /\ proc[p].target # None => Logged(proc[p].target)
    /\ proc[p].at \in PublishPlaces \cup {"armed"} => proc[p].snap # None
    /\ proc[p].at \in PublishPlaces =>
        /\ proc[p].snap.day <= today
        /\ \A o \in Whole(proc[p].snap) : HasRow(catalog, o)
    /\ proc[p].at = "armed" \/ (proc[p].at = "publish" /\ proc[p].target # None)
        => proc[p].snap.day = today
    /\ proc[p].at = "armed" => Logged(proc[p].snap)

ProcsOK == \A p \in Procs : Underway(p)

(* Retained without a pin. *)
Kept(i) == i > retention.through \/ i \in retention.keep
Newest(i) == \A j \in 1..Len(log) : log[j].day # today => j <= i

(* A snapshot of today, the head and the newest of the older ones were never
   thinned, so a later plan that keeps them resurrects nothing. *)
LogOK ==
    /\ \A i \in 1..Len(log) : log[i].day <= today
    /\ retention = [through |-> retention.through, keep |-> retention.keep,
                    pins |-> retention.pins]
    /\ retention.through \in 0..Len(log)
    /\ retention.keep \subseteq 1..Len(log) /\ retention.pins \subseteq 1..Len(log)
    /\ \A i \in 1..Len(log) :
        log[i].day = today \/ i = Len(log) \/ Newest(i) => Kept(i)
    /\ intent # None => Logged(intent.pre) /\ Logged(intent.target)

(* Any CURRENT a power loss leaves names a pack with all the one in use has. *)
CurrentOK ==
    /\ current \in currents
    /\ \A g \in currents :
        g \in there /\ g \in 0..collections /\ packs[current] \subseteq packs[g]
    /\ Needed \subseteq packs[current]

(* Rows name packs with their object; those of the catalog in use, packs that
   are there, and objects the pack in use has too. *)
RowsOK ==
    /\ catalog \in commits
    /\ \A c \in commits : \A r \in c.rows : r[1] \in packs[r[2]] /\ r[2] \in 0..collections
    /\ \A r \in catalog.rows : r[2] \in there /\ r[1] \in packs[current]

Backs(c, f) == HasRow(c, Blob(f)) /\ HasRow(c, Chunk(f))
InPack(f) == Blob(f) \in packs[current] /\ Chunk(f) \in packs[current]

(* A stat row without object rows, of any catalog a power loss can leave, is of a
   file that a capture reads again or whose objects are in the pack in use. *)
CacheOK ==
    /\ Files \ disk \subseteq stale
    /\ \A c \in commits : \A f \in c.cache :
        \/ Backs(c, f)
        \/ LogHas(f) /\ (f \in stale \/ (f \in catalog.cache /\ InPack(f)))

(* While a process has the store open, nothing that matters lacks a row. *)
OpenOK ==
    Opened => /\ \A o \in Needed : HasRow(catalog, o)
              /\ \A f \in catalog.cache : Backs(catalog, f) \/ f \in stale

(* A collection at each of its steps. *)
Collecting(p) ==
    /\ Needed \subseteq proc[p].marks /\ proc[p].marks \subseteq packs[current]
    /\ \A f \in Files : Blob(f) \in proc[p].marks => LogHas(f)
    /\ proc[p].at \in {"write", "swap"} =>
        \A f \in catalog.cache \ stale :
            LogHas(f) => Blob(f) \in proc[p].marks /\ Chunk(f) \in proc[p].marks
    /\ proc[p].at = "write" => collections < MaxCollections
    /\ proc[p].at # "write" => packs[collections] = proc[p].marks /\ collections \in there
    /\ proc[p].at \in {"rename", "syncDir", "remove"} =>
        \A r \in catalog.rows : r[2] = collections /\ r[1] \in proc[p].marks
    /\ proc[p].at \in {"syncDir", "remove"} => current = collections
    /\ proc[p].at = "remove" => currents = {current}

GcOK == \A p \in Procs : proc[p].at \in GcPlaces => Collecting(p)

StoreOK == CurrentOK /\ RowsOK /\ CacheOK /\ OpenOK
GInv == Typed /\ Locks /\ ProcsOK /\ LogOK /\ StoreOK /\ GcOK

-----------------------------------------------------------------------------
(* Types, component by component, and what a step changes of a process *)

(* The bounds of a behaviour do not change, so neither do the sets over them. *)
LEMMA SameSets ==
    ASSUME scenario' = scenario
    PROVE  /\ Snap' = Snap /\ Object' = Object /\ Generation' = Generation
           /\ Catalog' = Catalog /\ Intent' = Intent /\ Process' = Process
           /\ MaxCaptures' = MaxCaptures /\ MaxCollections' = MaxCollections
BY DEF Snap, Object, Leaf, Generation, Catalog, Intent, Process, MaxCaptures, MaxCollections

(* Typed, read out. *)
Shapes ==
    /\ MaxCaptures \in Nat /\ MaxCollections \in Nat /\ scenario.days \in Nat
    /\ Generation = 0..MaxCollections
    /\ None \notin Snap /\ None \notin Intent
    /\ DOMAIN packs = Generation /\ DOMAIN proc = Procs
    /\ catalog.cache \subseteq Files
    /\ \A c \in commits : c.cache \subseteq Files
    /\ Len(log) \in Nat
    /\ \A i \in 1..Len(log) : log[i] \in Snap
    /\ \A s \in Snap : s.files \subseteq Files /\ s.day \in Nat
    /\ intent # None => intent.pre \in Snap /\ intent.target \in Snap
    /\ \A p \in Procs : /\ proc[p].at \in Places
                        /\ proc[p].snap \in Snap \cup {None}
                        /\ proc[p].target \in Snap \cup {None}
                        /\ proc[p].marks \in SUBSET Object
    /\ today \in Nat /\ collections \in Nat

(* The types of the components follow from Typed. *)
LEMMA TypedShapes == Typed => Shapes
<1> HAVE Typed
<1>1. MaxCaptures \in Nat /\ MaxCollections \in Nat /\ scenario.days \in Nat
  BY GenerationBounds DEF Typed, MaxCaptures, MaxCollections
<1>2. None \notin Snap /\ None \notin Intent
  BY NoneIsApart DEF Typed, Snap, Intent
<1>3. DOMAIN packs = Generation /\ DOMAIN proc = Procs /\ Generation = 0..MaxCollections
  BY DEF Typed, Generation
<1>4. catalog.cache \subseteq Files /\ \A c \in commits : c.cache \subseteq Files
  BY DEF Typed, Catalog
<1>5. Len(log) \in Nat /\ \A i \in 1..Len(log) : log[i] \in Snap
  BY DEF Typed
<1>6. \A s \in Snap : s.files \subseteq Files /\ s.day \in Nat
  BY <1>1 DEF Snap, Snapshots
<1>7. intent # None => intent.pre \in Snap /\ intent.target \in Snap
  BY DEF Typed, Intent
<1>8. \A p \in Procs : proc[p] \in Process
  BY DEF Typed
<1>9. \A p \in Procs : /\ proc[p].at \in Places
                       /\ proc[p].snap \in Snap \cup {None}
                       /\ proc[p].target \in Snap \cup {None}
                       /\ proc[p].marks \in SUBSET Object
  BY <1>8 DEF Process
<1>10. today \in Nat /\ collections \in Nat
  BY <1>1 DEF Typed
<1> QED BY <1>1, <1>2, <1>3, <1>4, <1>5, <1>6, <1>7, <1>9, <1>10 DEF Shapes

(* What a step leaves of process p, the others as they were. *)
Moved(p, a, s, t, m) ==
    /\ proc' \in [Procs -> Process]
    /\ \A q \in Procs : q # p => proc'[q] = proc[q]
    /\ proc'[p].at = a /\ proc'[p].snap = s /\ proc'[p].target = t /\ proc'[p].marks = m

(* Giving process p a new record. *)
LEMMA MovedTo ==
    ASSUME Typed, NEW p \in Procs, NEW a \in Places,
           NEW s \in Snap \cup {None}, NEW t \in Snap \cup {None}, NEW m \in SUBSET Object,
           proc' = [proc EXCEPT ![p] = [at |-> a, snap |-> s, target |-> t, marks |-> m]]
    PROVE  Moved(p, a, s, t, m)
<1>1. [at |-> a, snap |-> s, target |-> t, marks |-> m] \in Process
  BY DEF Process
<1> QED BY <1>1 DEF Moved, Typed

(* Giving it a new place. *)
LEMMA MovedAt ==
    ASSUME Typed, NEW p \in Procs, NEW a \in Places, proc' = [proc EXCEPT ![p].at = a]
    PROVE  Moved(p, a, proc[p].snap, proc[p].target, proc[p].marks)
BY DEF Moved, Typed, Process

(* Giving it a new place and snapshot. *)
LEMMA MovedSnap ==
    ASSUME Typed, NEW p \in Procs, NEW a \in Places, NEW s \in Snap \cup {None},
           proc' = [proc EXCEPT ![p].at = a, ![p].snap = s]
    PROVE  Moved(p, a, s, proc[p].target, proc[p].marks)
BY DEF Moved, Typed, Process

(* Leaving a rewind. *)
LEMMA MovedDone ==
    ASSUME Typed, NEW p \in Procs, proc' = RewindDone(p)
    PROVE  Moved(p, "idle", None, None, proc[p].marks)
<1>1. "idle" \in Places
  BY DEF Places
<1> QED BY <1>1 DEF Moved, Typed, Process, RewindDone

-----------------------------------------------------------------------------
(* What is needed, and what a step may do to it *)

(* The members of a graph, one kind at a time. *)
LEMMA InGraph ==
    ASSUME NEW s, NEW bytes, NEW o
    PROVE  o \in Graph(s, bytes) <=>
              \/ o = s
              \/ \E f \in s.files : o = Blob(f)
              \/ \E f \in s.files : f \in bytes /\ o = Chunk(f)
BY DEF Graph

(* The members of a whole snapshot. *)
LEMMA InWhole ==
    ASSUME NEW s, s.files \subseteq Files, NEW o
    PROVE  o \in Whole(s) <=>
              \/ o = s
              \/ \E f \in s.files : o = Blob(f) \/ o = Chunk(f)
BY DEF Whole, Graph

(* What makes an object needed. *)
LEMMA InNeeded ==
    ASSUME NEW o
    PROVE  o \in Needed <=>
              \/ \E i \in Retained : o \in Graph(log[i], Bytes(retention, i))
              \/ intent # None /\ o \in Whole(intent.pre)
<1> DEFINE U == UNION {Graph(log[i], Bytes(retention, i)) : i \in Retained}
<1>1. o \in U <=> \E i \in Retained : o \in Graph(log[i], Bytes(retention, i))
  OBVIOUS
<1>2. Needed = U \cup (IF intent = None THEN {} ELSE Whole(intent.pre))
  BY DEF Needed
<1> HIDE DEF U
<1> QED BY <1>1, <1>2

(* What is needed depends on the log, the retention, the intent and the day. *)
LEMMA NeededSame ==
    ASSUME UNCHANGED <<log, retention, intent, today>>
    PROVE  Needed' = Needed
BY DEF Needed, Retained, Retains, Bytes, Graph, Whole

(* The head, the pinned and the snapshots of today are needed whole. *)
LEMMA WholeNeeded ==
    ASSUME LogOK, NEW i \in 1..Len(log),
           i = Len(log) \/ i \in retention.pins \/ log[i].day = today
    PROVE  Whole(log[i]) \subseteq Needed
<1>1. i \in Retained
  BY DEF Retained, Retains, LogOK, Kept
<1>2. Bytes(retention, i) = Files
  BY DEF Bytes
<1> QED BY <1>1, <1>2, InNeeded DEF Whole

(* The snapshot an intent goes back to is needed whole. *)
LEMMA IntentNeeded ==
    ASSUME intent # None
    PROVE  Whole(intent.pre) \subseteq Needed
BY InNeeded

(* What a snapshot needs at its age is part of all it holds. *)
LEMMA GraphWhole ==
    ASSUME NEW r, NEW i
    PROVE  Graph(log[i], Bytes(r, i)) \subseteq Whole(log[i])
BY DEF Graph, Whole, Bytes

-----------------------------------------------------------------------------
(* What carries each part of the invariant over a step *)

(* One process takes a lock only when the others do not hold it. *)
LEMMA LocksCarry ==
    ASSUME Locks, NEW p \in Procs, \A q \in Procs : q # p => proc'[q] = proc[q],
           proc'[p].at \in GcPlaces => proc[p].at \in GcPlaces \/ MaintenanceFree,
           proc'[p].at \in PublishPlaces => proc[p].at \in PublishPlaces \/ ~GcRunning,
           proc'[p].target = None \/ proc[p].target # None \/ MutationFree(p)
    PROVE  Locks'
<1> SUFFICES ASSUME NEW q \in Procs, NEW r \in Procs, q # r
             PROVE  /\ proc'[q].at \in GcPlaces => proc'[r].at \notin GcPlaces \cup PublishPlaces
                    /\ proc'[q].target = None \/ proc'[r].target = None
  BY DEF Locks, GcPlaces, PublishPlaces
<1>1. CASE q # p /\ r # p
  BY <1>1 DEF Locks
<1>2. CASE q = p /\ r # p
  BY <1>2 DEF Locks, MaintenanceFree, MutationFree, GcRunning
<1>3. CASE q # p /\ r = p
  BY <1>3 DEF Locks, MaintenanceFree, MutationFree, GcRunning
<1> QED BY <1>1, <1>2, <1>3

(* No process moved. *)
LEMMA LocksSame == ASSUME Locks, proc' = proc PROVE Locks'
BY DEF Locks

(* The log only grows, rows only get more while something is published. *)
LEMMA UnderwaySame ==
    ASSUME NEW q \in Procs, Underway(q), proc'[q] = proc[q],
           today' = today,
           \A s : Logged(s) => Logged(s)',
           proc[q].at \in Restoring => intent' # None,
           proc[q].at \in PublishPlaces => \A o : HasRow(catalog, o) => HasRow(catalog', o)
    PROVE  Underway(q)'
<1>1. Whole(proc[q].snap)' = Whole(proc[q].snap)
  BY DEF Whole, Graph
<1>2. (\A o \in Whole(proc[q].snap) : HasRow(catalog, o))' <=>
          \A o \in Whole(proc[q].snap) : HasRow(catalog', o)
  BY <1>1 DEF HasRow
<1> HIDE DEF Logged
<1> QED BY <1>2 DEF Underway, Restoring, PublishPlaces

(* The store is as it was, and what is newly needed is stored. *)
LEMMA StoreCarry ==
    ASSUME StoreOK, UNCHANGED <<store, log, collections>>,
           stale \subseteq stale', Files \ disk' \subseteq stale',
           \A o \in Needed' : o \in Needed \/ (o \in packs[current] /\ HasRow(catalog, o)),
           Opened' => Opened
    PROVE  StoreOK'
<1>1. CurrentOK'
  BY DEF StoreOK, CurrentOK, store
<1>2. RowsOK'
  BY DEF StoreOK, RowsOK, store
<1>3. CacheOK'
  BY DEF StoreOK, CacheOK, store, Backs, HasRow, LogHas, InPack
<1>4. OpenOK'
  BY DEF StoreOK, OpenOK, store, Backs, HasRow
<1> QED BY <1>1, <1>2, <1>3, <1>4 DEF StoreOK

(* A collection goes on while the rest of the state needs no more than before. *)
LEMMA GcCarry ==
    ASSUME GcOK, UNCHANGED <<store, log, collections, scenario>>,
           stale \subseteq stale', Needed' \subseteq Needed,
           \A q \in Procs : proc'[q].at \in GcPlaces =>
                proc'[q].at = proc[q].at /\ proc'[q].marks = proc[q].marks
    PROVE  GcOK'
BY DEF GcOK, Collecting, store, LogHas, MaxCollections

(* Nothing is being collected. *)
LEMMA GcNone == ASSUME ~GcRunning' PROVE GcOK'
BY DEF GcOK, GcRunning

(* The log, the retention and the day are as they were. *)
LEMMA LogCarry ==
    ASSUME LogOK, UNCHANGED <<log, retention, today>>, intent' = intent \/ intent' = None
    PROVE  LogOK'
BY DEF LogOK, Kept, Newest, Logged

(* The log is as it was. *)
LEMMA LoggedSame == ASSUME log' = log PROVE \A s : Logged(s) => Logged(s)'
BY DEF Logged

(* The store and the log keep their types when they do not change. *)
LEMMA TypedCarry ==
    ASSUME Typed, UNCHANGED <<scenario, store, log, captures, collections>>,
           proc' \in [Procs -> Process], intent' \in Intent \cup {None},
           disk' \subseteq Files, stale' \subseteq Files, today' \in 0..scenario.days
    PROVE  Typed'
BY SameSets DEF Typed, store

(* A step of a process that leaves the store and the log alone: what is left to
   show is what became of the process and of the intent. *)
LEMMA QuietStep ==
    ASSUME GInv, NEW p \in Procs, NEW a, NEW s, NEW t, NEW m, Moved(p, a, s, t, m),
           UNCHANGED <<scenario, store, log, retention, today, captures, collections>>,
           intent' = intent \/ intent' = None,
           intent' = None => \A q \in Procs : q # p => proc[q].at \notin Restoring,
           disk' \subseteq Files, stale' \subseteq Files,
           stale \subseteq stale', Files \ disk' \subseteq stale',
           Opened, a \notin GcPlaces, a \notin PublishPlaces,
           t = None \/ proc[p].target # None \/ MutationFree(p),
           Underway(p)'
    PROVE  GInv'
<1> USE DEF GInv
<1>1. Typed'
  BY TypedCarry DEF Moved, Typed
<1>2. Locks'
  BY LocksCarry DEF Moved
<1>3. ProcsOK'
  <2> SUFFICES ASSUME NEW q \in Procs, q # p PROVE Underway(q)'
    BY DEF ProcsOK
  <2>2. proc[q].at \in Restoring => intent' # None
    BY DEF ProcsOK, Underway
  <2>3. \A o : HasRow(catalog, o) => HasRow(catalog', o)
    BY DEF store
  <2> QED BY <2>2, <2>3, UnderwaySame, LoggedSame DEF ProcsOK, Moved
<1>4. LogOK'
  BY LogCarry
<1>5. Needed' \subseteq Needed
  <2> SUFFICES ASSUME NEW o \in Needed' PROVE o \in Needed
    OBVIOUS
  <2>1. CASE intent' = intent
    BY <2>1, NeededSame
  <2>2. CASE intent' = None
    <3>1. Retained' = Retained /\ \A i : Bytes(retention, i)' = Bytes(retention, i)
      BY DEF Retained, Retains, Bytes
    <3>2. \E i \in Retained : o \in Graph(log[i], Bytes(retention, i))
      BY <2>2, <3>1 DEF Needed, Graph, Bytes
    <3> QED BY <3>2, InNeeded
  <2> QED BY <2>1, <2>2
<1>6. StoreOK'
  BY <1>5, StoreCarry
<1>7. GcOK'
  BY <1>5, GcCarry DEF Moved
<1> QED BY <1>1, <1>2, <1>3, <1>4, <1>6, <1>7

(* A process that is not closed has the store open. *)
LEMMA OpenedBy == ASSUME NEW p \in Procs, proc[p].at # "closed" PROVE Opened
BY DEF Opened

(* What the person sees of the tree, and where no restore can be. *)
LEMMA TreeOK ==
    ASSUME GInv
    PROVE  /\ disk \subseteq Files /\ stale \subseteq Files /\ Files \ disk \subseteq stale
           /\ intent = None => \A q \in Procs : proc[q].at \notin Restoring
BY DEF GInv, Typed, StoreOK, CacheOK, ProcsOK, Underway

(* The target is a published snapshot. *)
LEMMA RewindPlanStep ==
    ASSUME GInv, NEW p \in Procs, NEW i \in 1..Len(log), RewindPlan(p, i)
    PROVE  GInv'
<1>1. Moved(p, "planned", proc[p].snap, log[i], proc[p].marks)
  <2>1. "planned" \in Places /\ log[i] \in Snap
    BY TypedShapes DEF GInv, Shapes, Places
  <2> QED BY <2>1 DEF GInv, Moved, Typed, Process, RewindPlan
<1>2. Underway(p)'
  <2>1. Logged(log[i]) /\ log[i] # None
    BY TypedShapes DEF GInv, Shapes, Logged
  <2>3. \A s : Logged(s) => Logged(s)'
    BY LoggedSame DEF RewindPlan
  <2> HIDE DEF Logged
  <2> QED BY <1>1, <2>1, <2>3 DEF Moved, Underway, Restoring, PublishPlaces
<1>3. Opened
  BY OpenedBy DEF RewindPlan
<1>4. UNCHANGED <<scenario, store, log, retention, intent, today, captures, collections, disk, stale>>
  BY DEF RewindPlan, bounds, tree
<1>5. MutationFree(p)
  BY DEF RewindPlan
<1>6. "planned" \notin GcPlaces /\ "planned" \notin PublishPlaces
  BY DEF GcPlaces, PublishPlaces
<1> QED BY <1>1, <1>2, <1>3, <1>4, <1>5, <1>6, TreeOK, QuietStep

(* A restored tree: every file that came or went is stale. *)
LEMMA Replaced ==
    ASSUME GInv, NEW s \in Snap, Replace(s)
    PROVE  /\ disk' \subseteq Files /\ stale' \subseteq Files
           /\ stale \subseteq stale' /\ Files \ disk' \subseteq stale'
<1>1. s.files \subseteq Files
  BY TypedShapes DEF GInv, Shapes
<1> QED BY <1>1, TreeOK DEF Replace, Exclusions

(* Done with the rewind: the process is idle. *)
LEMMA DoneUnderway ==
    ASSUME NEW p \in Procs, Moved(p, "idle", None, None, proc[p].marks)
    PROVE  Underway(p)'
BY DEF Moved, Underway, Restoring, PublishPlaces

(* The places apart from the two locks. *)
LEMMA IdlePlaces ==
    /\ \A a \in {"idle", "closed", "planned", "armed"} \cup Restoring : a \notin GcPlaces
    /\ \A a \in {"idle", "closed", "planned", "armed", "apply", "rollback"} :
        a \notin PublishPlaces
    /\ {"idle", "closed", "planned", "armed"} \cup Restoring \cup GcPlaces \cup PublishPlaces
        \subseteq Places
BY DEF GcPlaces, PublishPlaces, Restoring, Places

(* Nothing was changed, so nothing is undone. *)
LEMMA RewindCancelStep ==
    ASSUME GInv, NEW p \in Procs, RewindCancel(p)
    PROVE  GInv'
<1>1. Moved(p, "idle", None, None, proc[p].marks)
  BY MovedDone DEF GInv, RewindCancel
<1>2. Underway(p)'
  BY <1>1, DoneUnderway
<1>3. Opened
  BY OpenedBy DEF RewindCancel
<1>4. UNCHANGED <<scenario, store, log, retention, intent, today, captures, collections, disk, stale>>
  BY DEF RewindCancel, bounds, tree
<1> QED BY <1>1, <1>2, <1>3, <1>4, TreeOK, IdlePlaces, QuietStep

(* The rollback goes back to the same intent. *)
LEMMA RewindNoRescueStep ==
    ASSUME GInv, NEW p \in Procs, RewindNoRescue(p)
    PROVE  GInv'
<1>1. Moved(p, "rollback", proc[p].snap, proc[p].target, proc[p].marks)
  <2>1. "rollback" \in Places
    BY DEF Places
  <2> QED BY <2>1, MovedAt DEF GInv, RewindNoRescue
<1>4. UNCHANGED <<scenario, store, log, retention, intent, today, captures, collections, disk, stale>>
  BY DEF RewindNoRescue, bounds, tree
<1>2. Underway(p)'
  <2>1. \A s : Logged(s) => Logged(s)'
    BY <1>4, LoggedSame
  <2>2. Underway(p)
    BY DEF GInv, ProcsOK
  <2> HIDE DEF Logged
  <2> QED BY <1>1, <1>4, <2>1, <2>2 DEF Moved, Underway, Restoring, PublishPlaces, RewindNoRescue
<1>3. Opened /\ proc[p].target # None
  BY OpenedBy DEF RewindNoRescue, GInv, ProcsOK, Underway, Restoring
<1>5. "rollback" \notin GcPlaces
  BY DEF GcPlaces
<1> QED BY <1>1, <1>2, <1>3, <1>4, <1>5, TreeOK, IdlePlaces, QuietStep

(* The intent goes when the tree is the target, or what it was before. *)
LEMMA RestoredStep ==
    ASSUME GInv, NEW p \in Procs, NEW s \in Snap, Replace(s), intent' = None,
           proc[p].at \in {"apply", "rollback"}, proc' = RewindDone(p),
           UNCHANGED <<store, log, retention, today, bounds>>
    PROVE  GInv'
<1>1. Moved(p, "idle", None, None, proc[p].marks)
  BY MovedDone DEF GInv
<1>2. Underway(p)'
  BY <1>1, DoneUnderway
<1>3. Opened /\ \A q \in Procs : q # p => proc[q].at \notin Restoring
  BY OpenedBy DEF GInv, ProcsOK, Underway, Restoring, Locks
<1>4. UNCHANGED <<scenario, store, log, retention, today, captures, collections>>
  BY DEF bounds
<1> QED BY <1>1, <1>2, <1>3, <1>4, Replaced, IdlePlaces, QuietStep

(* The tree is the target, or what it was before. *)
LEMMA RewindApplyStep ==
    ASSUME GInv, NEW p \in Procs, RewindApply(p) \/ RewindRollback(p)
    PROVE  GInv'
<1>1. intent.pre \in Snap /\ intent.target \in Snap
  BY TypedShapes DEF GInv, Shapes, RewindApply, RewindRollback, ProcsOK, Underway, Restoring
<1> QED BY <1>1, RestoredStep DEF RewindApply, RewindRollback

(* The recovery removes the intent no rewind is at work on. *)
LEMMA RecoverRewindStep ==
    ASSUME GInv, NEW p \in Procs, RecoverRewind(p)
    PROVE  GInv'
<1>1. Moved(p, "idle", proc[p].snap, proc[p].target, proc[p].marks)
  BY DEF GInv, Typed, Moved, RecoverRewind
<1>2. intent.pre \in Snap
  BY TypedShapes DEF GInv, Shapes, RecoverRewind
<1>4. UNCHANGED <<scenario, store, log, retention, today, captures, collections>> /\ intent' = None
  BY DEF RecoverRewind, bounds
<1>3. Opened /\ MutationFree(p)
  BY OpenedBy DEF RecoverRewind
<1>5. \A q \in Procs : q # p => proc[q].at \notin Restoring
  BY <1>3 DEF GInv, ProcsOK, Underway, MutationFree
<1>6. Underway(p)'
  <2>1. \A s : Logged(s) => Logged(s)'
    BY <1>4, LoggedSame
  <2>2. Underway(p)
    BY DEF GInv, ProcsOK
  <2> HIDE DEF Logged
  <2> QED BY <1>1, <1>4, <2>1, <2>2 DEF Moved, Underway, Restoring, PublishPlaces
<1>7. Replace(intent.pre)
  BY DEF RecoverRewind
<1> QED BY <1>1, <1>2, <1>3, <1>4, <1>5, <1>6, <1>7, Replaced, IdlePlaces, QuietStep

(* A killed process leaves its locks, and nothing on disk changes. *)
LEMMA KillStep ==
    ASSUME GInv, NEW p \in Procs, Kill(p)
    PROVE  GInv'
<1>1. Moved(p, "closed", None, None, {})
  BY IdlePlaces, MovedTo DEF GInv, Kill, ClosedProcess
<1>2. Underway(p)'
  BY <1>1 DEF Moved, Underway, Restoring, PublishPlaces
<1>3. Opened
  BY OpenedBy DEF Kill
<1>4. UNCHANGED <<scenario, store, log, retention, intent, today, captures, collections, disk, stale>>
  BY DEF Kill, tree
<1> QED BY <1>1, <1>2, <1>3, <1>4, TreeOK, IdlePlaces, QuietStep

(* A file the person touched is stale. *)
LEMMA EditStep ==
    ASSUME GInv, NEW f \in Files, Edit(f)
    PROVE  GInv'
<1> USE DEF GInv
<1>1. UNCHANGED <<scenario, store, log, retention, intent, proc, today, captures, collections>>
  BY DEF Edit, bounds
<1>2. disk' \subseteq Files /\ stale' \subseteq Files /\ stale \subseteq stale' /\ Files \ disk' \subseteq stale'
  BY TreeOK DEF Edit
<1>3. Needed' = Needed /\ Opened' = Opened
  BY <1>1, NeededSame DEF Opened
<1>4. Typed'
  BY <1>1, <1>2, TypedCarry DEF Typed
<1>5. Locks' /\ LogOK'
  BY <1>1, LocksSame, LogCarry
<1>6. ProcsOK'
  <2> SUFFICES ASSUME NEW q \in Procs PROVE Underway(q)'
    BY DEF ProcsOK
  <2>1. \A o : HasRow(catalog, o) => HasRow(catalog', o)
    BY <1>1 DEF store
  <2> QED BY <1>1, <2>1, UnderwaySame, LoggedSame, TreeOK DEF ProcsOK
<1>7. StoreOK' /\ GcOK'
  BY <1>1, <1>2, <1>3, StoreCarry, GcCarry
<1> QED BY <1>4, <1>5, <1>6, <1>7

(* At a new day every snapshot is an older one and the head is the newest. *)
LEMMA TickStep ==
    ASSUME GInv, Tick, "midnight" \notin races'
    PROVE  GInv'
<1> USE DEF GInv
<1>1. UNCHANGED <<scenario, store, log, retention, intent, proc, captures, collections, disk, stale>>
  BY DEF Tick, bounds, tree
<1>2. Shapes /\ today' = today + 1 /\ today' \in 0..scenario.days
  BY TypedShapes DEF Tick, Typed, Shapes
<1>3. \A i \in 1..Len(log) : log[i].day \in Nat /\ log[i].day <= today /\ log[i].day # today'
  BY <1>2 DEF LogOK, Shapes
<1>4. Typed'
  BY <1>1, <1>2, TypedCarry DEF Typed
<1>5. Locks'
  BY <1>1, LocksSame
<1>6. ProcsOK'
  <2> SUFFICES ASSUME NEW q \in Procs PROVE Underway(q)'
    BY DEF ProcsOK
  <2>1. Underway(q)
    BY DEF ProcsOK
  <2>2. proc'[q] = proc[q] /\ intent' = intent
    BY <1>1
  <2>3. \A s : Logged(s) => Logged(s)'
    BY <1>1, LoggedSame
  <2>4. (\A o \in Whole(proc[q].snap) : HasRow(catalog, o))' <=>
          \A o \in Whole(proc[q].snap) : HasRow(catalog, o)
    BY <1>1 DEF HasRow, Whole, Graph, store
  <2>5. proc[q].at = "armed" \/ proc[q].at = "publish" => proc[q].target = None
    BY DEF Tick, When, BeforeIntent
  <2>6. proc[q].at \in PublishPlaces => proc[q].snap.day \in Nat
    BY <2>1, <1>2 DEF Shapes, Underway
  <2>7. proc[q].at \in PublishPlaces => proc[q].snap.day <= today'
    BY <2>1, <2>6, <1>2 DEF Shapes, Underway
  <2> HIDE DEF Logged
  <2> QED BY <2>1, <2>2, <2>3, <2>4, <2>5, <2>7 DEF Underway, Restoring, PublishPlaces
<1>7. LogOK'
  <2>1. \A i \in 1..Len(log) : log[i].day <= today'
    BY <1>2, <1>3 DEF Shapes
  <2>2. ASSUME NEW i \in 1..Len(log), \A j \in 1..Len(log) : log[j].day # today' => j <= i
        PROVE  i = Len(log)
    BY <2>2, <1>2, <1>3 DEF Shapes
  <2>3. \A i \in 1..Len(log) : Newest(i)' => i = Len(log)
    BY <1>1, <2>2 DEF Newest
  <2>4. \A i : Kept(i)' <=> Kept(i)
    BY <1>1 DEF Kept
  <2>5. \A i \in 1..Len(log) : i = Len(log) => Kept(i)
    BY DEF LogOK
  <2> HIDE DEF Kept, Newest
  <2> QED BY <1>1, <1>3, <2>1, <2>3, <2>4, <2>5 DEF LogOK, Logged
<1>8. Needed' \subseteq Needed
  <2> SUFFICES ASSUME NEW o \in Needed' PROVE o \in Needed
    OBVIOUS
  <2>1. CASE intent # None /\ o \in Whole(intent.pre)
    BY <2>1, InNeeded
  <2>2. CASE ~(intent # None /\ o \in Whole(intent.pre))
    <3>1. PICK i \in Retained' : o \in Graph(log[i], Bytes(retention, i)')
      BY <1>1, <2>2 DEF Needed, Graph, Whole, Bytes
    <3>2. i \in Retained /\ i \in 1..Len(log)
      BY <1>1 DEF Retained, Retains
    <3>3. Bytes(retention, i)' \subseteq Bytes(retention, i)
      BY <1>1, <1>3, <3>2 DEF Bytes
    <3>4. o \in Graph(log[i], Bytes(retention, i))
      BY <3>1, <3>3 DEF Graph
    <3> QED BY <3>2, <3>4, InNeeded
  <2> QED BY <2>1, <2>2
<1>9. StoreOK' /\ GcOK'
  <2>1. Opened' => Opened
    BY <1>1 DEF Opened
  <2> QED BY <1>1, <1>8, <2>1, TreeOK, StoreCarry, GcCarry
<1> QED BY <1>4, <1>5, <1>6, <1>7, <1>9

(* What can be read has a row and is in the pack in use. *)
LEMMA ReadableStored ==
    ASSUME RowsOK, NEW o, Readable(o)
    PROVE  o \in packs[current] /\ HasRow(catalog, o)
BY DEF RowsOK, Readable, HasRow

(* Only the pins change, and nothing is collected. *)
LEMMA PinsStep ==
    ASSUME GInv, NEW pins \in SUBSET (1..Len(log)), MaintenanceFree, 
           retention' = [retention EXCEPT !.pins = pins],
           UNCHANGED <<store, log, intent, tree, proc, today, bounds>>,
           \A i \in pins : i \in retention.pins \/ Exact(log[i])
    PROVE  GInv'
<1> USE DEF GInv
<1>1. UNCHANGED <<scenario, store, log, intent, proc, today, captures, collections, disk, stale>>
  BY DEF bounds, tree
<1>2. /\ retention'.through = retention.through /\ retention'.keep = retention.keep
      /\ retention'.pins = pins
      /\ retention' = [through |-> retention.through, keep |-> retention.keep, pins |-> pins]
  BY DEF LogOK
<1>3. Typed' /\ Locks'
  BY <1>1, TypedCarry, LocksSame DEF Typed
<1>4. ProcsOK'
  <2> SUFFICES ASSUME NEW q \in Procs PROVE Underway(q)'
    BY DEF ProcsOK
  <2>1. \A o : HasRow(catalog, o) => HasRow(catalog', o)
    BY <1>1 DEF store
  <2> QED BY <1>1, <2>1, UnderwaySame, LoggedSame, TreeOK DEF ProcsOK
<1>5. LogOK'
  <2>1. \A i : (Kept(i)' <=> Kept(i)) /\ (Newest(i)' <=> Newest(i))
    BY <1>1, <1>2 DEF Kept, Newest
  <2> HIDE DEF Kept, Newest
  <2> QED BY <1>1, <1>2, <2>1 DEF LogOK, Logged
<1>6. \A o \in Needed' : o \in Needed \/ (o \in packs[current] /\ HasRow(catalog, o))
  <2> SUFFICES ASSUME NEW o \in Needed', o \notin Needed PROVE Readable(o)
    BY ReadableStored DEF StoreOK
  <2>1. PICK i \in Retained' : o \in Graph(log[i], Bytes(retention, i)')
    <3>1. ~(intent # None /\ o \in Whole(intent.pre))
      BY InNeeded
    <3> QED BY <1>1, <3>1 DEF Needed, Graph, Whole, Bytes
  <2>2. i \in 1..Len(log)
    BY <1>1 DEF Retained
  <2>3. CASE i \in pins \ retention.pins
    BY <1>1, <2>1, <2>3, GraphWhole DEF Exact, Graph, Whole, Bytes
  <2>4. CASE i \notin pins \/ i \in retention.pins
    <3>1. i \in Retained
      BY <1>1, <1>2, <2>2, <2>4 DEF Retained, Retains
    <3>2. Bytes(retention, i)' \subseteq Bytes(retention, i)
      BY <1>1, <1>2, <2>4 DEF Bytes
    <3>3. o \in Graph(log[i], Bytes(retention, i))
      BY <2>1, <3>2 DEF Graph
    <3> QED BY <3>1, <3>3, InNeeded
  <2> QED BY <2>3, <2>4
<1>7. StoreOK'
  <2>1. Opened' => Opened
    BY <1>1 DEF Opened
  <2> QED BY <1>1, <1>6, <2>1, TreeOK, StoreCarry
<1>8. GcOK'
  BY <1>1, GcNone DEF MaintenanceFree, GcRunning
<1> QED BY <1>3, <1>4, <1>5, <1>7, <1>8

(* A snapshot is pinned only when it can be read whole. *)
LEMMA PinStep ==
    ASSUME GInv, NEW p \in Procs, NEW i \in 1..Len(log), Pin(p, i) \/ Unpin(p, i)
    PROVE  GInv'
<1>1. retention.pins \cup {i} \in SUBSET (1..Len(log)) /\ retention.pins \ {i} \in SUBSET (1..Len(log))
  BY DEF GInv, LogOK
<1>2. CASE Pin(p, i)
  BY <1>1, <1>2, PinsStep DEF Pin
<1>3. CASE Unpin(p, i)
  BY <1>1, <1>3, PinsStep DEF Unpin
<1> QED BY <1>2, <1>3

(* The snapshot before the rewind is of today: the intent asks for nothing that
   is not needed already. *)
LEMMA RewindIntentStep ==
    ASSUME GInv, NEW p \in Procs, RewindIntent(p)
    PROVE  GInv'
<1> USE DEF GInv
<1>1. UNCHANGED <<scenario, store, log, retention, today, captures, collections, disk, stale>>
  BY DEF RewindIntent, bounds, tree
<1>2. Moved(p, "apply", proc[p].snap, proc[p].target, proc[p].marks)
  BY IdlePlaces, MovedAt DEF RewindIntent, Restoring
<1>3. Shapes /\ Underway(p) /\ proc[p].at = "armed"
  BY TypedShapes DEF ProcsOK, RewindIntent
<1>4. /\ proc[p].snap \in Snap /\ proc[p].target \in Snap
      /\ Logged(proc[p].snap) /\ Logged(proc[p].target) /\ proc[p].snap.day = today
  BY <1>3 DEF Shapes, Underway, PublishPlaces
<1>5. /\ intent' \in Intent /\ intent' # None
      /\ intent'.pre = proc[p].snap /\ intent'.target = proc[p].target
  BY <1>3, <1>4 DEF RewindIntent, Intent, Shapes
<1>6. Typed'
  BY <1>1, <1>2, <1>5, TypedCarry DEF Typed, Moved
<1>7. Locks'
  BY <1>2, <1>3, LocksCarry DEF Moved, GcPlaces, PublishPlaces, Underway
<1>8. ProcsOK'
  <2>0. \A s : Logged(s) => Logged(s)'
    BY <1>1, LoggedSame
  <2>1. Underway(p)'
    <3> HIDE DEF Logged
    <3> QED BY <1>2, <1>3, <1>4, <1>5, <2>0 DEF Moved, Underway, Restoring, PublishPlaces
  <2>2. ASSUME NEW q \in Procs, q # p PROVE Underway(q)'
    <3>1. \A o : HasRow(catalog, o) => HasRow(catalog', o)
      BY <1>1 DEF store
    <3> QED BY <1>1, <1>2, <1>5, <2>0, <2>2, <3>1, UnderwaySame DEF ProcsOK, Moved
  <2> QED BY <2>1, <2>2 DEF ProcsOK
<1>9. LogOK'
  <2>1. Logged(intent.pre)' /\ Logged(intent.target)'
    BY <1>1, <1>4, <1>5 DEF Logged
  <2>2. \A i : (Kept(i)' <=> Kept(i)) /\ (Newest(i)' <=> Newest(i))
    BY <1>1 DEF Kept, Newest
  <2> HIDE DEF Kept, Newest
  <2> QED BY <1>1, <1>4, <1>5, <2>1, <2>2 DEF LogOK, Logged
<1>10. Needed' \subseteq Needed
  <2>1. PICK i \in 1..Len(log) : log[i] = proc[p].snap
    BY <1>4 DEF Logged
  <2>2. Whole(proc[p].snap) \subseteq Needed
    BY <1>4, <2>1, WholeNeeded
  <2> SUFFICES ASSUME NEW o \in Needed', o \notin Whole(proc[p].snap) PROVE o \in Needed
    BY <2>2
  <2>3. \E j \in Retained : o \in Graph(log[j], Bytes(retention, j))
    BY <1>1, <1>5 DEF Needed, Graph, Whole, Bytes, Retained, Retains
  <2> QED BY <2>3, InNeeded
<1>11. StoreOK' /\ GcOK'
  <2>1. Opened
    BY <1>3, OpenedBy
  <2>2. "apply" \notin GcPlaces
    BY DEF GcPlaces
  <2> QED BY <1>1, <1>2, <1>10, <2>1, <2>2, TreeOK, StoreCarry, GcCarry DEF Moved
<1> QED BY <1>6, <1>7, <1>8, <1>9, <1>11

-----------------------------------------------------------------------------
(* Captures *)

(* A new snapshot at the end of the log is retained whole, and the head before
   it is no longer: everything else is as it was. *)
LEMMA PublishStep ==
    ASSUME GInv, NEW p \in Procs, Publish(p)
    PROVE  GInv'
<1> USE DEF GInv
<1>1. UNCHANGED <<scenario, store, retention, intent, today, captures, collections, disk, stale>>
  BY DEF Publish, bounds, tree
<1>2. Shapes /\ Underway(p) /\ proc[p].at \in PublishPlaces
  BY TypedShapes DEF ProcsOK, Publish
<1> DEFINE s == proc[p].snap
           n == Len(log)
<1>3. s \in Snap /\ s.day \in Nat /\ s.day <= today /\ s.files \subseteq Files
  BY <1>2 DEF Shapes, Underway
<1>4. /\ log' \in Seq(Snap) /\ Len(log') = n + 1 /\ log'[n + 1] = s
      /\ \A i \in 1..n : log'[i] = log[i]
      /\ n \in Nat
  BY <1>3 DEF Publish, Typed
<1>5. \E a \in {"idle", "armed", "rollback"} : \E x \in {s, None} :
          /\ Moved(p, a, x, proc[p].target, proc[p].marks)
          /\ a = "idle" => proc[p].target = None
          /\ a # "idle" => proc[p].target # None /\ x = s
          /\ a = "armed" => proc[p].at = "publish"
          /\ a = "rollback" => proc[p].at = "rescue"
  <2>1. CASE proc[p].target = None
    <3>1. proc' = [proc EXCEPT ![p].at = "idle", ![p].snap = None]
      BY <2>1 DEF Publish, AfterPublish
    <3>2. Moved(p, "idle", None, proc[p].target, proc[p].marks)
      BY <3>1, IdlePlaces, MovedSnap
    <3> QED BY <2>1, <3>2
  <2>2. CASE proc[p].target # None /\ proc[p].at = "publish"
    <3>1. proc' = [proc EXCEPT ![p].at = "armed"]
      BY <2>2 DEF Publish, AfterPublish
    <3>2. Moved(p, "armed", s, proc[p].target, proc[p].marks)
      BY <3>1, IdlePlaces, MovedAt
    <3> QED BY <2>2, <3>2
  <2>3. CASE proc[p].target # None /\ proc[p].at = "rescue"
    <3>1. proc' = [proc EXCEPT ![p].at = "rollback"]
      BY <2>3 DEF Publish, AfterPublish
    <3>2. Moved(p, "rollback", s, proc[p].target, proc[p].marks)
      BY <3>1, IdlePlaces, MovedAt DEF Restoring
    <3> QED BY <2>3, <3>2
  <2> QED BY <1>2, <2>1, <2>2, <2>3 DEF PublishPlaces
<1>6. PICK a \in {"idle", "armed", "rollback"}, x \in {s, None} :
          /\ Moved(p, a, x, proc[p].target, proc[p].marks)
          /\ a = "idle" => proc[p].target = None
          /\ a # "idle" => proc[p].target # None /\ x = s
          /\ a = "armed" => proc[p].at = "publish"
          /\ a = "rollback" => proc[p].at = "rescue"
  BY <1>5
<1>7. Typed'
  BY <1>1, <1>4, <1>6, SameSets DEF Typed, Moved, store
<1>8. Locks'
  BY <1>6, LocksCarry DEF Moved, GcPlaces, PublishPlaces
<1>9. /\ \A t : Logged(t) => Logged(t)'
      /\ a = "armed" => Logged(proc[p].snap)'
      /\ \A f : LogHas(f) => LogHas(f)'
  <2>1. \A i \in 1..n : i \in 1..Len(log') /\ n + 1 \in 1..Len(log')
    BY <1>4
  <2>2. n + 1 \in 1..Len(log')
    BY <1>4
  <2>3. a = "armed" => proc'[p].snap = s
    BY <1>6 DEF Moved
  <2> QED BY <1>4, <2>1, <2>2, <2>3 DEF Logged, LogHas
<1>10. ProcsOK'
  <2>1. Underway(p)'
    <3> HIDE DEF Logged
    <3> QED BY <1>1, <1>2, <1>6, <1>9 DEF Moved, Underway, Restoring, PublishPlaces
  <2>2. ASSUME NEW q \in Procs, q # p PROVE Underway(q)'
    <3>1. \A o : HasRow(catalog, o) => HasRow(catalog', o)
      BY <1>1 DEF store
    <3> QED BY <1>1, <1>6, <1>9, <2>2, <3>1, UnderwaySame, TreeOK DEF ProcsOK, Moved
  <2> QED BY <2>1, <2>2 DEF ProcsOK
<1>11. LogOK'
  <2>1. \A i \in 1..Len(log') : log'[i].day <= today'
    BY <1>1, <1>3, <1>4 DEF LogOK
  <2>2. retention.through \in 0..Len(log') /\ retention.keep \subseteq 1..Len(log')
        /\ retention.pins \subseteq 1..Len(log')
    BY <1>4 DEF LogOK
  <2>3. ASSUME NEW i \in 1..Len(log'),
               log'[i].day = today' \/ i = Len(log') \/ Newest(i)'
        PROVE  Kept(i)'
    <3>1. CASE i = n + 1
      BY <1>1, <1>4, <3>1 DEF Kept, LogOK
    <3>2. CASE i \in 1..n
      <4>1. log[i].day = today \/ Newest(i)
        <5>1. CASE Newest(i)'
          <6>1. \A j \in 1..n : log[j].day # today => j <= i
            BY <5>1, <1>1, <1>4 DEF Newest
          <6> QED BY <6>1 DEF Newest
        <5> QED BY <2>3, <3>2, <1>1, <1>4, <5>1
      <4>2. Kept(i)
        BY <3>2, <4>1 DEF LogOK
      <4> QED BY <4>2, <1>1 DEF Kept
    <3> QED BY <1>4, <3>1, <3>2
  <2>4. intent' # None => Logged(intent.pre)' /\ Logged(intent.target)'
    BY <1>1, <1>4 DEF LogOK, Logged
  <2> HIDE DEF Kept, Newest
  <2> QED BY <1>1, <2>1, <2>2, <2>3, <2>4 DEF LogOK
<1>12. \A o \in Needed' : o \in Needed \/ (o \in packs[current] /\ HasRow(catalog, o))
  <2>1. \A o \in Whole(s) : HasRow(catalog, o)
    BY <1>2 DEF Underway
  <2>2. \A o \in Whole(s) : o \in packs[current]
    BY <2>1 DEF StoreOK, RowsOK, HasRow
  <2> SUFFICES ASSUME NEW o \in Needed', o \notin Whole(s) PROVE o \in Needed
    BY <2>1, <2>2
  <2>3. CASE intent # None /\ o \in Whole(intent.pre)
    BY <2>3, InNeeded
  <2>4. CASE ~(intent # None /\ o \in Whole(intent.pre))
    <3>1. PICK i \in Retained' : o \in Graph(log'[i], Bytes(retention, i)')
      BY <1>1, <2>4 DEF Needed, Graph, Whole, Bytes
    <3>2. i \in 1..n + 1
      BY <1>4 DEF Retained
    <3>3. i # n + 1
      <4>1. Graph(s, Bytes(retention, i)') \subseteq Whole(s)
        BY <1>1 DEF Graph, Whole, Bytes
      <4> QED BY <1>4, <3>1, <4>1
    <3>4. i \in Retained /\ i \in 1..n /\ log'[i] = log[i]
      BY <1>1, <1>4, <3>2, <3>3 DEF Retained, Retains
    <3>5. Bytes(retention, i)' \subseteq Bytes(retention, i)
      BY <1>1, <1>4, <3>4 DEF Bytes
    <3>6. o \in Graph(log[i], Bytes(retention, i))
      BY <3>1, <3>4, <3>5 DEF Graph
    <3> QED BY <3>4, <3>6, InNeeded
  <2> QED BY <2>3, <2>4
<1>13. StoreOK'
  <2>1. Opened
    BY <1>2, OpenedBy DEF PublishPlaces
  <2>2. CurrentOK'
    BY <1>1, <1>12 DEF StoreOK, CurrentOK, store
  <2>3. RowsOK'
    BY <1>1 DEF StoreOK, RowsOK, store
  <2>4. CacheOK'
    <3> HIDE DEF LogHas
    <3> QED BY <1>1, <1>9 DEF StoreOK, CacheOK, store, Backs, HasRow, InPack
  <2>5. OpenOK'
    BY <1>1, <1>12, <2>1 DEF StoreOK, OpenOK, store, Backs, HasRow
  <2> QED BY <2>2, <2>3, <2>4, <2>5 DEF StoreOK
<1>14. GcOK'
  BY <1>2, <1>6, GcNone DEF Locks, GcRunning, Moved, GcPlaces, PublishPlaces
<1> QED BY <1>7, <1>8, <1>10, <1>11, <1>13, <1>14

(* The snapshot a capture takes. *)
LEMMA TakenSnap ==
    ASSUME Typed, captures < MaxCaptures, NEW excluded
    PROVE  /\ Taken(excluded) \in Snap /\ Taken(excluded) # None
           /\ Taken(excluded).day = today /\ Taken(excluded).files \subseteq disk
<1>1. Taken(excluded) \in Snap
  BY GenerationBounds DEF Typed, Taken, Snap, Snapshots, MaxCaptures
<1> QED BY <1>1, TypedShapes DEF Shapes, Taken

(* Blobs and chunks of files are objects. *)
LEMMA Leaves ==
    ASSUME NEW f \in Files
    PROVE  Blob(f) \in Object /\ Chunk(f) \in Object
BY DEF Blob, Chunk, Object, Leaf

(* All a snapshot holds is in the pack in use and has a row once it is stored:
   what is not read again was stored before. *)
LEMMA StoredSnapshot ==
    ASSUME GInv, NEW p \in Procs, NEW s \in Snap, s.files \subseteq disk,
           Opened, currents = {current}, StoreSnapshot(p, s),
           UNCHANGED <<log, retention, intent, disk, today, scenario, collections>>
    PROVE  /\ packs' \in [Generation -> SUBSET Object]
           /\ catalog' \in Catalog /\ commits' \subseteq Catalog
           /\ stale' \subseteq Files
           /\ \A o : HasRow(catalog, o) => HasRow(catalog', o)
           /\ \A o \in Whole(s) : HasRow(catalog', o)
           /\ StoreOK'
<1> USE DEF GInv
<1> DEFINE g == current
           new == Stored(s)
<1>1. Shapes /\ s.files \subseteq Files
  BY TypedShapes DEF Shapes
<1>2. /\ packs' = [packs EXCEPT ![g] = @ \cup new]
      /\ catalog' = [rows |-> catalog.rows \cup {<<o, g>> : o \in new},
                     cache |-> catalog.cache \cup s.files]
      /\ commits' = commits \cup {catalog'}
      /\ stale' = stale \ s.files
      /\ UNCHANGED <<there, limbo, current, currents>>
  BY DEF StoreSnapshot, ActivePack, Commit
<1>3. new \subseteq Object
  <2>1. s \in Object
    BY DEF Object
  <2> QED BY <1>1, <2>1, Leaves DEF Stored
<1>4. g \in Generation
  BY DEF Typed
<1>5. /\ packs' \in [Generation -> SUBSET Object]
      /\ packs'[g] = packs[g] \cup new
      /\ \A h \in Generation : h # g => packs'[h] = packs[h]
      /\ \A h \in Generation : packs[h] \subseteq packs'[h]
  BY <1>2, <1>3, <1>4 DEF Typed
<1>6. /\ catalog'.rows = catalog.rows \cup {<<o, g>> : o \in new}
      /\ catalog'.cache = catalog.cache \cup s.files
  BY <1>2
<1>7. catalog' \in Catalog /\ commits' \subseteq Catalog
  <2>1. {<<o, g>> : o \in new} \subseteq Object \X Generation
    BY <1>3, <1>4
  <2>2. catalog.rows \subseteq Object \X Generation /\ catalog.cache \subseteq Files
    BY DEF Typed, Catalog
  <2>3. catalog' \in Catalog
    BY <1>1, <1>2, <2>1, <2>2 DEF Catalog
  <2> QED BY <1>2, <2>3 DEF Typed
<1>8. \A o : HasRow(catalog', o) <=> HasRow(catalog, o) \/ o \in new
  <2>1. \A o \in new : <<o, g>> \in catalog'.rows /\ <<o, g>>[1] = o
    BY <1>6
  <2>2. \A r \in catalog'.rows : r \in catalog.rows \/ \E o \in new : r[1] = o
    BY <1>6
  <2>3. \A r \in catalog.rows : r \in catalog'.rows
    BY <1>6
  <2> QED BY <2>1, <2>2, <2>3, Zenon DEF HasRow
<1>9. \A f \in s.files : HasRow(catalog', Blob(f)) /\ HasRow(catalog', Chunk(f))
  <2> SUFFICES ASSUME NEW f \in s.files
               PROVE  HasRow(catalog', Blob(f)) /\ HasRow(catalog', Chunk(f))
    OBVIOUS
  <2>1. CASE f \in stale \/ f \notin catalog.cache
    <3>1. (HasRow(catalog, Blob(f)) \/ Blob(f) \in new) /\ (HasRow(catalog, Chunk(f)) \/ Chunk(f) \in new)
      BY <2>1 DEF Stored
    <3> QED BY <1>8, <3>1
  <2>2. CASE f \notin stale /\ f \in catalog.cache
    <3>1. HasRow(catalog, Blob(f)) /\ HasRow(catalog, Chunk(f))
      BY <2>2 DEF StoreOK, OpenOK, Backs
    <3> QED BY <1>8, <3>1
  <2> QED BY <2>1, <2>2
<1>10. HasRow(catalog', s)
  <2>1. HasRow(catalog, s) \/ s \in new
    BY DEF Stored
  <2> QED BY <1>8, <2>1
<1>11. \A o \in Whole(s) : HasRow(catalog', o)
  BY <1>1, <1>9, <1>10, InWhole
<1>12. \A o : HasRow(catalog', o) => o \in packs'[g]
  <2>1. \A o : HasRow(catalog, o) => o \in packs[g]
    BY DEF StoreOK, RowsOK, HasRow
  <2> QED BY <1>5, <1>8, <2>1
<1>13. Needed' = Needed /\ (\A f : LogHas(f)' <=> LogHas(f))
  BY NeededSame DEF LogHas
<1>14. CurrentOK'
  <2>1. Needed \subseteq packs'[g] /\ g \in there /\ g \in 0..collections
    BY <1>4, <1>5 DEF StoreOK, CurrentOK
  <2> QED BY <1>2, <1>13, <2>1 DEF CurrentOK
<1>15. RowsOK'
  <2>1. ASSUME NEW c \in commits', NEW r \in c.rows
        PROVE  r[1] \in packs'[r[2]] /\ r[2] \in 0..collections'
    <3>1. CASE c \in commits
      <4>1. r[1] \in packs[r[2]] /\ r[2] \in 0..collections
        BY <2>1, <3>1 DEF StoreOK, RowsOK
      <4>2. r[2] \in Generation
        BY <4>1, <1>1 DEF Typed, Shapes
      <4> QED BY <4>1, <4>2, <1>5
    <3>2. CASE c = catalog' /\ r \in catalog.rows
      <4>1. r[1] \in packs[r[2]] /\ r[2] \in 0..collections
        BY <2>1, <3>2 DEF StoreOK, RowsOK
      <4>2. r[2] \in Generation
        BY <4>1, <1>1 DEF Typed, Shapes
      <4> QED BY <4>1, <4>2, <1>5
    <3>3. CASE c = catalog' /\ r \in {<<o, g>> : o \in new}
      BY <3>3, <1>5 DEF StoreOK, CurrentOK
    <3> QED BY <1>2, <1>6, <2>1, <3>1, <3>2, <3>3
  <2>2. ASSUME NEW r \in catalog'.rows PROVE r[2] \in there /\ r[1] \in packs'[g]
    <3>1. CASE r \in catalog.rows
      BY <3>1, <1>4, <1>5 DEF StoreOK, RowsOK
    <3>2. CASE r \in {<<o, g>> : o \in new}
      BY <3>2, <1>5 DEF StoreOK, CurrentOK
    <3> QED BY <1>6, <2>2, <3>1, <3>2
  <2> QED BY <1>2, <2>1, <2>2 DEF RowsOK
<1>16. \A f \in catalog'.cache : Backs(catalog', f) \/ f \in stale'
  <2> SUFFICES ASSUME NEW f \in catalog'.cache, f \notin s.files
               PROVE  Backs(catalog', f) \/ f \in stale'
    BY <1>9 DEF Backs
  <2>1. Backs(catalog, f) \/ f \in stale
    BY <1>6 DEF StoreOK, OpenOK
  <2> QED BY <1>2, <1>8, <2>1 DEF Backs
<1>17. CacheOK'
  <2>1. Files \ disk' \subseteq stale'
    BY <1>2 DEF StoreOK, CacheOK
  <2>2. ASSUME NEW c \in commits', NEW f \in c.cache
        PROVE  \/ Backs(c, f)
               \/ LogHas(f)' /\ (f \in stale' \/ (f \in catalog'.cache /\ InPack(f)'))
    <3>1. CASE c \in commits
      <4>1. \/ Backs(c, f)
            \/ LogHas(f) /\ (f \in stale \/ (f \in catalog.cache /\ InPack(f)))
        BY <2>2, <3>1 DEF StoreOK, CacheOK
      <4>2. CASE f \in s.files
        <5>1. f \in catalog'.cache /\ InPack(f)'
          BY <1>2, <1>6, <1>9, <1>12, <4>2 DEF InPack
        <5> QED BY <4>1, <5>1, <1>13
      <4>3. CASE f \notin s.files
        <5>1. InPack(f) => InPack(f)'
          BY <1>2, <1>4, <1>5 DEF InPack
        <5> QED BY <4>1, <4>3, <5>1, <1>2, <1>6, <1>13
      <4> QED BY <4>2, <4>3
    <3>2. CASE c = catalog'
      <4>1. CASE f \in s.files
        BY <4>1, <3>2, <1>9 DEF Backs
      <4>2. CASE f \notin s.files
        <5>1. f \in catalog.cache
          BY <4>2, <3>2, <2>2, <1>6
        <5>2. Backs(catalog, f) \/ (f \in stale /\ LogHas(f))
          BY <5>1 DEF StoreOK, CacheOK, RowsOK, OpenOK
        <5> QED BY <5>2, <4>2, <3>2, <1>2, <1>8, <1>13 DEF Backs
      <4> QED BY <4>1, <4>2
    <3> QED BY <2>2, <1>2, <3>1, <3>2
  <2> HIDE DEF LogHas, InPack
  <2> QED BY <2>1, <2>2 DEF CacheOK
<1>18. OpenOK'
  <2>1. \A o \in Needed : HasRow(catalog', o)
    BY <1>8 DEF StoreOK, OpenOK
  <2> QED BY <2>1, <1>13, <1>16 DEF OpenOK, HasRow, Backs
<1> QED BY <1>2, <1>5, <1>7, <1>8, <1>11, <1>14, <1>15, <1>17, <1>18 DEF StoreOK, Typed

(* A capture, a rewind's capture and its rescue differ in where they lead. *)
LEMMA CapturedStep ==
    ASSUME GInv, NEW p \in Procs, NEW excluded, NEW a \in PublishPlaces,
           "current" \notin races', ~GcRunning, captures < MaxCaptures,
           proc[p].at # "closed",
           a = "rescue" => proc[p].at \in Restoring,
           StoreSnapshot(p, Taken(excluded)),
           proc' = [proc EXCEPT ![p].at = a, ![p].snap = Taken(excluded)],
           UNCHANGED <<log, retention, intent, disk, today, scenario, collections, kills, losses>>
    PROVE  GInv'
<1> USE DEF GInv
<1> DEFINE s == Taken(excluded)
<1>1. Shapes /\ Opened /\ currents = {current}
  BY TypedShapes, OpenedBy DEF StoreSnapshot, When
<1>2. s \in Snap /\ s # None /\ s.day = today /\ s.files \subseteq disk
  BY TakenSnap
<1>3. Moved(p, a, s, proc[p].target, proc[p].marks)
  BY <1>2, MovedSnap, IdlePlaces
<1> HIDE DEF s
<1>4. /\ packs' \in [Generation -> SUBSET Object]
      /\ catalog' \in Catalog /\ commits' \subseteq Catalog
      /\ stale' \subseteq Files
      /\ \A o : HasRow(catalog, o) => HasRow(catalog', o)
      /\ \A o \in Whole(s) : HasRow(catalog', o)
      /\ StoreOK'
  BY <1>1, <1>2, StoredSnapshot DEF s
<1>5. /\ UNCHANGED <<there, limbo, current, log, disk, today, scenario, collections, intent>>
      /\ captures' = captures + 1
  BY DEF StoreSnapshot
<1>6. Typed'
  <2>1. captures' \in 0..MaxCaptures
    BY <1>1, <1>5 DEF Typed, Shapes
  <2> QED BY <1>3, <1>4, <1>5, <2>1, SameSets DEF Typed, Moved
<1>7. Locks'
  <2>1. proc'[p].at \notin GcPlaces
    BY <1>3 DEF Moved, GcPlaces, PublishPlaces
  <2> QED BY <1>3, <2>1, LocksCarry DEF Moved
<1>8. ProcsOK'
  <2>0. \A t : Logged(t) => Logged(t)'
    BY <1>5, LoggedSame
  <2>1. Underway(p)'
    <3>1. (\A o \in Whole(proc[p].snap) : HasRow(catalog, o))'
      BY <1>3, <1>4 DEF Moved, HasRow, Whole, Graph
    <3>2. Underway(p) /\ today \in Nat
      BY <1>1 DEF ProcsOK, Shapes
    <3> HIDE DEF Logged
    <3> QED BY <1>2, <1>3, <1>5, <2>0, <3>1, <3>2 DEF Moved, Underway, Restoring, PublishPlaces
  <2>2. ASSUME NEW q \in Procs, q # p PROVE Underway(q)'
    BY <1>3, <1>4, <1>5, <2>0, <2>2, UnderwaySame, TreeOK DEF ProcsOK, Moved
  <2> QED BY <2>1, <2>2 DEF ProcsOK
<1>9. LogOK'
  BY LogCarry
<1>10. GcOK'
  BY <1>3, GcNone DEF GcRunning, Moved, GcPlaces, PublishPlaces
<1> QED BY <1>4, <1>6, <1>7, <1>8, <1>9, <1>10

(* The three captures. *)
LEMMA CaptureStep ==
    ASSUME GInv, "current" \notin races', NEW p \in Procs, NEW x \in Exclusions,
           Capture(p, x) \/ RewindCapture(p, x) \/ RewindRescue(p, x)
    PROVE  GInv'
<1>1. CASE Capture(p, x)
  BY <1>1, CapturedStep DEF Capture, PublishPlaces
<1>2. CASE RewindCapture(p, x)
  BY <1>2, CapturedStep DEF RewindCapture, PublishPlaces
<1>3. CASE RewindRescue(p, x)
  BY <1>3, CapturedStep DEF RewindRescue, PublishPlaces, Restoring
<1> QED BY <1>1, <1>2, <1>3

(* Opening gives every object of the pack in use a row: what a power loss took
   from the catalog is found again. *)
LEMMA OpenStep ==
    ASSUME GInv, NEW p \in Procs, Open(p)
    PROVE  GInv'
<1> USE DEF GInv
<1> DEFINE g == current
           new == {x \in packs[g] : ~HasRow(catalog, x)}
<1>1. /\ UNCHANGED <<packs, there, limbo, current, currents, log, retention, intent,
                     disk, stale, today, scenario, captures, collections>>
      /\ ~GcRunning
  BY DEF Open, bounds, tree
<1>2. Shapes /\ g \in Generation /\ packs[g] \subseteq Object
  BY TypedShapes DEF Typed
<1>3. Moved(p, "idle", proc[p].snap, proc[p].target, proc[p].marks)
  BY IdlePlaces, MovedAt DEF Open
<1>4. /\ catalog' \in Catalog /\ commits' \subseteq Catalog /\ commits' = commits \cup {catalog'}
      /\ catalog'.rows = catalog.rows \cup {<<o, g>> : o \in new}
      /\ catalog'.cache = catalog.cache
  <2>1. catalog' = [catalog EXCEPT !.rows = @ \cup {<<o, g>> : o \in new}]
    BY DEF Open, Commit, Rescanned
  <2>2. {<<o, g>> : o \in new} \subseteq Object \X Generation
    BY <1>2
  <2>3. catalog \in Catalog
    BY DEF Typed
  <2> HIDE DEF new
  <2>4. /\ catalog' \in Catalog
        /\ catalog'.rows = catalog.rows \cup {<<o, g>> : o \in new}
        /\ catalog'.cache = catalog.cache
    BY <2>1, <2>2, <2>3 DEF Catalog
  <2>5. commits' = commits \cup {catalog'}
    BY DEF Open, Commit
  <2> QED BY <2>4, <2>5 DEF Typed
<1>5. \A o : HasRow(catalog', o) <=> HasRow(catalog, o) \/ o \in packs[g]
  <2>1. \A o \in new : <<o, g>> \in catalog'.rows /\ <<o, g>>[1] = o
    BY <1>4
  <2>2. \A r \in catalog'.rows : r \in catalog.rows \/ \E o \in new : r[1] = o
    BY <1>4
  <2>3. \A r \in catalog.rows : r \in catalog'.rows
    BY <1>4
  <2>4. \A o : o \in new <=> o \in packs[g] /\ ~HasRow(catalog, o)
    OBVIOUS
  <2> HIDE DEF new
  <2> QED BY <2>1, <2>2, <2>3, <2>4, Zenon DEF HasRow
<1>6. Needed' = Needed /\ (\A f : LogHas(f)' <=> LogHas(f))
  BY <1>1, NeededSame DEF LogHas
<1>7. Typed'
  BY <1>1, <1>3, <1>4, SameSets DEF Typed, Moved
<1>8. Locks'
  BY <1>3, LocksCarry, IdlePlaces DEF Moved
<1>9. ProcsOK'
  <2>0. \A t : Logged(t) => Logged(t)'
    BY <1>1, LoggedSame
  <2>1. Underway(p)'
    <3>1. Underway(p)
      BY DEF ProcsOK
    <3> HIDE DEF Logged
    <3> QED BY <1>1, <1>3, <2>0, <3>1 DEF Moved, Underway, Restoring, PublishPlaces
  <2>2. ASSUME NEW q \in Procs, q # p PROVE Underway(q)'
    BY <1>1, <1>3, <1>5, <2>0, <2>2, UnderwaySame, TreeOK DEF ProcsOK, Moved
  <2> QED BY <2>1, <2>2 DEF ProcsOK
<1>10. LogOK'
  BY <1>1, LogCarry
<1>11. CurrentOK'
  BY <1>1, <1>6 DEF StoreOK, CurrentOK
<1>12. RowsOK'
  <2>0. new \subseteq packs[g] /\ g \in there /\ g \in 0..collections
    BY DEF StoreOK, CurrentOK
  <2> HIDE DEF new
  <2>1. ASSUME NEW r \in catalog'.rows
        PROVE  r[2] \in there /\ r[1] \in packs[g] /\ r[1] \in packs[r[2]] /\ r[2] \in 0..collections
    <3>1. CASE r \in catalog.rows
      BY <3>1 DEF StoreOK, RowsOK
    <3>2. CASE r \in {<<o, g>> : o \in new}
      BY <3>2, <2>0
    <3> QED BY <1>4, <2>1, <3>1, <3>2
  <2> QED BY <1>1, <1>4, <2>1 DEF StoreOK, RowsOK
<1>13. \A f \in catalog'.cache : Backs(catalog', f) \/ (f \in stale /\ LogHas(f))
  <2> SUFFICES ASSUME NEW f \in catalog.cache
               PROVE  Backs(catalog', f) \/ (f \in stale /\ LogHas(f))
    BY <1>4
  <2>1. Backs(catalog, f) \/ (LogHas(f) /\ f \in stale) \/ InPack(f)
    BY DEF StoreOK, CacheOK, RowsOK
  <2> QED BY <1>5, <2>1 DEF Backs, InPack
<1>14. CacheOK'
  <2>1. Files \ disk' \subseteq stale' /\ \A f : InPack(f)' <=> InPack(f)
    BY <1>1 DEF StoreOK, CacheOK, InPack
  <2>2. ASSUME NEW c \in commits', NEW f \in c.cache
        PROVE  \/ Backs(c, f)
               \/ LogHas(f)' /\ (f \in stale' \/ (f \in catalog'.cache /\ InPack(f)'))
    <3>1. CASE c \in commits
      BY <2>1, <2>2, <3>1, <1>1, <1>4, <1>6 DEF StoreOK, CacheOK
    <3>2. CASE c = catalog'
      BY <2>2, <3>2, <1>1, <1>6, <1>13
    <3> QED BY <2>2, <1>4, <3>1, <3>2
  <2> HIDE DEF LogHas, InPack
  <2> QED BY <2>1, <2>2 DEF CacheOK
<1>15. OpenOK'
  <2>1. \A o \in Needed : HasRow(catalog', o)
    BY <1>5 DEF StoreOK, CurrentOK
  <2> QED BY <2>1, <1>1, <1>6, <1>13 DEF OpenOK, HasRow, Backs
<1>16. GcOK'
  BY <1>1, <1>3, GcNone, IdlePlaces DEF GcRunning, Moved
<1> QED BY <1>7, <1>8, <1>9, <1>10, <1>11, <1>12, <1>14, <1>15, <1>16 DEF StoreOK

-----------------------------------------------------------------------------
(* Collections *)

(* A blob is its file's, so only a snapshot with the file holds it. *)
LEMMA BlobOf ==
    ASSUME Typed, NEW s \in Snap, NEW bytes, NEW f, Blob(f) \in Graph(s, bytes)
    PROVE  f \in s.files
<1>1. s.kind = "snap"
  BY DEF Snap, Snapshots
<1>2. Blob(f) # s /\ \A h : Blob(f) # Chunk(h)
  BY <1>1 DEF Blob, Chunk
<1>3. PICK h \in s.files : Blob(f) = Blob(h)
  BY <1>2, InGraph
<1>4. {f} = {h}
  BY <1>3 DEF Blob
<1> QED BY <1>4

(* Nothing holds the bytes of a file without its blob. *)
LEMMA ChunkOf ==
    ASSUME NEW s \in Snap, NEW bytes, NEW f, Chunk(f) \in Graph(s, bytes)
    PROVE  Blob(f) \in Graph(s, bytes)
<1>1. s.kind = "snap"
  BY DEF Snap, Snapshots
<1>2. Chunk(f) # s /\ \A h : Chunk(f) # Blob(h)
  BY <1>1 DEF Blob, Chunk
<1>3. PICK h \in s.files : Chunk(f) = Chunk(h)
  BY <1>2, InGraph
<1>4. {f} = {h}
  BY <1>3 DEF Chunk
<1>5. f \in s.files
  BY <1>4
<1> QED BY <1>5, InGraph

(* A plan keeps what is of today, the head and the newest of the older. *)
LEMMA PlanKeeps ==
    ASSUME GInv, NEW r \in Plans
    PROVE  /\ r = [through |-> r.through, keep |-> r.keep, pins |-> r.pins]
           /\ r.through = Len(log) /\ r.pins = retention.pins
           /\ \A i \in 1..Len(log) : log[i].day = today \/ i = Len(log) \/ Newest(i) => i \in r.keep
<1> USE DEF GInv
<1> DEFINE all == 1..Len(log)
           recent == {i \in all : log[i].day = today}
           old == all \ recent
           newest == {i \in old : \A j \in old : j <= i}
           last == {i \in all : i = Len(log)}
<1>1. PICK k \in SUBSET old :
         r = [through |-> Len(log),
              keep |-> recent \cup (retention.pins \cap all) \cup newest \cup last \cup k,
              pins |-> retention.pins]
  BY DEF Plans
<1>2. /\ r.through = Len(log) /\ r.pins = retention.pins
      /\ r.keep = recent \cup (retention.pins \cap all) \cup newest \cup last \cup k
      /\ r = [through |-> r.through, keep |-> r.keep, pins |-> r.pins]
  BY <1>1
<1>6. \A i \in all : Newest(i) => i \in recent \/ i \in newest
  BY DEF Newest
<1> HIDE DEF recent, newest, old
<1>9. \A i \in all : log[i].day = today => i \in recent
  BY DEF recent
<1> QED BY <1>2, <1>6, <1>9

(* The members of the marks. *)
LEMMA InMarks ==
    ASSUME NEW r, NEW o
    PROVE  o \in Marks(r) <=>
              \/ \E i \in 1..Len(log) : Retains(r, i) /\ o \in Graph(log[i], Bytes(r, i))
              \/ intent # None /\ (o \in Whole(intent.pre) \/ o \in Whole(intent.target))
<1> DEFINE U == UNION {Graph(log[i], Bytes(r, i)) : i \in {j \in 1..Len(log) : Retains(r, j)}}
           V == UNION {Whole(s) : s \in IntentRoots}
<1>1. o \in U <=> \E i \in 1..Len(log) : Retains(r, i) /\ o \in Graph(log[i], Bytes(r, i))
  OBVIOUS
<1>2. o \in V <=> intent # None /\ (o \in Whole(intent.pre) \/ o \in Whole(intent.target))
  BY DEF IntentRoots
<1>3. Marks(r) = U \cup V
  BY DEF Marks
<1> HIDE DEF U, V
<1> QED BY <1>1, <1>2, <1>3

(* The plan retains no more than before, and the marks hold all it needs. *)
LEMMA GcMarkStep ==
    ASSUME GInv, races' \cap {"resurrect", "cached"} = {}, NEW p \in Procs, GcMark(p)
    PROVE  GInv'
<1> USE DEF GInv
<1>1. UNCHANGED <<scenario, store, log, intent, disk, stale, today, captures, collections>>
  BY DEF GcMark, bounds, tree
<1>2. /\ proc[p].at = "idle" /\ MaintenanceFree /\ collections < MaxCollections
      /\ Shapes
  BY TypedShapes DEF GcMark
<1>3. PICK r \in Plans :
        /\ retention' = r
        /\ r.keep \subseteq Retained /\ ~DropsCached(Marks(r))
        /\ \/ /\ \A o \in Marks(r) : Readable(o)
              /\ proc' = [proc EXCEPT ![p].at = "write", ![p].marks = Marks(r)]
           \/ proc' = proc
  BY DEF GcMark, When
<1>4. /\ r = [through |-> r.through, keep |-> r.keep, pins |-> r.pins]
      /\ r.through = Len(log) /\ r.pins = retention.pins
      /\ r.keep \subseteq Retained
      /\ \A i \in 1..Len(log) : log[i].day = today \/ i = Len(log) \/ Newest(i) => i \in r.keep
  BY <1>3, PlanKeeps
<1>5. \A i \in 1..Len(log) : Retains(r, i) => i \in Retained
  BY <1>2, <1>4 DEF Retained, Retains, Shapes
<1>6. \A i : Bytes(retention, i)' = Bytes(r, i) /\ Bytes(r, i) = Bytes(retention, i)
  BY <1>1, <1>3, <1>4 DEF Bytes
<1>7. \A o : o \in Needed' <=>
          \/ \E i \in 1..Len(log) : Retains(r, i) /\ o \in Graph(log[i], Bytes(r, i))
          \/ intent # None /\ o \in Whole(intent.pre)
  <2> DEFINE U == UNION {Graph(log[i], Bytes(r, i)) : i \in {j \in 1..Len(log) : Retains(r, j)}}
  <2>1. \A o : o \in U <=> \E i \in 1..Len(log) : Retains(r, i) /\ o \in Graph(log[i], Bytes(r, i))
    OBVIOUS
  <2>2. Needed' = U \cup (IF intent = None THEN {} ELSE Whole(intent.pre))
    BY <1>1, <1>3 DEF Needed, Retained, Retains, Graph, Whole, Bytes
  <2> HIDE DEF U
  <2> QED BY <2>1, <2>2
<1>8. Needed' \subseteq Needed
  BY <1>5, <1>6, <1>7, InNeeded
<1>9. LogOK'
  <2>1. \A i : Newest(i)' <=> Newest(i)
    BY <1>1 DEF Newest
  <2>2. \A i : i \in r.keep => Kept(i)'
    BY <1>3 DEF Kept
  <2>3. /\ \A i \in 1..Len(log) : log[i].day <= today
        /\ intent # None => Logged(intent.pre) /\ Logged(intent.target)
        /\ retention.pins \subseteq 1..Len(log)
    BY DEF LogOK
  <2>4. r.keep \subseteq 1..Len(log) /\ r.through \in 0..Len(log)
    BY <1>2, <1>4 DEF Retained, Shapes
  <2> HIDE DEF Kept, Newest
  <2> QED BY <1>1, <1>3, <1>4, <2>1, <2>2, <2>3, <2>4 DEF LogOK, Logged
<1>10. StoreOK'
  BY <1>1, <1>2, <1>8, StoreCarry, TreeOK, OpenedBy
<1>11. CASE proc' = proc
  <2>1. Typed' /\ Locks'
    BY <1>1, <1>11, TypedCarry, LocksSame DEF Typed
  <2>2. ProcsOK'
    <3> SUFFICES ASSUME NEW q \in Procs PROVE Underway(q)'
      BY DEF ProcsOK
    <3>1. \A o : HasRow(catalog, o) => HasRow(catalog', o)
      BY <1>1 DEF store
    <3> QED BY <1>1, <1>11, <3>1, UnderwaySame, LoggedSame, TreeOK DEF ProcsOK
  <2>3. GcOK'
    BY <1>2, <1>11, GcNone DEF MaintenanceFree, GcRunning
  <2> QED BY <1>9, <1>10, <2>1, <2>2, <2>3
<1>12. CASE /\ \A o \in Marks(r) : Readable(o)
            /\ proc' = [proc EXCEPT ![p].at = "write", ![p].marks = Marks(r)]
  <2> DEFINE m == Marks(r)
  <2>0. m \subseteq packs[current] /\ m \subseteq Object
    <3>1. m \subseteq packs[current]
      BY <1>12, ReadableStored DEF StoreOK
    <3>2. packs[current] \subseteq Object
      BY DEF Typed
    <3> QED BY <3>1, <3>2
  <2>1. Moved(p, "write", proc[p].snap, proc[p].target, m)
    <3>1. "write" \in Places
      BY DEF Places, GcPlaces
    <3> HIDE DEF m
    <3>2. proc' = [proc EXCEPT ![p].at = "write", ![p].marks = m]
      BY <1>12 DEF m
    <3> QED BY <2>0, <3>1, <3>2 DEF Moved, Typed, Process
  <2>2. Typed'
    BY <1>1, <2>1, TypedCarry DEF Typed, Moved
  <2>3. Locks'
    <3>1. "write" \notin PublishPlaces
      BY DEF PublishPlaces
    <3> QED BY <1>2, <2>1, <3>1, LocksCarry DEF Moved
  <2>4. ProcsOK'
    <3>0. \A t : Logged(t) => Logged(t)'
      BY <1>1, LoggedSame
    <3>1. Underway(p)'
      <4>1. Underway(p)
        BY DEF ProcsOK
      <4> HIDE DEF Logged
      <4> QED BY <1>1, <2>1, <3>0, <4>1 DEF Moved, Underway, Restoring, PublishPlaces
    <3>2. ASSUME NEW q \in Procs, q # p PROVE Underway(q)'
      <4>1. \A o : HasRow(catalog, o) => HasRow(catalog', o)
        BY <1>1 DEF store
      <4> QED BY <1>1, <2>1, <3>0, <3>2, <4>1, UnderwaySame, TreeOK DEF ProcsOK, Moved
    <3> QED BY <3>1, <3>2 DEF ProcsOK
  <2>5. Needed' \subseteq m
    BY <1>7, InMarks
  <2>6. \A f \in Files : Blob(f) \in m => LogHas(f)
    <3> SUFFICES ASSUME NEW f \in Files, Blob(f) \in m PROVE LogHas(f)
      OBVIOUS
    <3>1. CASE \E i \in 1..Len(log) : Blob(f) \in Graph(log[i], Bytes(r, i))
      BY <1>2, <3>1, BlobOf DEF LogHas, Shapes
    <3>2. CASE intent # None /\ (Blob(f) \in Whole(intent.pre) \/ Blob(f) \in Whole(intent.target))
      <4>1. PICK i \in 1..Len(log) : Blob(f) \in Whole(log[i])
        BY <3>2 DEF LogOK, Logged
      <4> QED BY <1>2, <4>1, BlobOf DEF LogHas, Shapes, Whole
    <3> QED BY <3>1, <3>2, InMarks
  <2>7. \A f \in catalog.cache \ stale : LogHas(f) => Blob(f) \in m /\ Chunk(f) \in m
    <3> SUFFICES ASSUME NEW f \in catalog.cache \ stale, LogHas(f)
                 PROVE  Blob(f) \in m /\ Chunk(f) \in m
      OBVIOUS
    <3>1. f \in disk
      BY <1>2, TreeOK DEF Shapes
    <3>2. PICK i \in 1..Len(log) : f \in log[i].files
      BY DEF LogHas
    <3>3. Chunk(f) \in m
      BY <1>3, <3>1, <3>2 DEF DropsCached
    <3>4. Blob(f) \in m
      <4>1. (\A j \in 1..Len(log) : log[j] \in Snap)
            /\ (intent # None => intent.pre \in Snap /\ intent.target \in Snap)
        BY <1>2, NoneIsApart DEF Typed, Intent, Shapes
      <4> QED BY <3>3, <4>1, ChunkOf, InMarks DEF Whole
    <3> QED BY <3>3, <3>4
  <2>8. Collecting(p)'
    <3>1. \A f : LogHas(f)' <=> LogHas(f)
      BY <1>1 DEF LogHas
    <3> HIDE DEF m, LogHas
    <3> QED BY <1>1, <1>2, <2>0, <2>1, <2>5, <2>6, <2>7, <3>1 DEF Collecting, Moved, store, MaxCollections
  <2>9. GcOK'
    BY <1>2, <2>1, <2>8 DEF GcOK, Moved, MaintenanceFree, GcRunning
  <2> QED BY <1>9, <1>10, <2>2, <2>3, <2>4, <2>9
<1> QED BY <1>3, <1>11, <1>12

(* A step of the one collection: nothing is being published, and what the other
   processes hold does not depend on the catalog. *)
LEMMA GcStep ==
    ASSUME GInv, NEW p \in Procs, proc[p].at \in GcPlaces, NEW a \in GcPlaces \cup {"idle"},
           NEW m, Moved(p, a, proc[p].snap, proc[p].target, m),
           UNCHANGED <<log, retention, intent, today>>
    PROVE  /\ Locks' /\ ProcsOK' /\ LogOK'
           /\ \A q \in Procs : q # p => proc'[q].at \notin GcPlaces
           /\ Opened /\ Needed' = Needed /\ Collecting(p) /\ Shapes
           /\ \A f : LogHas(f)' <=> LogHas(f)
<1> USE DEF GInv
<1>1. Locks'
  <2>1. a \notin PublishPlaces
    BY DEF PublishPlaces, GcPlaces
  <2> QED BY <2>1, LocksCarry DEF Moved
<1>2. ProcsOK'
  <2>0. \A t : Logged(t) => Logged(t)'
    BY LoggedSame
  <2>1. Underway(p)'
    <3>1. Underway(p)
      BY DEF ProcsOK
    <3>2. a \notin PublishPlaces /\ a \notin Restoring /\ a \notin {"planned", "armed", "publish"}
      BY DEF PublishPlaces, GcPlaces, Restoring
    <3> HIDE DEF Logged
    <3> QED BY <2>0, <3>1, <3>2 DEF Moved, Underway
  <2>2. ASSUME NEW q \in Procs, q # p PROVE Underway(q)'
    <3>1. proc[q].at \notin PublishPlaces
      BY <2>2 DEF Locks
    <3> QED BY <2>0, <2>2, <3>1, UnderwaySame, TreeOK DEF ProcsOK, Moved
  <2> QED BY <2>1, <2>2 DEF ProcsOK
<1>3. LogOK'
  BY LogCarry
<1>4. \A q \in Procs : q # p => proc'[q].at \notin GcPlaces
  BY DEF Locks, Moved
<1>5. Opened
  BY OpenedBy DEF GcPlaces
<1>6. Needed' = Needed /\ \A f : LogHas(f)' <=> LogHas(f)
  BY NeededSame DEF LogHas
<1>7. Collecting(p) /\ Shapes
  BY TypedShapes DEF GcOK
<1> QED BY <1>1, <1>2, <1>3, <1>4, <1>5, <1>6, <1>7

(* No catalog and no CURRENT names the new pack yet. *)
LEMMA GcWriteStep ==
    ASSUME GInv, NEW p \in Procs, GcWrite(p)
    PROVE  GInv'
<1> USE DEF GInv
<1> DEFINE n == collections + 1
           m == proc[p].marks
<1>1. /\ UNCHANGED <<limbo, current, currents, catalog, commits, log, retention, intent, disk,
                     stale, today, scenario, captures>>
      /\ collections' = n /\ there' = there \cup {n}
      /\ packs' = [packs EXCEPT ![n] = m]
      /\ proc[p].at = "write"
  BY DEF GcWrite, tree
<1>2. Moved(p, "swap", proc[p].snap, proc[p].target, m)
  BY IdlePlaces, MovedAt DEF GcWrite, GcPlaces
<1>3. proc[p].at \in GcPlaces /\ "swap" \in GcPlaces
  BY <1>1 DEF GcPlaces
<1>4. /\ Locks' /\ ProcsOK' /\ LogOK'
      /\ \A q \in Procs : q # p => proc'[q].at \notin GcPlaces
      /\ Opened /\ Needed' = Needed /\ Collecting(p) /\ Shapes
      /\ \A f : LogHas(f)' <=> LogHas(f)
  BY <1>1, <1>2, <1>3, GcStep
<1>5. n \in Generation /\ n \in Nat /\ n \notin 0..collections /\ m \subseteq Object
  BY <1>1, <1>4 DEF Collecting, Shapes
<1>6. /\ packs' \in [Generation -> SUBSET Object] /\ packs'[n] = m
      /\ \A g \in 0..collections : g \in Generation /\ packs'[g] = packs[g]
      /\ 0..collections \subseteq 0..n
  BY <1>1, <1>4, <1>5 DEF Typed, Shapes
<1>7. Typed'
  <2>1. collections' \in 0..MaxCollections /\ there' \subseteq Generation
    BY <1>1, <1>4, <1>5 DEF Typed, Shapes
  <2> QED BY <1>1, <1>2, <1>6, <2>1, SameSets DEF Typed, Moved
<1>8. current \in 0..collections
  BY DEF StoreOK, CurrentOK
<1>9. CurrentOK'
  BY <1>1, <1>4, <1>6, <1>8 DEF StoreOK, CurrentOK
<1>10. RowsOK'
  BY <1>1, <1>6, <1>8 DEF StoreOK, RowsOK
<1>11. CacheOK'
  <2>1. \A f : InPack(f)' <=> InPack(f)
    BY <1>1, <1>6, <1>8 DEF InPack
  <2> HIDE DEF InPack, LogHas
  <2> QED BY <1>1, <1>4, <2>1 DEF StoreOK, CacheOK, Backs, HasRow
<1>12. OpenOK'
  BY <1>1, <1>4 DEF StoreOK, OpenOK, Backs, HasRow
<1>13. Collecting(p)'
  <2> HIDE DEF LogHas
  <2> QED BY <1>1, <1>2, <1>4, <1>6, <1>8 DEF Collecting, Moved
<1>14. GcOK'
  BY <1>4, <1>13 DEF GcOK
<1> QED BY <1>4, <1>7, <1>9, <1>10, <1>11, <1>12, <1>14 DEF StoreOK

(* The catalog names the new pack only. *)
LEMMA GcSwapStep ==
    ASSUME GInv, NEW p \in Procs, GcSwap(p)
    PROVE  GInv'
<1> USE DEF GInv
<1> DEFINE n == collections
           m == proc[p].marks
<1>1. /\ UNCHANGED <<packs, there, limbo, current, currents, log, retention, intent, disk,
                     stale, today, scenario, captures, collections>>
      /\ catalog' = [rows |-> {<<o, n>> : o \in m},
                     cache |-> {f \in catalog.cache : Blob(f) \in m}]
      /\ commits' = commits \cup {catalog'}
      /\ proc[p].at = "swap"
  BY DEF GcSwap, tree, bounds, Commit, Swapped, Fresh
<1>2. Moved(p, "rename", proc[p].snap, proc[p].target, m)
  BY IdlePlaces, MovedAt DEF GcSwap, GcPlaces
<1>3. proc[p].at \in GcPlaces /\ "rename" \in GcPlaces
  BY <1>1 DEF GcPlaces
<1>4. /\ Locks' /\ ProcsOK' /\ LogOK'
      /\ \A q \in Procs : q # p => proc'[q].at \notin GcPlaces
      /\ Opened /\ Needed' = Needed /\ Collecting(p) /\ Shapes
      /\ \A f : LogHas(f)' <=> LogHas(f)
  BY <1>1, <1>2, <1>3, GcStep
<1>5. /\ n \in Generation /\ n \in there /\ n \in 0..collections /\ packs[n] = m
      /\ m \subseteq Object /\ m \subseteq packs[current] /\ Needed \subseteq m
  BY <1>1, <1>4 DEF Collecting, Shapes, Typed
<1>6. /\ catalog'.rows = {<<o, n>> : o \in m}
      /\ catalog'.cache = {f \in catalog.cache : Blob(f) \in m}
  BY <1>1
<1>7. catalog' \in Catalog
  <2>1. {<<o, n>> : o \in m} \subseteq Object \X Generation
    BY <1>5
  <2>2. {f \in catalog.cache : Blob(f) \in m} \subseteq Files
    BY <1>4 DEF Shapes
  <2> QED BY <1>1, <2>1, <2>2 DEF Catalog
<1> HIDE DEF m
<1>8. \A o : HasRow(catalog', o) <=> o \in m
  <2>1. \A o \in m : <<o, n>> \in catalog'.rows /\ <<o, n>>[1] = o
    BY <1>6
  <2>2. \A r \in catalog'.rows : \E o \in m : r[1] = o
    BY <1>6
  <2> QED BY <2>1, <2>2, Zenon DEF HasRow
<1>9. Typed'
  BY <1>1, <1>2, <1>7, SameSets DEF Typed, Moved
<1>10. CurrentOK'
  BY <1>1, <1>4 DEF StoreOK, CurrentOK
<1>11. \A r \in catalog'.rows : r[2] = n /\ r[1] \in m
  BY <1>6
<1>12. RowsOK'
  <2>1. ASSUME NEW c \in commits', NEW r \in c.rows
        PROVE  r[1] \in packs[r[2]] /\ r[2] \in 0..collections
    <3>1. CASE c \in commits
      BY <2>1, <3>1 DEF StoreOK, RowsOK
    <3>2. CASE c = catalog'
      BY <2>1, <3>2, <1>5, <1>11
    <3> QED BY <1>1, <2>1, <3>1, <3>2
  <2>2. \A r \in catalog'.rows : r[2] \in there /\ r[1] \in packs[current]
    BY <1>5, <1>11
  <2> QED BY <1>1, <2>1, <2>2 DEF RowsOK
(* A file that need not be read again keeps its bytes. *)
<1>13. \A f \in catalog.cache \ stale : LogHas(f) => Blob(f) \in m /\ Chunk(f) \in m
  <2> SUFFICES ASSUME NEW f \in catalog.cache \ stale, LogHas(f)
               PROVE  Blob(f) \in m /\ Chunk(f) \in m
    OBVIOUS
  <2>1. f \in Files
    BY <1>4 DEF Shapes
  <2> QED BY <1>1, <1>4, <2>1 DEF Collecting, m
<1>14. \A f \in catalog'.cache : Backs(catalog', f) \/ (f \in stale /\ LogHas(f))
  <2> SUFFICES ASSUME NEW f \in catalog.cache, Blob(f) \in m
               PROVE  Backs(catalog', f) \/ (f \in stale /\ LogHas(f))
    BY <1>6
  <2>1. f \in Files /\ LogHas(f)
    BY <1>4 DEF Collecting, Shapes, m
  <2> QED BY <2>1, <1>8, <1>13 DEF Backs
<1>15. CacheOK'
  <2>1. Files \ disk' \subseteq stale' /\ \A f : InPack(f)' <=> InPack(f)
    BY <1>1 DEF StoreOK, CacheOK, InPack
  <2>2. ASSUME NEW c \in commits', NEW f \in c.cache
        PROVE  \/ Backs(c, f)
               \/ LogHas(f)' /\ (f \in stale' \/ (f \in catalog'.cache /\ InPack(f)'))
    <3>1. CASE c \in commits
      <4>1. \/ Backs(c, f)
            \/ LogHas(f) /\ (f \in stale \/ (f \in catalog.cache /\ InPack(f)))
        BY <2>2, <3>1 DEF StoreOK, CacheOK
      <4>2. f \in catalog.cache /\ f \notin stale /\ LogHas(f) => f \in catalog'.cache
        BY <1>6, <1>13
      <4> QED BY <2>1, <4>1, <4>2, <1>1, <1>4
    <3>2. CASE c = catalog'
      BY <2>2, <3>2, <1>1, <1>4, <1>14
    <3> QED BY <2>2, <1>1, <3>1, <3>2
  <2> HIDE DEF LogHas, InPack
  <2> QED BY <2>1, <2>2 DEF CacheOK
<1>16. OpenOK'
  <2>1. \A o \in Needed : HasRow(catalog', o)
    BY <1>5, <1>8
  <2> QED BY <2>1, <1>1, <1>4, <1>14 DEF OpenOK, HasRow, Backs
<1>17. Collecting(p)'
  <2>1. proc'[p].marks = m /\ proc'[p].at = "rename"
    BY <1>2 DEF Moved
  <2>2. \A f \in Files : Blob(f) \in m => LogHas(f)
    BY <1>4 DEF Collecting, m
  <2> HIDE DEF LogHas
  <2> QED BY <1>1, <1>4, <1>5, <1>11, <2>1, <2>2 DEF Collecting
<1>18. GcOK'
  BY <1>4, <1>17 DEF GcOK
<1> QED BY <1>4, <1>9, <1>10, <1>12, <1>15, <1>16, <1>18 DEF StoreOK

(* From here CURRENT names the new pack, or the one before after a power loss:
   the new one has all that is needed, and no more than the old one. *)
LEMMA GcRenameStep ==
    ASSUME GInv, NEW p \in Procs, GcRename(p)
    PROVE  GInv'
<1> USE DEF GInv
<1> DEFINE n == collections
           m == proc[p].marks
<1>1. /\ UNCHANGED <<packs, there, limbo, catalog, commits, log, retention, intent, disk,
                     stale, today, scenario, captures, collections>>
      /\ current' = n /\ currents' = currents \cup {n}
      /\ proc[p].at = "rename"
  BY DEF GcRename, tree, bounds, Fresh
<1>2. Moved(p, "syncDir", proc[p].snap, proc[p].target, m)
  BY IdlePlaces, MovedAt DEF GcRename, GcPlaces
<1>3. proc[p].at \in GcPlaces /\ "syncDir" \in GcPlaces
  BY <1>1 DEF GcPlaces
<1>4. /\ Locks' /\ ProcsOK' /\ LogOK'
      /\ \A q \in Procs : q # p => proc'[q].at \notin GcPlaces
      /\ Opened /\ Needed' = Needed /\ Collecting(p) /\ Shapes
      /\ \A f : LogHas(f)' <=> LogHas(f)
  BY <1>1, <1>2, <1>3, GcStep
<1>5. /\ n \in Generation /\ n \in there /\ n \in 0..collections /\ packs[n] = m
      /\ m \subseteq packs[current] /\ Needed \subseteq m
      /\ \A r \in catalog.rows : r[2] = n /\ r[1] \in m
  BY <1>1, <1>4 DEF Collecting, Shapes, Typed
<1>6. Typed'
  BY <1>1, <1>2, <1>5, SameSets DEF Typed, Moved
<1>7. CurrentOK'
  <2>1. \A g \in currents : m \subseteq packs[g]
    BY <1>5 DEF StoreOK, CurrentOK
  <2> QED BY <1>1, <1>4, <1>5, <2>1 DEF StoreOK, CurrentOK
<1>8. RowsOK'
  BY <1>1, <1>5 DEF StoreOK, RowsOK
<1>9. CacheOK'
  <2>1. ASSUME NEW f \in catalog.cache, f \notin stale PROVE InPack(f)'
    <3>1. HasRow(catalog, Blob(f)) /\ HasRow(catalog, Chunk(f))
      BY <1>4, <2>1 DEF StoreOK, OpenOK, Backs
    <3>2. Blob(f) \in m /\ Chunk(f) \in m
      BY <3>1, <1>5 DEF HasRow
    <3> QED BY <1>1, <1>5, <3>2 DEF InPack
  <2> HIDE DEF InPack, LogHas
  <2> QED BY <1>1, <1>4, <2>1 DEF StoreOK, CacheOK, Backs, HasRow
<1>10. OpenOK'
  BY <1>1, <1>4 DEF StoreOK, OpenOK, Backs, HasRow
<1>11. Collecting(p)'
  <2> HIDE DEF LogHas
  <2> QED BY <1>1, <1>2, <1>4, <1>5 DEF Collecting, Moved
<1>12. GcOK'
  BY <1>4, <1>11 DEF GcOK
<1> QED BY <1>4, <1>6, <1>7, <1>8, <1>9, <1>10, <1>12 DEF StoreOK

(* The rename is flushed. *)
LEMMA GcSyncDirStep ==
    ASSUME GInv, NEW p \in Procs, GcSyncDir(p)
    PROVE  GInv'
<1> USE DEF GInv
<1>1. /\ UNCHANGED <<packs, there, current, catalog, commits, log, retention, intent, disk,
                     stale, today, scenario, captures, collections>>
      /\ currents' = {current} /\ limbo' = {}
      /\ proc[p].at = "syncDir"
  BY DEF GcSyncDir, tree, bounds
<1>2. Moved(p, "remove", proc[p].snap, proc[p].target, proc[p].marks)
  BY IdlePlaces, MovedAt DEF GcSyncDir, GcPlaces
<1>3. proc[p].at \in GcPlaces /\ "remove" \in GcPlaces
  BY <1>1 DEF GcPlaces
<1>4. /\ Locks' /\ ProcsOK' /\ LogOK'
      /\ \A q \in Procs : q # p => proc'[q].at \notin GcPlaces
      /\ Opened /\ Needed' = Needed /\ Collecting(p) /\ Shapes
      /\ \A f : LogHas(f)' <=> LogHas(f)
  BY <1>1, <1>2, <1>3, GcStep
<1>5. Typed'
  BY <1>1, <1>2, SameSets DEF Typed, Moved
<1>6. CurrentOK' /\ RowsOK'
  BY <1>1, <1>4 DEF StoreOK, CurrentOK, RowsOK
<1>7. CacheOK'
  <2> HIDE DEF LogHas
  <2> QED BY <1>1, <1>4 DEF StoreOK, CacheOK, Backs, HasRow, InPack
<1>8. OpenOK'
  BY <1>1, <1>4 DEF StoreOK, OpenOK, Backs, HasRow
<1>9. Collecting(p)'
  <2> HIDE DEF LogHas
  <2> QED BY <1>1, <1>2, <1>4 DEF Collecting, Moved
<1>10. GcOK'
  BY <1>4, <1>9 DEF GcOK
<1> QED BY <1>4, <1>5, <1>6, <1>7, <1>8, <1>10 DEF StoreOK

(* Nothing names a pack that is removed. *)
LEMMA GcRemoveStep ==
    ASSUME GInv, NEW p \in Procs, NEW g, GcRemove(p, g)
    PROVE  GInv'
<1> USE DEF GInv
<1>1. /\ UNCHANGED <<packs, current, currents, catalog, commits, log, retention, intent, disk,
                     stale, today, scenario, captures, collections, proc>>
      /\ there' = there \ {g} /\ g # collections
      /\ g \in there /\ limbo' = limbo \cup {g}
      /\ proc[p].at = "remove"
  BY DEF GcRemove, tree, bounds, Fresh
<1>2. Moved(p, "remove", proc[p].snap, proc[p].target, proc[p].marks)
  BY <1>1 DEF Moved, Typed
<1>3. proc[p].at \in GcPlaces /\ "remove" \in GcPlaces
  BY <1>1 DEF GcPlaces
<1>4. /\ Locks' /\ ProcsOK' /\ LogOK'
      /\ \A q \in Procs : q # p => proc'[q].at \notin GcPlaces
      /\ Opened /\ Needed' = Needed /\ Collecting(p) /\ Shapes
      /\ \A f : LogHas(f)' <=> LogHas(f)
  BY <1>1, <1>2, <1>3, GcStep
<1>5. /\ current = collections /\ currents = {current} /\ collections \in there
      /\ \A r \in catalog.rows : r[2] = collections
  BY <1>1, <1>4 DEF Collecting
<1>6. Typed'
  BY <1>1, SameSets DEF Typed
<1>7. CurrentOK' /\ RowsOK'
  BY <1>1, <1>4, <1>5 DEF StoreOK, CurrentOK, RowsOK
<1>8. CacheOK'
  <2> HIDE DEF LogHas
  <2> QED BY <1>1, <1>4 DEF StoreOK, CacheOK, Backs, HasRow, InPack
<1>9. OpenOK'
  BY <1>1, <1>4 DEF StoreOK, OpenOK, Backs, HasRow
<1>10. Collecting(p)'
  <2> HIDE DEF LogHas
  <2> QED BY <1>1, <1>4, <1>5 DEF Collecting
<1>11. GcOK'
  BY <1>4, <1>10 DEF GcOK
<1> QED BY <1>4, <1>6, <1>7, <1>8, <1>9, <1>11 DEF StoreOK

(* The collection lets go of the lock. *)
LEMMA GcFinishStep ==
    ASSUME GInv, NEW p \in Procs, GcFinish(p)
    PROVE  GInv'
<1> USE DEF GInv
<1>1. /\ UNCHANGED <<packs, there, current, currents, catalog, commits, log, retention, intent,
                     disk, stale, today, scenario, captures, collections>>
      /\ proc[p].at = "remove" /\ limbo' = {}
      /\ proc' = [proc EXCEPT ![p].at = "idle", ![p].marks = {}]
  BY DEF GcFinish, tree, bounds
<1>2. Moved(p, "idle", proc[p].snap, proc[p].target, {})
  BY <1>1, IdlePlaces DEF Moved, Typed, Process
<1>3. proc[p].at \in GcPlaces
  BY <1>1 DEF GcPlaces
<1>4. /\ Locks' /\ ProcsOK' /\ LogOK'
      /\ \A q \in Procs : q # p => proc'[q].at \notin GcPlaces
      /\ Opened /\ Needed' = Needed
      /\ \A f : LogHas(f)' <=> LogHas(f)
  BY <1>1, <1>2, <1>3, GcStep
<1>5. Typed'
  BY <1>1, <1>2, SameSets DEF Typed, Moved
<1>6. CurrentOK' /\ RowsOK'
  BY <1>1, <1>4 DEF StoreOK, CurrentOK, RowsOK
<1>7. CacheOK'
  <2> HIDE DEF LogHas
  <2> QED BY <1>1, <1>4 DEF StoreOK, CacheOK, Backs, HasRow, InPack
<1>8. OpenOK'
  BY <1>1, <1>4 DEF StoreOK, OpenOK, Backs, HasRow
<1>9. GcOK'
  BY <1>2, <1>4, IdlePlaces DEF GcOK, Moved
<1> QED BY <1>4, <1>5, <1>6, <1>7, <1>8, <1>9 DEF StoreOK

-----------------------------------------------------------------------------
(* Faults *)

(* A group commit flushes a rename a killed collection left. *)
LEMMA SyncPacksStep ==
    ASSUME GInv, NEW p \in Procs, SyncPacks(p)
    PROVE  GInv'
<1> USE DEF GInv
<1>1. /\ UNCHANGED <<packs, there, current, catalog, commits, log, retention, intent, disk,
                     stale, proc, today, scenario, captures, collections>>
      /\ currents' = {current} /\ limbo' = {} /\ ~GcRunning
  BY DEF SyncPacks, tree, bounds
<1>2. Needed' = Needed /\ \A f : LogHas(f)' <=> LogHas(f)
  BY <1>1, NeededSame DEF LogHas
<1>3. Typed' /\ Locks' /\ LogOK'
  BY <1>1, SameSets, LocksSame, LogCarry DEF Typed
<1>4. ProcsOK'
  <2> SUFFICES ASSUME NEW q \in Procs PROVE Underway(q)'
    BY DEF ProcsOK
  <2> QED BY <1>1, UnderwaySame, LoggedSame, TreeOK DEF ProcsOK
<1>5. CurrentOK' /\ RowsOK'
  BY <1>1, <1>2 DEF StoreOK, CurrentOK, RowsOK
<1>6. CacheOK'
  <2> HIDE DEF LogHas
  <2> QED BY <1>1, <1>2 DEF StoreOK, CacheOK, Backs, HasRow, InPack
<1>7. OpenOK'
  BY <1>1, <1>2 DEF StoreOK, OpenOK, Backs, HasRow, Opened
<1>8. GcOK'
  BY <1>1, GcNone DEF GcRunning
<1> QED BY <1>3, <1>4, <1>5, <1>6, <1>7, <1>8 DEF StoreOK

(* What is left is an older catalog and an older CURRENT, and the pack the one
   names holds all that the other lacks. *)
LEMMA PowerLossStep ==
    ASSUME GInv, "swap" \notin races', PowerLoss
    PROVE  GInv'
<1> USE DEF GInv
<1>1. /\ UNCHANGED <<packs, log, retention, intent, disk, stale, today, scenario, captures,
                     collections>>
      /\ current' \in currents /\ currents' = {current'}
      /\ there \subseteq there' /\ there' \subseteq there \cup limbo
      /\ catalog' \in commits /\ commits' = {catalog'}
      /\ \A r \in catalog'.rows : r[1] \in packs[current'] /\ r[2] \in there'
      /\ proc' = [p \in Procs |-> ClosedProcess]
  BY DEF PowerLoss, tree, When
<1>2. \A p \in Procs : /\ proc'[p].at = "closed" /\ proc'[p].target = None
                       /\ proc'[p].snap = None
  BY <1>1 DEF ClosedProcess
<1>3. proc' \in [Procs -> Process]
  <2>1. ClosedProcess \in Process
    BY IdlePlaces DEF ClosedProcess, Process
  <2> QED BY <1>1, <2>1
<1>4. limbo \subseteq Generation
  BY DEF Typed
<1>5. current' \in Generation /\ there' \subseteq Generation /\ limbo' = {}
  BY <1>1, <1>4 DEF PowerLoss, StoreOK, CurrentOK, Typed
<1>6. Typed'
  BY <1>1, <1>3, <1>5, SameSets DEF Typed
<1>7. Locks' /\ GcOK' /\ ~Opened'
  BY <1>2 DEF Locks, GcOK, Opened, GcPlaces
<1>8. ProcsOK'
  BY <1>2 DEF ProcsOK, Underway, Restoring, PublishPlaces
<1>9. LogOK'
  BY <1>1, LogCarry
<1>10. Needed' = Needed /\ \A f : LogHas(f)' <=> LogHas(f)
  BY <1>1, NeededSame DEF LogHas
<1>11. packs[current] \subseteq packs[current']
  BY <1>1 DEF StoreOK, CurrentOK
<1>12. CurrentOK'
  BY <1>1, <1>10, <1>11 DEF StoreOK, CurrentOK
<1>13. RowsOK'
  BY <1>1 DEF StoreOK, RowsOK
<1>14. CacheOK'
  <2>1. \A f : InPack(f) => InPack(f)'
    BY <1>1, <1>11 DEF InPack
  <2>2. ASSUME NEW f \in catalog'.cache
        PROVE  Backs(catalog', f) \/ (LogHas(f)' /\ (f \in stale' \/ InPack(f)'))
    <3>1. \/ Backs(catalog', f)
          \/ LogHas(f) /\ (f \in stale \/ InPack(f))
      BY <1>1, <2>2 DEF StoreOK, CacheOK
    <3> QED BY <1>1, <1>10, <2>1, <3>1
  <2> HIDE DEF LogHas, InPack
  <2> QED BY <1>1, <2>2 DEF StoreOK, CacheOK
<1>15. OpenOK'
  BY <1>7 DEF OpenOK
<1> QED BY <1>6, <1>7, <1>8, <1>9, <1>12, <1>13, <1>14, <1>15 DEF StoreOK

-----------------------------------------------------------------------------
(* The theorems *)

(* The invariant holds at first. *)
LEMMA GInvInit == Init => GInv
<1> HAVE Init
<1>1. /\ scenario \in Scenarios /\ packs = [g \in Generation |-> {}]
      /\ there = {0} /\ limbo = {} /\ current = 0 /\ currents = {0}
      /\ catalog.rows = {} /\ catalog.cache = {} /\ commits = {catalog}
      /\ log = << >> /\ Len(log) = 0 /\ intent = None /\ disk = Files /\ stale = {}
      /\ retention = [through |-> 0, keep |-> {}, pins |-> {}]
      /\ today = 0 /\ captures = 0 /\ collections = 0
      /\ \A p \in Procs : proc[p].at = "closed" /\ proc[p].target = None
  BY DEF Init, ClosedProcess
<1>2. 0 \in Generation /\ 0 \in 0..scenario.days /\ 0 \in 0..MaxCaptures /\ 0 \in 0..MaxCollections
  BY <1>1, GenerationBounds DEF Generation, MaxCollections, MaxCaptures
<1>3. Typed
  <2>1. catalog \in Catalog
    BY DEF Init, Catalog
  <2>2. proc \in [Procs -> Process]
    <3>1. ClosedProcess \in Process
      BY IdlePlaces DEF ClosedProcess, Process
    <3> QED BY <3>1 DEF Init
  <2>3. packs \in [Generation -> SUBSET Object]
    BY <1>1
  <2>4. log \in Seq(Snap)
    BY <1>1
  <2> QED BY <1>1, <1>2, <2>1, <2>2, <2>3, <2>4 DEF Typed
<1>4. Locks /\ GcOK /\ ~Opened
  BY <1>1 DEF Locks, GcOK, Opened, GcPlaces
<1>5. ProcsOK
  BY <1>1 DEF ProcsOK, Underway, Restoring, PublishPlaces
<1>6. LogOK
  BY <1>1 DEF LogOK
<1>7. Needed = {}
  <2>1. Retained = {}
    BY <1>1 DEF Retained
  <2> QED BY <1>1, <2>1, InNeeded
<1>8. StoreOK
  BY <1>1, <1>2, <1>4, <1>7 DEF StoreOK, CurrentOK, RowsOK, CacheOK, OpenOK
<1> QED BY <1>3, <1>4, <1>5, <1>6, <1>8 DEF GInv

(* Every step keeps it. *)
LEMMA GInvStep ==
    ASSUME GInv, races' = {}, [Next]_vars
    PROVE  GInv'
<1>1. CASE UNCHANGED vars
  <2>1. UNCHANGED <<scenario, store, log, retention, intent, disk, stale, proc, today, captures,
                    collections>>
    BY <1>1 DEF vars, store
  <2>2. Needed' = Needed /\ Opened' = Opened
    BY <2>1, NeededSame DEF Opened
  <2>3. Typed' /\ Locks' /\ LogOK'
    BY <2>1, TypedCarry, LocksSame, LogCarry DEF GInv, Typed
  <2>4. ProcsOK'
    <3> SUFFICES ASSUME NEW q \in Procs PROVE Underway(q)'
      BY DEF ProcsOK
    <3>1. \A o : HasRow(catalog, o) => HasRow(catalog', o)
      BY <2>1 DEF store
    <3> QED BY <2>1, <3>1, UnderwaySame, LoggedSame, TreeOK DEF GInv, ProcsOK
  <2>5. StoreOK' /\ GcOK'
    BY <2>1, <2>2, TreeOK, StoreCarry, GcCarry DEF GInv
  <2> QED BY <2>3, <2>4, <2>5 DEF GInv
<1>2. ASSUME NEW p \in Procs, Collect(p) PROVE GInv'
  BY <1>2, GcMarkStep, GcWriteStep, GcSwapStep, GcRenameStep, GcSyncDirStep, GcRemoveStep,
     GcFinishStep DEF Collect
<1>3. ASSUME NEW p \in Procs, Rewind(p) PROVE GInv'
  BY <1>3, RewindPlanStep, CaptureStep, RewindIntentStep, RewindCancelStep, RewindApplyStep,
     RewindNoRescueStep, RecoverRewindStep DEF Rewind
<1> QED BY <1>1, <1>2, <1>3, OpenStep, PublishStep, KillStep, SyncPacksStep, CaptureStep, PinStep,
           EditStep, TickStep, PowerLossStep DEF Next

(* What has a row can be read. *)
LEMMA RowReadable ==
    ASSUME GInv, NEW o, HasRow(catalog, o)
    PROVE  Readable(o)
BY DEF GInv, StoreOK, RowsOK, HasRow, Readable

(* A race that has happened stays in the history. *)
LEMMA RacesStay ==
    ASSUME [Next]_vars
    PROVE  races \subseteq races'
<1>1. CASE UNCHANGED vars
  BY <1>1 DEF vars
<1>2. ASSUME NEW p \in Procs, Collect(p) PROVE races \subseteq races'
  BY <1>2 DEF Collect, GcMark, GcWrite, GcSwap, GcRename, GcSyncDir, GcRemove, GcFinish
<1>3. ASSUME NEW p \in Procs, Rewind(p) PROVE races \subseteq races'
  BY <1>3 DEF Rewind, RewindPlan, RewindCapture, RewindRescue, RewindIntent, RewindCancel,
     RewindApply, RewindNoRescue, RewindRollback, RecoverRewind, StoreSnapshot
<1>4. ASSUME NEW p \in Procs,
             \/ Open(p) \/ Publish(p) \/ Kill(p) \/ SyncPacks(p)
             \/ \E x \in Exclusions : Capture(p, x)
             \/ \E i \in 1..Len(log) : Pin(p, i) \/ Unpin(p, i)
      PROVE  races \subseteq races'
  BY <1>4 DEF Open, Publish, Kill, SyncPacks, Capture, StoreSnapshot, Pin, Unpin
<1>5. CASE (\E f \in Files : Edit(f)) \/ Tick \/ PowerLoss
  BY <1>5 DEF Edit, Tick, PowerLoss
<1> QED BY <1>1, <1>2, <1>3, <1>4, <1>5 DEF Next

(* Until a race happens it is an invariant of the specification. *)
GenerationHolds == Unraced => GInv

LEMMA GInvHolds == Spec => []GenerationHolds
<1>1. Init => GenerationHolds
  BY GInvInit DEF GenerationHolds
<1>2. GenerationHolds /\ [Next]_vars => GenerationHolds'
  BY GInvStep, RacesStay DEF GenerationHolds, Unraced
<1> QED BY <1>1, <1>2, PTL DEF Spec

(* Rebuildable: until one of the five races happens, whatever CURRENT a power loss
   leaves, the pack it names is there and holds all that is needed, so the catalog
   can be rebuilt from it between any two steps of a collection. *)
THEOREM CatalogRebuildable == Spec => []Rebuildable
<1>1. GInv => PacksHoldAll
  BY DEF GInv, StoreOK, CurrentOK, PacksHoldAll
<1>2. GenerationHolds => Rebuildable
  BY <1>1 DEF GenerationHolds, Rebuildable
<1> QED BY <1>2, GInvHolds, PTL

(* RetainedReadable: whatever collections, kills and power losses come, a part of
   a retained snapshot that its age entitles to becomes unreadable only after one
   of the five races. *)
THEOREM RetainedStaysReadable == Spec => []RetainedReadable
<1>1. GInv => AllReadable
  BY InNeeded, RowReadable DEF GInv, StoreOK, OpenOK, AllReadable
<1>2. GenerationHolds => RetainedReadable
  BY <1>1 DEF GenerationHolds, RetainedReadable
<1> QED BY <1>2, GInvHolds, PTL

(* HeadAndPinsExact: the head and the pinned snapshots lose a byte only after one
   of the five races. *)
THEOREM HeadAndPinsStayExact == Spec => []HeadAndPinsExact
<1>1. ASSUME GInv, Opened, NEW i \in 1..Len(log), i = Len(log) \/ i \in retention.pins
      PROVE  Exact(log[i])
  <2>1. Whole(log[i]) \subseteq Needed
    BY <1>1, WholeNeeded DEF GInv
  <2> QED BY <1>1, <2>1, RowReadable DEF GInv, StoreOK, OpenOK, Exact
<1>2. GInv => HeadPinsHold
  BY <1>1 DEF HeadPinsHold
<1>3. GenerationHolds => HeadAndPinsExact
  BY <1>2 DEF GenerationHolds, HeadAndPinsExact
<1> QED BY <1>3, GInvHolds, PTL

(* IntentRestorable: a rewind that was interrupted can be undone byte for byte,
   whatever was collected since, until one of the five races happens. *)
THEOREM IntentStaysRestorable == Spec => []IntentRestorable
<1>1. GInv => PreHolds
  BY IntentNeeded, RowReadable DEF GInv, StoreOK, OpenOK, Exact, PreHolds
<1>2. GenerationHolds => IntentRestorable
  BY <1>1 DEF GenerationHolds, IntentRestorable
<1> QED BY <1>2, GInvHolds, PTL
=============================================================================
