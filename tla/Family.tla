------------------------------- MODULE Family -------------------------------
(***************************************************************************)
(* A family of workspaces on one machine: how a fork of a workspace is     *)
(* built, verified, registered and removed while people edit, and how the  *)
(* coordination files that siblings share are written, removed, propagated *)
(* and reconciled, with commands that are killed at any step.              *)
(*                                                                         *)
(* A workspace is where its directory is: `Source`, or a destination of a  *)
(* fork.  A working tree maps its paths to contents.  A coordination tree  *)
(* maps its keys to 0 (absent), the number of the write that made the file *)
(* or -1 (a directory).                                                    *)
(***************************************************************************)
EXTENDS Integers, Sequences, SequencesExt, FiniteSets, Functions

CONSTANTS Forks,     \* the destinations, positive numbers
          Names,     \* the names of forks
          Paths,     \* the files of a working tree
          Contents,  \* what a file may hold
          Keys,      \* the coordination files: sequences of names
          Scenarios, \* the forks there are at first (`members`), and the bounds: `forks`
                     \* begun, `edits`, coordination `ops`, `removals` and deletions,
                     \* `faults` (killed commands and files that cannot be written)
          MaxCoordFiles,
          None

Source == 0
Workspaces == {Source} \cup Forks
Trees == [Paths -> Contents]
Records == [dest : Forks, base : Nat, head : Nat \cup {None}, id : Nat]
Removals == [step : {"directory", "record"}, dest : Forks, id : Nat]

ASSUME ForksAssumption == Forks \subseteq Nat \ {0}
ASSUME ScenariosAssumption ==
    Scenarios \subseteq [members : SUBSET Forks, forks : Nat, edits : Nat, ops : Nat,
                         removals : Nat, faults : Nat]
ASSUME ContentsAssumption == Contents # {}
ASSUME KeysAssumption == IsFiniteSet(Keys) /\ MaxCoordFiles \in Nat
ASSUME NoneAssumption ==
    None \notin Trees \cup Records \cup Removals \cup Workspaces \cup {"own", "family"}

VARIABLES scenario,
          live,       \* the working tree of each workspace, None without a directory
          home,       \* its identity files: None, a family of its "own", or the "family"
          mark,       \* its fork-id file
          snaps,      \* the snapshots sealed so far, by id: their trees
          held,       \* those that are still in the store
          rows,       \* the timelines: which workspace refers to which snapshot
          head,       \* the newest snapshot of each workspace
          records,    \* forks/<name>.json
          build,      \* the fork command working on each destination
          removing,   \* the remove command working on each name
          authority,  \* families/<id>/coord/files
          tombstones, \* families/<id>/coord/tombstones
          copy,       \* .furrow/coord of each workspace
          lock,       \* who holds coord.lock
          ops,        \* the coordination command of each workspace
          acked,      \* the last write or removal of each key that was acknowledged
          cleared,    \* the last removal of each key that was begun
          loose,      \* history: bases that the timeline of the source does not hold
          reused,     \* history: destinations that were forked to while a record named them
          edited,     \* history: the files edited in each fork since it was put there
          races,      \* history: what happened of Race
          spent       \* the bounds' counters

trees == <<live, home, mark>>
store == <<snaps, held, rows, head>>
forkery == <<records, build, removing>>
shared == <<authority, tombstones, copy, lock, ops, acked, cleared>>
history == <<loose, reused, edited, races>>
vars == <<scenario, live, home, mark, snaps, held, rows, head, records, build, removing,
          authority, tombstones, copy, lock, ops, acked, cleared, loose, reused, edited, races,
          spent>>

\* What the coordination files do not stand: a key above or below another that
\* was written or removed, and more files than are ever read.
Race == {"nested", "full"}
When(race, happens) == IF happens THEN {race} ELSE {}

Idle == [step |-> "idle"]
Nowhere == [k \in Keys |-> 0]
Spend(what) == spent[what] < scenario[what] /\ spent' = [spent EXCEPT ![what] = @ + 1]

Init ==
    /\ scenario \in Scenarios
    /\ LET first == CHOOSE tree \in Trees : TRUE
           members == {Source} \cup scenario.members
           name == CHOOSE f \in Injection(scenario.members, Names) : TRUE IN
       /\ live = [w \in Workspaces |-> IF w \in members THEN first ELSE None]
       /\ home = [w \in Workspaces |-> IF w \in members THEN "family" ELSE None]
       /\ mark = [w \in Workspaces |-> IF w \in scenario.members THEN w ELSE None]
       /\ snaps = <<first>> /\ held = {1} /\ rows = {<<w, 1>> : w \in members}
       /\ head = [w \in Workspaces |-> IF w \in members THEN 1 ELSE None]
       /\ records = [n \in Names |->
              IF \E d \in scenario.members : name[d] = n
              THEN LET d == CHOOSE x \in scenario.members : name[x] = n IN
                   [dest |-> d, base |-> 1, head |-> 1, id |-> d]
              ELSE None]
    /\ build = [d \in Forks |-> Idle] /\ removing = [n \in Names |-> None]
    /\ authority = Nowhere /\ tombstones = {} /\ copy = [w \in Workspaces |-> Nowhere]
    /\ lock = None /\ ops = [w \in Workspaces |-> Idle]
    /\ acked = Nowhere /\ cleared = Nowhere
    /\ loose = {} /\ reused = {} /\ edited = [d \in Forks |-> {}] /\ races = {}
    /\ spent = [forks |-> 0, edits |-> 0, ops |-> 0, removals |-> 0, faults |-> 0]

(***************************************************************************)
(* The people, the agents and the store.                                   *)
(***************************************************************************)
Edit(w, p, content) ==
    /\ live[w] # None /\ live[w][p] # content /\ Spend("edits")
    /\ live' = [live EXCEPT ![w][p] = content]
    /\ edited' = [d \in Forks |-> IF d = w THEN edited[d] \cup {p} ELSE edited[d]]
    /\ UNCHANGED <<scenario, loose, reused, races, home, mark, store, forkery, shared>>

\* A snapshot of a tree, in the timeline of a workspace.
Published(w, tree) ==
    /\ snaps' = Append(snaps, tree)
    /\ held' = held \cup {Len(snaps) + 1}
    /\ rows' = rows \cup {<<w, Len(snaps) + 1>>}
    /\ head' = [head EXCEPT ![w] = Len(snaps) + 1]

\* Mutant: a timeline is only its head.
RetainedHeads(kept) == {row[2] : row \in {r \in kept : r[1] \in Workspaces => head[r[1]] = r[2]}}

\* What a timeline refers to.
Retained(kept) == {row[2] : row \in kept}

\* Whether a fork that is registered or being built starts from a snapshot.
IsBase(id) ==
    \/ \E n \in Names : records[n] # None /\ records[n].base = id
    \/ \E d \in Forks : build[d].step # "idle" /\ build[d].base = id

\* Retention takes old rows out of the timelines, also those of bases, and what
\* none refers to is collected.
Collect ==
    /\ \E gone \in {{}} \cup {{row} : row \in {r \in rows : r[1] \in Workspaces /\ r[2] # head[r[1]]}} :
           /\ rows' = rows \ gone
           /\ loose' = loose \cup {row[2] : row \in {r \in gone : r[1] = Source /\ IsBase(r[2])}}
    /\ held' = Retained(rows') /\ held' # held
    /\ UNCHANGED <<scenario, reused, edited, races, trees, snaps, head, forkery, shared, spent>>

(***************************************************************************)
(* furrow fork.                                                            *)
(***************************************************************************)
\* There must be nothing at the destination; a record may still name it, and a
\* name may be used again.
Begin(d, name, base, at) ==
    /\ build[d].step = "idle" /\ live[d] = None /\ Spend("forks")
    /\ reused' = reused \cup (IF \E n \in Names : records[n] # None /\ records[n].dest = d
                             THEN {d} ELSE {})
    /\ build' = [build EXCEPT ![d] =
           [step |-> IF at THEN "compare" ELSE "copy", name |-> name, base |-> base, at |-> at,
            same |-> {}, staged |-> [p \in {} |-> 0], atomic |-> FALSE, head |-> None,
            id |-> 10 + spent.forks]]
    /\ UNCHANGED <<scenario, edited, races, trees, records, removing, shared>>

\* prepare_fork seals the workspace; prepare_fork_at takes any snapshot that
\* is complete, also one that only another fork's timeline holds.
Prepare(d, name) ==
    Published(Source, live[Source]) /\ Begin(d, name, Len(snaps) + 1, FALSE) /\ UNCHANGED loose

PrepareAt(d, name) == \E id \in held :
    /\ loose' = loose \cup (IF <<Source, id>> \in rows THEN {} ELSE {id})
    /\ Begin(d, name, id, TRUE) /\ UNCHANGED store

\* What of the live tree is still as it was in the snapshot.
Compare(d) ==
    /\ build[d].step = "compare" /\ build[d].base \in held
    /\ build' = [build EXCEPT ![d].step = "copy",
                     ![d].same = {p \in Paths : live[Source][p] = snaps[build[d].base][p]}]
    /\ UNCHANGED <<scenario, history, trees, store, records, removing, shared, spent>>

\* What a file is copied from: the live tree, or the store where that differed
\* from the snapshot.
CopyOf(b, p) == IF b.at /\ p \notin b.same THEN snaps[b.base][p] ELSE live[Source][p]

\* One file into the staging directory.
CopyFile(d, p) ==
    LET b == build[d] IN
    /\ b.step = "copy" /\ p \notin DOMAIN b.staged
    /\ b.at /\ p \notin b.same => b.base \in held
    /\ build' = [build EXCEPT ![d].staged = [q \in DOMAIN @ \cup {p} |->
           IF q # p THEN @[q] ELSE CopyOf(b, p)]]
    /\ UNCHANGED <<scenario, history, trees, store, records, removing, shared, spent>>

\* macOS clones the hierarchy at once.
CloneHierarchy(d) ==
    /\ build[d].step = "copy" /\ ~build[d].at /\ DOMAIN build[d].staged = {}
    /\ build' = [build EXCEPT ![d].staged = live[Source], ![d].atomic = TRUE]
    /\ UNCHANGED <<scenario, history, trees, store, records, removing, shared, spent>>

\* The staging directory becomes the destination, without a .furrow.
Rename(d) ==
    /\ build[d].step = "copy" /\ DOMAIN build[d].staged = Paths /\ live[d] = None
    /\ live' = [live EXCEPT ![d] = build[d].staged]
    /\ build' = [build EXCEPT ![d].step = IF build[d].atomic THEN "verify" ELSE "capture"]
    /\ edited' = [edited EXCEPT ![d] = {}]
    /\ UNCHANGED <<scenario, loose, reused, races, home, mark, store, records, removing, shared, spent>>

\* capture_fork attaches the destination as a workspace of its own and seals it.
CaptureFork(d) ==
    /\ build[d].step = "capture" /\ Published(d, live[d])
    /\ home' = [home EXCEPT ![d] = "own"]
    /\ build' = [build EXCEPT ![d].step = "verify", ![d].head = Len(snaps) + 1]
    /\ UNCHANGED <<scenario, history, live, mark, records, removing, shared, spent>>

\* Mutant: the copy is compared with the source rather than with the base.
SnapshotsMatchSource(b) == b.base \in held /\ snaps[b.head] = live[Source]

\* snapshots_match_fork.
SnapshotsMatch(b) == b.base \in held /\ snaps[b.head] = snaps[b.base]

\* verify_atomic_fork: the path index is still of the base, and neither the
\* copy nor the source's files changed since.
AtomicMatch(d, b) ==
    /\ b.base \in held /\ snaps[head[Source]] = snaps[b.base]
    /\ live[d] = snaps[b.base] /\ live[Source] = snaps[b.base]

\* A copy that does not match is left where it is.
Verify(d) ==
    LET b == build[d] IN
    /\ b.step = "verify"
    /\ IF IF b.atomic THEN AtomicMatch(d, b) ELSE SnapshotsMatch(b)
       THEN build' = [build EXCEPT ![d].step = "adopt", ![d].head = IF b.atomic THEN b.base ELSE @]
       ELSE build' = [build EXCEPT ![d] = Idle]
    /\ UNCHANGED <<scenario, history, trees, store, records, removing, shared, spent>>

\* attach_existing_snapshot: the cloned hierarchy starts at the base itself.
AttachClone(d) ==
    /\ build[d].step = "adopt" /\ build[d].atomic /\ home[d] = None
    /\ home' = [home EXCEPT ![d] = "own"]
    /\ rows' = rows \cup {<<d, build[d].base>>} /\ head' = [head EXCEPT ![d] = build[d].base]
    /\ UNCHANGED <<scenario, history, live, mark, snaps, held, forkery, shared, spent>>

\* finalize_fork.
AdoptFamily(d) ==
    /\ build[d].step = "adopt" /\ home[d] = "own"
    /\ home' = [home EXCEPT ![d] = "family"] /\ mark' = [mark EXCEPT ![d] = build[d].id]
    /\ build' = [build EXCEPT ![d].step = "record"]
    /\ UNCHANGED <<scenario, history, live, store, records, removing, shared, spent>>

Record(d) ==
    LET b == build[d] IN
    /\ b.step = "record"
    /\ records' = [records EXCEPT ![b.name] =
                      [dest |-> d, base |-> b.base, head |-> b.head, id |-> b.id]]
    /\ build' = [build EXCEPT ![d] = Idle]
    /\ UNCHANGED <<scenario, history, trees, store, removing, shared, spent>>

\* The command is killed, or stops with an error.
AbandonFork(d) ==
    /\ build[d].step # "idle" /\ build' = [build EXCEPT ![d] = Idle] /\ Spend("faults")
    /\ UNCHANGED <<scenario, history, trees, store, records, removing, shared>>

(***************************************************************************)
(* furrow forks remove.                                                    *)
(***************************************************************************)
\* Whoever works in a directory that goes away goes with it.
Gone(d) ==
    /\ ops' = [ops EXCEPT ![d] = Idle]
    /\ lock' = IF lock = d THEN None ELSE lock
    /\ UNCHANGED <<authority, tombstones, acked, cleared>>

\* store.purge_workspace: the base of another fork that was made of a snapshot
\* of this one goes with the timeline.
Forget(n) ==
    LET d == records[n].dest IN
    /\ records[n] # None /\ removing[n] = None /\ live[d] # None /\ home[d] # None
    /\ build[d].step = "idle" /\ Spend("removals")
    /\ home' = [home EXCEPT ![d] = None] /\ Gone(d) /\ UNCHANGED <<live, mark, copy>>
    /\ rows' = {row \in rows : row[1] # d} /\ head' = [head EXCEPT ![d] = None]
    /\ removing' = [removing EXCEPT ![n] = [step |-> "directory", dest |-> d, id |-> records[n].id]]
    /\ UNCHANGED <<scenario, history, snaps, held, records, build>>

\* remove_dir_all.
Vanish(d) ==
    /\ live' = [live EXCEPT ![d] = None] /\ mark' = [mark EXCEPT ![d] = None]
    /\ copy' = [copy EXCEPT ![d] = Nowhere]

\* Mutant: the record is read again.
DestinationRead(n) == IF records[n] = None THEN removing[n].dest ELSE records[n].dest

\* Where the record that was read at first says the fork is.
Destination(n) == removing[n].dest

RemoveDirectory(n) ==
    /\ removing[n] # None /\ removing[n].step = "directory"
    /\ Vanish(Destination(n)) /\ UNCHANGED <<home, snaps, held, rows, head>>
    /\ removing' = [removing EXCEPT ![n].step = "record"]
    /\ UNCHANGED <<scenario, history, records, build, authority, tombstones, lock, ops, acked, cleared, spent>>

\* The end of a removal, or all of one that keeps the files or finds none.
RemoveRecord(n) ==
    /\ records[n] # None
    /\ IF removing[n] = None THEN Spend("removals") ELSE removing[n].step = "record" /\ UNCHANGED spent
    /\ records' = [records EXCEPT ![n] = None] /\ removing' = [removing EXCEPT ![n] = None]
    /\ UNCHANGED <<scenario, history, trees, store, build, shared>>

AbandonRemoval(n) ==
    /\ removing[n] # None /\ removing' = [removing EXCEPT ![n] = None] /\ Spend("faults")
    /\ UNCHANGED <<scenario, history, trees, store, records, build, shared>>

\* The person deletes the directory of a fork; the store keeps its timeline.
Delete(d) ==
    /\ live[d] # None /\ build[d].step = "idle" /\ Spend("removals")
    /\ \A n \in Names : removing[n] # None => removing[n].dest # d
    /\ Vanish(d) /\ Gone(d) /\ home' = [home EXCEPT ![d] = None]
    /\ rows' = {<<IF row[1] = d THEN -d ELSE row[1], row[2]>> : row \in rows}
    /\ head' = [head EXCEPT ![d] = None]
    /\ UNCHANGED <<scenario, history, snaps, held, forkery>>

(***************************************************************************)
(* Coordination files.                                                     *)
(***************************************************************************)
\* ensure_safe_parent: every parent is a directory, made when there is none.
SafeParent(tree, k) == \A q \in Keys : IsStrictPrefix(q, k) => tree[q] <= 0
WithParents(tree, k) == [q \in Keys |-> IF IsStrictPrefix(q, k) THEN -1 ELSE tree[q]]

\* write_safe, when it can: no directory is in its place.
Writable(tree, k) == SafeParent(tree, k) /\ tree[k] # -1
Written(tree, k, value) == [WithParents(tree, k) EXCEPT ![k] = value]

\* Mutant: removing what is not there is an error.
RemovableStrict(tree, k) == SafeParent(tree, k) /\ tree[k] > 0

\* remove_leaf of what there is, refused for a directory.
Removable(tree, k) == SafeParent(tree, k) /\ tree[k] # -1
Removed(tree, k) == [WithParents(tree, k) EXCEPT ![k] = 0]

Member(w) == live[w] # None /\ home[w] = "family"
Attached == {w \in Workspaces : home[w] # None}

Start(w) == lock = None /\ lock' = w /\ ops[w].step = "idle" /\ Member(w)

\* validate_relative takes any key, also one above or below another.
Nested(k) == \E q \in Keys : /\ q \in tombstones \/ authority[q] > 0
                             /\ IsStrictPrefix(q, k) \/ IsStrictPrefix(k, q)

\* collect_files, and the number of files it refuses to go beyond.
Files(tree) == {k \in Keys : tree[k] > 0}
TooMany(tree) == Cardinality(Files(tree)) > MaxCoordFiles

WriteAuthority(w, k) ==
    /\ Start(w) /\ Spend("ops") /\ Writable(authority, k)
    /\ authority' = Written(authority, k, spent.ops + 1)
    /\ races' = races \cup When("nested", Nested(k)) \cup When("full", TooMany(authority'))
    /\ ops' = [ops EXCEPT ![w] = [step |-> "tombstone", key |-> k, value |-> spent.ops + 1,
                                  number |-> spent.ops + 1, todo |-> Attached]]
    /\ UNCHANGED <<scenario, loose, reused, edited, trees, store, forkery, tombstones, copy, acked,
                   cleared>>

ClearTombstone(w) ==
    /\ ops[w].step = "tombstone"
    /\ tombstones' = tombstones \ {ops[w].key}
    /\ ops' = [ops EXCEPT ![w].step = "propagate"]
    /\ UNCHANGED <<scenario, history, trees, store, forkery, authority, copy, lock, acked, cleared, spent>>

\* The tombstone comes before the look at what it is of.
WriteTombstone(w, k) ==
    /\ Start(w) /\ Spend("ops") /\ tombstones' = tombstones \cup {k}
    /\ races' = races \cup When("nested", Nested(k))
    /\ cleared' = [cleared EXCEPT ![k] = spent.ops + 1]
    /\ ops' = [ops EXCEPT ![w] = [step |-> "remove", key |-> k, value |-> 0,
                                  number |-> spent.ops + 1, todo |-> Attached]]
    /\ UNCHANGED <<scenario, loose, reused, edited, trees, store, forkery, authority, copy, acked>>

\* A directory in the place of the file ends the command with an error.
RemoveAuthority(w) ==
    LET k == ops[w].key IN
    /\ ops[w].step = "remove"
    /\ IF authority[k] = -1
       THEN ops' = [ops EXCEPT ![w] = Idle] /\ lock' = None /\ UNCHANGED authority
       ELSE /\ authority' = [authority EXCEPT ![k] = 0]
            /\ ops' = [ops EXCEPT ![w].step = "propagate"] /\ UNCHANGED lock
    /\ UNCHANGED <<scenario, history, trees, store, forkery, tombstones, copy, acked, cleared, spent>>

\* Whether write_safe or remove_leaf can be done in a tree.
Possible(op, tree) == IF op.value > 0 THEN Writable(tree, op.key) ELSE Removable(tree, op.key)

\* The next workspace of the family; one that cannot be written is reported.
Propagate(w, u) ==
    LET op == ops[w] IN
    /\ op.step = "propagate" /\ u \in op.todo
    /\ ops' = [ops EXCEPT ![w].todo = @ \ {u}]
    /\ \/ /\ Member(u) /\ Possible(op, copy[u])
          /\ copy' = [copy EXCEPT ![u] = IF op.value > 0 THEN Written(@, op.key, op.value)
                                         ELSE Removed(@, op.key)]
          /\ UNCHANGED spent
       \/ /\ Member(u) /\ UNCHANGED copy
          /\ IF Possible(op, copy[u]) THEN Spend("faults") ELSE UNCHANGED spent
       \/ ~Member(u) /\ UNCHANGED <<copy, spent>>
    /\ UNCHANGED <<scenario, history, trees, store, forkery, authority, tombstones, lock, acked, cleared>>

\* The command checks its own copy, and its snapshot is sealed.
Acknowledge(w) ==
    LET op == ops[w] IN
    /\ op.step = "propagate" /\ op.todo = {}
    /\ acked' = IF copy[w][op.key] = op.value THEN [acked EXCEPT ![op.key] = op.number] ELSE acked
    /\ ops' = [ops EXCEPT ![w] = Idle] /\ lock' = None
    /\ UNCHANGED <<scenario, history, trees, store, forkery, authority, tombstones, copy, cleared, spent>>

\* Mutant: a command reads its copy as it finds it.
OpenWorkspaceAsIs(w) ==
    /\ spent.ops > 0 /\ Start(w) /\ ops' = [ops EXCEPT ![w] = [step |-> "read", since |-> acked]]
    /\ UNCHANGED <<scenario, history, trees, store, forkery, authority, tombstones, copy, acked, cleared, spent>>

\* Every command that opens the workspace, and every read, reconciles its copy
\* with the family, once that has coordination files: first the tombstones,
OpenWorkspace(w) ==
    /\ spent.ops > 0 /\ Start(w)
    /\ ops' = [ops EXCEPT ![w] = [step |-> "tombstones", since |-> acked, todo |-> tombstones]]
    /\ UNCHANGED <<scenario, history, trees, store, forkery, authority, tombstones, copy, acked, cleared, spent>>

ApplyTombstone(w, k) ==
    /\ ops[w].step = "tombstones" /\ k \in ops[w].todo
    /\ IF Removable(copy[w], k)
       THEN /\ copy' = [copy EXCEPT ![w] = Removed(@, k)]
            /\ ops' = [ops EXCEPT ![w].todo = @ \ {k}] /\ UNCHANGED lock
       ELSE ops' = [ops EXCEPT ![w] = [step |-> "refused"]] /\ lock' = None /\ UNCHANGED copy
    /\ UNCHANGED <<scenario, history, trees, store, forkery, authority, tombstones, acked, cleared, spent>>

\* A tree with some files of the family in their places.
WithFiles(tree, files) == [k \in Keys |->
    IF k \in files THEN authority[k]
    ELSE IF \E f \in files : IsStrictPrefix(k, f) THEN -1 ELSE tree[k]]

\* then the files, until one of them cannot be written.
CopyFiles(w) ==
    LET files == Files(authority) IN
    /\ ops[w].step = "tombstones" /\ ops[w].todo = {} /\ lock' = None
    /\ IF ~TooMany(authority) /\ \A k \in files : Writable(copy[w], k)
       THEN /\ copy' = [copy EXCEPT ![w] = WithFiles(@, files)]
            /\ ops' = [ops EXCEPT ![w] = [step |-> "read", since |-> @.since]]
       ELSE /\ \E done \in IF TooMany(authority) THEN {{}}
                          ELSE SUBSET {k \in files : Writable(copy[w], k)} :
                   copy' = [copy EXCEPT ![w] = WithFiles(@, done)]
            /\ ops' = [ops EXCEPT ![w] = [step |-> "refused"]]
    /\ UNCHANGED <<scenario, history, trees, store, forkery, authority, tombstones, acked, cleared, spent>>

\* The read comes after the lock was let go.
ReadCopy(w) ==
    /\ ops[w].step = "read"
    /\ ops' = [ops EXCEPT ![w] = [step |-> "answered", since |-> @.since, got |-> copy[w]]]
    /\ lock' = IF lock = w THEN None ELSE lock
    /\ UNCHANGED <<scenario, history, trees, store, forkery, authority, tombstones, copy, acked, cleared, spent>>

EndCommand(w) ==
    /\ ops[w].step \in {"answered", "refused"} /\ ops' = [ops EXCEPT ![w] = Idle]
    /\ UNCHANGED <<scenario, history, trees, store, forkery, authority, tombstones, copy, lock, acked, cleared, spent>>

KillCommand(w) ==
    /\ ops[w].step # "idle" /\ ops' = [ops EXCEPT ![w] = Idle] /\ Spend("faults")
    /\ lock' = IF lock = w THEN None ELSE lock
    /\ UNCHANGED <<scenario, history, trees, store, forkery, authority, tombstones, copy, acked, cleared>>

Forking(d) ==
    \/ \E name \in Names : Prepare(d, name) \/ PrepareAt(d, name)
    \/ Compare(d) \/ CloneHierarchy(d) \/ Rename(d) \/ CaptureFork(d) \/ Verify(d)
    \/ AttachClone(d) \/ AdoptFamily(d) \/ Record(d) \/ AbandonFork(d)
    \/ \E p \in Paths : CopyFile(d, p)

Removing(n) == Forget(n) \/ RemoveDirectory(n) \/ RemoveRecord(n) \/ AbandonRemoval(n)

Coordinating(w) ==
    \/ \E k \in Keys : WriteAuthority(w, k) \/ WriteTombstone(w, k)
    \/ ClearTombstone(w) \/ RemoveAuthority(w) \/ Acknowledge(w)
    \/ \E u \in Workspaces : Propagate(w, u)
    \/ \E k \in Keys : ApplyTombstone(w, k)
    \/ OpenWorkspace(w) \/ CopyFiles(w) \/ ReadCopy(w) \/ EndCommand(w) \/ KillCommand(w)

Next ==
    \/ \E w \in Workspaces, p \in Paths, content \in Contents : Edit(w, p, content)
    \/ \E d \in Forks : Forking(d) \/ Delete(d)
    \/ \E n \in Names : Removing(n)
    \/ \E w \in Workspaces : Coordinating(w)
    \/ Collect

Spec == Init /\ [][Next]_vars

(***************************************************************************)
(* Properties.                                                             *)
(***************************************************************************)
\* "so a source that changes concurrently is caught rather than silently forked
\* from a torn state": whatever was edited while files were copied, cloned or
\* restored, the files of a registered fork are those of its base, but for the
\* ones edited in the fork itself (materialize_fork, snapshots_match_fork,
\* verify_atomic_fork).  A record of a destination that was used again speaks of
\* a fork that is not there any more.
ForkedExactly == \A n \in Names :
    LET d == records[n].dest IN
    records[n] # None /\ d \notin reused /\ live[d] # None =>
        \A p \in Paths \ edited[d] : live[d][p] = snaps[records[n].base][p]

\* What a command reads of a key is what the last write or removal that was
\* acknowledged before it began left, or a later one's, although siblings were
\* away, commands were killed half-way, keys lie above others and the fork joined
\* meanwhile (coord::write, remove, reconcile).
Coordinated == \A w \in Workspaces : ops[w].step = "answered" =>
    \A k \in Keys : LET got == ops[w].got[k] since == ops[w].since[k] IN
        IF got > 0 THEN got >= since ELSE since = 0 \/ cleared[k] >= since

\* Reconcile is part of every open, and refuses none before a key above or below
\* another was written or removed, or more files were written than it reads:
\* whatever other writes, removals and kills came before, a workspace can be
\* opened.
Openable == races = {} => \A w \in Workspaces : ops[w].step # "refused"

\* The base of a registered fork can be read, without which neither merge nor
\* the radar can look at the fork, nor at the others after it: no collection and
\* no removal of another fork takes it, unless retention thins it out of the
\* source's timeline or it was never there.
BaseHeld == \A n \in Names :
    records[n] # None /\ live[records[n].dest] # None => records[n].base \in held \cup loose

\* remove_fork deletes the directory of the fork it was asked to remove, and
\* never that of another, although names are used again and commands race; only
\* at a destination that was forked to while an old record named it can it be
\* another's.
OwnRemoval == [][\A n \in Names, d \in Forks :
    /\ removing[n] # None /\ removing[n].step = "directory"
    /\ removing'[n] # removing[n] /\ live[d] # None /\ live'[d] = None
    => mark[d] = removing[n].id \/ d \in reused]_vars
=============================================================================
