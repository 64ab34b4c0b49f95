------------------------------- MODULE Merge -------------------------------
(* The three-way merge of complete trees: merge.rs, and what repository.rs
   does with its plan. A universe and the workspace it was forked from change
   apart, and the universe is merged back, once or more often. Times of files
   are left out: equivalent() ignores them. *)
EXTENDS TreePages, FiniteSets

CONSTANTS
    Parent,         \* the directory of each path, 0 for the root; paths are
                    \* numbered in byte order of their names
    Values,         \* contents of files
    MaxEdits,
    MaxMerges

Paths == DOMAIN Parent

ASSUME PathsAssumption ==
    /\ \A p \in Paths : Parent[p] \in 0..(p - 1)
    /\ DOMAIN NameSize = Paths
    /\ {PageTarget, EntryRest, RefRest, PageRest} \subseteq Nat
    /\ MaxEdits \in Nat /\ MaxMerges \in Nat

VARIABLES
    base, ours, theirs,     \* the trees, path by path
    edits,                  \* edits so far, of both sides
    merges,
    outcome                 \* of the last merge: its plan and the result

vars == <<base, ours, theirs, edits, merges, outcome>>

-----------------------------------------------------------------------------
(* Trees *)

Nothing == [kind |-> "none", val |-> 0]
Directory == [kind |-> "dir", val |-> 0]
File(v) == [kind |-> "file", val |-> v]
Entries == {Nothing, Directory} \cup {File(v) : v \in Values}

Children(p) == {q \in Paths : Parent[q] = p}

RECURSIVE IsDescendant(_, _)
IsDescendant(p, d) == Parent[p] # 0 /\ (Parent[p] = d \/ IsDescendant(Parent[p], d))

WellFormed(t) ==
    \A p \in Paths : t[p] # Nothing /\ Parent[p] # 0 => t[Parent[p]] = Directory

Trees == {t \in [Paths -> Entries] : WellFormed(t)}

(* The stored tree of a directory, its children in name order *)
RECURSIVE Stored(_, _)
Stored(t, d) ==
    LET present == {q \in Children(d) : t[q] # Nothing}
        entry(q) == [name |-> q, kind |-> t[q].kind, val |-> t[q].val,
                     target |-> IF t[q] = Directory THEN Stored(t, q) ELSE EmptyNode]
        names == SetToSortSeq(present, LAMBDA x, y : x < y)
    IN  WriteTree([i \in DOMAIN names |-> entry(names[i])])

-----------------------------------------------------------------------------
(* The planner on stored trees *)

Flat(option) == IF option = <<>> THEN Nothing
                ELSE [kind |-> option[1].kind, val |-> option[1].val]

(* Mode, content and kind; the tree a directory leads to does not count. *)
Equivalent(a, b) == a = b

RECURSIVE CollectSubtree(_, _)
CollectSubtree(node, added) ==
    UNION {LET e == AllEntries(node)[i]
               flat == Flat(<<e>>)
           IN  {[path |-> e.name, before |-> IF added THEN Nothing ELSE flat,
                 after |-> IF added THEN flat ELSE Nothing]}
               \cup (IF e.kind = "dir" THEN CollectSubtree(e.target, added) ELSE {}) :
                   i \in DOMAIN AllEntries(node)}

IsDir(option) == option # <<>> /\ option[1].kind = "dir"

RECURSIVE CollectDelta(_, _)
CollectDelta(before, after) ==
    UNION {LET b == pair[1]
               a == pair[2]
               here == [path |-> (b \o a)[1].name, before |-> Flat(b), after |-> Flat(a)]
           IN  (IF Equivalent(Flat(b), Flat(a)) THEN {} ELSE {here})
               \cup (IF IsDir(b) /\ IsDir(a) THEN CollectDelta(b[1].target, a[1].target)
                     ELSE (IF IsDir(b) THEN CollectSubtree(b[1].target, FALSE) ELSE {})
                          \cup (IF IsDir(a) THEN CollectSubtree(a[1].target, TRUE) ELSE {})) :
                   pair \in DiffEntries(before, after)}

ByPath(found) == [p \in {d.path : d \in found} |-> CHOOSE d \in found : d.path = p]

Delta(side) == ByPath(CollectDelta(Stored(base, 0), Stored(side, 0)))

Before(p, d, e) == IF p \in DOMAIN d THEN d[p].before ELSE e[p].before
After(p, d, e) == IF p \in DOMAIN d THEN d[p].after ELSE e[p].before

IsChange(b, o, t) == ~Equivalent(o, t) /\ Equivalent(b, o)
IsConflict(b, o, t) == ~Equivalent(o, t) /\ ~Equivalent(b, o) /\ ~Equivalent(b, t)

DirectChanges(o, t) ==
    {p \in DOMAIN o \cup DOMAIN t : IsChange(Before(p, o, t), After(p, o, t), After(p, t, o))}
DirectConflicts(o, t) ==
    {p \in DOMAIN o \cup DOMAIN t : IsConflict(Before(p, o, t), After(p, o, t), After(p, t, o))}

(* Only the first key after the directory is looked at: one that sorts between
   the directory and what is in it ("dir.x" < "dir/x") hides the rest. *)
DeltaHasDescendant(delta, d) ==
    LET later == {p \in DOMAIN delta : p > d}
    IN  later # {} /\ IsDescendant(CHOOSE p \in later : \A q \in later : p <= q, d)

(* A directory deleted here, with changes inside it there. The other side
   counts as a directory when it deleted it as well. *)
AncestorConflicts(here, there) ==
    {p \in DOMAIN here :
        /\ here[p].before.kind = "dir" /\ here[p].after.kind # "dir"
        /\ p \in DOMAIN there => there[p].after.kind \in {"dir", "none"}
        /\ DeltaHasDescendant(there, p)}

Plan(changes, conflicts) ==
    [changes |-> {p \in changes : \A c \in conflicts : p # c /\ ~IsDescendant(p, c)},
     conflicts |-> conflicts]

(* Mutant: a deleted directory takes with it what was added inside. *)
PlanTreesDirect(o, t) == Plan(DirectChanges(o, t), DirectConflicts(o, t))

(* plan_trees, of the changes each side made to the base *)
PlanTrees(o, t) ==
    Plan(DirectChanges(o, t),
         DirectConflicts(o, t) \cup AncestorConflicts(o, t) \cup AncestorConflicts(t, o))

-----------------------------------------------------------------------------
(* The flat planner, which the tests compare the other with *)

SubtreeChanged(side, d) ==
    \E p \in Paths : IsDescendant(p, d) /\ ~Equivalent(base[p], side[p])

FlatAncestors(here, there) ==
    {p \in Paths : /\ base[p].kind = "dir"
                   /\ here[p].kind # "dir" /\ there[p].kind = "dir"
                   /\ SubtreeChanged(there, p)}

FlatPlan ==
    Plan({p \in Paths : IsChange(base[p], ours[p], theirs[p])},
         {p \in Paths : IsConflict(base[p], ours[p], theirs[p])}
            \cup FlatAncestors(ours, theirs) \cup FlatAncestors(theirs, ours))

-----------------------------------------------------------------------------
(* Writing the plan into the workspace: apply_plan_at *)

Removed(t, p) == [q \in Paths |-> IF q = p \/ IsDescendant(q, p) THEN Nothing ELSE t[q]]

RECURSIVE MadeParents(_, _)
MadeParents(t, p) ==
    IF Parent[p] = 0 THEN t
    ELSE LET above == MadeParents(t, Parent[p])
         IN  IF above[Parent[p]] = Nothing THEN [above EXCEPT ![Parent[p]] = Directory]
             ELSE above

(* What is in the way of another kind is removed first. *)
Placed(t, p, entry) ==
    LET clear == IF t[p].kind \notin {"none", entry.kind} THEN Removed(t, p) ELSE t
    IN  [MadeParents(clear, p) EXCEPT ![p] = entry]

Ascending(set) == SetToSortSeq(set, LAMBDA p, q : p < q)

(* Directories, then files, then removals, the longest names first; a child's
   name is longer than its directory's. *)
Applied(t, set, target) ==
    LET dirs == Ascending({p \in set : target[p].kind = "dir"})
        files == Ascending({p \in set : target[p].kind = "file"})
        gone == Reverse(Ascending({p \in set : target[p] = Nothing}))
        Put(s, p) == Placed(s, p, target[p])
    IN  FoldLeft(Removed, FoldLeft(Put, FoldLeft(Put, t, dirs), files), gone)

-----------------------------------------------------------------------------
Idle == [at |-> "none"]

Init ==
    /\ base \in Trees
    /\ ours = base /\ theirs = base
    /\ edits = 0
    /\ merges = 0
    /\ outcome = Idle

(* The person, or the agent in the universe: a file is written, a directory
   made, or a path removed with what is in it. *)
Edited(t) ==
    {s \in Trees : \E p \in Paths :
        \/ s = Removed(t, p)
        \/ \E e \in Entries : s = Placed(t, p, e)}

EditOurs ==
    /\ edits < MaxEdits
    /\ ours' \in Edited(ours) \ {ours}
    /\ edits' = edits + 1
    /\ outcome' = Idle
    /\ UNCHANGED <<base, theirs, merges>>

EditTheirs ==
    /\ edits < MaxEdits
    /\ theirs' \in Edited(theirs) \ {theirs}
    /\ edits' = edits + 1
    /\ outcome' = Idle
    /\ UNCHANGED <<base, ours, merges>>

(* finish_merge without interference, which module Restore has. The base of a
   universe stays the snapshot it was forked from. Below a file nothing can be
   created: applying fails, in the scratch copy already. *)
MergeTheirs ==
    /\ merges < MaxMerges
    /\ \E plan \in {PlanTrees(Delta(ours), Delta(theirs))} :
        LET applied == Applied(ours, plan.changes, theirs)
            lands == plan.conflicts = {} /\ WellFormed(applied)
        IN  /\ ours' = IF lands THEN applied ELSE ours
            /\ outcome' = [at |-> IF lands THEN "landed" ELSE "refused", plan |-> plan,
                           flat |-> FlatPlan, ours |-> ours, result |-> ours']
    /\ merges' = merges + 1
    /\ UNCHANGED <<base, theirs, edits>>

Next == EditOurs \/ EditTheirs \/ MergeTheirs

Spec == Init /\ [][Next]_vars

-----------------------------------------------------------------------------
(* Properties *)

Landed == outcome.at = "landed"

(* The conflicts of the flat planner that the planner on stored trees has not
   reported. *)
Overlooked == outcome.flat.conflicts \ outcome.plan.conflicts

(* One side removed the directory, and the first path after it that the other
   changed sorts before what is in it. *)
Masked(d) ==
    \E sides \in {<<outcome.ours, theirs>>, <<theirs, outcome.ours>>} :
        LET later == {p \in Paths : p > d /\ sides[2][p] # base[p]}
        IN  sides[1][d].kind # "dir"
            /\ \E p \in later : ~IsDescendant(p, d) /\ \A q \in later : p <= q

(* What a merge does is what the three trees say, path by path (plan_trees with
   its shortcuts over stored pages, then apply_plan_at): paging and the skipping
   of equal pages hide no conflict, a merge without one lands, and it keeps every
   change of either side and makes no other.  Only the conflict of a removed
   directory can be overlooked, only when a changed name sorts between it and its
   contents (delta_has_descendant, merge.rs:376), and only then is what is in that
   directory wrong, or the merge fails for it. *)
MergeExact == outcome # Idle =>
    /\ \A d \in Overlooked : Masked(d)
    /\ Landed \/ outcome.plan.conflicts # {} \/ Overlooked # {}
    /\ Landed => \A p \in Paths :
           \/ outcome.result[p] = IF outcome.ours[p] = base[p] THEN theirs[p] ELSE outcome.ours[p]
           \/ \E d \in Overlooked : p = d \/ IsDescendant(p, d)

(* Every conflict of the flat planner is one of the planner on stored trees: the
   code breaks this for "d" beside "d-x" (VMerkle.cfg). *)
ConflictsReported == outcome # Idle => Overlooked = {}

(* The paged form of the three roots can be read back name by name. *)
PagesExact ==
    \A t \in {base, ours, theirs} : \A p \in Children(0) :
        LET found == FindEntry(Stored(t, 0), p)
        IN  Flat(found) = t[p]

(* A directory can be stored, whatever the names in it: tree.rs:10. *)
Storable == \A t \in {base, ours, theirs} : Stored(t, 0) # Endless
=============================================================================
