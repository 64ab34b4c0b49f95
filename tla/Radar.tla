------------------------------- MODULE Radar -------------------------------
(***************************************************************************)
(* The conflict radar of a family of universes, and the claims it reports  *)
(* next to each conflict.  `furrow forks` and `furrow events` scan the     *)
(* universes: they compare the head each one has sealed with the head of   *)
(* the last scan, keep the paths it changed since it was forked in         *)
(* `dirty_scopes`, pair the scopes of different universes into conflicts   *)
(* and append what changed to a log of events that followers page through. *)
(* Several processes scan, seal, claim and follow at once; each SQLite     *)
(* transaction is a step.                                                  *)
(*                                                                         *)
(* A tree maps every path to 0 (absent), a directory with its metadata (a  *)
(* negative number) or the content of a file (a positive one).             *)
(***************************************************************************)
EXTENDS Integers, Sequences, SequencesExt, FiniteSets

CONSTANTS Universes,  \* the forks of the family, numbered as their ids sort
          Paths,      \* sequences of names, with every parent of a path
          Relevant,   \* those whose content class the radar looks at
          Trees,      \* what a universe may hold
          Patterns,   \* what may be claimed: a path, or with `wild` all below it
          Scenarios,  \* the processes that scan (`scanners`), which universes there are
                      \* (`forks`), what they are forked from (`bases`) and become
                      \* (`trees`), and the bounds: `seals`, `claims` granted or pulled,
                      \* `faults` (removed or unreadable forks)
          EventLimit, \* how many rows of the log are kept
          None

ASSUME UniversesAssumption == Universes \subseteq Nat \ {0}
ASSUME TreesAssumption == Trees \subseteq [Paths -> Int]
ASSUME PatternsAssumption == \A pattern \in Patterns :
    pattern.path \in Paths /\ pattern.wild \in BOOLEAN
ASSUME ScenariosAssumption ==
    Scenarios \subseteq [scanners : SUBSET Nat, forks : SUBSET Universes, bases : SUBSET Trees,
                         trees : SUBSET Trees, seals : Nat, claims : Nat, faults : Nat]

VARIABLES scenario, \* who scans, and how much happens
          base,     \* the fork records: the tree a universe started from
          head,     \* the head of each workspace: id and tree
          claims,   \* the rows of claims.sqlite3
          releasing,\* the release whose snapshot is being sealed
          row,      \* the table `universes`: the head last observed
          dirty,    \* the table `dirty_scopes`
          active,   \* `active_conflicts` and `active_members`
          events,   \* the table `events`, by sequence number
          scan,     \* what each scanner is doing
          follower, \* a process that reads the events from the first one
          seals, granted, faults, \* the bounds' counters
          unsure,   \* history: the paths of a universe whose scopes need not be right
          restored  \* history: the pairs of claims a failed release has made overlap

Scanners == UNION {s.scanners : s \in Scenarios}

workspaces == <<scenario, base, head, seals>>
registry == <<claims, releasing, granted, restored>>
radar == <<row, dirty, active, events, unsure>>
vars == <<scenario, base, head, claims, releasing, row, dirty, active, events, scan, follower,
          seals, granted, faults, unsure, restored>>

Source == 0                       \* the workspace the universes were forked from
Remote == -1                      \* one of the machine that is paired
Inside(p, q) == IsPrefix(p, q)    \* q is p or below it
Directory(entry) == entry < 0
Structural(from, to, p) == Directory(from[p]) # Directory(to[p])
Idle == [step |-> "idle"]
NoConflicts == [p \in {} |-> {}]

Init ==
    /\ scenario \in Scenarios
    /\ base = [u \in Universes |-> None]
    /\ head = [u \in Universes |-> [id |-> 0, tree |-> None]]
    /\ claims = {} /\ releasing = None /\ granted = 0 /\ seals = 0 /\ faults = 0
    /\ row = [u \in Universes |-> None] /\ dirty = [u \in Universes |-> {}]
    /\ active = NoConflicts /\ events = <<>> /\ unsure = {} /\ restored = {}
    /\ scan = [p \in Scanners |-> Idle]
    /\ follower = [cursor |-> 0, heard |-> {}, state |-> "reading"]

(***************************************************************************)
(* The workspaces.  A seal makes a new snapshot even of an unchanged tree. *)
(***************************************************************************)
Fault == faults < scenario.faults /\ faults' = faults + 1

\* finalize_fork, and remove_fork with the claims of the workspace.
Fork(u) == \E tree \in scenario.bases :
    /\ u \in scenario.forks /\ head[u].id = 0
    /\ base' = [base EXCEPT ![u] = tree]
    /\ head' = [head EXCEPT ![u] = [id |-> 1, tree |-> tree]]
    /\ UNCHANGED <<scenario, registry, radar, scan, follower, seals, faults>>

RemoveFork(u) ==
    /\ base[u] # None /\ base' = [base EXCEPT ![u] = None]
    /\ claims' = {claim \in claims : claim.workspace # u}
    /\ Fault /\ UNCHANGED <<scenario, head, seals, releasing, granted, restored, radar, scan, follower>>

Sealed(u, tree) == [head EXCEPT ![u] = [id |-> @.id + 1, tree |-> tree]]

Seal(u) == \E tree \in scenario.trees \ {head[u].tree} :
    /\ base[u] # None /\ seals < scenario.seals /\ seals' = seals + 1
    /\ head' = Sealed(u, tree)
    /\ UNCHANGED <<scenario, base, registry, radar, scan, follower, faults>>

(***************************************************************************)
(* Claims.  Expired rows are deleted by whoever looks next.                *)
(***************************************************************************)
Matches(pattern, p) ==
    IF pattern.wild THEN IsStrictPrefix(pattern.path, p) ELSE p = pattern.path

\* Mutant: only a claim of the same pattern is in the way.
PatternsEqual(left, right) == left = right

\* patterns_may_overlap: a wildcard may reach what the other's literal
\* components do not rule out.
PatternsMayOverlap(left, right) ==
    \/ left = right
    \/ /\ left.wild \/ right.wild
       /\ IsPrefix(left.path, right.path) \/ IsPrefix(right.path, left.path)

\* The snapshot that records a claim or its release.
SealClaims(w) == IF w = Source THEN head ELSE Sealed(w, head[w].tree)

\* The claim stays when its snapshot fails.
Claim(w, pattern) ==
    /\ granted < scenario.claims /\ granted' = granted + 1
    /\ \A claim \in claims :
           claim.workspace # w => ~PatternsMayOverlap(claim.pattern, pattern)
    /\ claims' = claims \cup {[workspace |-> w, pattern |-> pattern]}
    /\ UNCHANGED <<releasing, restored, scenario, base, seals, radar, scan, follower>>
    /\ \/ head' = SealClaims(w) /\ UNCHANGED faults
       \/ UNCHANGED head /\ Fault

\* release takes the row away, then its snapshot is sealed; when that fails
\* the row is put back, whatever was claimed meanwhile.
Release ==
    /\ releasing = None
    /\ \E claim \in claims :
           claim.workspace # Remote /\ releasing' = claim /\ claims' = claims \ {claim}
    /\ UNCHANGED <<granted, restored, workspaces, radar, scan, follower, faults>>

ReleaseSealed ==
    /\ releasing # None /\ releasing' = None
    /\ head' = SealClaims(releasing.workspace)
    /\ UNCHANGED <<claims, granted, restored, scenario, base, seals, radar, scan, follower, faults>>

ReleaseFailed ==
    /\ releasing # None /\ releasing' = None
    /\ claims' = claims \cup {releasing}
    /\ restored' = restored \cup
           {{releasing, claim} : claim \in {c \in claims : c.workspace # releasing.workspace}}
    /\ UNCHANGED <<granted, workspaces, radar, scan, follower, faults>>

Expire ==
    /\ \E claim \in claims : claims' = claims \ {claim}
    /\ UNCHANGED <<releasing, granted, restored, workspaces, radar, scan, follower, faults>>

\* A pull restores the claims of the snapshot it brought: nobody asks whether
\* they overlap.
Pull(pattern) ==
    /\ granted < scenario.claims /\ granted' = granted + 1
    /\ claims' = claims \cup {[workspace |-> Remote, pattern |-> pattern]}
    /\ UNCHANGED <<releasing, restored, workspaces, radar, scan, follower, faults>>

\* claim_state of a path: how many workspaces claim it.
ClaimState(p, held) ==
    LET holders == {claim.workspace : claim \in {c \in held : Matches(c.pattern, p)}} IN
    IF holders = {} THEN "unclaimed" ELSE IF Cardinality(holders) = 1 THEN "covered" ELSE "contested"

(***************************************************************************)
(* The dirty scopes of a universe: `subtree` for a directory that was      *)
(* removed, or that a file replaced or was replaced by.                    *)
(***************************************************************************)
\* diff_entries and visit_changed_scopes: what differs, from the root down as
\* long as both sides are directories.
ChangedScopes(before, after) ==
    {p \in Paths :
        /\ \E q \in Paths : Inside(p, q) /\ before[q] # after[q]
        /\ \A q \in Paths : IsStrictPrefix(q, p) => Directory(before[q]) /\ Directory(after[q])}

\* insert_added_subtree: the files below it, or itself when there are none.
AddedSubtree(to, p) ==
    LET leaves == {q \in Relevant : Inside(p, q) /\ to[q] > 0} IN
    IF leaves = {} THEN {p} \cap Relevant ELSE leaves

\* recompute_scope: what a path contributes, from the base `from` to the head `to`.
Scope(from, to, p) ==
    IF from[p] = 0 /\ Directory(to[p])
    THEN {[path |-> q, subtree |-> FALSE] : q \in AddedSubtree(to, p)}
    ELSE {[path |-> q, subtree |-> Structural(from, to, q)] :
              q \in {r \in Relevant : r = p /\ from[r] # to[r]}}

\* update_dirty_scopes: each visited path, parents first, loses its scopes,
\* with those below it when it changed between file and directory, and
\* contributes anew.
Recomputed(scopes, from, to, visited) ==
    {s \in scopes : \A p \in visited :
                       p # s.path /\ ~(Structural(from, to, p) /\ Inside(p, s.path))}
        \cup UNION {Scope(from, to, p) : p \in visited}

(***************************************************************************)
(* Conflicts: reconcile_conflicts.                                         *)
(***************************************************************************)
\* Mutant: a scope of everything below a path meets only the same path.
MeetEqual(s, t) == s.path = t.path

Meet(s, t) ==
    \/ s.path = t.path
    \/ s.subtree /\ Inside(s.path, t.path)
    \/ t.subtree /\ Inside(t.path, s.path)

\* radar_pairs: where two scopes meet, and whose they are.
MeetingPath(s, t) == IF s.subtree \/ ~t.subtree THEN s.path ELSE t.path

Pairs(scopes) ==
    UNION {{[path |-> MeetingPath(m[1], m[2]), members |-> {u, v}] :
                m \in {n \in scopes[u] \X scopes[v] : Meet(n[1], n[2])}} :
           <<u, v>> \in {w \in Universes \X Universes : w[1] < w[2]}}

\* radar_next: the conflicts that are not below another, with their members.
NextConflicts(scopes, held) ==
    LET pairs == Pairs(scopes)
        met == {pair.path : pair \in pairs}
        top == {p \in met : ~\E q \in met : IsStrictPrefix(q, p)} IN
    [p \in top |->
        [members |-> UNION {pair.members : pair \in {x \in pairs : x.path = p}},
         claim |-> ClaimState(p, held)]]

\* event_forks: the members that have a row, with the head it names.
EventForks(conflicts, p, rows) ==
    IF p \notin DOMAIN conflicts THEN {}
    ELSE {<<u, rows[u].id>> : u \in {v \in conflicts[p].members : rows[v] # None}}

ClaimOf(conflicts, p) == IF p \in DOMAIN conflicts THEN conflicts[p].claim ELSE "unclaimed"

\* The event of a path, None when neither its members nor its claim changed.
\* The heads on both sides are those of the rows, so a seal alone is no event.
Event(p, next, rows) ==
    LET new == EventForks(next, p, rows) old == EventForks(active, p, rows) IN
    IF \/ new = old /\ ClaimOf(next, p) = ClaimOf(active, p)
       \/ new = {} /\ old = {}
    THEN None
    ELSE [path |-> p,
          state |-> IF old = {} THEN "opened" ELSE IF new = {} THEN "resolved" ELSE "updated",
          forks |-> IF new = {} THEN old ELSE new,
          claim |-> IF new = {} THEN ClaimOf(active, p) ELSE ClaimOf(next, p)]

\* Mutant: the id of an event is that of its conflict.
InsertOnce(log, new) == SelectSeq(new, LAMBDA e : ~\E i \in DOMAIN log : log[i].path = e.path)

\* INSERT OR IGNORE: the id of an event is a digest of all it says.
Insert(log, new) == SelectSeq(new, LAMBDA e : ~\E i \in DOMAIN log : log[i] = e)

\* The events of one reconciliation in the order of their paths, and the
\* oldest rows removed.
Logged(next, rows) ==
    LET paths == {p \in DOMAIN next \cup DOMAIN active : Event(p, next, rows) # None}
        order == SetToSortSeq(paths, LAMBDA p, q : Len(p) < Len(q))
        log == {i \in DOMAIN events : events[i] # None}
        new == Insert([i \in log |-> events[i]], [i \in DOMAIN order |-> Event(order[i], next, rows)])
        all == events \o new IN
    [i \in DOMAIN all |-> IF i <= Len(all) - EventLimit THEN None ELSE all[i]]

Reconciled(scopes, rows, held) ==
    LET next == NextConflicts(scopes, held) IN
    active' = next /\ events' = Logged(next, rows)

(***************************************************************************)
(* A scan: FurrowRepository::forks.                                        *)
(***************************************************************************)
Begin(p) ==
    /\ scan[p].step = "idle"
    /\ scan' = [scan EXCEPT ![p] = [step |-> "retain", held |-> claims,
                                    todo |-> {u \in Universes : base[u] # None}]]
    /\ UNCHANGED <<workspaces, registry, radar, follower, faults>>

\* retain_universes: the universes without a record lose their scopes, their
\* conflicts are resolved while their rows can still be named.
Retain(p) ==
    LET kept == [u \in Universes |-> IF u \in scan[p].todo THEN dirty[u] ELSE {}] IN
    /\ scan[p].step = "retain"
    /\ scan' = [scan EXCEPT ![p].step = "head"]
    /\ dirty' = kept /\ Reconciled(kept, row, scan[p].held)
    /\ row' = [u \in Universes |-> IF u \in scan[p].todo THEN row[u] ELSE None]
    /\ UNCHANGED <<workspaces, registry, unsure, follower, faults>>

\* The universes, newest first.
Current(p) == CHOOSE u \in scan[p].todo : \A v \in scan[p].todo : v <= u
Done(p) == [scan EXCEPT ![p] = [step |-> "head", held |-> @.held, todo |-> @.todo \ {Current(p)}]]

\* The directory is away, or cannot be opened: radar_stale.
Skip(p) ==
    /\ scan[p].step = "head" /\ scan[p].todo # {} /\ Fault /\ scan' = Done(p)
    /\ UNCHANGED <<workspaces, registry, radar, follower>>

ReadHead(p) ==
    /\ scan[p].step = "head" /\ scan[p].todo # {} /\ base[Current(p)] # None
    /\ scan' = [scan EXCEPT ![p] = [step |-> "row", held |-> @.held, todo |-> @.todo,
                                    base |-> base[Current(p)], head |-> head[Current(p)]]]
    /\ UNCHANGED <<workspaces, registry, radar, follower, faults>>

\* observe reads the row outside its transaction.
ReadRow(p) ==
    LET s == scan[p] u == Current(p) IN
    /\ s.step = "row"
    /\ scan' = IF row[u] = s.head THEN Done(p)
               ELSE [scan EXCEPT ![p] = 
                       [step |-> "observe", held |-> s.held, todo |-> s.todo, base |-> s.base,
                        head |-> s.head, seen |-> row[u]]]
    /\ UNCHANGED <<workspaces, registry, radar, follower, faults>>

\* Where the scopes of u need no longer be what it changed, after an observation
\* that compares with the head `seen`: everywhere when another scan replaced that
\* row meanwhile, and below a path that became a directory or ceased to be one
\* since the fork and is now again what it was.  From the base all is seen anew.
Missed(u, seen, from, to) ==
    IF seen = None THEN {}
    ELSE IF row[u] # seen THEN Paths
    ELSE {p \in Paths : Structural(from, seen.tree, p) /\ ~Structural(from, to, p)}

\* The transaction of observe, whatever became of the row since it was read.
Observe(p) ==
    LET s == scan[p] u == Current(p) IN
    /\ s.step = "observe"
    /\ unsure' = {x \in unsure : s.seen # None \/ x[1] # u}
                     \cup ({u} \X Missed(u, s.seen, s.base, s.head.tree))
    /\ row' = [row EXCEPT ![u] = s.head]
    /\ dirty' = [dirty EXCEPT ![u] =
           Recomputed(IF s.seen = None THEN {} ELSE @, s.base, s.head.tree,
                      ChangedScopes(IF s.seen = None THEN s.base ELSE s.seen.tree, s.head.tree))]
    /\ scan' = Done(p)
    /\ UNCHANGED <<workspaces, registry, active, events, follower, faults>>

Reconcile(p) ==
    /\ scan[p].step = "head" /\ scan[p].todo = {}
    /\ Reconciled(dirty, row, scan[p].held)
    /\ scan' = [scan EXCEPT ![p] = Idle]
    /\ UNCHANGED <<workspaces, registry, row, dirty, unsure, follower, faults>>

(***************************************************************************)
(* A follower: events_after and `furrow events --follow`.                  *)
(***************************************************************************)
Retained == {i \in DOMAIN events : events[i] # None}
CursorFound == follower.cursor = 0 \/ follower.cursor + 1 >= Len(events) - Cardinality(Retained) + 1
\* A page of one event; the command ends when its cursor has expired.  One that
\* starts after rows were removed has not read from the first.
Page ==
    /\ follower.state = "reading" /\ follower.cursor < Len(events)
    /\ LET next == CHOOSE i \in Retained : i > follower.cursor
                       /\ \A j \in Retained : j > follower.cursor => i <= j IN
       follower' = IF ~CursorFound THEN [follower EXCEPT !.state = "expired"]
                   ELSE [cursor |-> next, heard |-> follower.heard \cup {events[next]},
                         state |-> IF follower.cursor = 0 /\ next > 1 THEN "late" ELSE "reading"]
    /\ UNCHANGED <<workspaces, registry, radar, scan, faults>>

Scan(p) == Begin(p) \/ Retain(p) \/ Skip(p) \/ ReadHead(p) \/ ReadRow(p) \/ Observe(p) \/ Reconcile(p)

Next ==
    \/ \E u \in Universes : Fork(u) \/ RemoveFork(u) \/ Seal(u)
    \/ \E w \in {Source} \cup {u \in Universes : base[u] # None}, pattern \in Patterns : Claim(w, pattern)
    \/ \E pattern \in Patterns : Pull(pattern)
    \/ Release \/ ReleaseSealed \/ ReleaseFailed \/ Expire \/ Page
    \/ \E p \in scenario.scanners : Scan(p)

Spec == Init /\ [][Next]_vars

(***************************************************************************)
(* Properties.                                                             *)
(***************************************************************************)
\* What a universe has touched since it was forked, seen from its observed head
\* alone: the files it wrote, added or removed, the directories it removed or
\* whose metadata it changed.
Touched(u) ==
    IF row[u] = None \/ base[u] = None THEN {}
    ELSE {q \in Relevant : LET from == base[u][q] to == row[u].tree[q] IN
                               from # to /\ ~(from = 0 /\ Directory(to))}

\* Each time a scan has reconciled, a path that two observed universes touched is
\* inside a conflict, of both of them unless it is hidden by one further up
\* (radar_next keeps the topmost paths only), but for the paths in `missed` ...
Complete(missed) ==
    \A u, v \in Universes : u < v =>
        \A q \in Touched(u) \cap Touched(v) :
            \/ \E p \in DOMAIN active : Inside(p, q) /\ (p # q \/ {u, v} \subseteq active[p].members)
            \/ \E w \in {u, v}, p \in Paths : Inside(p, q) /\ <<w, p>> \in missed

\* ... and no universe is in a conflict without having changed something there or
\* the directory it was in.
Precise(missed) ==
    \A p \in DOMAIN active : Cardinality(active[p].members) > 1
        /\ \A u \in active[p].members : base[u] # None =>
               \/ \E q \in Relevant : (Inside(p, q) \/ Inside(q, p)) /\ row[u].tree[q] # base[u][q]
               \/ \E q \in Paths : (Inside(p, q) \/ Inside(q, p)) /\ <<u, q>> \in missed

Reconciles == \E p \in Scanners : Reconcile(p)

\* "conflict radar ... flags two agents touching the same file", and flags no
\* other, however many heads were skipped or observed out of order by two
\* scanners (observe, recompute_scope, reconcile_conflicts).  What it misses is
\* what an observation compared with a replaced row, or below a directory that
\* was undone, left behind (unsure), and nothing else.
Flagged == [][Reconciles => (Complete(unsure) /\ Precise(unsure))']_vars

\* The same of every path: an undone directory breaks it (VRadar.cfg), and so
\* does a row that is replaced between being read and being observed.
FlaggedAlways == [][Reconciles => (Complete({}) /\ Precise({}))']_vars

\* A follower that has read every page since the first event, and was never
\* told that its cursor expired, has heard of each conflict that is active with
\* its members and its claim (insert_event, events_after).
Told ==
    follower.state = "reading" /\ follower.cursor = Len(events) =>
        \A p \in DOMAIN active : \E e \in follower.heard :
            /\ e.path = p /\ e.state # "resolved" /\ e.claim = active[p].claim
            /\ {fork[1] : fork \in e.forks} = active[p].members

\* No path is claimed by two workspaces, but for what a pull restored and for a
\* claim that a failed release put back over one granted meanwhile, which nobody
\* looks for (Registry::claim; release and its undo).
Exclusive == \A a, b \in claims :
    a.workspace # b.workspace /\ Remote \notin {a.workspace, b.workspace} =>
        \/ ~\E p \in Paths : Matches(a.pattern, p) /\ Matches(b.pattern, p)
        \/ {a, b} \in restored
=============================================================================
