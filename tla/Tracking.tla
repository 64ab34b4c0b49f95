------------------------------ MODULE Tracking ------------------------------
(***************************************************************************)
(* How one workspace's tree gets into its head when nobody walks it: the   *)
(* daemon's change tracker, the path index and its `paths.head` token, the *)
(* persisted capture plans of a guard, `furrow watch` and the suppression  *)
(* of the events a pull's own writes cause.                                *)
(*                                                                         *)
(* Three repositories of three processes seal the same workspace: the      *)
(* daemon's retained one ("daemon", the only one with a tracker), the one  *)
(* of `furrow watch` ("watch") and a one-shot command ("cli").  A file is  *)
(* its version: 0 when it is absent, and every write makes a new one, so a *)
(* version stands for the content and for the size, times and inode that   *)
(* the stamps, identities and stat rows compare.                           *)
(***************************************************************************)
EXTENDS Integers, FiniteSets, TLC

CONSTANTS Paths,     \* the files of the workspace
          Ignored,   \* those the second set of capture rules excludes
          Scenarios, \* which watching processes run (`running`), and the bounds:
                     \* `edits` of people, `seals`, plans and restarts asked for,
                     \* `pulls` (0 or 1) and `faults` (lost events, late fences,
                     \* link walks, failed captures and pulls)
          None

ASSUME PathsAssumption == Paths \subseteq Nat \ {0} /\ Ignored \subseteq Paths
ASSUME ScenariosAssumption ==
    Scenarios \subseteq [running : SUBSET {"daemon", "watch"}, edits : Nat, seals : Nat,
                         pulls : 0..1, faults : Nat]

VARIABLES scenario,   \* who is running
          disk,       \* the version of each file
          rules,      \* the capture rules in force, 0 or 1
          edits, seals, faults, \* the bounds' counters
          head,       \* the published snapshot: id, root tree, its rules
          token,      \* paths.head: the head the index vouches for, 0 invalid
          index,      \* each process's in-memory path index, None unopened
          cap,        \* the capture each repository is making
          tracker,    \* the daemon's ChangeTracker
          pending,    \* the events a watcher has not read yet
          overflow,   \* the flag its callback raised
          watch,      \* the round of `furrow watch`
          active,     \* apply-active.json: "none", a "live" or a "dead" pid
          baseline,   \* apply-baseline.json: the identities a pull left
          pull,       \* the pull that is applying
          plan,       \* the plan in capture-plans/
          overtaken,  \* history: the head was published over one that is not its parent
          missed      \* history: the files whose last change `furrow watch` let go by

workspace == <<scenario, disk, rules, edits>>
store == <<head, token, overtaken>>
events == <<pending, overflow>>
applying == <<active, baseline, pull>>
vars == <<scenario, disk, rules, edits, seals, faults, head, token, index, cap, tracker, pending,
          overflow, watch, active, baseline, pull, plan, overtaken, missed>>

Watchers == {"daemon", "watch"}
Repositories == Watchers \cup {"cli"}
Rules == 0                     \* the path in the event of a changed .furrowpolicy
Pulled == scenario.edits + 2         \* the version a pull writes
Idle == [step |-> "idle", scope |-> None]
NoPull == [step |-> "idle", target |-> <<>>]
Quiet == [step |-> "idle", changed |-> {}, overflowed |-> FALSE]

\* read_file retries until the file was stable while it was read.
ReadFile(p) == disk[p]

\* What a walk under the rules finds on the disk.
Seen(policy, p) == IF policy = 1 /\ p \in Ignored THEN 0 ELSE ReadFile(p)
Visible == [p \in Paths |-> Seen(rules, p)]

\* A tracker whose watches have just been registered.
ChangeTracker == [dirty |-> {}, uncertain |-> FALSE, baseline |-> None, policy |-> rules]

Init ==
    /\ scenario \in Scenarios
    /\ disk = [p \in Paths |-> 1] /\ rules = 0 /\ edits = 0
    /\ seals = 0 /\ faults = 0
    /\ head = [id |-> 1, root |-> disk, rules |-> 0] /\ token = 1 /\ overtaken = FALSE
    /\ index = [r \in Repositories |-> None] /\ cap = [r \in Repositories |-> Idle]
    /\ tracker \in [dirty : {{}}, uncertain : {FALSE}, policy : {0},
                   baseline : IF "daemon" \in scenario.running THEN {None, 1} ELSE {None}]
    /\ pending = [w \in Watchers |-> {}] /\ overflow = [w \in Watchers |-> FALSE]
    /\ watch = Quiet /\ active = "none" /\ baseline = [p \in Paths |-> None]
    /\ pull = NoPull /\ plan = None /\ missed = {}

(***************************************************************************)
(* The tree and its events.  An event is queued or, when the queue of 4096 *)
(* or 8192 is full, dropped and noted in the overflow flag.                *)
(***************************************************************************)
Faults(n) == faults + n <= scenario.faults /\ faults' = faults + n
Fault(happens) == Faults(IF happens THEN 1 ELSE 0)

Notify(raised) == \E full \in SUBSET scenario.running :
    /\ pending' = [w \in Watchers |-> IF w \in scenario.running \ full THEN pending[w] \cup raised ELSE pending[w]]
    /\ overflow' = [w \in Watchers |-> overflow[w] \/ w \in full]
    /\ Faults(Cardinality(full))

\* The watches of every directory and file of the tree see each write.
Raised(versions) ==
    {<<p, IF versions[p] = 0 THEN "remove" ELSE IF disk[p] = 0 THEN "create" ELSE "write">>
        : p \in DOMAIN versions}

Write(versions) ==
    /\ disk' = [p \in Paths |-> IF p \in DOMAIN versions THEN versions[p] ELSE disk[p]]
    /\ Notify(Raised(versions))

\* A person writes, creates or removes a file.  What is removed again after a
\* pull has removed it is once more as the pull left it.
Edit(p) == \E version \in {0, edits + 2} :
    /\ edits < scenario.edits /\ version # disk[p]
    /\ Write(p :> version) /\ edits' = edits + 1
    /\ missed' = IF version = baseline[p] THEN missed \cup {p} ELSE missed
    /\ UNCHANGED <<scenario, rules, seals, store, index, cap, tracker, watch, applying, plan>>

EditRules ==
    /\ edits < scenario.edits /\ rules' = 1 - rules /\ edits' = edits + 1
    /\ Notify({<<Rules, "write">>})
    /\ UNCHANGED <<scenario, disk, seals, store, index, cap, tracker, watch, applying, plan, missed>>

(***************************************************************************)
(* The tracker.  A create of what is a regular file by now can be watched; *)
(* any other create or remove leaves the registrations in doubt, as an     *)
(* overflow, a fence not seen within 100 ms and changed rules do.          *)
(***************************************************************************)
Topology(event) ==
    \/ event[2] = "remove"
    \/ event[2] = "create" /\ disk[event[1]] = 0

\* catch_up: the fence has been seen, or it came too late and the rest of the
\* queue stays.
CatchUp(t, late) ==
    LET read == IF late THEN {} ELSE pending["daemon"] IN
    [t EXCEPT !.dirty = @ \cup {event[1] : event \in read},
              !.uncertain = \/ @ \/ late \/ overflow["daemon"]
                            \/ \E event \in read : Topology(event)
                            \/ <<Rules, "write">> \in read
                            \/ t.policy # rules]

\* tracked_changes: the paths an unhinted capture may confine itself to.
TrackedChanges(t) == IF t.uncertain \/ t.baseline # head.id THEN None ELSE t.dirty

\* tracked_changes and prepare_full_tracking: the daemon reads its queue, and
\* replaces a tracker in doubt before a full capture, with its queue.  `late`
\* fences in a row came too late; a command has no tracker.
Caught(r, full, late) ==
    LET t == CatchUp(tracker, late > 0) IN
    IF r # "daemon" THEN tracker
    ELSE IF full /\ t.uncertain THEN [ChangeTracker EXCEPT !.uncertain = late = 2]
    ELSE t

ReadEvents(r, full, late) ==
    LET rebuild == full /\ CatchUp(tracker, late > 0).uncertain IN
    /\ (late > 0 => r = "daemon") /\ (late = 2 => rebuild) /\ Faults(late)
    /\ tracker' = Caught(r, full, late)
    /\ pending' = IF r # "daemon" \/ (late > 0 /\ ~rebuild) THEN pending
                  ELSE [pending EXCEPT !["daemon"] = {}]
    /\ overflow' = IF r # "daemon" THEN overflow ELSE [overflow EXCEPT !["daemon"] = FALSE]

\* Mutant: a scoped capture consumes every event read so far.
FinishedForAll(t, id, captured, trusted) ==
    IF captured = None /\ t.uncertain THEN ChangeTracker
    ELSE IF captured # None /\ (~trusted \/ t.uncertain) THEN t
    ELSE [t EXCEPT !.dirty = {}, !.baseline = id]

\* finish_tracked_capture: what was captured is no longer dirty, and the head
\* is the tracker's baseline; a full capture under doubt earns none.
Finished(t, id, captured, trusted) ==
    IF captured = None /\ t.uncertain THEN ChangeTracker
    ELSE IF captured # None /\ (~trusted \/ t.uncertain) THEN t
    ELSE [t EXCEPT !.dirty = IF captured = None THEN {} ELSE @ \ captured,
                   !.baseline = id]

\* The daemon is restarted, or opens the repository afresh.
Restart ==
    /\ "daemon" \in scenario.running /\ seals < scenario.seals /\ seals' = seals + 1
    /\ tracker' = ChangeTracker /\ index' = [index EXCEPT !["daemon"] = None]
    /\ cap' = [cap EXCEPT !["daemon"] = Idle]
    /\ pending' = [pending EXCEPT !["daemon"] = {}]
    /\ overflow' = [overflow EXCEPT !["daemon"] = FALSE]
    /\ UNCHANGED <<faults, workspace, store, watch, applying, plan, missed>>

(***************************************************************************)
(* A capture: read the policy, the head and the tracker; choose between    *)
(* the paths asked for and a walk of the tree; read each path; publish.    *)
(***************************************************************************)
\* open_path_index: an unopened index is read from the head the token names.
Opened(r) == IF index[r] = None /\ token = head.id THEN head.root ELSE index[r]

IndexMatchesHead(r, policy) ==
    Opened(r) = head.root /\ token = head.id /\ head.rules = policy

\* snapshot_internal_with_parent up to the capture.  A hint keeps its scope,
\* a plan keeps its own, and only the daemon's tracker narrows the rest.
Begin(r, hint, scope, t) ==
    LET changes == IF r = "daemon" THEN TrackedChanges(t) ELSE None IN
    /\ cap[r].step = "idle"
    /\ cap' = [cap EXCEPT ![r] =
           [step |-> "choose", policy |-> rules, parent |-> head.id, scope |-> scope,
            captured |-> IF hint # None \/ scope # None THEN hint ELSE changes,
            trusted |-> changes # None]]

\* The repositories that seal when they are asked to.
Askable == (scenario.running \cup {"cli"}) \ {"watch"}

\* A one-shot command takes its index along when it exits.
Kept(r, rows) == [index EXCEPT ![r] = IF r = "cli" THEN None ELSE rows]

\* A capture of everything or of hinted paths, by the daemon or a command.
Seal(r, hint) == \E late \in 0..2 :
    /\ r \in Askable /\ seals < scenario.seals /\ seals' = seals + 1
    /\ Begin(r, hint, None, Caught(r, hint = None, late))
    /\ ReadEvents(r, hint = None, late)
    /\ UNCHANGED <<workspace, store, index, watch, applying, plan, missed>>

\* The capture ends, with these rows in the index, and the plan it was made for
\* is removed.
End(r, rows) ==
    /\ index' = Kept(r, rows)
    /\ cap' = [cap EXCEPT ![r] = Idle]
    /\ plan' = IF cap[r].scope = None THEN plan ELSE None

\* capture_tree: changed rules and an unhinted capture walk the tree.
Ruled(captured) == captured = None \/ (captured # None /\ Rules \in captured)

\* The paths a capture reads, and the rows it starts from: an empty index, or
\* the one whose entries for the changed paths it replaces.
WalkedPaths(captured, full) == IF full THEN Paths ELSE captured \cap Paths
FirstRows(r, full) == IF full THEN [p \in Paths |-> 0] ELSE Opened(r)

\* A link group that has to be found (`links`) and an index that is not the
\* head's widen the scope to a walk, which a plan that did not screen the tree
\* refuses.  A walk invalidates the token until a seal completes.
Choose(r) == \E links \in BOOLEAN :
    LET c == cap[r]
        full == Ruled(c.captured) \/ links \/ ~IndexMatchesHead(r, c.policy) IN
    /\ c.step = "choose" /\ (links => ~Ruled(c.captured)) /\ Fault(links)
    /\ IF full /\ ~Ruled(c.captured) /\ c.scope # None
       THEN End(r, Opened(r)) /\ UNCHANGED token
       ELSE /\ index' = [index EXCEPT ![r] = Opened(r)]
            /\ cap' = [cap EXCEPT ![r] = [c EXCEPT !.step = "walk"]
                  @@ [full |-> full, todo |-> WalkedPaths(c.captured, full),
                      rows |-> FirstRows(r, full)]]
            /\ token' = IF full THEN 0 ELSE token
            /\ UNCHANGED plan
    /\ UNCHANGED <<workspace, seals, head, overtaken, tracker, events, watch, applying, missed>>

\* Mutant: a planned path is read whatever it holds by now.
CheckCaptureName(scope, p) == scope.stamps[p] # None

\* check_capture_path: a file is read only as the plan saw it.
CheckCapturePath(scope, p) == scope.stamps[p] = disk[p]

CapturePath(r, p) ==
    LET c == cap[r] found == Seen(c.policy, p) IN
    /\ c.step = "walk" /\ p \in c.todo /\ \A q \in c.todo : p <= q
    /\ IF c.scope # None /\ found # 0 /\ ~CheckCapturePath(c.scope, p)
       THEN End(r, index[r])
       ELSE /\ cap' = [cap EXCEPT ![r].rows[p] = found, ![r].todo = @ \ {p}]
            /\ UNCHANGED <<index, plan>>
    /\ UNCHANGED <<faults, workspace, seals, store, tracker, events, watch, applying, missed>>

\* The index is committed, the snapshot published without looking at the head
\* it replaces, the token written and the tracker told.
Publish(r) ==
    LET c == cap[r] id == head.id + 1 IN
    /\ c.step = "walk" /\ c.todo = {}
    /\ End(r, c.rows)
    /\ head' = [id |-> id, root |-> c.rows, rules |-> c.policy] /\ token' = id
    /\ overtaken' = (c.parent # head.id \/ (overtaken /\ ~c.full))
    /\ missed' = {p \in missed : head'.root[p] # Visible[p]}
    /\ tracker' = IF r = "daemon" THEN Finished(tracker, id, c.captured, c.trusted) ELSE tracker
    /\ IF r = "daemon" /\ c.captured = None /\ tracker.uncertain
       THEN /\ pending' = [pending EXCEPT !["daemon"] = {}]
            /\ overflow' = [overflow EXCEPT !["daemon"] = FALSE]
       ELSE UNCHANGED events
    /\ UNCHANGED <<faults, workspace, seals, watch, applying>>

(***************************************************************************)
(* Plans: a guard asks which files a capture would read, screens them, and *)
(* seals exactly those.                                                    *)
(***************************************************************************)
\* plan_path: the stamps of the files there are.
Stamps(full, changed) == [p \in Paths |->
    IF (full \/ p \in changed) /\ Seen(rules, p) # 0 THEN disk[p] ELSE None]

CapturePlan(r, hint) == \E late \in 0..1 :
    LET tracked == IF r = "daemon" THEN TrackedChanges(Caught(r, FALSE, late)) ELSE None
        changed == IF hint # None THEN hint ELSE tracked
        full == Ruled(changed) \/ ~IndexMatchesHead(r, rules) IN
    /\ r \in Askable /\ cap[r].step = "idle" /\ seals < scenario.seals /\ seals' = seals + 1
    /\ ReadEvents(r, FALSE, late)
    /\ plan' = [head |-> head.id, policy |-> rules, full |-> full,
                changed |-> IF full THEN None ELSE changed,
                watched |-> hint = None /\ tracked # None,
                stamps |-> Stamps(full, changed)]
    /\ index' = Kept(r, Opened(r))
    /\ UNCHANGED <<workspace, store, cap, watch, applying, missed>>

\* seal_plan: the head and the rules are those of the plan, and what the
\* watcher has seen since is inside it.
SealPlan(r) == \E late \in 0..2 :
    LET t == Caught(r, plan.full, late) IN
    /\ r \in Askable /\ plan # None /\ \A other \in Repositories : cap[other].scope = None
    /\ plan.head = head.id /\ plan.policy = rules
    /\ (~plan.full /\ plan.watched) =>
           r = "daemon" /\ TrackedChanges(t) # None /\ TrackedChanges(t) \subseteq plan.changed
    /\ Begin(r, plan.changed, plan, t) /\ ReadEvents(r, plan.full, late)
    /\ UNCHANGED <<workspace, seals, store, index, watch, applying, plan, missed>>

(***************************************************************************)
(* `furrow watch`, and the pull whose writes it must not take for edits.   *)
(***************************************************************************)
Drain ==
    /\ watch.step = "idle" /\ cap["watch"].step = "idle"
    /\ pending["watch"] # {} \/ overflow["watch"]
    /\ watch' = [step |-> "filter", changed |-> {event[1] : event \in pending["watch"]},
                 overflowed |-> overflow["watch"]]
    /\ pending' = [pending EXCEPT !["watch"] = {}]
    /\ overflow' = [overflow EXCEPT !["watch"] = FALSE]
    /\ UNCHANGED <<faults, workspace, seals, store, index, cap, tracker, applying, plan, missed>>

\* Mutant: what a pull wrote once is never an edit.
FilterPaths(changed) == {p \in changed : p = Rules \/ (p \in Paths /\ baseline[p] = None)}

\* filter_events: a path whose file is the one the pull left is its own write.
FilterEvents(changed) ==
    {p \in changed : p = Rules \/ (p \in Paths /\ disk[p] # baseline[p])}

\* The round goes on once no live apply is active; filter_capture_paths drops
\* what the rules exclude.  A capture that fails is only reported, and the paths
\* it was for are forgotten.
Round == \E fails \in BOOLEAN :
    LET kept == {p \in FilterEvents(watch.changed) : p = Rules \/ ~(rules = 1 /\ p \in Ignored)} IN
    /\ watch.step = "filter" /\ active # "live"
    /\ active' = "none" /\ watch' = Quiet
    /\ Fault(fails)
    /\ missed' = missed \cup (IF ~fails THEN {}
                              ELSE IF watch.overflowed \/ Rules \in kept THEN Paths
                              ELSE kept)
    /\ IF fails \/ (kept = {} /\ ~watch.overflowed)
       THEN UNCHANGED cap
       ELSE Begin("watch", IF watch.overflowed THEN None ELSE kept, None, None)
    /\ UNCHANGED <<workspace, seals, store, index, tracker, events, baseline, pull, plan>>

PullBegin == \E S \in SUBSET Paths \ {{}} : \E target \in [S -> {0, Pulled}] :
    /\ scenario.pulls = 1 /\ pull.step = "idle"
    /\ \A p \in S : /\ disk[p] = head.root[p] /\ target[p] # disk[p]
                     /\ ~(rules = 1 /\ p \in Ignored)
    /\ active' = "live"
    /\ pull' = [step |-> "write", target |-> target, todo |-> S, from |-> head]
    /\ UNCHANGED <<faults, workspace, seals, store, index, cap, tracker, events, watch, baseline, plan, missed>>

PullWrite(p) ==
    /\ pull.step = "write" /\ p \in pull.todo /\ \A q \in pull.todo : p <= q
    /\ Write(p :> pull.target[p]) /\ pull' = [pull EXCEPT !.todo = @ \ {p}]
    /\ UNCHANGED <<scenario, rules, edits, seals, store, index, cap, tracker, watch, active, baseline, plan, missed>>

\* ApplyGuard::finish: the identities of what is there by now, an edit of what
\* was written included, then the end of the suppression.
PullFinish ==
    /\ pull.step = "write" /\ pull.todo = {}
    /\ baseline' = [p \in Paths |-> IF p \in DOMAIN pull.target THEN disk[p] ELSE None]
    /\ active' = "none" /\ pull' = [pull EXCEPT !.step = "publish"]
    /\ missed' = missed \cup {p \in DOMAIN pull.target : disk[p] # pull.target[p]}
    /\ UNCHANGED <<faults, workspace, seals, store, index, cap, tracker, events, watch, plan>>

\* The incoming snapshot becomes the head; paths.head is not rewritten.
PullPublish ==
    /\ pull.step = "publish" /\ pull' = [NoPull EXCEPT !.step = "done"]
    /\ head' = [id |-> head.id + 1, rules |-> pull.from.rules,
                root |-> [p \in Paths |-> IF p \in DOMAIN pull.target THEN pull.target[p]
                                         ELSE pull.from.root[p]]]
    /\ overtaken' = (overtaken \/ pull.from.id # head.id)
    /\ UNCHANGED <<faults, workspace, seals, token, index, cap, tracker, events, watch, active, baseline, plan, missed>>

\* The transfer fails and what was written is put back, or the process dies.
PullAbort ==
    /\ pull.step = "write" /\ pull' = [NoPull EXCEPT !.step = "done"]
    /\ \/ /\ active' = "none"
          /\ Write([p \in DOMAIN pull.target \ pull.todo |-> pull.from.root[p]])
       \/ active' = "dead" /\ Fault(TRUE) /\ UNCHANGED <<disk, events>>
    /\ UNCHANGED <<scenario, rules, edits, seals, store, index, cap, tracker, watch, baseline, plan, missed>>

(***************************************************************************)
(* The specification.  The watcher's thread, a capture that has begun and  *)
(* a pull that has begun go on.                                            *)
(***************************************************************************)
Capture(r) == Choose(r) \/ Publish(r) \/ \E p \in Paths : CapturePath(r, p)
Pull == PullFinish \/ PullPublish \/ PullAbort \/ \E p \in Paths : PullWrite(p)

Next ==
    \/ EditRules \/ Restart \/ Drain \/ Round \/ PullBegin \/ Pull
    \/ \E p \in Paths : Edit(p)
    \/ \E r \in Repositories : SealPlan(r) \/ Capture(r)
    \/ \E r \in Repositories, hint \in {None} \cup {{p} : p \in Paths} :
           Seal(r, hint) \/ CapturePlan(r, hint)

Fairness == WF_vars(Drain) /\ WF_vars(Round) /\ WF_vars(Capture("watch")) /\ WF_vars(Pull)

Spec == Init /\ [][Next]_vars /\ Fairness
(***************************************************************************)
(* Properties.                                                             *)
(***************************************************************************)
\* When the daemon's next unhinted capture would confine itself to the paths
\* its tracker names (tracked_changes answers Some, and the index is the
\* head's), every other file is in the head as it is in the tree, whoever
\* sealed, wrote, overflowed the queue or changed the rules meanwhile.
TrackedComplete ==
    LET t == CatchUp(tracker, FALSE) IN
    /\ cap["daemon"].step = "idle" /\ TrackedChanges(t) # None
    /\ IndexMatchesHead("daemon", rules)
    => \A p \in Paths \ t.dirty : head.root[p] = Visible[p]

\* A capture made through a plan publishes no file content the plan's caller
\* did not screen: each entry is the file with the stamp the plan recorded, or,
\* when the plan named paths, an entry of the sealed tree its index was
\* (seal_plan).
ScreenedOnly == [][
    \A r \in Repositories :
        LET c == cap[r] IN
        c.scope # None /\ cap'[r].step = "idle" /\ head' # head =>
            \A p \in Paths : \/ head'.root[p] \in {0, c.scope.stamps[p]}
                             \/ ~c.full /\ head'.root[p] = index[r][p]]_vars

\* `furrow watch` protects continuously: once people stop, each file of the head
\* becomes and stays that of the tree, unless a capture was published over a head
\* it did not start from.  The files it lets go by are those of a capture that
\* failed, those edited between a pull's write and its end, and those that are
\* removed once more after a pull removed them, until something captures them; no
\* other event is lost (filter_events, run).
Protected == "watch" \in scenario.running =>
    <>[](overtaken \/ \A p \in Paths \ missed : head.root[p] = Visible[p])

\* The same of every file, which a second removal breaks (VStaleBaseline.cfg).
ProtectedAlways == "watch" \in scenario.running => <>[](overtaken \/ head.root = Visible)
=============================================================================
