-------------------------------- MODULE Sync --------------------------------
(* Two-way synchronisation of one workspace between machines through a remote
   that holds objects, a head and a writer lease: sync.rs, remote.rs,
   s3_remote.rs, and push, pull and follow of repository.rs.

   A machine runs one sync command at a time; its person edits and its sealer
   captures at any time. A directory or SSH remote has a writer lock; S3 has
   none and compares the head's ETag instead. A file's content is the number
   of the edit that wrote it, 0 at first. Named refs are separate remotes;
   encryption is left out. *)
EXTENDS Integers, Sequences, FiniteSets

CONSTANTS
    None,
    Machines,
    NumPaths,
    Transports,     \* what the remote can be: "directory", "ssh", "s3"
    MaxEdits,
    MaxEvents       \* commands of the person, collections and faults

Paths == 1..NumPaths
Contents == 0..MaxEdits
Trees == [Paths -> Contents]

ASSUME ConstantsAssumption ==
    /\ NumPaths \in Nat \ {0} /\ MaxEdits \in Nat /\ MaxEvents \in Nat
    /\ Transports \subseteq {"directory", "ssh", "s3"}
    /\ None \notin Machines

(* A missing head, state or intent is no other value of its field. *)
ASSUME NoneIsApart ==
    /\ None \notin Trees
    /\ None \notin [remote : Trees, local : Trees]
    /\ None \notin [pre : Trees, target : Trees]
    /\ None \notin [root : Trees, base : Trees \cup {None}]

VARIABLES
    transport,
    tree,           \* the working tree of each machine
    head,           \* its sealed head
    state,          \* sync/state.json: the roots reconciled last
    incoming,       \* sync/incoming.json
    intent,         \* restore.intent of a pull
    objects,        \* contents in each machine's store
    job,            \* the sync command of each machine
    told,           \* the machine's last pull reported divergence
    remote,         \* head, objects, lease; current: whose ETag is the head's
    lock,           \* the remote's writer lock
    past,           \* history: what each edit was made upon
    sealed,         \* history: contents that some snapshot holds
    exposed,        \* history: contents written when nothing would look again
    races,          \* history: the orders of steps in Race that have happened
    events

machine == <<tree, head, state, incoming, intent, objects, job, told>>
history == <<exposed, races>>
vars == <<transport, machine, remote, lock, past, sealed, history, events>>

(* The orders of steps that break a promise: a machine dies between the
   publication of a pulled head and the removal of restore.intent (publish), a
   pull fails after its last file (finish), another command captures a tree that
   is half pulled (seal), the remote's power fails over unflushed pointers
   (pointer). *)
Race == {"publish", "finish", "seal", "pointer"}

When(race, happens) == IF happens THEN {race} ELSE {}

Held(t) == {t[p] : p \in Paths}
Differ(a, b) == {p \in Paths : a[p] # b[p]}

Idle == [at |-> "idle", local |-> None, seen |-> None,
         takeover |-> FALSE, bootstrap |-> FALSE, todo |-> {}]
Down == [Idle EXCEPT !.at = "down"]

Init ==
    /\ transport \in Transports
    /\ LET first == [p \in Paths |-> 0]
       IN  tree = [m \in Machines |-> first] /\ head = tree
    /\ state = [m \in Machines |-> None] /\ incoming = state /\ intent = state
    /\ objects = [m \in Machines |-> {0}]
    /\ job = [m \in Machines |-> Idle]
    /\ told = [m \in Machines |-> FALSE]
    /\ remote = [head |-> None, objects |-> {}, fresh |-> {}, torn |-> {},
                 lease |-> None, current |-> {}]
    /\ lock = None /\ past = <<>> /\ sealed = {0}
    /\ exposed = {} /\ races = {} /\ events = 0

-----------------------------------------------------------------------------
(* The machine outside of a sync command *)

(* The files a pull replaces *)
Plan(m) == Differ(job[m].local, job[m].seen.root)

(* Nothing looks at a planned file again before it is replaced or rolled back,
   nor at any file between an interrupted pull and the open that rolls it
   back. *)
Unwatched(m, p) ==
    \/ job[m].at = "apply" /\ p \in Plan(m)
    \/ job[m].at = "down" /\ intent[m] # None

Edit(m, p) ==
    LET old == tree[m][p]
        new == Len(past) + 1
    IN  /\ Len(past) < MaxEdits
        /\ tree' = [tree EXCEPT ![m][p] = new]
        /\ past' = Append(past, IF old = 0 THEN {0} ELSE past[old] \cup {old})
        /\ exposed' = exposed \cup (IF Unwatched(m, p) THEN {new} ELSE {})
        /\ UNCHANGED <<transport, head, state, incoming, intent, objects, job, told, remote,
                       lock, sealed, races, events>>

(* A capture does not wait for a pull. The sealer is not told of the files the
   pull writes (module Tracking), so they stay as they are in the head. *)
Applying(m) == job[m].at \in {"apply", "drained", "adopt", "published"} /\ intent[m] # None

Captured(m) ==
    [p \in Paths |-> IF Applying(m) /\ p \in Plan(m) THEN head[m][p] ELSE tree[m][p]]

Sealing(m, t) ==
    /\ head' = [head EXCEPT ![m] = t]
    /\ objects' = [objects EXCEPT ![m] = @ \cup Held(t)]
    /\ sealed' = sealed \cup Held(t)

Seal(m) ==
    /\ job[m].at # "down" /\ Captured(m) # head[m]
    /\ Sealing(m, Captured(m))
    /\ UNCHANGED <<transport, tree, state, incoming, intent, job, told, remote, lock, past,
                   history, events>>

(* A command of the person, a collection, a fault *)
Event == events < MaxEvents /\ events' = events + 1

(* Another command of the machine scans all files, also those half pulled. *)
SealAll(m) ==
    /\ Event
    /\ Applying(m) /\ tree[m] # Captured(m)
    /\ Sealing(m, tree[m])
    /\ races' = races \cup {"seal"}
    /\ UNCHANGED <<transport, tree, state, incoming, intent, job, told, remote, lock, past,
                   exposed>>

(* Mutant: the lock is given back before incoming.json is written. *)
MaintainedToFinish(m) == job[m].at \in {"fetched", "apply"}

(* A collection keeps what the head, the intent and incoming.json name, and
   the snapshot a running command began with, which is recent (module
   Retention); all others may have been thinned. A pull holds the maintenance
   lock from its first import to incoming.json. *)
Maintained(m) == job[m].at \in {"fetched", "apply", "drained"}

Roots(m) ==
    ({head[m], incoming[m], job[m].local}
        \cup (IF intent[m] = None THEN {} ELSE {intent[m].pre, intent[m].target})) \ {None}

Collect(m) ==
    /\ Event
    /\ job[m].at # "down" /\ ~Maintained(m)
    /\ objects' = [objects EXCEPT ![m] = @ \cap UNION {Held(t) : t \in Roots(m)}]
    /\ objects' # objects
    /\ UNCHANGED <<transport, tree, head, state, incoming, intent, job, told, remote, lock, past,
                   sealed, history>>

(* pair: the same remote again *)
Pair(m) ==
    /\ job[m].at = "idle" /\ state[m] # None
    /\ Event
    /\ state' = [state EXCEPT ![m] = None]
    /\ UNCHANGED <<transport, tree, head, incoming, intent, objects, job, told, remote, lock, past,
                   sealed, history>>

-----------------------------------------------------------------------------
(* Push *)

Locking == transport # "s3"
LockFree == Locking => lock = None
Return(m) == job' = [job EXCEPT ![m] = Idle]
Unlock(m) == lock' = IF lock = m THEN None ELSE lock

(* The machines whose ETag is the one of the head; only S3 has them. *)
ETag(who) == IF Locking THEN {} ELSE who
NoteETag(m) == [remote EXCEPT !.current = @ \cup ETag({m})]

(* sync_push_on up to begin_writer: the snapshot, and the lock or the ETag *)
BeginPush(m, takeover) ==
    /\ Sealing(m, tree[m])
    /\ IF ~LockFree
       THEN Return(m) /\ UNCHANGED <<lock, remote>>
       ELSE /\ lock' = IF Locking THEN m ELSE lock
            /\ remote' = NoteETag(m)
            /\ job' = [job EXCEPT ![m] = [Idle EXCEPT !.at = "locked", !.local = tree[m],
                                          !.takeover = takeover]]
    /\ UNCHANGED <<transport, tree, state, incoming, intent, told, past, history>>

Push(m, takeover) == job[m].at = "idle" /\ Event /\ BeginPush(m, takeover)

(* The check of the expected head, and prepare_writer_lease: the lease of
   another machine may have expired. A head with the same files may be the very
   snapshot that is pushed. *)
ExpectedHead(m) ==
    IF remote.head = None THEN state[m] = None
    ELSE state[m] # None /\ remote.head.root = state[m].remote

SameSnapshot(m) == remote.head # None /\ remote.head.root = job[m].local

Leased(m) == remote.lease \notin {None, m} /\ ~job[m].takeover

PushCheck(m) ==
    /\ job[m].at = "locked" /\ (ExpectedHead(m) \/ SameSnapshot(m))
    /\ remote' = [remote EXCEPT !.lease = m]
    /\ job' = [job EXCEPT ![m].at = "upload", ![m].seen = remote.head]
    /\ UNCHANGED <<transport, tree, head, state, incoming, intent, objects, told, lock, past,
                   sealed, events, history>>

PushRefused(m) ==
    /\ job[m].at = "locked" /\ (Leased(m) \/ ~ExpectedHead(m))
    /\ Return(m) /\ Unlock(m)
    /\ UNCHANGED <<transport, tree, head, state, incoming, intent, objects, told, remote, past,
                   sealed, events, history>>

(* What the remote says it does not have *)
Missing(m) == Held(job[m].local) \ remote.objects

(* The SSH helper packs objects into a flushed frame and leaves the files that
   point into it unflushed. *)
Unflushed(c) == IF transport = "ssh" THEN {c} ELSE {}

PushUpload(m, c) ==
    /\ job[m].at = "upload"
    /\ c \in Missing(m) \cap objects[m]
    /\ remote' = [remote EXCEPT !.objects = @ \cup {c}, !.fresh = @ \cup Unflushed(c)]
    /\ UNCHANGED <<transport, machine, lock, past, sealed, events, history>>

(* Mutant: the head is put without a condition. *)
MayReplaceAlways(m) == m \in Machines

(* The head is written under the lock, or if its ETag is the one noted. *)
MayReplace(m) == Locking \/ m \in remote.current

PushHead(m) ==
    /\ job[m].at = "upload" /\ Missing(m) = {}
    /\ IF MayReplace(m)
       THEN /\ remote' = [remote EXCEPT
                   !.head = [root |-> job[m].local,
                             base |-> IF job[m].seen = None THEN None ELSE job[m].seen.root],
                   !.current = ETag({m})]
            /\ job' = [job EXCEPT ![m].at = "pushed"]
       ELSE Return(m) /\ UNCHANGED remote
    /\ UNCHANGED <<transport, tree, head, state, incoming, intent, objects, told, lock, past,
                   sealed, events, history>>

Synced(m, r, l) == state' = [state EXCEPT ![m] = [remote |-> r, local |-> l]]

PushEnd(m) ==
    /\ job[m].at = "pushed"
    /\ Synced(m, job[m].local, job[m].local)
    /\ told' = [told EXCEPT ![m] = FALSE]
    /\ Unlock(m) /\ Return(m)
    /\ UNCHANGED <<transport, tree, head, incoming, intent, objects, remote, past, sealed, events, history>>

-----------------------------------------------------------------------------
(* Pull *)

(* A command seals first; follow takes the head as it is. Then the remote's
   head and its skeleton of trees are read. *)
BeginPull(m, local, bootstrap) ==
    IF remote.head = None THEN Return(m)
    ELSE job' = [job EXCEPT ![m] = [Idle EXCEPT !.at = "fetched", !.local = local,
                                    !.seen = remote.head, !.bootstrap = bootstrap]]

Pull(m, bootstrap) ==
    /\ job[m].at = "idle" /\ Event
    /\ Sealing(m, tree[m])
    /\ BeginPull(m, tree[m], bootstrap)
    /\ UNCHANGED <<transport, tree, state, incoming, intent, told, remote, lock, past, history>>

Readable == remote.objects \ remote.torn
Available(m) == objects[m] \cup Readable

Matches(m) == job[m].local = job[m].seen.root

FollowsPrior(m) ==
    /\ state[m] # None /\ job[m].seen.base = state[m].remote
    /\ state[m].local = job[m].local

CanFastForward(m) ==
    job[m].seen.base = job[m].local \/ FollowsPrior(m) \/ job[m].bootstrap

FastForward(m) == ~Matches(m) /\ CanFastForward(m)

(* Mutant: the head is compared instead of the files. *)
VerifiedByHead(m) == head[m] = job[m].local

(* verify_plan_state *)
Verified(m) == \A p \in Plan(m) : tree[m][p] = job[m].local[p]

(* The plan, its verification and restore.intent *)
PullArm(m) ==
    /\ job[m].at = "fetched" /\ FastForward(m)
    /\ IF Verified(m)
       THEN /\ intent' = [intent EXCEPT ![m] = [pre |-> job[m].local, target |-> job[m].seen.root]]
            /\ job' = [job EXCEPT ![m].at = "apply", ![m].todo = Plan(m)]
       ELSE Return(m) /\ UNCHANGED intent
    /\ UNCHANGED <<transport, tree, head, state, incoming, objects, told, remote, lock, past,
                   sealed, events, history>>

(* Each file's objects are fetched just before it is written. *)
PullWrite(m, p) ==
    LET c == job[m].seen.root[p]
    IN  /\ job[m].at = "apply" /\ p \in job[m].todo
        /\ c \in Available(m)
        /\ objects' = [objects EXCEPT ![m] = @ \cup {c}]
        /\ tree' = [tree EXCEPT ![m][p] = c]
        /\ job' = [job EXCEPT ![m].todo = @ \ {p}]
        /\ UNCHANGED <<transport, head, state, incoming, intent, told, remote, lock, past, sealed,
                       events, history>>

(* StreamingPull::finish: at once when no file is to be written *)
PullFinish(m) ==
    /\ \/ job[m].at = "fetched" /\ ~FastForward(m)
       \/ job[m].at = "apply" /\ job[m].todo = {}
    /\ Held(job[m].seen.root) \subseteq Available(m)
    /\ objects' = [objects EXCEPT ![m] = @ \cup Held(job[m].seen.root)]
    /\ job' = [job EXCEPT ![m].at = "drained"]
    /\ UNCHANGED <<transport, tree, head, state, incoming, intent, told, remote, lock, past, sealed,
                   events, history>>

(* write_sync_incoming; a divergence ends here *)
PullIncoming(m) ==
    /\ job[m].at = "drained"
    /\ incoming' = [incoming EXCEPT ![m] = job[m].seen.root]
    /\ job' = [job EXCEPT ![m] = CASE FastForward(m) -> [@ EXCEPT !.at = "adopt"]
                                   [] Matches(m)     -> [@ EXCEPT !.at = "settle"]
                                   [] OTHER          -> Idle]
    /\ told' = [told EXCEPT ![m] = @ \/ (~Matches(m) /\ ~CanFastForward(m))]
    /\ UNCHANGED <<transport, tree, head, state, intent, objects, remote, lock, past, sealed,
                   events, history>>

PullPublish(m) ==
    /\ job[m].at = "adopt"
    /\ head' = [head EXCEPT ![m] = job[m].seen.root]
    /\ sealed' = sealed \cup Held(job[m].seen.root)
    /\ job' = [job EXCEPT ![m].at = "published"]
    /\ UNCHANGED <<transport, tree, state, incoming, intent, objects, told, remote, lock, past,
                   events, history>>

PullDisarm(m) ==
    /\ job[m].at = "published"
    /\ intent' = [intent EXCEPT ![m] = None]
    /\ job' = [job EXCEPT ![m].at = "settle"]
    /\ UNCHANGED <<transport, tree, head, state, incoming, objects, told, remote, lock, past,
                   sealed, events, history>>

(* Mutant: the head is read again. *)
ReconciledHead(m) == head[m]

(* write_sync_state, with the tree that was reconciled and not with the head
   of now *)
Reconciled(m) == job[m].seen.root

PullSettle(m) ==
    /\ job[m].at = "settle"
    /\ Synced(m, job[m].seen.root, Reconciled(m))
    /\ told' = [told EXCEPT ![m] = FALSE]
    /\ job' = [job EXCEPT ![m].at = "clear"]
    /\ UNCHANGED <<transport, tree, head, incoming, intent, objects, remote, lock, past, sealed,
                   events, history>>

PullClear(m) ==
    /\ job[m].at = "clear"
    /\ incoming' = [incoming EXCEPT ![m] = None]
    /\ Return(m)
    /\ UNCHANGED <<transport, tree, head, state, intent, objects, told, remote, lock, past, sealed,
                   events, history>>

-----------------------------------------------------------------------------
(* Follow: the remote's root is read first, then the head and the state. *)

Follow(m) ==
    /\ job[m].at = "idle"
    /\ job' = [job EXCEPT ![m] = [Idle EXCEPT !.at = "follow", !.seen = remote.head]]
    /\ UNCHANGED <<transport, tree, head, state, incoming, intent, objects, told, remote, lock,
                   past, sealed, events, history>>

Reached(m) == state[m] # None /\ state[m].remote = job[m].seen.root
MatchesSynced(m) == state[m] # None /\ state[m].local = head[m]
Unpaired(m) == state[m] = None /\ head[m] = job[m].seen.root

FollowIdle(m) ==
    /\ job[m].at = "follow" /\ job[m].seen # None
    /\ \/ Reached(m) /\ MatchesSynced(m) /\ UNCHANGED state
       \/ Unpaired(m) /\ Synced(m, job[m].seen.root, head[m])
    /\ Return(m)
    /\ UNCHANGED <<transport, tree, head, incoming, intent, objects, told, remote, lock, past,
                   sealed, events, history>>

FollowPush(m) ==
    /\ job[m].at = "follow"
    /\ job[m].seen # None => Reached(m) /\ ~MatchesSynced(m)
    /\ BeginPush(m, TRUE)
    /\ UNCHANGED events

FollowPull(m) ==
    /\ job[m].at = "follow" /\ job[m].seen # None
    /\ ~Reached(m) /\ ~Unpaired(m)
    /\ BeginPull(m, head[m], FALSE)
    /\ UNCHANGED <<transport, tree, head, state, incoming, intent, objects, told, remote, lock,
                   past, sealed, events, history>>

-----------------------------------------------------------------------------
(* Faults *)

(* A request to the remote, or its answer, is lost. While files are written
   the pull rolls them back; in finish, after the last file, it returns and
   leaves restore.intent behind. *)
Fail(m) ==
    /\ Event
    /\ job[m].at \in {"locked", "upload", "pushed", "fetched", "apply"}
    /\ IF job[m].at = "apply" /\ job[m].todo # {}
       THEN /\ tree' = [tree EXCEPT ![m] = [p \in Paths |-> IF p \in Plan(m) THEN intent[m].pre[p]
                                                            ELSE tree[m][p]]]
            /\ intent' = [intent EXCEPT ![m] = None]
       ELSE UNCHANGED <<tree, intent>>
    /\ races' = races \cup When("finish", job[m].at = "apply" /\ job[m].todo = {})
    /\ Unlock(m) /\ Return(m)
    /\ UNCHANGED <<transport, head, state, incoming, objects, told, remote, past, sealed, exposed>>

(* Every process of the machine dies. What no snapshot holds is exposed to the
   rollback of an interrupted pull, which goes back behind a head that is the
   pulled one. *)
Crash(m) ==
    /\ Event
    /\ job[m].at # "down"
    /\ exposed' = exposed \cup (IF intent[m] = None THEN {} ELSE Held(tree[m]) \ sealed)
    /\ races' = races \cup When("publish", intent[m] # None /\ head[m] = intent[m].target)
    /\ job' = [job EXCEPT ![m] = Down]
    /\ Unlock(m)
    /\ UNCHANGED <<transport, tree, head, state, incoming, intent, objects, told, remote, past,
                   sealed>>

(* The next open, with recover_interrupted_rewind *)
Open(m) ==
    /\ job[m].at = "down"
    /\ tree' = [tree EXCEPT ![m] = IF intent[m] = None THEN @ ELSE intent[m].pre]
    /\ intent' = [intent EXCEPT ![m] = None]
    /\ Return(m)
    /\ UNCHANGED <<transport, head, state, incoming, objects, told, remote, lock, past, sealed,
                   events, history>>

(* The remote loses its power and its sessions end. Files that were not flushed
   may be there and empty. *)
RemoteCrash ==
    /\ Event /\ Locking
    /\ \E torn \in SUBSET remote.fresh :
        /\ races' = races \cup When("pointer", torn # {})
        /\ remote' = [remote EXCEPT !.fresh = {}, !.torn = @ \cup torn]
    /\ lock' = None
    /\ job' = [m \in Machines |-> IF job[m].at \in {"locked", "upload", "pushed"} THEN Idle
                                  ELSE job[m]]
    /\ UNCHANGED <<transport, tree, head, state, incoming, intent, objects, told, past, sealed,
                   exposed>>

-----------------------------------------------------------------------------
Step(m) ==
    \/ PushCheck(m) \/ PushRefused(m) \/ PushHead(m) \/ PushEnd(m)
    \/ \E c \in Contents : PushUpload(m, c)
    \/ PullArm(m) \/ PullFinish(m) \/ PullIncoming(m) \/ PullPublish(m)
    \/ PullDisarm(m) \/ PullSettle(m) \/ PullClear(m)
    \/ \E p \in Paths : PullWrite(m, p)
    \/ Follow(m) \/ FollowIdle(m) \/ FollowPush(m) \/ FollowPull(m)

Next ==
    \/ \E m \in Machines :
        \/ Step(m) \/ Seal(m) \/ SealAll(m) \/ Collect(m) \/ Pair(m) \/ Fail(m) \/ Crash(m) \/ Open(m)
        \/ \E p \in Paths : Edit(m, p)
        \/ \E flag \in BOOLEAN : Push(m, flag) \/ Pull(m, flag)
    \/ RemoteCrash

(* A follow command keeps running on every machine, its sealer too, and a
   machine that went down is started again. *)
Fairness ==
    \A m \in Machines : WF_vars(Step(m)) /\ WF_vars(Seal(m)) /\ WF_vars(Open(m))

Spec == Init /\ [][Next]_vars /\ Fairness

-----------------------------------------------------------------------------
(* Properties *)

MaybeTree == Trees \cup {None}

(* The writer lock is held by whoever publishes, and by nobody else. *)
TypeOK ==
    /\ tree \in [Machines -> Trees] /\ head \in [Machines -> Trees]
    /\ state \in [Machines -> [remote : Trees, local : Trees] \cup {None}]
    /\ incoming \in [Machines -> MaybeTree]
    /\ intent \in [Machines -> [pre : Trees, target : Trees] \cup {None}]
    /\ objects \in [Machines -> SUBSET Contents]
    /\ remote.head = None \/ (remote.head.root \in Trees /\ remote.head.base \in MaybeTree)
    /\ lock \in Machines \cup {None}
    /\ lock # None => job[lock].at \in {"locked", "upload", "pushed"}
    /\ exposed \subseteq Contents /\ races \subseteq Race

(* The head of the remote can be pulled: every object it names is there and
   whole, unless the remote's power failed over unflushed pointers. And whatever
   a machine's head, incoming.json or the snapshot a rollback goes back to names
   survives every collection, whatever has happened. *)
Complete ==
    /\ remote.head # None /\ "pointer" \notin races => Held(remote.head.root) \subseteq Readable
    /\ \A m \in Machines :
        /\ Held(head[m]) \subseteq objects[m]
        /\ incoming[m] # None => Held(incoming[m]) \subseteq objects[m]
        /\ intent[m] # None => Held(intent[m].pre) \subseteq objects[m]

(* A push never takes back what another machine published: each file of the
   remote's head is left alone, or replaced by an edit made upon it. The
   races publish, finish and seal break this, and nothing else does. *)
RemoteKept ==
    [][remote.head # None /\ races' \subseteq {"pointer"} =>
        \A p \in Paths :
            LET was == remote.head.root[p]
                new == remote'.head.root[p]
            IN  was # new => new # 0 /\ was \in past[new]]_vars

(* Neither pull, follow, rollback nor recovery replaces a file whose content
   no snapshot holds; only the person does. The exception is what was written
   when nothing would look again, or was not captured when a pull was cut off by
   a crash. *)
LocalKept ==
    [][past' = past =>
        \A m \in Machines : \A p \in Differ(tree[m], tree'[m]) :
            tree[m][p] \in sealed \cup exposed]_vars

(* Once the edits, commands and faults are over, every machine that follows
   ends with the remote's tree, or has been told of a divergence. *)
Settles ==
    <>[](\A m \in Machines : told[m] \/ (remote.head # None /\ tree[m] = remote.head.root))
=============================================================================
