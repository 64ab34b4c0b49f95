----------------------------- MODULE SyncProofs -----------------------------
(***************************************************************************)
(* Theorems about Sync, for any number of machines, files, edits, commands *)
(* and faults and for every transport: what the remote serves is complete, *)
(* no pull overwrites a file that no snapshot holds, and no push takes     *)
(* back what another machine published.                                    *)
(***************************************************************************)
EXTENDS Sync, TLAPS

-----------------------------------------------------------------------------
(* The inductive invariant, part 1: whatever has happened *)

Pushing == {"locked", "upload", "pushed"}
Restoring == {"apply", "drained", "adopt", "published"}
Pulling == Restoring \cup {"fetched", "settle", "clear"}
Stages == Pushing \cup Pulling \cup {"idle", "follow", "down"}

Heads == [root : Trees, base : MaybeTree]
Jobs == [at : Stages, local : MaybeTree, seen : Heads \cup {None}, takeover : BOOLEAN,
         bootstrap : BOOLEAN, todo : SUBSET Paths]
Remotes == [head : Heads \cup {None}, objects : SUBSET Contents, fresh : SUBSET Contents,
            torn : SUBSET Contents, lease : Machines \cup {None}, current : SUBSET Machines]

Typed ==
    /\ transport \in Transports
    /\ tree \in [Machines -> Trees] /\ head \in [Machines -> Trees]
    /\ state \in [Machines -> [remote : Trees, local : Trees] \cup {None}]
    /\ incoming \in [Machines -> MaybeTree]
    /\ intent \in [Machines -> [pre : Trees, target : Trees] \cup {None}]
    /\ objects \in [Machines -> SUBSET Contents]
    /\ job \in [Machines -> Jobs]
    /\ remote \in Remotes
    /\ lock \in Machines \cup {None}
    /\ past \in Seq(SUBSET Contents) /\ Len(past) <= MaxEdits
    /\ sealed \subseteq Contents

(* A command has read what its stage needs. *)
Staged(m) ==
    /\ job[m].at \in Pushing \cup Pulling => job[m].local # None
    /\ job[m].at \in Pulling => job[m].seen # None
    /\ job[m].at = "apply" =>
        /\ job[m].todo \subseteq Plan(m)
        /\ intent[m] # None /\ intent[m].pre = job[m].local

(* The lock is held by the machine that pushes. *)
LockOK ==
    /\ lock # None => Locking /\ job[lock].at \in Pushing
    /\ \A m \in Machines : Locking /\ job[m].at \in Pushing => lock = m

In(t, set) == \A p \in Paths : t[p] \in set
HeadIn(h, set) == h # None => In(h.root, set) /\ (h.base # None => In(h.base, set))

(* What a collection must leave in the store. *)
Kept(m) ==
    /\ In(head[m], objects[m])
    /\ incoming[m] # None => In(incoming[m], objects[m])
    /\ intent[m] # None => In(intent[m].pre, objects[m])
    /\ job[m].local # None => In(job[m].local, objects[m])
    /\ job[m].at = "drained" => In(job[m].seen.root, objects[m])
    /\ job[m].at \in {"adopt", "published", "settle", "clear"} => incoming[m] = job[m].seen.root

(* All but the working trees hold sealed contents only. *)
Known == 0..Len(past)

Sources(m) ==
    /\ In(tree[m], Known) /\ In(head[m], sealed)
    /\ state[m] # None => In(state[m].remote, sealed) /\ In(state[m].local, sealed)
    /\ intent[m] # None => In(intent[m].pre, sealed) /\ In(intent[m].target, sealed)
    /\ job[m].local # None => In(job[m].local, sealed)
    /\ HeadIn(job[m].seen, sealed)

SealedOK == sealed \subseteq Known /\ HeadIn(remote.head, sealed) /\ \A m \in Machines : Sources(m)

(* What an edit was made upon is older and closed under "made upon". *)
PastOK ==
    \A i \in 1..Len(past) :
        /\ past[i] \subseteq 0..(i - 1)
        /\ \A j \in past[i] : j # 0 => past[j] \subseteq past[i]

BInv ==
    /\ Typed /\ LockOK /\ SealedOK /\ PastOK
    /\ \A m \in Machines : Staged(m) /\ Kept(m)

-----------------------------------------------------------------------------
(* Part 2: the remote's head, until its power fails over unflushed pointers *)

Whole ==
    /\ remote.head # None => In(remote.head.root, remote.objects)
    /\ remote.torn = {}

(* Part 3: what a pull is about to replace, and what a rollback will *)

Saved(c) == c \in sealed \cup exposed

Written(m) ==
    /\ job[m].at = "apply" => \A p \in Plan(m) : Saved(tree[m][p])
    /\ job[m].at = "down" /\ intent[m] # None => \A p \in Paths : Saved(tree[m][p])

WInv == \A m \in Machines : Written(m)

-----------------------------------------------------------------------------
(* Part 4: who knows which content, until one of the races other than pointer *)

(* Content b is a, or an edit made upon it; tree t is so in each file. *)
Upon(a, b) == a = b \/ (b \in 1..Len(past) /\ a \in past[b])
Above(s, t) == \A p \in Paths : Upon(s[p], t[p])

Lacks(t, c) == \A p \in Paths : t[p] # c
HeadLacks(h, c) == h # None => Lacks(h.root, c) /\ (h.base # None => Lacks(h.base, c))

(* Machine q has not got content c of machine m, and is not pushing it. *)
Free(m, q, c) ==
    /\ state[q] # None => Lacks(state[q].remote, c)
    /\ HeadLacks(job[q].seen, c)
    /\ job[q].local # None /\ (q # m \/ job[q].at \in Pushing) => Lacks(job[q].local, c)
    /\ q # m => /\ Lacks(tree[q], c) /\ Lacks(head[q], c)
                /\ intent[q] # None => Lacks(intent[q].pre, c)

(* Content c was written on m and has never been published. *)
Private(m, c) ==
    c \in Known /\ HeadLacks(remote.head, c) /\ \A q \in Machines : Free(m, q, c)

(* b is a, or m's own unpublished edit (made upon it). *)
Own(m, a, b) == b = a \/ (Private(m, b) /\ Upon(a, b))
Grown(m, s, t) == \A p \in Paths : Own(m, s[p], t[p])
Loose(m, s, t) == \A p \in Paths : t[p] = s[p] \/ Private(m, t[p])
Stray(m, t) == \E p \in Paths : Private(m, t[p])

(* Tree t takes back nothing of what the machine reconciled last. *)
Base(m, t) == state[m] # None => Above(state[m].remote, t)
Mine(m) == Grown(m, head[m], tree[m]) /\ Base(m, head[m])

(* Between the restores of a pull the working tree is above the reconciled
   root. The head is between the two, or a rollback went back behind it; then
   it holds content that was never published, and no pull fast-forwards from it. *)
AtRest(m) ==
    \/ job[m].at \in Pushing \cup {"idle", "follow", "fetched", "clear"}
    \/ job[m].at \in {"drained", "down"} /\ intent[m] = None

Rest(m) == AtRest(m) => Base(m, tree[m]) /\ (Stray(m, head[m]) \/ Mine(m))

Publishing(m) ==
    job[m].at \in Pushing =>
        Mine(m) /\ Above(job[m].local, head[m]) /\ Base(m, job[m].local)

Comparing(m) == job[m].at = "fetched" \/ (job[m].at = "drained" /\ intent[m] = None)

Good(m) ==
    /\ Grown(m, job[m].local, tree[m]) /\ Grown(m, job[m].local, head[m])
    /\ Base(m, job[m].local)

Fetching(m) ==
    Comparing(m) => (~job[m].bootstrap /\ Stray(m, job[m].local)) \/ Good(m)

Intents(m) ==
    /\ state[m] # None => state[m].local = state[m].remote
    /\ intent[m] # None => job[m].at \in Restoring \cup {"down"}
    /\ job[m].at \in {"apply", "adopt", "published"} => intent[m] # None
    /\ job[m].at = "apply" => FastForward(m)
    /\ job[m].at = "drained" => (FastForward(m) <=> intent[m] # None)

(* While a pull writes, the tree goes from the local root to the remote's and
   keeps the edits made meanwhile. *)
Restores(m) ==
    job[m].at \in Restoring /\ intent[m] # None =>
        /\ intent[m].pre = job[m].local /\ intent[m].target = job[m].seen.root
        /\ Base(m, job[m].local)
        /\ job[m].at # "published" => Loose(m, job[m].local, head[m])
        /\ job[m].at = "apply" =>
            \A p \in Paths : p \notin job[m].todo => Own(m, job[m].seen.root[p], tree[m][p])
        /\ job[m].at \in {"drained", "adopt"} => Grown(m, job[m].seen.root, tree[m])
        /\ job[m].at = "published" =>
            Grown(m, job[m].seen.root, head[m]) /\ Grown(m, head[m], tree[m])

Settling(m) ==
    job[m].at = "settle" =>
        /\ Above(job[m].seen.root, tree[m])
        /\ \/ Stray(m, head[m])
           \/ Grown(m, head[m], tree[m]) /\ Above(job[m].seen.root, head[m])

Fallen(m) ==
    job[m].at = "down" /\ intent[m] # None =>
        Base(m, intent[m].pre) /\ (Stray(m, head[m]) \/ head[m] = intent[m].pre)

OwnOK(m) ==
    /\ Rest(m) /\ Publishing(m) /\ Fetching(m) /\ Intents(m)
    /\ Restores(m) /\ Settling(m) /\ Fallen(m)

(* The remote's head only moves up: it is above whatever was read of it. *)
Below(t) == remote.head # None /\ Above(t, remote.head.root)

Ascending(m) ==
    /\ state[m] # None => Below(state[m].remote)
    /\ job[m].seen # None => Below(job[m].seen.root)
    /\ job[m].at = "pushed" => Below(job[m].local)
    /\ job[m].at \in Pulling => Base(m, job[m].seen.root)

(* The head that is about to be replaced is the one the push was checked
   against. *)
Replacing(m) ==
    job[m].at = "upload" =>
        /\ job[m].seen # None => \/ state[m] # None /\ state[m].remote = job[m].seen.root
                                 \/ job[m].local = job[m].seen.root
        /\ MayReplace(m) => remote.head = job[m].seen

HInv == \A m \in Machines : OwnOK(m) /\ Ascending(m) /\ Replacing(m)

-----------------------------------------------------------------------------
(* The steps, in the terms of the invariant *)

(* The types, read out of Typed. *)
LEMMA Shapes ==
    ASSUME Typed, NEW m \in Machines
    PROVE  /\ tree[m] \in Trees /\ head[m] \in Trees
           /\ state[m] # None => state[m].remote \in Trees /\ state[m].local \in Trees
           /\ incoming[m] # None => incoming[m] \in Trees
           /\ intent[m] # None => intent[m].pre \in Trees /\ intent[m].target \in Trees
           /\ objects[m] \subseteq Contents
           /\ job[m] \in Jobs
           /\ job[m].local # None => job[m].local \in Trees
           /\ job[m].seen # None => job[m].seen.root \in Trees
           /\ job[m].seen # None /\ job[m].seen.base # None => job[m].seen.base \in Trees
           /\ remote.head # None => remote.head.root \in Trees
           /\ remote.head # None /\ remote.head.base # None => remote.head.base \in Trees
  BY DEF Typed, Jobs, Heads, Remotes, MaybeTree

(* What a capture takes is a tree, from the files and the head. *)
LEMMA CapturedTree ==
    ASSUME Typed, NEW m \in Machines
    PROVE  /\ Captured(m) \in Trees
           /\ \A p \in Paths : Captured(m)[p] = tree[m][p] \/ Captured(m)[p] = head[m][p]
           /\ ~Applying(m) => Captured(m) = tree[m]
  BY Shapes DEF Captured, Trees

(* The contents of a tree, file by file. *)
LEMMA HeldIn ==
    ASSUME NEW t, NEW set
    PROVE  Held(t) \subseteq set <=> In(t, set)
  BY DEF Held, In

(* The other machines keep all they have. *)
Others(m) ==
    \A q \in Machines : q # m =>
        /\ tree'[q] = tree[q] /\ head'[q] = head[q] /\ state'[q] = state[q]
        /\ incoming'[q] = incoming[q] /\ intent'[q] = intent[q]
        /\ objects'[q] = objects[q] /\ job'[q] = job[q]

(* The command of m goes on at another stage, or ends. *)
Goes(m, at) ==
    /\ job'[m].at = at /\ job'[m].local = job[m].local /\ job'[m].seen = job[m].seen
    /\ job'[m].bootstrap = job[m].bootstrap /\ job'[m].todo = job[m].todo

Begins(m, at, local, seen) ==
    /\ job'[m].at = at /\ job'[m].local = local /\ job'[m].seen = seen
    /\ job'[m].todo = {}

Ends(m, at) == Begins(m, at, None, None) /\ job'[m].bootstrap = FALSE

(* The two ends of a command. *)
LEMMA IdleJob ==
    /\ Idle \in Jobs /\ Down \in Jobs
    /\ Idle.at = "idle" /\ Idle.local = None /\ Idle.seen = None /\ Idle.todo = {}
    /\ Idle.bootstrap = FALSE
    /\ Down.at = "down" /\ Down.local = None /\ Down.seen = None /\ Down.todo = {}
    /\ Down.bootstrap = FALSE
  BY DEF Idle, Down, Jobs, Stages, Pushing, Pulling, Restoring, MaybeTree

(* One lemma per way in which a step changes the commands. *)
LEMMA Returns ==
    ASSUME Typed, NEW m \in Machines, Return(m)
    PROVE  /\ Ends(m, "idle") /\ job' \in [Machines -> Jobs]
           /\ \A q \in Machines : q # m => job'[q] = job[q]
  BY IdleJob DEF Return, Typed, Ends, Begins

(* A command goes on. *)
LEMMA Going ==
    ASSUME Typed, NEW m \in Machines, NEW at \in Stages, job' = [job EXCEPT ![m].at = at]
    PROVE  /\ Goes(m, at) /\ job' \in [Machines -> Jobs]
           /\ \A q \in Machines : q # m => job'[q] = job[q]
  BY DEF Typed, Goes, Jobs

(* A command begins. *)
LEMMA Beginning ==
    ASSUME Typed, NEW m \in Machines, NEW at \in Stages, NEW local \in MaybeTree,
           NEW seen \in Heads \cup {None}, NEW takeover \in BOOLEAN, NEW bootstrap \in BOOLEAN,
           job' = [job EXCEPT ![m] = [at |-> at, local |-> local, seen |-> seen,
                                      takeover |-> takeover, bootstrap |-> bootstrap,
                                      todo |-> {}]]
    PROVE  /\ Begins(m, at, local, seen) /\ job'[m].bootstrap = bootstrap
           /\ job' \in [Machines -> Jobs]
           /\ \A q \in Machines : q # m => job'[q] = job[q]
  BY DEF Typed, Begins, Jobs

(* A capture. *)
LEMMA Seals ==
    ASSUME Typed, NEW m \in Machines, NEW t \in Trees, Sealing(m, t)
    PROVE  /\ head'[m] = t /\ head' \in [Machines -> Trees]
           /\ objects'[m] = objects[m] \cup Held(t)
           /\ objects' \in [Machines -> SUBSET Contents]
           /\ sealed' = sealed \cup Held(t) /\ sealed' \subseteq Contents
           /\ \A q \in Machines : q # m => head'[q] = head[q] /\ objects'[q] = objects[q]
  <1>1. Held(t) \subseteq Contents
    BY DEF Held, Trees
  <1> QED BY <1>1 DEF Sealing, Typed

(* The capture that begins a command takes the tree. *)
LEMMA SealsTree ==
    ASSUME Typed, NEW m \in Machines, Sealing(m, tree[m])
    PROVE  /\ head'[m] = tree[m] /\ head' \in [Machines -> Trees]
           /\ objects' \in [Machines -> SUBSET Contents]
           /\ sealed \subseteq sealed' /\ sealed' \subseteq Contents
           /\ \A q \in Machines : q # m => head'[q] = head[q] /\ objects'[q] = objects[q]
  BY Seals, Shapes

(* An edit changes this and no more. *)
LEMMA EditFacts ==
    ASSUME BInv, NEW m \in Machines, NEW p \in Paths, Edit(m, p)
    PROVE  /\ Typed' /\ Others(m)
           /\ Len(past) + 1 \in Contents
           /\ tree'[m] = [tree[m] EXCEPT ![p] = Len(past) + 1]
           /\ Len(past') = Len(past) + 1
           /\ \A i \in 1..Len(past) : past'[i] = past[i]
           /\ past'[Len(past) + 1] = IF tree[m][p] = 0 THEN {0}
                                     ELSE past[tree[m][p]] \cup {tree[m][p]}
  <1> USE DEF BInv
  <1>1. tree[m][p] \in Known /\ tree[m] \in Trees
    BY Shapes DEF SealedOK, Sources, In
  <1>2. past \in Seq(SUBSET Contents) /\ Len(past) \in Nat /\ MaxEdits \in Nat
    BY ConstantsAssumption DEF Typed
  <1> DEFINE over == IF tree[m][p] = 0 THEN {0} ELSE past[tree[m][p]] \cup {tree[m][p]}
  <1>3. over \in SUBSET Contents
    <2>1. CASE tree[m][p] = 0 BY <2>1, <1>2 DEF Contents
    <2>2. CASE tree[m][p] # 0
      <3>1. tree[m][p] \in 1..Len(past) BY <1>1, <1>2, <2>2 DEF Known
      <3>2. past[tree[m][p]] \in SUBSET Contents BY <3>1, <1>2
      <3>3. tree[m][p] \in Contents BY <1>1 DEF Trees
      <3> QED BY <2>2, <3>2, <3>3
    <2> QED BY <2>1, <2>2
  <1>4. past' = Append(past, over) /\ Len(past) < MaxEdits BY DEF Edit
  <1> HIDE DEF over
  <1>5. /\ past' \in Seq(SUBSET Contents) /\ Len(past') = Len(past) + 1
        /\ \A i \in 1..Len(past) : past'[i] = past[i]
        /\ past'[Len(past) + 1] = over
    BY <1>2, <1>3, <1>4
  <1>6. Len(past) + 1 \in Contents /\ Len(past') <= MaxEdits BY <1>2, <1>4, <1>5 DEF Contents
  <1>7. /\ tree' \in [Machines -> Trees] /\ tree'[m] = [tree[m] EXCEPT ![p] = Len(past) + 1]
        /\ \A q \in Machines : q # m => tree'[q] = tree[q]
    BY <1>1, <1>6 DEF Edit, Typed, Trees
  <1>8. Typed' /\ Others(m) BY <1>5, <1>6, <1>7 DEF Edit, Typed, Others
  <1> QED BY <1>5, <1>6, <1>7, <1>8 DEF over

(* A capture changes this and no more. *)
LEMMA SealFacts ==
    ASSUME Typed, NEW m \in Machines, Seal(m)
    PROVE  Typed' /\ Others(m)
  BY Seals, CapturedTree DEF Seal, Typed, Others

(* A capture of all files changes this and no more. *)
LEMMA SealAllFacts ==
    ASSUME Typed, NEW m \in Machines, SealAll(m)
    PROVE  Typed' /\ Others(m)
  BY SealsTree DEF SealAll, Typed, Others

(* A collection changes this and no more. *)
LEMMA CollectFacts ==
    ASSUME Typed, NEW m \in Machines, Collect(m)
    PROVE  /\ Typed' /\ Others(m)
           /\ objects'[m] = objects[m] \cap UNION {Held(t) : t \in Roots(m)}
  BY DEF Collect, Typed, Others

(* Pairing with a remote changes this and no more. *)
LEMMA PairFacts ==
    ASSUME Typed, NEW m \in Machines, Pair(m)
    PROVE  Typed' /\ Others(m) /\ state'[m] = None
  BY DEF Pair, Typed, Others

(* What a push notes of the head it has read leaves the head alone. *)
LEMMA NotedRemote ==
    ASSUME Typed, NEW m \in Machines, remote' = NoteETag(m)
    PROVE  remote' \in Remotes /\ remote'.head = remote.head
  BY DEF NoteETag, ETag, Typed, Remotes

(* The start of a push changes this and no more. *)
LEMMA BeginPushFacts ==
    ASSUME Typed, NEW m \in Machines, NEW takeover \in BOOLEAN, BeginPush(m, takeover)
    PROVE  /\ Typed' /\ Others(m) /\ remote'.head = remote.head
           /\ \/ ~LockFree /\ Ends(m, "idle") /\ UNCHANGED <<lock, remote>>
              \/ /\ LockFree /\ Begins(m, "locked", tree[m], None)
                 /\ lock' = IF Locking THEN m ELSE lock
                 /\ remote' = NoteETag(m)
  <1>1. CASE ~LockFree
    BY <1>1, SealsTree, Returns DEF BeginPush, Typed, Others
  <1>2. CASE LockFree
    <2>1. job' = [job EXCEPT ![m] = [at |-> "locked", local |-> tree[m], seen |-> None,
                                     takeover |-> takeover, bootstrap |-> FALSE, todo |-> {}]]
      BY <1>2 DEF BeginPush, Idle
    <2>2. tree[m] \in MaybeTree /\ "locked" \in Stages
      BY Shapes DEF MaybeTree, Stages, Pushing
    <2>3. /\ Begins(m, "locked", tree[m], None) /\ job' \in [Machines -> Jobs]
          /\ \A q \in Machines : q # m => job'[q] = job[q]
      BY <2>1, <2>2, Beginning
    <2>4. remote' \in Remotes /\ remote'.head = remote.head
      BY <1>2, NotedRemote DEF BeginPush
    <2> QED BY <1>2, <2>3, <2>4, SealsTree DEF BeginPush, Typed, Others
  <1> QED BY <1>1, <1>2

(* Reading the head at the start of a push changes this and no more. *)
LEMMA PushCheckFacts ==
    ASSUME Typed, NEW m \in Machines, PushCheck(m)
    PROVE  /\ Typed' /\ Others(m)
           /\ job'[m].at = "upload" /\ job'[m].local = job[m].local
           /\ job'[m].seen = remote.head
           /\ remote'.head = remote.head /\ remote'.objects = remote.objects
           /\ remote'.torn = remote.torn /\ remote'.current = remote.current
  <1>1. job' \in [Machines -> Jobs] /\ \A q \in Machines : q # m => job'[q] = job[q]
    <2>1. remote.head \in Heads \cup {None} /\ "upload" \in Stages
      BY DEF Typed, Remotes, Stages, Pushing
    <2>2. job' = [job EXCEPT ![m] = [job[m] EXCEPT !.at = "upload", !.seen = remote.head]]
      BY DEF PushCheck, Typed
    <2>3. job \in [Machines -> Jobs] /\ job[m] \in Jobs BY DEF Typed
    <2> DEFINE next == [job[m] EXCEPT !.at = "upload", !.seen = remote.head]
    <2>4. next \in Jobs BY <2>1, <2>3 DEF Jobs
    <2>5. job' = [job EXCEPT ![m] = next] BY <2>2
    <2> HIDE DEF next
    <2> QED BY <2>3, <2>4, <2>5
  <1>2. /\ job'[m].at = "upload" /\ job'[m].local = job[m].local /\ job'[m].seen = remote.head
    BY DEF PushCheck, Typed, Jobs
  <1>3. /\ remote' \in Remotes /\ remote'.head = remote.head /\ remote'.objects = remote.objects
        /\ remote'.torn = remote.torn /\ remote'.current = remote.current
    BY DEF PushCheck, Typed, Remotes
  <1> QED BY <1>1, <1>2, <1>3 DEF PushCheck, Typed, Others

(* A push gives back the lock only if it holds it. *)
LEMMA Unlocks ==
    ASSUME Typed, NEW m \in Machines, Unlock(m)
    PROVE  lock' \in Machines \cup {None} /\ (lock' = lock \/ (lock = m /\ lock' = None))
  BY DEF Unlock, Typed

(* A refused push changes this and no more. *)
LEMMA PushRefusedFacts ==
    ASSUME Typed, NEW m \in Machines, PushRefused(m)
    PROVE  Typed' /\ Others(m) /\ Ends(m, "idle")
  BY Returns, Unlocks DEF PushRefused, Typed, Others

(* One upload of a push changes this and no more. *)
LEMMA PushUploadFacts ==
    ASSUME Typed, NEW m \in Machines, NEW c \in Contents, PushUpload(m, c)
    PROVE  /\ Typed' /\ Others(m) /\ job' = job
           /\ remote'.head = remote.head /\ remote'.objects = remote.objects \cup {c}
           /\ remote'.torn = remote.torn /\ remote'.current = remote.current
  <1>1. /\ remote' \in Remotes
        /\ remote'.head = remote.head /\ remote'.objects = remote.objects \cup {c}
        /\ remote'.torn = remote.torn /\ remote'.current = remote.current
    BY DEF PushUpload, Unflushed, Typed, Remotes
  <1> QED BY <1>1 DEF PushUpload, machine, Typed, Others

(* Writing the head changes this and no more. *)
LEMMA PushHeadFacts ==
    ASSUME BInv, NEW m \in Machines, PushHead(m)
    PROVE  /\ Typed' /\ Others(m)
           /\ \/ ~MayReplace(m) /\ Ends(m, "idle") /\ UNCHANGED remote
              \/ /\ MayReplace(m) /\ Goes(m, "pushed")
                 /\ remote'.head # None /\ remote'.head.root = job[m].local
                 /\ remote'.head.base = IF job[m].seen = None THEN None ELSE job[m].seen.root
                 /\ remote'.objects = remote.objects /\ remote'.torn = remote.torn
                 /\ remote'.current \subseteq {m}
  <1> USE DEF BInv
  <1>1. CASE ~MayReplace(m)
    BY <1>1, Returns DEF PushHead, Typed, Others
  <1>2. CASE MayReplace(m)
    <2> DEFINE new == [root |-> job[m].local,
                       base |-> IF job[m].seen = None THEN None ELSE job[m].seen.root]
    <2>1. new \in Heads /\ new # None
      BY Shapes, NoneIsApart DEF PushHead, Staged, Pushing, Heads, MaybeTree
    <2>2. remote' = [remote EXCEPT !.head = new, !.current = ETag({m})]
      BY <1>2 DEF PushHead
    <2>3. /\ new.root = job[m].local
          /\ new.base = IF job[m].seen = None THEN None ELSE job[m].seen.root
      OBVIOUS
    <2> HIDE DEF new
    <2>4. /\ remote' \in Remotes /\ remote'.head = new
          /\ remote'.objects = remote.objects /\ remote'.torn = remote.torn
          /\ remote'.current \subseteq {m}
      BY <2>1, <2>2 DEF Typed, Remotes, ETag
    <2>5. /\ Goes(m, "pushed") /\ job' \in [Machines -> Jobs]
          /\ \A q \in Machines : q # m => job'[q] = job[q]
      BY <1>2, Going DEF PushHead, Stages, Pushing
    <2> QED BY <1>2, <2>1, <2>3, <2>4, <2>5 DEF PushHead, Typed, Others
  <1> QED BY <1>1, <1>2

(* What a reconciliation records. *)
LEMMA SyncedState ==
    ASSUME Typed, NEW m \in Machines, NEW r \in Trees, NEW l \in Trees, Synced(m, r, l)
    PROVE  /\ state' \in [Machines -> [remote : Trees, local : Trees] \cup {None}]
           /\ state'[m] # None /\ state'[m].remote = r /\ state'[m].local = l
           /\ \A q \in Machines : q # m => state'[q] = state[q]
  BY NoneIsApart DEF Synced, Typed

(* The end of a push changes this and no more. *)
LEMMA PushEndFacts ==
    ASSUME BInv, NEW m \in Machines, PushEnd(m)
    PROVE  /\ Typed' /\ Others(m) /\ Ends(m, "idle") /\ job[m].local \in Trees
           /\ state'[m] # None /\ state'[m].remote = job[m].local
           /\ state'[m].local = job[m].local
  <1> USE DEF BInv
  <1>1. job[m].local \in Trees BY Shapes DEF PushEnd, Staged, Pushing
  <1> QED BY <1>1, SyncedState, Returns, Unlocks DEF PushEnd, Typed, Others

(* A pull, by hand or by follow, begins with the head it has read. *)
LEMMA BeginPullFacts ==
    ASSUME Typed, NEW m \in Machines, NEW local \in Trees, NEW bootstrap \in BOOLEAN,
           BeginPull(m, local, bootstrap)
    PROVE  /\ job' \in [Machines -> Jobs]
           /\ \A q \in Machines : q # m => job'[q] = job[q]
           /\ \/ remote.head = None /\ Ends(m, "idle")
              \/ /\ remote.head # None /\ Begins(m, "fetched", local, remote.head)
                 /\ job'[m].bootstrap = bootstrap
  <1>1. CASE remote.head = None BY <1>1, Returns DEF BeginPull
  <1>2. CASE remote.head # None
    <2>1. job' = [job EXCEPT ![m] = [at |-> "fetched", local |-> local, seen |-> remote.head,
                                     takeover |-> FALSE, bootstrap |-> bootstrap, todo |-> {}]]
      BY <1>2 DEF BeginPull, Idle
    <2>2. local \in MaybeTree /\ "fetched" \in Stages /\ remote.head \in Heads \cup {None}
      BY DEF MaybeTree, Stages, Pulling, Typed, Remotes
    <2> QED BY <1>2, <2>1, <2>2, Beginning
  <1> QED BY <1>1, <1>2

(* The start of a pull changes this and no more. *)
LEMMA PullFacts ==
    ASSUME Typed, NEW m \in Machines, NEW bootstrap \in BOOLEAN, Pull(m, bootstrap)
    PROVE  /\ Typed' /\ Others(m)
           /\ \/ remote.head = None /\ Ends(m, "idle")
              \/ /\ remote.head # None /\ Begins(m, "fetched", tree[m], remote.head)
                 /\ job'[m].bootstrap = bootstrap
  <1>1. tree[m] \in Trees BY Shapes
  <1> QED BY <1>1, BeginPullFacts, SealsTree DEF Pull, Typed, Others

(* Arming the restore of a pull changes this and no more. *)
LEMMA PullArmFacts ==
    ASSUME BInv, NEW m \in Machines, PullArm(m)
    PROVE  /\ Typed' /\ Others(m)
           /\ \/ ~Verified(m) /\ Ends(m, "idle") /\ UNCHANGED intent
              \/ /\ Verified(m) /\ job'[m].at = "apply" /\ job'[m].local = job[m].local
                 /\ job'[m].seen = job[m].seen /\ job'[m].bootstrap = job[m].bootstrap
                 /\ job'[m].todo = Plan(m)
                 /\ intent'[m] # None /\ intent'[m].pre = job[m].local
                 /\ intent'[m].target = job[m].seen.root
  <1> USE DEF BInv
  <1>1. job[m].local \in Trees /\ job[m].seen.root \in Trees
    BY Shapes DEF PullArm, Staged, Pushing, Pulling
  <1>2. CASE ~Verified(m)
    BY <1>2, Returns DEF PullArm, Typed, Others
  <1>3. CASE Verified(m)
    <2>1. Plan(m) \in SUBSET Paths BY DEF Plan, Differ
    <2>2. job' = [job EXCEPT ![m].at = "apply", ![m].todo = Plan(m)]
      BY <1>3 DEF PullArm
    <2>3. /\ job' \in [Machines -> Jobs] /\ \A q \in Machines : q # m => job'[q] = job[q]
          /\ job'[m].at = "apply" /\ job'[m].local = job[m].local
          /\ job'[m].seen = job[m].seen /\ job'[m].bootstrap = job[m].bootstrap
          /\ job'[m].todo = Plan(m)
      BY <2>1, <2>2 DEF Typed, Jobs, Stages, Pulling, Restoring
    <2>4. /\ intent' \in [Machines -> [pre : Trees, target : Trees] \cup {None}]
          /\ \A q \in Machines : q # m => intent'[q] = intent[q]
          /\ intent'[m] # None /\ intent'[m].pre = job[m].local
          /\ intent'[m].target = job[m].seen.root
      <3> DEFINE new == [pre |-> job[m].local, target |-> job[m].seen.root]
      <3>1. /\ new \in [pre : Trees, target : Trees] /\ new # None
            /\ new.pre = job[m].local /\ new.target = job[m].seen.root
        BY <1>1, NoneIsApart
      <3>2. intent' = [intent EXCEPT ![m] = new] BY <1>3 DEF PullArm
      <3> HIDE DEF new
      <3> QED BY <3>1, <3>2 DEF Typed
    <2> QED BY <1>3, <2>3, <2>4 DEF PullArm, Typed, Others
  <1> QED BY <1>2, <1>3

(* One file of a pull changes this and no more. *)
LEMMA PullWriteFacts ==
    ASSUME BInv, NEW m \in Machines, NEW p \in Paths, PullWrite(m, p)
    PROVE  /\ Typed' /\ Others(m)
           /\ job'[m].at = "apply" /\ job'[m].local = job[m].local
           /\ job'[m].seen = job[m].seen /\ job'[m].bootstrap = job[m].bootstrap
           /\ job'[m].todo = job[m].todo \ {p}
           /\ tree'[m] = [tree[m] EXCEPT ![p] = job[m].seen.root[p]]
           /\ objects'[m] = objects[m] \cup {job[m].seen.root[p]}
  <1> USE DEF BInv
  <1>1. job[m].seen.root \in Trees BY Shapes DEF PullWrite, Staged, Pulling, Restoring
  <1>2. /\ job' \in [Machines -> Jobs] /\ \A q \in Machines : q # m => job'[q] = job[q]
        /\ job'[m].at = "apply" /\ job'[m].local = job[m].local
        /\ job'[m].seen = job[m].seen /\ job'[m].bootstrap = job[m].bootstrap
        /\ job'[m].todo = job[m].todo \ {p}
    BY DEF PullWrite, Typed, Jobs
  <1>3. /\ tree' \in [Machines -> Trees] /\ \A q \in Machines : q # m => tree'[q] = tree[q]
        /\ tree'[m] = [tree[m] EXCEPT ![p] = job[m].seen.root[p]]
    BY <1>1 DEF PullWrite, Typed, Trees
  <1>4. /\ objects' \in [Machines -> SUBSET Contents]
        /\ \A q \in Machines : q # m => objects'[q] = objects[q]
        /\ objects'[m] = objects[m] \cup {job[m].seen.root[p]}
    BY <1>1 DEF PullWrite, Typed, Trees
  <1> QED BY <1>2, <1>3, <1>4 DEF PullWrite, Typed, Others

(* The end of the writes of a pull changes this and no more. *)
LEMMA PullFinishFacts ==
    ASSUME BInv, NEW m \in Machines, PullFinish(m)
    PROVE  /\ Typed' /\ Others(m) /\ Goes(m, "drained")
           /\ objects'[m] = objects[m] \cup Held(job[m].seen.root)
  <1> USE DEF BInv
  <1>1. job[m].seen.root \in Trees BY Shapes DEF PullFinish, Staged, Pulling, Restoring
  <1>2. Held(job[m].seen.root) \subseteq Contents BY <1>1 DEF Held, Trees
  <1>3. /\ Goes(m, "drained") /\ job' \in [Machines -> Jobs]
        /\ \A q \in Machines : q # m => job'[q] = job[q]
    BY Going DEF PullFinish, Stages, Pulling, Restoring
  <1>4. /\ objects' \in [Machines -> SUBSET Contents]
        /\ \A q \in Machines : q # m => objects'[q] = objects[q]
        /\ objects'[m] = objects[m] \cup Held(job[m].seen.root)
    BY <1>2 DEF PullFinish, Typed
  <1> QED BY <1>3, <1>4 DEF PullFinish, Typed, Others

(* Recording the incoming root changes this and no more. *)
LEMMA PullIncomingFacts ==
    ASSUME BInv, NEW m \in Machines, PullIncoming(m)
    PROVE  /\ Typed' /\ Others(m) /\ incoming'[m] = job[m].seen.root
           /\ job[m].seen.root \in Trees
           /\ \/ FastForward(m) /\ Goes(m, "adopt")
              \/ Matches(m) /\ Goes(m, "settle")
              \/ ~FastForward(m) /\ Ends(m, "idle")
  <1> USE DEF BInv
  <1>1. job[m].seen.root \in Trees BY Shapes DEF PullIncoming, Staged, Pulling, Restoring
  <1>2. /\ incoming' \in [Machines -> MaybeTree] /\ incoming'[m] = job[m].seen.root
        /\ \A q \in Machines : q # m => incoming'[q] = incoming[q]
    BY <1>1 DEF PullIncoming, Typed, MaybeTree
  <1>3. /\ job' \in [Machines -> Jobs] /\ \A q \in Machines : q # m => job'[q] = job[q]
        /\ \/ FastForward(m) /\ Goes(m, "adopt")
           \/ Matches(m) /\ Goes(m, "settle")
           \/ ~FastForward(m) /\ Ends(m, "idle")
    <2>1. CASE FastForward(m)
      <3>1. job' = [job EXCEPT ![m].at = "adopt"] BY <2>1 DEF PullIncoming, FastForward
      <3> QED BY <2>1, <3>1, Going DEF Stages, Pulling, Restoring
    <2>2. CASE Matches(m)
      <3>1. job' = [job EXCEPT ![m].at = "settle"] BY <2>2 DEF PullIncoming, FastForward
      <3> QED BY <2>2, <3>1, Going DEF Stages, Pulling, Restoring
    <2>3. CASE ~FastForward(m) /\ ~Matches(m)
      BY <2>3, Returns DEF PullIncoming, Return
    <2> QED BY <2>1, <2>2, <2>3
  <1> QED BY <1>1, <1>2, <1>3 DEF PullIncoming, Typed, Others

(* Publishing the pulled root changes this and no more. *)
LEMMA PullPublishFacts ==
    ASSUME BInv, NEW m \in Machines, PullPublish(m)
    PROVE  /\ Typed' /\ Others(m) /\ Goes(m, "published") /\ head'[m] = job[m].seen.root
  <1> USE DEF BInv
  <1>1. job[m].seen.root \in Trees BY Shapes DEF PullPublish, Staged, Pulling, Restoring
  <1>2. Held(job[m].seen.root) \subseteq Contents BY <1>1 DEF Held, Trees
  <1>3. /\ Goes(m, "published") /\ job' \in [Machines -> Jobs]
        /\ \A q \in Machines : q # m => job'[q] = job[q]
    BY Going DEF PullPublish, Stages, Pulling, Restoring
  <1> QED BY <1>1, <1>2, <1>3 DEF PullPublish, Typed, Others

(* Disarming the restore changes this and no more. *)
LEMMA PullDisarmFacts ==
    ASSUME Typed, NEW m \in Machines, PullDisarm(m)
    PROVE  Typed' /\ Others(m) /\ Goes(m, "settle") /\ intent'[m] = None
  <1>1. /\ Goes(m, "settle") /\ job' \in [Machines -> Jobs]
        /\ \A q \in Machines : q # m => job'[q] = job[q]
    BY Going DEF PullDisarm, Stages, Pulling, Restoring
  <1> QED BY <1>1 DEF PullDisarm, Typed, Others

(* Recording the reconciled roots changes this and no more. *)
LEMMA PullSettleFacts ==
    ASSUME BInv, NEW m \in Machines, PullSettle(m)
    PROVE  /\ Typed' /\ Others(m) /\ Goes(m, "clear") /\ job[m].seen.root \in Trees
           /\ state'[m] # None /\ state'[m].remote = job[m].seen.root
           /\ state'[m].local = job[m].seen.root
  <1> USE DEF BInv
  <1>1. job[m].seen.root \in Trees BY Shapes DEF PullSettle, Staged, Pulling, Restoring
  <1>2. /\ Goes(m, "clear") /\ job' \in [Machines -> Jobs]
        /\ \A q \in Machines : q # m => job'[q] = job[q]
    BY Going DEF PullSettle, Stages, Pulling, Restoring
  <1> QED BY <1>1, <1>2, SyncedState DEF PullSettle, Reconciled, Typed, Others

(* Dropping the incoming root changes this and no more. *)
LEMMA PullClearFacts ==
    ASSUME Typed, NEW m \in Machines, PullClear(m)
    PROVE  Typed' /\ Others(m) /\ Ends(m, "idle") /\ incoming'[m] = None
  BY Returns DEF PullClear, Typed, Others, MaybeTree

(* A round of follow changes this and no more. *)
LEMMA FollowFacts ==
    ASSUME Typed, NEW m \in Machines, Follow(m)
    PROVE  Typed' /\ Others(m) /\ Begins(m, "follow", None, remote.head)
  <1> DEFINE new == [Idle EXCEPT !.at = "follow", !.seen = remote.head]
  <1>1. remote.head \in Heads \cup {None} /\ "follow" \in Stages
    BY DEF Stages, Typed, Remotes
  <1>2. /\ new \in Jobs /\ new.at = "follow" /\ new.local = None /\ new.seen = remote.head
        /\ new.todo = {}
    BY <1>1, IdleJob DEF Jobs
  <1>3. job' = [job EXCEPT ![m] = new] BY DEF Follow
  <1> HIDE DEF new
  <1>4. /\ Begins(m, "follow", None, remote.head) /\ job' \in [Machines -> Jobs]
        /\ \A q \in Machines : q # m => job'[q] = job[q]
    BY <1>2, <1>3 DEF Typed, Begins
  <1> QED BY <1>4 DEF Follow, Typed, Others

(* A round of follow with nothing to do changes this and no more. *)
LEMMA FollowIdleFacts ==
    ASSUME Typed, NEW m \in Machines, FollowIdle(m)
    PROVE  /\ Typed' /\ Others(m) /\ Ends(m, "idle") /\ job[m].seen # None
           /\ \/ UNCHANGED state
              \/ /\ Unpaired(m) /\ state'[m] # None /\ state'[m].remote = job[m].seen.root
                 /\ state'[m].local = job[m].seen.root
  <1>1. job[m].seen.root \in Trees /\ head[m] \in Trees BY Shapes DEF FollowIdle
  <1>2. CASE UNCHANGED state
    BY <1>2, Returns DEF FollowIdle, Typed, Others
  <1>3. CASE Unpaired(m) /\ Synced(m, job[m].seen.root, head[m])
    BY <1>1, <1>3, Returns, SyncedState DEF FollowIdle, Typed, Others, Unpaired
  <1> QED BY <1>2, <1>3 DEF FollowIdle

(* A pull by follow changes this and no more. *)
LEMMA FollowPullFacts ==
    ASSUME Typed, NEW m \in Machines, FollowPull(m)
    PROVE  /\ Typed' /\ Others(m)
           /\ \/ remote.head = None /\ Ends(m, "idle")
              \/ /\ remote.head # None /\ Begins(m, "fetched", head[m], remote.head)
                 /\ job'[m].bootstrap = FALSE
  <1>1. head[m] \in Trees BY Shapes
  <1> QED BY <1>1, BeginPullFacts DEF FollowPull, Typed, Others

(* A command that fails changes this and no more. *)
LEMMA FailFacts ==
    ASSUME BInv, NEW m \in Machines, Fail(m)
    PROVE  /\ Typed' /\ Others(m) /\ Ends(m, "idle")
           /\ \/ /\ job[m].at = "apply" /\ job[m].todo # {} /\ intent'[m] = None
                 /\ tree'[m] = [p \in Paths |-> IF p \in Plan(m) THEN job[m].local[p]
                                                ELSE tree[m][p]]
              \/ /\ UNCHANGED <<tree, intent>>
                 /\ job[m].at = "apply" => "finish" \in races'
  <1> USE DEF BInv
  <1>1. CASE job[m].at = "apply" /\ job[m].todo # {}
    <2>1. intent[m] # None /\ intent[m].pre = job[m].local /\ intent[m].pre \in Trees
      BY <1>1, Shapes DEF Staged
    <2>2. tree[m] \in Trees BY Shapes
    <2> DEFINE new == [p \in Paths |-> IF p \in Plan(m) THEN job[m].local[p] ELSE tree[m][p]]
    <2>3. new \in Trees BY <2>1, <2>2 DEF Trees
    <2>4. tree' = [tree EXCEPT ![m] = new] BY <1>1, <2>1 DEF Fail
    <2> HIDE DEF new
    <2>5. /\ tree' \in [Machines -> Trees] /\ tree'[m] = new
          /\ \A q \in Machines : q # m => tree'[q] = tree[q]
      BY <2>3, <2>4 DEF Typed
    <2>6. tree'[m] = [p \in Paths |-> IF p \in Plan(m) THEN job[m].local[p] ELSE tree[m][p]]
      BY <2>5 DEF new
    <2>7. /\ intent' \in [Machines -> [pre : Trees, target : Trees] \cup {None}]
          /\ intent'[m] = None
          /\ \A q \in Machines : q # m => intent'[q] = intent[q]
      BY <1>1 DEF Fail, Typed
    <2>8. Typed' /\ Others(m) /\ Ends(m, "idle")
      BY <2>5, <2>7, Returns, Unlocks DEF Fail, Typed, Others
    <2> QED BY <1>1, <2>6, <2>7, <2>8
  <1>2. CASE ~(job[m].at = "apply" /\ job[m].todo # {})
    <2>1. UNCHANGED <<tree, intent>> BY <1>2 DEF Fail
    <2>2. job[m].at = "apply" => "finish" \in races' BY <1>2 DEF Fail, When
    <2> QED BY <1>2, <2>1, <2>2, Returns, Unlocks DEF Fail, Typed, Others
  <1> QED BY <1>1, <1>2

(* A crash changes this and no more. *)
LEMMA CrashFacts ==
    ASSUME Typed, NEW m \in Machines, Crash(m)
    PROVE  Typed' /\ Others(m) /\ Ends(m, "down")
  <1>1. /\ job' \in [Machines -> Jobs] /\ Ends(m, "down")
        /\ \A q \in Machines : q # m => job'[q] = job[q]
    BY IdleJob DEF Crash, Typed, Ends, Begins
  <1> QED BY <1>1, Unlocks DEF Crash, Typed, Others

(* Opening after a crash changes this and no more. *)
LEMMA OpenFacts ==
    ASSUME Typed, NEW m \in Machines, Open(m)
    PROVE  /\ Typed' /\ Others(m) /\ Ends(m, "idle") /\ intent'[m] = None
           /\ tree'[m] = IF intent[m] = None THEN tree[m] ELSE intent[m].pre
  <1>1. intent[m] # None => intent[m].pre \in Trees BY Shapes
  <1>2. /\ tree' \in [Machines -> Trees]
        /\ tree'[m] = IF intent[m] = None THEN tree[m] ELSE intent[m].pre
        /\ \A q \in Machines : q # m => tree'[q] = tree[q]
    BY <1>1 DEF Open, Typed
  <1> QED BY <1>2, Returns DEF Open, Typed, Others

(* A crash of the remote changes this and no more. *)
LEMMA RemoteCrashFacts ==
    ASSUME Typed, RemoteCrash
    PROVE  /\ Typed' /\ Locking
           /\ remote'.head = remote.head /\ remote'.objects = remote.objects
           /\ "pointer" \notin races' => remote'.torn = remote.torn
           /\ \A m \in Machines : IF job[m].at \in Pushing THEN Ends(m, "idle")
                                  ELSE job'[m] = job[m]
  <1>1. PICK torn \in SUBSET remote.fresh :
            /\ races' = races \cup When("pointer", torn # {})
            /\ remote' = [remote EXCEPT !.fresh = {}, !.torn = @ \cup torn]
    BY DEF RemoteCrash
  <1>2. /\ remote' \in Remotes /\ remote'.head = remote.head /\ remote'.objects = remote.objects
        /\ remote'.torn = remote.torn \cup torn
    BY <1>1 DEF Typed, Remotes
  <1>3. job' \in [Machines -> Jobs]
    BY IdleJob DEF RemoteCrash, Typed
  <1>4. \A m \in Machines : IF job[m].at \in Pushing THEN Ends(m, "idle") ELSE job'[m] = job[m]
    BY IdleJob DEF RemoteCrash, Pushing, Ends, Begins
  <1> QED BY <1>1, <1>2, <1>3, <1>4 DEF RemoteCrash, Typed, When

-----------------------------------------------------------------------------
(* Part 1 is inductive *)

(* What is left to show of a step of machine m that is no edit. *)
LEMMA Frame ==
    ASSUME BInv, NEW m \in Machines, Others(m), Typed', UNCHANGED <<transport, past>>,
           sealed \subseteq sealed', sealed' \subseteq Known, LockOK',
           HeadIn(remote.head, sealed)', Sources(m)', Staged(m)', Kept(m)'
    PROVE  BInv'
  <1>1. Known' = Known BY DEF Known
  <1>2. ASSUME NEW q \in Machines, q # m
        PROVE  Sources(q)' /\ Staged(q)' /\ Kept(q)'
    <2>1. Sources(q) /\ Staged(q) /\ Kept(q) BY DEF BInv, SealedOK
    <2>2. Sources(q)' BY <1>1, <1>2, <2>1 DEF Others, Sources, In, HeadIn
    <2>3. Staged(q)' BY <1>2, <2>1 DEF Others, Staged, Plan
    <2>4. Kept(q)' BY <1>2, <2>1 DEF Others, Kept, In
    <2> QED BY <2>2, <2>3, <2>4
  <1>3. SealedOK' BY <1>1, <1>2 DEF SealedOK
  <1>4. PastOK' BY DEF BInv, PastOK
  <1> QED BY <1>2, <1>3, <1>4 DEF BInv

(* The lock, when m keeps its part in it, gives it back, or takes it. *)
LEMMA LockSame ==
    ASSUME BInv, NEW m \in Machines, Others(m), UNCHANGED <<transport, lock>>,
           job'[m].at \in Pushing <=> job[m].at \in Pushing
    PROVE  LockOK'
  BY DEF BInv, Typed, LockOK, Locking, Others

(* m gives the lock back. *)
LEMMA LockReturned ==
    ASSUME BInv, NEW m \in Machines, Others(m), UNCHANGED transport, Unlock(m),
           job'[m].at \notin Pushing
    PROVE  LockOK'
  BY ConstantsAssumption DEF BInv, Typed, LockOK, Locking, Others, Unlock

(* m takes the lock. *)
LEMMA LockTaken ==
    ASSUME BInv, NEW m \in Machines, Others(m), UNCHANGED transport, LockFree,
           lock' = (IF Locking THEN m ELSE lock), job'[m].at \in Pushing
    PROVE  LockOK'
  BY ConstantsAssumption DEF BInv, Typed, LockOK, Locking, LockFree, Others

(* What a capture adds. *)
LEMMA SealsMore ==
    ASSUME BInv, NEW m \in Machines, NEW t \in Trees, In(t, Known), Sealing(m, t)
    PROVE  /\ sealed \subseteq sealed' /\ sealed' \subseteq Known
           /\ In(t, sealed') /\ In(t, objects'[m])
           /\ objects[m] \subseteq objects'[m] /\ head'[m] = t
  <1> USE DEF BInv
  <1>1. Held(t) \subseteq Known BY HeldIn
  <1> QED BY <1>1, Seals, HeldIn DEF SealedOK, In, Held

(* The files of a machine are trees of known contents. *)
LEMMA KnownTrees ==
    ASSUME BInv, NEW m \in Machines
    PROVE  /\ tree[m] \in Trees /\ In(tree[m], Known)
           /\ Captured(m) \in Trees /\ In(Captured(m), Known)
  BY Shapes, CapturedTree DEF BInv, SealedOK, Sources, In

(* An edit preserves BInv. *)
LEMMA EditBase ==
    ASSUME BInv, NEW m \in Machines, NEW p \in Paths, Edit(m, p)
    PROVE  BInv'
  <1> USE DEF BInv
  <1> DEFINE n == Len(past)
  <1>1. /\ Typed' /\ Others(m) /\ tree'[m] = [tree[m] EXCEPT ![p] = n + 1]
        /\ Len(past') = n + 1 /\ \A i \in 1..n : past'[i] = past[i]
        /\ past'[n + 1] = IF tree[m][p] = 0 THEN {0} ELSE past[tree[m][p]] \cup {tree[m][p]}
    BY EditFacts
  <1>2. n \in Nat BY DEF Typed
  <1>3. UNCHANGED <<transport, head, state, incoming, intent, objects, job, remote, lock, sealed>>
    BY DEF Edit
  <1>4. Known' = 0..(n + 1) /\ Known = 0..n BY <1>1 DEF Known
  <1>5. tree[m][p] \in 0..n BY <1>4 DEF SealedOK, Sources, In
  <1>6. PastOK'
    <2>1. ASSUME NEW i \in 1..(n + 1)
          PROVE  /\ past'[i] \subseteq 0..(i - 1)
                 /\ \A j \in past'[i] : j # 0 => past'[j] \subseteq past'[i]
      <3>1. CASE i \in 1..n
        <4>1. /\ past[i] \subseteq 0..(i - 1)
              /\ \A j \in past[i] : j # 0 => past[j] \subseteq past[i]
          BY <3>1 DEF PastOK
        <4>2. \A j \in past[i] : j # 0 => j \in 1..n
          BY <1>2, <3>1, <4>1
        <4> QED BY <1>1, <3>1, <4>1, <4>2
      <3>2. CASE i = n + 1 /\ tree[m][p] = 0
        BY <1>1, <1>2, <3>2
      <3>3. CASE i = n + 1 /\ tree[m][p] # 0
        <4> DEFINE o == tree[m][p]
        <4>1. o \in 1..n BY <1>2, <1>5, <3>3
        <4>2. past'[i] = past[o] \cup {o} BY <1>1, <3>3
        <4>3. /\ past[o] \subseteq 0..(o - 1)
              /\ \A j \in past[o] : j # 0 => past[j] \subseteq past[o]
          BY <4>1 DEF PastOK
        <4> HIDE DEF o
        <4>4. \A j \in past[o] : j # 0 => j \in 1..n BY <1>2, <4>1, <4>3
        <4>5. past'[i] \subseteq 0..(i - 1) BY <1>2, <3>3, <4>1, <4>2, <4>3
        <4>6. ASSUME NEW j \in past'[i], j # 0 PROVE past'[j] \subseteq past'[i]
          <5>1. j \in 1..n /\ past[j] \subseteq past[o] BY <4>1, <4>2, <4>3, <4>4, <4>6
          <5> QED BY <1>1, <4>2, <5>1
        <4> QED BY <4>5, <4>6
      <3> QED BY <1>2, <3>1, <3>2, <3>3
    <2> QED BY <1>1, <2>1 DEF PastOK
  <1>7. SealedOK'
    <2>1. Known \subseteq Known' /\ n + 1 \in Known' BY <1>2, <1>4
    <2>2. \A q \in Machines : In(tree[q], Known)'
      <3>1. \A q \in Machines : tree[q] \in Trees /\ In(tree[q], Known)
        BY Shapes DEF SealedOK, Sources
      <3>2. In(tree[m], Known)'
        BY <1>1, <2>1, <3>1 DEF In, Trees
      <3> QED BY <1>1, <2>1, <3>1, <3>2 DEF In, Others
    <2> QED BY <1>3, <2>1, <2>2 DEF SealedOK, Sources, HeadIn, In
  <1>8. LockOK' BY <1>3 DEF LockOK, Locking
  <1>9. \A q \in Machines : Staged(q)' /\ Kept(q)'
    BY <1>3 DEF Staged, Plan, Kept, In
  <1> QED BY <1>1, <1>6, <1>7, <1>8, <1>9

(* A capture preserves BInv. *)
LEMMA SealBase ==
    ASSUME BInv, NEW m \in Machines, Seal(m) \/ SealAll(m)
    PROVE  BInv'
  <1> USE DEF BInv
  <1>1. Typed' /\ Others(m) BY SealFacts, SealAllFacts
  <1>2. /\ UNCHANGED <<transport, tree, state, incoming, intent, job, remote, lock, past>>
        /\ Sealing(m, Captured(m)) \/ Sealing(m, tree[m])
    BY DEF Seal, SealAll
  <1>9. /\ sealed \subseteq sealed' /\ sealed' \subseteq Known
        /\ In(head'[m], sealed') /\ In(head'[m], objects'[m]) /\ objects[m] \subseteq objects'[m]
    BY <1>2, KnownTrees, SealsMore
  <1>3. Known' = Known BY <1>2 DEF Known
  <1>4. LockOK' BY <1>1, <1>2, LockSame
  <1>5. Sources(m) /\ HeadIn(remote.head, sealed) BY DEF SealedOK
  <1>6. Sources(m)' /\ HeadIn(remote.head, sealed)'
    BY <1>2, <1>3, <1>5, <1>9 DEF Sources, HeadIn, In
  <1>7. Staged(m)' BY <1>2 DEF Staged, Plan
  <1>8. Kept(m)' BY <1>2, <1>9 DEF Kept, In
  <1> QED BY <1>1, <1>2, <1>4, <1>6, <1>7, <1>8, <1>9, Frame

(* A collection preserves BInv. *)
LEMMA CollectBase ==
    ASSUME BInv, NEW m \in Machines, Collect(m)
    PROVE  BInv'
  <1> USE DEF BInv
  <1>1. /\ Typed' /\ Others(m)
        /\ objects'[m] = objects[m] \cap UNION {Held(t) : t \in Roots(m)}
    BY CollectFacts
  <1>2. UNCHANGED <<transport, tree, head, state, incoming, intent, job, remote, lock, past, sealed>>
    BY DEF Collect
  <1>3. Known' = Known BY <1>2 DEF Known
  <1>4. LockOK' BY <1>1, <1>2, LockSame
  <1>5. Sources(m) /\ HeadIn(remote.head, sealed) BY DEF SealedOK
  <1>6. Sources(m)' /\ HeadIn(remote.head, sealed)'
    BY <1>2, <1>3, <1>5 DEF Sources, HeadIn, In
  <1>7. Staged(m)' BY <1>2 DEF Staged, Plan
  <1>8. ASSUME NEW t \in Roots(m), In(t, objects[m]) PROVE In(t, objects'[m])
    BY <1>1, <1>8 DEF In, Held
  <1>9. /\ head[m] # None /\ head[m] \in Roots(m)
        /\ incoming[m] # None => incoming[m] \in Roots(m)
        /\ job[m].local # None => job[m].local \in Roots(m)
        /\ intent[m] # None => intent[m].pre \in Roots(m)
    BY Shapes, NoneIsApart DEF Roots
  <1>10. Kept(m)'
    <2>1. job[m].at # "drained" BY DEF Collect, Maintained
    <2> QED BY <1>2, <1>8, <1>9, <2>1 DEF Kept
  <1>11. sealed \subseteq Known BY DEF SealedOK
  <1> QED BY <1>1, <1>2, <1>4, <1>6, <1>7, <1>10, <1>11, Frame

(* Pairing with a remote preserves BInv. *)
LEMMA PairBase ==
    ASSUME BInv, NEW m \in Machines, Pair(m)
    PROVE  BInv'
  <1> USE DEF BInv
  <1>1. Typed' /\ Others(m) /\ state'[m] = None
    BY PairFacts
  <1>2. UNCHANGED <<transport, tree, head, incoming, intent, objects, job, remote, lock, past, sealed>>
    BY DEF Pair
  <1>3. Known' = Known /\ sealed \subseteq Known BY <1>2 DEF Known, SealedOK
  <1>4. LockOK'
    BY <1>1, <1>2, LockSame DEF Ends, Begins, Goes, Pushing
  <1>5. Sources(m) /\ HeadIn(remote.head, sealed) BY DEF SealedOK
  <1>6. Sources(m)' /\ HeadIn(remote.head, sealed)'
    BY <1>1, <1>2, <1>3, <1>5 DEF Sources, HeadIn, In, Ends, Begins, Goes
  <1>7. Staged(m)'
    BY <1>1, <1>2 DEF Staged, Plan, Ends, Begins, Goes, Pushing, Pulling, Restoring
  <1>8. Kept(m)'
    BY <1>1, <1>2 DEF Kept, In, Ends, Begins, Goes
  <1> QED BY <1>1, <1>2, <1>3, <1>4, <1>6, <1>7, <1>8, Frame

(* Reading the head at the start of a push preserves BInv. *)
LEMMA PushCheckBase ==
    ASSUME BInv, NEW m \in Machines, PushCheck(m)
    PROVE  BInv'
  <1> USE DEF BInv
  <1>1. /\ Typed' /\ Others(m) /\ job'[m].at = "upload" /\ job'[m].local = job[m].local
        /\ job'[m].seen = remote.head /\ remote'.head = remote.head
    BY PushCheckFacts
  <1>2. UNCHANGED <<transport, tree, head, state, incoming, intent, objects, lock, past, sealed>>
    BY DEF PushCheck
  <1>3. Known' = Known /\ sealed \subseteq Known BY <1>2 DEF Known, SealedOK
  <1>4. LockOK'
    BY <1>1, <1>2, LockSame DEF Ends, Begins, Goes, Pushing, PushCheck
  <1>5. Sources(m) /\ HeadIn(remote.head, sealed) BY DEF SealedOK
  <1>6. Sources(m)' /\ HeadIn(remote.head, sealed)'
    BY <1>1, <1>2, <1>3, <1>5 DEF Sources, HeadIn, In, Ends, Begins, Goes
  <1>7. Staged(m)'
    BY <1>1, <1>2 DEF PushCheck, Staged, Plan, Ends, Begins, Goes, Pushing, Pulling, Restoring
  <1>8. Kept(m)'
    BY <1>1, <1>2 DEF Kept, In, Ends, Begins, Goes
  <1> QED BY <1>1, <1>2, <1>3, <1>4, <1>6, <1>7, <1>8, Frame

(* A refused push preserves BInv. *)
LEMMA PushRefusedBase ==
    ASSUME BInv, NEW m \in Machines, PushRefused(m)
    PROVE  BInv'
  <1> USE DEF BInv
  <1>1. Typed' /\ Others(m) /\ Ends(m, "idle")
    BY PushRefusedFacts
  <1>2. UNCHANGED <<transport, tree, head, state, incoming, intent, objects, remote, past, sealed>>
    BY DEF PushRefused
  <1>3. Known' = Known /\ sealed \subseteq Known BY <1>2 DEF Known, SealedOK
  <1>4. LockOK'
    BY <1>1, <1>2, LockReturned DEF PushRefused, Ends, Begins, Pushing
  <1>5. Sources(m) /\ HeadIn(remote.head, sealed) BY DEF SealedOK
  <1>6. Sources(m)' /\ HeadIn(remote.head, sealed)'
    BY <1>1, <1>2, <1>3, <1>5 DEF Sources, HeadIn, In, Ends, Begins, Goes
  <1>7. Staged(m)'
    BY <1>1, <1>2 DEF Staged, Plan, Ends, Begins, Goes, Pushing, Pulling, Restoring
  <1>8. Kept(m)'
    BY <1>1, <1>2 DEF Kept, In, Ends, Begins, Goes
  <1> QED BY <1>1, <1>2, <1>3, <1>4, <1>6, <1>7, <1>8, Frame

(* One upload of a push preserves BInv. *)
LEMMA PushUploadBase ==
    ASSUME BInv, NEW m \in Machines, NEW c \in Contents, PushUpload(m, c)
    PROVE  BInv'
  <1> USE DEF BInv
  <1>1. Typed' /\ Others(m) /\ job' = job /\ remote'.head = remote.head
    BY PushUploadFacts
  <1>2. UNCHANGED <<transport, tree, head, state, incoming, intent, objects, job, lock, past, sealed>>
    BY DEF PushUpload, machine
  <1>3. Known' = Known /\ sealed \subseteq Known BY <1>2 DEF Known, SealedOK
  <1>4. LockOK'
    BY <1>1, <1>2, LockSame DEF Ends, Begins, Goes, Pushing
  <1>5. Sources(m) /\ HeadIn(remote.head, sealed) BY DEF SealedOK
  <1>6. Sources(m)' /\ HeadIn(remote.head, sealed)'
    BY <1>1, <1>2, <1>3, <1>5 DEF Sources, HeadIn, In, Ends, Begins, Goes
  <1>7. Staged(m)'
    BY <1>1, <1>2 DEF Staged, Plan, Ends, Begins, Goes, Pushing, Pulling, Restoring
  <1>8. Kept(m)'
    BY <1>1, <1>2 DEF Kept, In, Ends, Begins, Goes
  <1> QED BY <1>1, <1>2, <1>3, <1>4, <1>6, <1>7, <1>8, Frame

(* The end of a push preserves BInv. *)
LEMMA PushEndBase ==
    ASSUME BInv, NEW m \in Machines, PushEnd(m)
    PROVE  BInv'
  <1> USE DEF BInv
  <1>1. /\ Typed' /\ Others(m) /\ Ends(m, "idle") /\ job[m].local \in Trees
        /\ state'[m] # None /\ state'[m].remote = job[m].local /\ state'[m].local = job[m].local
    BY PushEndFacts
  <1>2. UNCHANGED <<transport, tree, head, incoming, intent, objects, remote, past, sealed>>
    BY DEF PushEnd
  <1>3. Known' = Known /\ sealed \subseteq Known BY <1>2 DEF Known, SealedOK
  <1>4. LockOK'
    BY <1>1, <1>2, LockReturned DEF PushEnd, Ends, Begins, Pushing
  <1>5. Sources(m) /\ HeadIn(remote.head, sealed) BY DEF SealedOK
  <1>6. Sources(m)' /\ HeadIn(remote.head, sealed)'
    BY <1>1, <1>2, <1>3, <1>5, NoneIsApart DEF Sources, HeadIn, In, Ends, Begins, Goes
  <1>7. Staged(m)'
    BY <1>1, <1>2 DEF Staged, Plan, Ends, Begins, Goes, Pushing, Pulling, Restoring
  <1>8. Kept(m)'
    BY <1>1, <1>2 DEF Kept, In, Ends, Begins, Goes
  <1> QED BY <1>1, <1>2, <1>3, <1>4, <1>6, <1>7, <1>8, Frame

(* The end of the writes of a pull preserves BInv. *)
LEMMA PullFinishBase ==
    ASSUME BInv, NEW m \in Machines, PullFinish(m)
    PROVE  BInv'
  <1> USE DEF BInv
  <1>1. /\ Typed' /\ Others(m) /\ Goes(m, "drained")
        /\ objects'[m] = objects[m] \cup Held(job[m].seen.root)
    BY PullFinishFacts
  <1>2. UNCHANGED <<transport, tree, head, state, incoming, intent, remote, lock, past, sealed>>
    BY DEF PullFinish
  <1>3. Known' = Known /\ sealed \subseteq Known BY <1>2 DEF Known, SealedOK
  <1>4. LockOK'
    BY <1>1, <1>2, LockSame DEF Ends, Begins, Goes, Pushing, PullFinish
  <1>5. Sources(m) /\ HeadIn(remote.head, sealed) BY DEF SealedOK
  <1>6. Sources(m)' /\ HeadIn(remote.head, sealed)'
    BY <1>1, <1>2, <1>3, <1>5 DEF Sources, HeadIn, In, Ends, Begins, Goes
  <1>7. Staged(m)'
    BY <1>1, <1>2 DEF Staged, Plan, Ends, Begins, Goes, Pushing, Pulling, Restoring, PullFinish
  <1>8. Kept(m)'
    BY <1>1, <1>2 DEF Kept, In, Ends, Begins, Goes, Held, PullFinish
  <1> QED BY <1>1, <1>2, <1>3, <1>4, <1>6, <1>7, <1>8, Frame

(* Recording the incoming root preserves BInv. *)
LEMMA PullIncomingBase ==
    ASSUME BInv, NEW m \in Machines, PullIncoming(m)
    PROVE  BInv'
  <1> USE DEF BInv
  <1>1. /\ Typed' /\ Others(m) /\ incoming'[m] = job[m].seen.root
        /\ Goes(m, "adopt") \/ Goes(m, "settle") \/ Ends(m, "idle")
    BY PullIncomingFacts
  <1>2. UNCHANGED <<transport, tree, head, state, intent, objects, remote, lock, past, sealed>>
    BY DEF PullIncoming
  <1>3. Known' = Known /\ sealed \subseteq Known BY <1>2 DEF Known, SealedOK
  <1>4. LockOK'
    BY <1>1, <1>2, LockSame DEF Ends, Begins, Goes, Pushing, PullIncoming
  <1>5. Sources(m) /\ HeadIn(remote.head, sealed) BY DEF SealedOK
  <1>6. Sources(m)' /\ HeadIn(remote.head, sealed)'
    BY <1>1, <1>2, <1>3, <1>5 DEF Sources, HeadIn, In, Ends, Begins, Goes
  <1>7. Staged(m)'
    BY <1>1, <1>2 DEF Staged, Plan, Ends, Begins, Goes, Pushing, Pulling, Restoring, PullIncoming
  <1>8. Kept(m)'
    BY <1>1, <1>2 DEF Kept, In, Ends, Begins, Goes, PullIncoming
  <1> QED BY <1>1, <1>2, <1>3, <1>4, <1>6, <1>7, <1>8, Frame

(* Disarming the restore preserves BInv. *)
LEMMA PullDisarmBase ==
    ASSUME BInv, NEW m \in Machines, PullDisarm(m)
    PROVE  BInv'
  <1> USE DEF BInv
  <1>1. Typed' /\ Others(m) /\ Goes(m, "settle") /\ intent'[m] = None
    BY PullDisarmFacts
  <1>2. UNCHANGED <<transport, tree, head, state, incoming, objects, remote, lock, past, sealed>>
    BY DEF PullDisarm
  <1>3. Known' = Known /\ sealed \subseteq Known BY <1>2 DEF Known, SealedOK
  <1>4. LockOK'
    BY <1>1, <1>2, LockSame DEF Ends, Begins, Goes, Pushing, PullDisarm
  <1>5. Sources(m) /\ HeadIn(remote.head, sealed) BY DEF SealedOK
  <1>6. Sources(m)' /\ HeadIn(remote.head, sealed)'
    BY <1>1, <1>2, <1>3, <1>5 DEF Sources, HeadIn, In, Ends, Begins, Goes
  <1>7. Staged(m)'
    BY <1>1, <1>2 DEF Staged, Plan, Ends, Begins, Goes, Pushing, Pulling, Restoring, PullDisarm
  <1>8. Kept(m)'
    BY <1>1, <1>2 DEF Kept, In, Ends, Begins, Goes, PullDisarm
  <1> QED BY <1>1, <1>2, <1>3, <1>4, <1>6, <1>7, <1>8, Frame

(* Recording the reconciled roots preserves BInv. *)
LEMMA PullSettleBase ==
    ASSUME BInv, NEW m \in Machines, PullSettle(m)
    PROVE  BInv'
  <1> USE DEF BInv
  <1>1. /\ Typed' /\ Others(m) /\ Goes(m, "clear") /\ state'[m].remote = job[m].seen.root
        /\ state'[m].local = job[m].seen.root
    BY PullSettleFacts
  <1>2. UNCHANGED <<transport, tree, head, incoming, intent, objects, remote, lock, past, sealed>>
    BY DEF PullSettle
  <1>3. Known' = Known /\ sealed \subseteq Known BY <1>2 DEF Known, SealedOK
  <1>4. LockOK'
    BY <1>1, <1>2, LockSame DEF Ends, Begins, Goes, Pushing, PullSettle
  <1>5. Sources(m) /\ HeadIn(remote.head, sealed) BY DEF SealedOK
  <1>9. job[m].seen # None BY DEF PullSettle, Staged, Pulling
  <1>6. Sources(m)' /\ HeadIn(remote.head, sealed)'
    BY <1>1, <1>2, <1>3, <1>5, <1>9 DEF Sources, HeadIn, In, Ends, Begins, Goes
  <1>7. Staged(m)'
    BY <1>1, <1>2 DEF Staged, Plan, Ends, Begins, Goes, Pushing, Pulling, Restoring, PullSettle
  <1>8. Kept(m)'
    BY <1>1, <1>2 DEF Kept, In, Ends, Begins, Goes, PullSettle
  <1> QED BY <1>1, <1>2, <1>3, <1>4, <1>6, <1>7, <1>8, Frame

(* Dropping the incoming root preserves BInv. *)
LEMMA PullClearBase ==
    ASSUME BInv, NEW m \in Machines, PullClear(m)
    PROVE  BInv'
  <1> USE DEF BInv
  <1>1. Typed' /\ Others(m) /\ Ends(m, "idle") /\ incoming'[m] = None
    BY PullClearFacts
  <1>2. UNCHANGED <<transport, tree, head, state, intent, objects, remote, lock, past, sealed>>
    BY DEF PullClear
  <1>3. Known' = Known /\ sealed \subseteq Known BY <1>2 DEF Known, SealedOK
  <1>4. LockOK'
    BY <1>1, <1>2, LockSame DEF Ends, Begins, Goes, Pushing, PullClear
  <1>5. Sources(m) /\ HeadIn(remote.head, sealed) BY DEF SealedOK
  <1>6. Sources(m)' /\ HeadIn(remote.head, sealed)'
    BY <1>1, <1>2, <1>3, <1>5 DEF Sources, HeadIn, In, Ends, Begins, Goes
  <1>7. Staged(m)'
    BY <1>1, <1>2 DEF Staged, Plan, Ends, Begins, Goes, Pushing, Pulling, Restoring
  <1>8. Kept(m)'
    BY <1>1, <1>2 DEF Kept, In, Ends, Begins, Goes
  <1> QED BY <1>1, <1>2, <1>3, <1>4, <1>6, <1>7, <1>8, Frame

(* A round of follow preserves BInv. *)
LEMMA FollowBase ==
    ASSUME BInv, NEW m \in Machines, Follow(m)
    PROVE  BInv'
  <1> USE DEF BInv
  <1>1. Typed' /\ Others(m) /\ Begins(m, "follow", None, remote.head)
    BY FollowFacts
  <1>2. UNCHANGED <<transport, tree, head, state, incoming, intent, objects, remote, lock, past, sealed>>
    BY DEF Follow
  <1>3. Known' = Known /\ sealed \subseteq Known BY <1>2 DEF Known, SealedOK
  <1>4. LockOK'
    BY <1>1, <1>2, LockSame DEF Ends, Begins, Goes, Pushing, Follow
  <1>5. Sources(m) /\ HeadIn(remote.head, sealed) BY DEF SealedOK
  <1>6. Sources(m)' /\ HeadIn(remote.head, sealed)'
    BY <1>1, <1>2, <1>3, <1>5 DEF Sources, HeadIn, In, Ends, Begins, Goes
  <1>7. Staged(m)'
    BY <1>1, <1>2 DEF Staged, Plan, Ends, Begins, Goes, Pushing, Pulling, Restoring
  <1>8. Kept(m)'
    BY <1>1, <1>2 DEF Kept, In, Ends, Begins, Goes
  <1> QED BY <1>1, <1>2, <1>3, <1>4, <1>6, <1>7, <1>8, Frame

(* A round of follow with nothing to do preserves BInv. *)
LEMMA FollowIdleBase ==
    ASSUME BInv, NEW m \in Machines, FollowIdle(m)
    PROVE  BInv'
  <1> USE DEF BInv
  <1>1. /\ Typed' /\ Others(m) /\ Ends(m, "idle") /\ job[m].seen # None
        /\ \/ UNCHANGED state
           \/ state'[m].remote = job[m].seen.root /\ state'[m].local = job[m].seen.root
    BY FollowIdleFacts
  <1>2. UNCHANGED <<transport, tree, head, incoming, intent, objects, remote, lock, past, sealed>>
    BY DEF FollowIdle
  <1>3. Known' = Known /\ sealed \subseteq Known BY <1>2 DEF Known, SealedOK
  <1>4. LockOK'
    BY <1>1, <1>2, LockSame DEF Ends, Begins, Goes, Pushing, FollowIdle
  <1>5. Sources(m) /\ HeadIn(remote.head, sealed) BY DEF SealedOK
  <1>6. Sources(m)' /\ HeadIn(remote.head, sealed)'
    BY <1>1, <1>2, <1>3, <1>5 DEF Sources, HeadIn, In, Ends, Begins, Goes
  <1>7. Staged(m)'
    BY <1>1, <1>2 DEF Staged, Plan, Ends, Begins, Goes, Pushing, Pulling, Restoring
  <1>8. Kept(m)'
    BY <1>1, <1>2 DEF Kept, In, Ends, Begins, Goes
  <1> QED BY <1>1, <1>2, <1>3, <1>4, <1>6, <1>7, <1>8, Frame

(* A pull by follow preserves BInv. *)
LEMMA FollowPullBase ==
    ASSUME BInv, NEW m \in Machines, FollowPull(m)
    PROVE  BInv'
  <1> USE DEF BInv
  <1>1. /\ Typed' /\ Others(m)
        /\ Ends(m, "idle") \/ (remote.head # None /\ Begins(m, "fetched", head[m], remote.head))
    BY FollowPullFacts
  <1>2. UNCHANGED <<transport, tree, head, state, incoming, intent, objects, remote, lock, past, sealed>>
    BY DEF FollowPull
  <1>3. Known' = Known /\ sealed \subseteq Known BY <1>2 DEF Known, SealedOK
  <1>4. LockOK'
    BY <1>1, <1>2, LockSame DEF Ends, Begins, Goes, Pushing, FollowPull
  <1>5. Sources(m) /\ HeadIn(remote.head, sealed) BY DEF SealedOK
  <1>6. Sources(m)' /\ HeadIn(remote.head, sealed)'
    BY <1>1, <1>2, <1>3, <1>5 DEF Sources, HeadIn, In, Ends, Begins, Goes
  <1>7. Staged(m)'
    BY <1>1, <1>2, Shapes, NoneIsApart DEF Staged, Plan, Ends, Begins, Goes, Pushing, Pulling, Restoring
  <1>8. Kept(m)'
    BY <1>1, <1>2 DEF Kept, In, Ends, Begins, Goes
  <1> QED BY <1>1, <1>2, <1>3, <1>4, <1>6, <1>7, <1>8, Frame

(* A crash preserves BInv. *)
LEMMA CrashBase ==
    ASSUME BInv, NEW m \in Machines, Crash(m)
    PROVE  BInv'
  <1> USE DEF BInv
  <1>1. Typed' /\ Others(m) /\ Ends(m, "down")
    BY CrashFacts
  <1>2. UNCHANGED <<transport, tree, head, state, incoming, intent, objects, remote, past, sealed>>
    BY DEF Crash
  <1>3. Known' = Known /\ sealed \subseteq Known BY <1>2 DEF Known, SealedOK
  <1>4. LockOK'
    BY <1>1, <1>2, LockReturned DEF Crash, Ends, Begins, Pushing
  <1>5. Sources(m) /\ HeadIn(remote.head, sealed) BY DEF SealedOK
  <1>6. Sources(m)' /\ HeadIn(remote.head, sealed)'
    BY <1>1, <1>2, <1>3, <1>5 DEF Sources, HeadIn, In, Ends, Begins, Goes
  <1>7. Staged(m)'
    BY <1>1, <1>2 DEF Staged, Plan, Ends, Begins, Goes, Pushing, Pulling, Restoring
  <1>8. Kept(m)'
    BY <1>1, <1>2 DEF Kept, In, Ends, Begins, Goes
  <1> QED BY <1>1, <1>2, <1>3, <1>4, <1>6, <1>7, <1>8, Frame

(* Opening after a crash preserves BInv. *)
LEMMA OpenBase ==
    ASSUME BInv, NEW m \in Machines, Open(m)
    PROVE  BInv'
  <1> USE DEF BInv
  <1>1. /\ Typed' /\ Others(m) /\ Ends(m, "idle") /\ intent'[m] = None
        /\ tree'[m] = IF intent[m] = None THEN tree[m] ELSE intent[m].pre
    BY OpenFacts
  <1>2. UNCHANGED <<transport, head, state, incoming, objects, remote, lock, past, sealed>>
    BY DEF Open
  <1>3. Known' = Known /\ sealed \subseteq Known BY <1>2 DEF Known, SealedOK
  <1>4. LockOK'
    BY <1>1, <1>2, LockSame DEF Ends, Begins, Goes, Pushing, Open
  <1>5. Sources(m) /\ HeadIn(remote.head, sealed) BY DEF SealedOK
  <1>6. Sources(m)' /\ HeadIn(remote.head, sealed)'
    BY <1>1, <1>2, <1>3, <1>5 DEF Sources, HeadIn, In, Ends, Begins, Goes
  <1>7. Staged(m)'
    BY <1>1, <1>2 DEF Staged, Plan, Ends, Begins, Goes, Pushing, Pulling, Restoring
  <1>8. Kept(m)'
    BY <1>1, <1>2 DEF Kept, In, Ends, Begins, Goes
  <1> QED BY <1>1, <1>2, <1>3, <1>4, <1>6, <1>7, <1>8, Frame

(* The start of a pull preserves BInv. *)
LEMMA PullBase ==
    ASSUME BInv, NEW m \in Machines, NEW bootstrap \in BOOLEAN, Pull(m, bootstrap)
    PROVE  BInv'
  <1> USE DEF BInv
  <1>1. /\ Typed' /\ Others(m)
        /\ Ends(m, "idle") \/ (remote.head # None /\ Begins(m, "fetched", tree[m], remote.head))
    BY PullFacts
  <1>2. /\ Sealing(m, tree[m])
        /\ UNCHANGED <<transport, tree, state, incoming, intent, remote, lock, past>>
    BY DEF Pull
  <1>3. Known' = Known /\ sealed \subseteq Known BY <1>2 DEF Known, SealedOK
  <1>4. LockOK'
    BY <1>1, <1>2, LockSame DEF Ends, Begins, Goes, Pushing, Pull
  <1>5. Sources(m) /\ HeadIn(remote.head, sealed) BY DEF SealedOK
  <1>9. /\ sealed \subseteq sealed' /\ sealed' \subseteq Known
        /\ In(tree[m], sealed') /\ In(tree[m], objects'[m])
        /\ objects[m] \subseteq objects'[m] /\ head'[m] = tree[m]
    BY <1>2, KnownTrees, SealsMore
  <1>6. Sources(m)' /\ HeadIn(remote.head, sealed)'
    BY <1>1, <1>2, <1>3, <1>5, <1>9 DEF Sources, HeadIn, In, Ends, Begins, Goes
  <1>7. Staged(m)'
    BY <1>1, <1>2, Shapes, NoneIsApart DEF Staged, Plan, Ends, Begins, Goes, Pushing, Pulling, Restoring
  <1>8. Kept(m)'
    BY <1>1, <1>2, <1>9 DEF Kept, In, Ends, Begins, Goes
  <1> QED BY <1>1, <1>2, <1>3, <1>4, <1>6, <1>7, <1>8, <1>9, Frame

(* One file of a pull preserves BInv. *)
LEMMA PullWriteBase ==
    ASSUME BInv, NEW m \in Machines, NEW p \in Paths, PullWrite(m, p)
    PROVE  BInv'
  <1> USE DEF BInv
  <1>1. /\ Typed' /\ Others(m) /\ job'[m].at = "apply" /\ job'[m].local = job[m].local
        /\ job'[m].seen = job[m].seen /\ job'[m].todo = job[m].todo \ {p}
        /\ tree'[m] = [tree[m] EXCEPT ![p] = job[m].seen.root[p]]
        /\ objects'[m] = objects[m] \cup {job[m].seen.root[p]}
    BY PullWriteFacts
  <1>2. UNCHANGED <<transport, head, state, incoming, intent, remote, lock, past, sealed>>
    BY DEF PullWrite
  <1>3. Known' = Known /\ sealed \subseteq Known BY <1>2 DEF Known, SealedOK
  <1>4. LockOK'
    BY <1>1, <1>2, LockSame DEF Ends, Begins, Goes, Pushing, PullWrite
  <1>5. Sources(m) /\ HeadIn(remote.head, sealed) BY DEF SealedOK
  <1>9. job[m].seen # None /\ tree[m] \in Trees BY Shapes DEF PullWrite, Staged, Pulling, Restoring
  <1>6. Sources(m)' /\ HeadIn(remote.head, sealed)'
    BY <1>1, <1>2, <1>3, <1>5, <1>9 DEF Sources, HeadIn, In, Ends, Begins, Goes, Trees
  <1>7. Staged(m)'
    BY <1>1, <1>2 DEF Staged, Plan, Ends, Begins, Goes, Pushing, Pulling, Restoring, PullWrite
  <1>8. Kept(m)'
    BY <1>1, <1>2 DEF Kept, In, Ends, Begins, Goes
  <1> QED BY <1>1, <1>2, <1>3, <1>4, <1>6, <1>7, <1>8, Frame

(* The start of a push preserves BInv. *)
LEMMA BeginPushBase ==
    ASSUME BInv, NEW m \in Machines, NEW takeover \in BOOLEAN, BeginPush(m, takeover),
           job[m].at \in {"idle", "follow"}
    PROVE  BInv'
  <1> USE DEF BInv
  <1>1. /\ Typed' /\ Others(m) /\ remote'.head = remote.head
        /\ \/ Ends(m, "idle") /\ UNCHANGED lock
           \/ /\ LockFree /\ Begins(m, "locked", tree[m], None)
              /\ lock' = IF Locking THEN m ELSE lock
    BY BeginPushFacts
  <1>2. Sealing(m, tree[m]) /\ UNCHANGED <<transport, tree, state, incoming, intent, past>>
    BY DEF BeginPush
  <1>3. Known' = Known BY <1>2 DEF Known
  <1>4. /\ sealed \subseteq sealed' /\ sealed' \subseteq Known
        /\ In(tree[m], sealed') /\ In(tree[m], objects'[m])
        /\ objects[m] \subseteq objects'[m] /\ head'[m] = tree[m]
    BY <1>2, KnownTrees, SealsMore
  <1>5. LockOK'
    <2>1. CASE Ends(m, "idle") /\ UNCHANGED lock
      BY <1>1, <1>2, <2>1, LockSame DEF Ends, Begins, Pushing
    <2>2. CASE /\ LockFree /\ Begins(m, "locked", tree[m], None)
               /\ lock' = IF Locking THEN m ELSE lock
      BY <1>1, <1>2, <2>2, LockTaken DEF Begins, Pushing
    <2> QED BY <1>1, <2>1, <2>2
  <1>6. Sources(m) /\ HeadIn(remote.head, sealed) BY DEF SealedOK
  <1>7. Sources(m)' /\ HeadIn(remote.head, sealed)'
    BY <1>1, <1>2, <1>3, <1>4, <1>6 DEF Sources, HeadIn, In, Ends, Begins
  <1>8. Staged(m)'
    BY <1>1, Shapes, NoneIsApart DEF Staged, Ends, Begins, Pulling, Restoring, Pushing
  <1>9. Kept(m)'
    BY <1>1, <1>2, <1>4 DEF Kept, In, Ends, Begins
  <1> QED BY <1>1, <1>2, <1>4, <1>5, <1>7, <1>8, <1>9, Frame

(* Writing the head preserves BInv. *)
LEMMA PushHeadBase ==
    ASSUME BInv, NEW m \in Machines, PushHead(m)
    PROVE  BInv'
  <1> USE DEF BInv
  <1>1. /\ Typed' /\ Others(m)
        /\ \/ ~MayReplace(m) /\ Ends(m, "idle") /\ UNCHANGED remote
           \/ /\ MayReplace(m) /\ Goes(m, "pushed")
              /\ remote'.head # None /\ remote'.head.root = job[m].local
              /\ remote'.head.base = IF job[m].seen = None THEN None ELSE job[m].seen.root
    BY PushHeadFacts
  <1>2. /\ UNCHANGED <<transport, tree, head, state, incoming, intent, objects, lock, past, sealed>>
        /\ job[m].at = "upload"
    BY DEF PushHead
  <1>3. Known' = Known /\ sealed \subseteq Known BY <1>2 DEF Known, SealedOK
  <1>4. Sources(m) /\ HeadIn(remote.head, sealed) BY DEF SealedOK
  <1>5. CASE ~MayReplace(m) /\ Ends(m, "idle") /\ UNCHANGED remote
    <2>1. ~Locking /\ lock = None BY <1>5 DEF MayReplace, LockOK
    <2>2. LockOK'
      BY <1>1, <1>2, <1>5, <2>1 DEF LockOK, Locking, MayReplace
    <2>3. Sources(m)' /\ HeadIn(remote.head, sealed)'
      BY <1>2, <1>3, <1>4, <1>5 DEF Sources, HeadIn, In, Ends, Begins
    <2>4. Staged(m)' BY <1>5 DEF Staged, Ends, Begins, Pulling, Restoring, Pushing
    <2>5. Kept(m)' BY <1>2, <1>5 DEF Kept, In, Ends, Begins
    <2> QED BY <1>1, <1>2, <1>3, <2>2, <2>3, <2>4, <2>5, Frame
  <1>6. CASE /\ MayReplace(m) /\ Goes(m, "pushed")
             /\ remote'.head # None /\ remote'.head.root = job[m].local
             /\ remote'.head.base = IF job[m].seen = None THEN None ELSE job[m].seen.root
    <2>1. LockOK' BY <1>1, <1>2, <1>6, LockSame DEF Goes, Pushing
    <2>2. job[m].local # None BY <1>2 DEF Staged, Pushing
    <2>3. Sources(m)' /\ HeadIn(remote.head, sealed)'
      BY <1>2, <1>3, <1>4, <1>6, <2>2 DEF Sources, HeadIn, In, Goes
    <2>4. Staged(m)' BY <1>6, <2>2 DEF Staged, Goes, Pulling, Restoring, Pushing
    <2>5. Kept(m)' BY <1>2, <1>6 DEF Kept, In, Goes
    <2> QED BY <1>1, <1>2, <1>3, <2>1, <2>3, <2>4, <2>5, Frame
  <1> QED BY <1>1, <1>5, <1>6

(* Arming the restore of a pull preserves BInv. *)
LEMMA PullArmBase ==
    ASSUME BInv, NEW m \in Machines, PullArm(m)
    PROVE  BInv'
  <1> USE DEF BInv
  <1>1. /\ Typed' /\ Others(m)
        /\ \/ Ends(m, "idle") /\ UNCHANGED intent
           \/ /\ job'[m].at = "apply" /\ job'[m].local = job[m].local
              /\ job'[m].seen = job[m].seen /\ job'[m].todo = Plan(m)
              /\ intent'[m] # None /\ intent'[m].pre = job[m].local
              /\ intent'[m].target = job[m].seen.root
    BY PullArmFacts
  <1>2. UNCHANGED <<transport, tree, head, state, incoming, objects, remote, lock, past, sealed>>
    BY DEF PullArm
  <1>3. Known' = Known /\ sealed \subseteq Known BY <1>2 DEF Known, SealedOK
  <1>4. job[m].at = "fetched" /\ job[m].local # None /\ job[m].seen # None
    BY DEF PullArm, Staged, Pushing, Pulling
  <1>5. LockOK' BY <1>1, <1>2, <1>4, LockSame DEF Ends, Begins, Pushing
  <1>6. Sources(m) /\ HeadIn(remote.head, sealed) BY DEF SealedOK
  <1>7. Sources(m)' /\ HeadIn(remote.head, sealed)'
    BY <1>1, <1>2, <1>3, <1>4, <1>6 DEF Sources, HeadIn, In, Ends, Begins
  <1>8. Staged(m)'
    BY <1>1, <1>4 DEF Staged, Plan, Ends, Begins, Pushing, Pulling, Restoring
  <1>9. Kept(m)'
    BY <1>1, <1>2, <1>4 DEF Kept, In, Ends, Begins
  <1> QED BY <1>1, <1>2, <1>3, <1>5, <1>7, <1>8, <1>9, Frame

(* Publishing the pulled root preserves BInv. *)
LEMMA PullPublishBase ==
    ASSUME BInv, NEW m \in Machines, PullPublish(m)
    PROVE  BInv'
  <1> USE DEF BInv
  <1>1. Typed' /\ Others(m) /\ Goes(m, "published") /\ head'[m] = job[m].seen.root
    BY PullPublishFacts
  <1>2. /\ UNCHANGED <<transport, tree, state, incoming, intent, objects, remote, lock, past>>
        /\ job[m].at = "adopt" /\ sealed' = sealed \cup Held(job[m].seen.root)
    BY DEF PullPublish
  <1>3. job[m].seen # None /\ job[m].local # None
    BY <1>2 DEF Staged, Pushing, Pulling, Restoring
  <1>4. LockOK' BY <1>1, <1>2, LockSame DEF Goes, Pushing
  <1>5. Sources(m) /\ HeadIn(remote.head, sealed) /\ sealed \subseteq Known BY DEF SealedOK
  <1>6. sealed' = sealed BY <1>2, <1>3, <1>5, HeldIn DEF Sources, HeadIn, In
  <1>7. Known' = Known BY <1>2 DEF Known
  <1>8. Sources(m)' /\ HeadIn(remote.head, sealed)'
    BY <1>1, <1>2, <1>3, <1>5, <1>6, <1>7 DEF Sources, HeadIn, In, Goes
  <1>9. Staged(m)' BY <1>1, <1>3 DEF Staged, Goes
  <1>10. Kept(m)'
    <2>1. incoming[m] = job[m].seen.root /\ incoming[m] # None
      BY <1>2, <1>3, Shapes, NoneIsApart DEF Kept
    <2> QED BY <1>1, <1>2, <2>1 DEF Kept, In, Goes
  <1> QED BY <1>1, <1>2, <1>4, <1>5, <1>6, <1>8, <1>9, <1>10, Frame

(* A command that fails preserves BInv. *)
LEMMA FailBase ==
    ASSUME BInv, NEW m \in Machines, Fail(m)
    PROVE  BInv'
  <1> USE DEF BInv
  <1>1. /\ Typed' /\ Others(m) /\ Ends(m, "idle")
        /\ \/ /\ job[m].at = "apply" /\ intent'[m] = None
              /\ tree'[m] = [p \in Paths |-> IF p \in Plan(m) THEN job[m].local[p]
                                             ELSE tree[m][p]]
           \/ UNCHANGED <<tree, intent>>
    BY FailFacts
  <1>2. UNCHANGED <<transport, head, state, incoming, objects, remote, past, sealed>> /\ Unlock(m)
    BY DEF Fail
  <1>3. Known' = Known /\ sealed \subseteq Known BY <1>2 DEF Known, SealedOK
  <1>4. LockOK' BY <1>1, <1>2, LockReturned DEF Ends, Begins, Pushing
  <1>5. Sources(m) /\ HeadIn(remote.head, sealed) BY DEF SealedOK
  <1>6. job[m].at = "apply" => job[m].local # None BY DEF Staged, Pulling, Restoring
  <1>7. In(tree[m], Known)'
    <2>1. CASE /\ job[m].at = "apply"
               /\ tree'[m] = [p \in Paths |-> IF p \in Plan(m) THEN job[m].local[p]
                                              ELSE tree[m][p]]
      BY <1>3, <1>5, <1>6, <2>1 DEF Sources, In
    <2>2. CASE tree' = tree BY <1>3, <1>5, <2>2 DEF Sources
    <2> QED BY <1>1, <2>1, <2>2
  <1>8. Sources(m)' /\ HeadIn(remote.head, sealed)'
    BY <1>1, <1>2, <1>5, <1>7 DEF Sources, HeadIn, In, Ends, Begins
  <1>9. Staged(m)' BY <1>1 DEF Staged, Ends, Begins, Pulling, Restoring, Pushing
  <1>10. Kept(m)' BY <1>1, <1>2 DEF Kept, In, Ends, Begins
  <1> QED BY <1>1, <1>2, <1>3, <1>4, <1>8, <1>9, <1>10, Frame

(* A crash of the remote preserves BInv. *)
LEMMA RemoteCrashBase ==
    ASSUME BInv, RemoteCrash
    PROVE  BInv'
  <1> USE DEF BInv
  <1>1. /\ Typed' /\ remote'.head = remote.head
        /\ \A m \in Machines : IF job[m].at \in Pushing THEN Ends(m, "idle")
                               ELSE job'[m] = job[m]
    BY RemoteCrashFacts
  <1>2. /\ UNCHANGED <<transport, tree, head, state, incoming, intent, objects, past, sealed>>
        /\ lock' = None
    BY DEF RemoteCrash
  <1>3. Known' = Known /\ sealed \subseteq Known BY <1>2 DEF Known, SealedOK
  <1>4. LockOK'
    <2>1. \A m \in Machines : job'[m].at \notin Pushing BY <1>1 DEF Ends, Begins, Pushing
    <2> QED BY <1>2, <2>1 DEF LockOK, Locking
  <1>5. ASSUME NEW m \in Machines PROVE Sources(m)' /\ Staged(m)' /\ Kept(m)'
    <2>1. Sources(m) /\ Staged(m) /\ Kept(m) BY DEF SealedOK
    <2>2. CASE Ends(m, "idle")
      BY <1>2, <1>3, <2>1, <2>2 DEF Sources, HeadIn, In, Staged, Kept, Ends, Begins,
                                     Pushing, Pulling, Restoring
    <2>3. CASE job'[m] = job[m]
      BY <1>2, <1>3, <2>1, <2>3 DEF Sources, HeadIn, In, Staged, Plan, Kept
    <2> QED BY <1>1, <2>2, <2>3
  <1>6. SealedOK'
    BY <1>1, <1>2, <1>3, <1>5 DEF SealedOK, HeadIn, In
  <1>7. PastOK' BY <1>2 DEF PastOK
  <1> QED BY <1>1, <1>4, <1>5, <1>6, <1>7

(* The invariant holds at the start. *)
LEMMA InitBase ==
    ASSUME Init
    PROVE  BInv
  <1> DEFINE first == [p \in Paths |-> 0]
  <1>1. first \in Trees /\ \A p \in Paths : first[p] = 0
    BY ConstantsAssumption DEF Trees, Contents
  <1>2. tree = [m \in Machines |-> first] /\ head = tree BY DEF Init
  <1> HIDE DEF first
  <1>3. Typed
    <2>1. job \in [Machines -> Jobs] BY IdleJob DEF Init
    <2>2. remote \in Remotes BY DEF Init, Remotes
    <2>3. past \in Seq(SUBSET Contents) /\ Len(past) <= MaxEdits
      BY ConstantsAssumption DEF Init
    <2>4. 0 \in Contents BY ConstantsAssumption DEF Contents
    <2> QED BY <1>1, <1>2, <2>1, <2>2, <2>3, <2>4 DEF Init, Typed, MaybeTree
  <1>4. \A m \in Machines : job[m] = Idle BY DEF Init
  <1>5. LockOK BY <1>4, IdleJob DEF Init, LockOK, Pushing
  <1>6. remote.head = None /\ Len(past) = 0 BY DEF Init
  <1>7. SealedOK
    BY <1>1, <1>2, <1>4, <1>6, IdleJob DEF Init, SealedOK, Sources, In, HeadIn, Known
  <1>8. PastOK BY <1>6 DEF PastOK
  <1>9. \A m \in Machines : Staged(m) /\ Kept(m)
    BY <1>1, <1>2, <1>4, IdleJob DEF Init, Staged, Kept, In, Pushing, Pulling, Restoring
  <1> QED BY <1>3, <1>5, <1>7, <1>8, <1>9 DEF BInv

(* Every step preserves it. *)
LEMMA NextBase ==
    ASSUME BInv, [Next]_vars
    PROVE  BInv'
  <1>1. CASE UNCHANGED vars
    BY <1>1 DEF vars, machine, BInv, Typed, LockOK, Locking, SealedOK, Sources, HeadIn, In, Known,
                PastOK, Staged, Plan, Kept
  <1>2. CASE RemoteCrash BY <1>2, RemoteCrashBase
  <1>3. ASSUME NEW m \in Machines, Step(m) PROVE BInv'
    <2>1. CASE PushCheck(m) BY <2>1, PushCheckBase
    <2>2. CASE PushRefused(m) BY <2>2, PushRefusedBase
    <2>3. CASE PushHead(m) BY <2>3, PushHeadBase
    <2>4. CASE PushEnd(m) BY <2>4, PushEndBase
    <2>5. CASE \E c \in Contents : PushUpload(m, c) BY <2>5, PushUploadBase
    <2>6. CASE PullArm(m) BY <2>6, PullArmBase
    <2>7. CASE PullFinish(m) BY <2>7, PullFinishBase
    <2>8. CASE PullIncoming(m) BY <2>8, PullIncomingBase
    <2>9. CASE PullPublish(m) BY <2>9, PullPublishBase
    <2>10. CASE PullDisarm(m) BY <2>10, PullDisarmBase
    <2>11. CASE PullSettle(m) BY <2>11, PullSettleBase
    <2>12. CASE PullClear(m) BY <2>12, PullClearBase
    <2>13. CASE \E p \in Paths : PullWrite(m, p) BY <2>13, PullWriteBase
    <2>14. CASE Follow(m) BY <2>14, FollowBase
    <2>15. CASE FollowIdle(m) BY <2>15, FollowIdleBase
    <2>16. CASE FollowPush(m)
      BY <2>16, BeginPushBase DEF FollowPush
    <2>17. CASE FollowPull(m) BY <2>17, FollowPullBase
    <2> QED BY <1>3, <2>1, <2>2, <2>3, <2>4, <2>5, <2>6, <2>7, <2>8, <2>9, <2>10, <2>11, <2>12,
               <2>13, <2>14, <2>15, <2>16, <2>17 DEF Step
  <1>4. ASSUME NEW m \in Machines,
               \/ Seal(m) \/ SealAll(m) \/ Collect(m) \/ Pair(m) \/ Fail(m) \/ Crash(m) \/ Open(m)
               \/ \E p \in Paths : Edit(m, p)
        PROVE  BInv'
    BY <1>4, SealBase, CollectBase, PairBase, FailBase, CrashBase, OpenBase, EditBase
  <1>5. ASSUME NEW m \in Machines, NEW flag \in BOOLEAN, Push(m, flag) \/ Pull(m, flag)
        PROVE  BInv'
    BY <1>5, BeginPushBase, PullBase DEF Push
  <1> QED BY <1>1, <1>2, <1>3, <1>4, <1>5 DEF Next

(* Part 1 holds in every reachable state. *)
LEMMA BaseInvariant == Spec => []BInv
  BY InitBase, NextBase, PTL DEF Spec

(* What happened stays happened, and is one of the things the history names. *)
HistoryOK == exposed \subseteq Contents /\ races \subseteq Race

LEMMA HistoryStep ==
    ASSUME BInv, [Next]_vars
    PROVE  races \subseteq races' /\ exposed \subseteq exposed' /\ (HistoryOK => HistoryOK')
  <1> USE DEF BInv
  <1>1. CASE UNCHANGED history BY <1>1 DEF history, HistoryOK
  <1>2. UNCHANGED vars => UNCHANGED history BY DEF vars
  <1>3. ASSUME NEW m \in Machines, Step(m) PROVE UNCHANGED history
    BY <1>3 DEF Step, PushCheck, PushRefused, PushHead, PushEnd, PushUpload, PullArm, PullFinish,
                PullIncoming, PullPublish, PullDisarm, PullSettle, PullClear, PullWrite, Follow,
                FollowIdle, FollowPush, BeginPush, FollowPull
  <1>4. ASSUME NEW m \in Machines, Seal(m) \/ Collect(m) \/ Pair(m) \/ Open(m)
        PROVE  UNCHANGED history
    BY <1>4 DEF Seal, Collect, Pair, Open
  <1>5. ASSUME NEW m \in Machines, NEW flag \in BOOLEAN, Push(m, flag) \/ Pull(m, flag)
        PROVE  UNCHANGED history
    BY <1>5 DEF Push, BeginPush, Pull
  <1>6. CASE RemoteCrash
    BY <1>6 DEF RemoteCrash, When, HistoryOK, Race
  <1>7. ASSUME NEW m \in Machines, SealAll(m)
        PROVE  races \subseteq races' /\ exposed \subseteq exposed' /\ (HistoryOK => HistoryOK')
    BY <1>7 DEF SealAll, HistoryOK, Race
  <1>8. ASSUME NEW m \in Machines, Fail(m)
        PROVE  races \subseteq races' /\ exposed \subseteq exposed' /\ (HistoryOK => HistoryOK')
    BY <1>8 DEF Fail, When, HistoryOK, Race
  <1>9. ASSUME NEW m \in Machines, Crash(m)
        PROVE  races \subseteq races' /\ exposed \subseteq exposed' /\ (HistoryOK => HistoryOK')
    <2>1. Held(tree[m]) \subseteq Contents BY Shapes DEF Held, Trees
    <2> QED BY <1>9, <2>1 DEF Crash, When, HistoryOK, Race
  <1>10. ASSUME NEW m \in Machines, NEW p \in Paths, Edit(m, p)
         PROVE  races \subseteq races' /\ exposed \subseteq exposed' /\ (HistoryOK => HistoryOK')
    <2>1. Len(past) + 1 \in Contents BY <1>10, EditFacts
    <2> QED BY <1>10, <2>1 DEF Edit, HistoryOK
  <1> QED BY <1>1, <1>2, <1>3, <1>4, <1>5, <1>6, <1>7, <1>8, <1>9, <1>10 DEF Next

(* Every state of a synchronisation is well typed, and the writer lock of a
   remote is held by a machine that publishes and by nobody else, for any
   machines, files, edits and faults, whatever races have happened. *)
THEOREM TypeCorrect == Spec => []TypeOK
  <1>1. BInv /\ HistoryOK => TypeOK
    BY ConstantsAssumption DEF BInv, HistoryOK, Typed, LockOK, TypeOK, Remotes, Heads, Pushing
  <1>2. Init => HistoryOK BY DEF Init, HistoryOK
  <1>3. BInv /\ HistoryOK /\ [Next]_vars => HistoryOK' BY HistoryStep
  <1> QED BY <1>1, <1>2, <1>3, BaseInvariant, PTL DEF Spec

-----------------------------------------------------------------------------
(* Part 2: what the remote serves *)

(* Most steps leave the remote alone. *)
LEMMA RemoteAlone ==
    ASSUME Next
    PROVE  \/ UNCHANGED remote \/ RemoteCrash
           \/ \E m \in Machines :
                \/ PushCheck(m) \/ PushHead(m)
                \/ \E c \in Contents : PushUpload(m, c)
                \/ \E flag \in BOOLEAN :
                    BeginPush(m, flag) /\ job[m].at \in {"idle", "follow"}
  <1>1. CASE RemoteCrash BY <1>1
  <1>2. ASSUME NEW m \in Machines, Step(m)
        PROVE  \/ UNCHANGED remote \/ PushCheck(m) \/ PushHead(m)
               \/ \E c \in Contents : PushUpload(m, c)
               \/ BeginPush(m, TRUE) /\ job[m].at \in {"idle", "follow"}
    BY <1>2 DEF Step, PushRefused, PushEnd, PullArm, PullFinish, PullIncoming, PullPublish,
                PullDisarm, PullSettle, PullClear, PullWrite, Follow, FollowIdle, FollowPush,
                FollowPull
  <1>3. ASSUME NEW m \in Machines,
               \/ Seal(m) \/ SealAll(m) \/ Collect(m) \/ Pair(m) \/ Fail(m) \/ Crash(m) \/ Open(m)
               \/ \E p \in Paths : Edit(m, p)
        PROVE  UNCHANGED remote
    BY <1>3 DEF Seal, SealAll, Collect, Pair, Fail, Crash, Open, Edit
  <1>4. ASSUME NEW m \in Machines, NEW flag \in BOOLEAN, Push(m, flag) \/ Pull(m, flag)
        PROVE  \/ UNCHANGED remote
               \/ BeginPush(m, flag) /\ job[m].at \in {"idle", "follow"}
    BY <1>4 DEF Push, Pull
  <1> QED BY <1>1, <1>2, <1>3, <1>4 DEF Next

(* Every step leaves the remote whole: the head is written after its objects. *)
LEMMA NextWhole ==
    ASSUME BInv, Whole, [Next]_vars, "pointer" \notin races'
    PROVE  Whole'
  <1> USE DEF BInv
  <1>1. CASE UNCHANGED remote BY <1>1 DEF Whole, In
  <1>2. CASE RemoteCrash BY <1>2, RemoteCrashFacts DEF Whole, In
  <1>3. ASSUME NEW m \in Machines, PushCheck(m) PROVE Whole'
    BY <1>3, PushCheckFacts DEF Whole, In
  <1>4. ASSUME NEW m \in Machines, PushHead(m) PROVE Whole'
    <2>1. In(job[m].local, remote.objects)
      BY <1>4, HeldIn DEF PushHead, Missing
    <2> QED BY <1>4, <2>1, PushHeadFacts DEF Whole, In
  <1>5. ASSUME NEW m \in Machines, NEW c \in Contents, PushUpload(m, c) PROVE Whole'
    BY <1>5, PushUploadFacts DEF Whole, In
  <1>6. ASSUME NEW m \in Machines, NEW flag \in BOOLEAN, BeginPush(m, flag) PROVE Whole'
    <2>1. UNCHANGED remote \/ remote' = NoteETag(m) BY <1>6 DEF BeginPush
    <2> QED BY <2>1 DEF Whole, In, NoteETag, ETag, Typed, Remotes
  <1>7. UNCHANGED vars => UNCHANGED remote BY DEF vars
  <1> QED BY <1>1, <1>2, <1>3, <1>4, <1>5, <1>6, <1>7, RemoteAlone

(* The remote's head names only objects that are there and whole, unless a power
   loss of the remote has left unflushed pointers empty, and whatever has
   happened no collection takes what a machine's head, incoming.json or a
   pending rollback names, for any interleaving of pushes, pulls, captures,
   collections, lost requests and crashes. *)
THEOREM CompleteAlways == Spec => []Complete
  <1> DEFINE Holds == "pointer" \notin races => Whole
  <1>1. Init => Holds BY DEF Init, Whole
  <1>2. BInv /\ Holds /\ [Next]_vars => Holds' BY NextWhole, HistoryStep
  <1>3. BInv /\ Holds => Complete
    BY HeldIn DEF BInv, Whole, Complete, Readable, Kept, In
  <1> QED BY <1>1, <1>2, <1>3, BaseInvariant, PTL DEF Spec

-----------------------------------------------------------------------------
(* Part 3: what a pull may write over *)

(* A step of m disturbs the files of m alone. *)
LEMMA WrittenOthers ==
    ASSUME NEW m \in Machines, Others(m), WInv, sealed \subseteq sealed',
           exposed \subseteq exposed', Written(m)'
    PROVE  WInv'
  BY DEF Others, WInv, Written, Saved, Plan

(* Nothing is claimed of a machine that does not write files. *)
LEMMA WrittenElse ==
    ASSUME NEW m \in Machines, Others(m), WInv, sealed \subseteq sealed',
           exposed \subseteq exposed', job'[m].at \notin {"apply", "down"}
    PROVE  WInv'
  BY WrittenOthers DEF Written

(* The steps of commands keep the files where the plan has them. *)
LEMMA WrittenStep ==
    ASSUME BInv, WInv, NEW m \in Machines, Step(m), exposed \subseteq exposed'
    PROVE  WInv'
  <1> USE DEF BInv
  <1>1. CASE PushCheck(m) BY <1>1, PushCheckFacts, WrittenElse DEF PushCheck
  <1>2. CASE PushRefused(m)
    BY <1>2, PushRefusedFacts, WrittenElse DEF PushRefused, Ends, Begins
  <1>3. CASE PushHead(m)
    BY <1>3, PushHeadFacts, WrittenElse DEF PushHead, Ends, Begins, Goes
  <1>4. CASE PushEnd(m) BY <1>4, PushEndFacts, WrittenElse DEF PushEnd, Ends, Begins
  <1>5. CASE \E c \in Contents : PushUpload(m, c)
    BY <1>5, PushUploadFacts, WrittenElse DEF PushUpload, machine
  <1>6. CASE PullArm(m)
    <2>1. /\ Others(m)
          /\ \/ Ends(m, "idle")
             \/ /\ Verified(m) /\ job'[m].at = "apply" /\ job'[m].local = job[m].local
                /\ job'[m].seen = job[m].seen /\ job'[m].todo = Plan(m)
      BY <1>6, PullArmFacts
    <2>2. UNCHANGED <<sealed, tree>> BY <1>6 DEF PullArm
    <2>3. CASE Ends(m, "idle") BY <2>1, <2>2, <2>3, WrittenElse DEF Ends, Begins
    <2>4. CASE /\ Verified(m) /\ job'[m].at = "apply" /\ job'[m].local = job[m].local
               /\ job'[m].seen = job[m].seen /\ job'[m].todo = Plan(m)
      <3>1. Plan(m)' = Plan(m) BY <2>4 DEF Plan
      <3>2. job[m].local # None /\ Sources(m)
        BY <1>6 DEF PullArm, Staged, Pulling, SealedOK
      <3>3. Plan(m) \subseteq Paths BY DEF Plan, Differ
      <3>4. Written(m)' BY <2>2, <2>4, <3>1, <3>2, <3>3 DEF Written, Verified, Sources, In, Saved
      <3> QED BY <2>1, <2>2, <3>4, WrittenOthers
    <2> QED BY <2>1, <2>3, <2>4
  <1>7. CASE PullFinish(m) BY <1>7, PullFinishFacts, WrittenElse DEF PullFinish, Goes
  <1>8. CASE PullIncoming(m)
    BY <1>8, PullIncomingFacts, WrittenElse DEF PullIncoming, Goes, Ends, Begins
  <1>9. CASE PullPublish(m) BY <1>9, PullPublishFacts, WrittenElse DEF PullPublish, Goes
  <1>10. CASE PullDisarm(m) BY <1>10, PullDisarmFacts, WrittenElse DEF PullDisarm, Goes
  <1>11. CASE PullSettle(m) BY <1>11, PullSettleFacts, WrittenElse DEF PullSettle, Goes
  <1>12. CASE PullClear(m) BY <1>12, PullClearFacts, WrittenElse DEF PullClear, Ends, Begins
  <1>13. ASSUME NEW p \in Paths, PullWrite(m, p) PROVE WInv'
    <2>1. /\ Others(m) /\ job'[m].at = "apply" /\ job'[m].local = job[m].local
          /\ job'[m].seen = job[m].seen /\ job'[m].todo = job[m].todo \ {p}
          /\ tree'[m] = [tree[m] EXCEPT ![p] = job[m].seen.root[p]]
      BY <1>13, PullWriteFacts
    <2>2. sealed' = sealed /\ job[m].at = "apply" /\ p \in job[m].todo BY <1>13 DEF PullWrite
    <2>3. Plan(m)' = Plan(m) /\ tree[m] \in Trees BY <2>1, Shapes DEF Plan
    <2>4. Plan(m) \subseteq Paths BY DEF Plan, Differ
    <2>5. job[m].seen # None /\ In(job[m].seen.root, sealed)
      BY <2>2 DEF Staged, Pulling, Restoring, SealedOK, Sources, HeadIn
    <2>6. Written(m)'
      BY <2>1, <2>2, <2>3, <2>4, <2>5 DEF WInv, Written, Trees, Saved, In
    <2> QED BY <2>1, <2>2, <2>6, WrittenOthers
  <1>14. CASE Follow(m) BY <1>14, FollowFacts, WrittenElse DEF Follow, Begins
  <1>15. CASE FollowIdle(m)
    BY <1>15, FollowIdleFacts, WrittenElse DEF FollowIdle, Ends, Begins
  <1>16. CASE FollowPush(m)
    BY <1>16, BeginPushFacts, SealsTree, WrittenElse DEF FollowPush, BeginPush, Ends, Begins
  <1>17. CASE FollowPull(m)
    BY <1>17, FollowPullFacts, WrittenElse DEF FollowPull, Ends, Begins
  <1> QED BY <1>1, <1>2, <1>3, <1>4, <1>5, <1>6, <1>7, <1>8, <1>9, <1>10, <1>11, <1>12, <1>13,
             <1>14, <1>15, <1>16, <1>17 DEF Step

(* So do all steps. *)
LEMMA NextWritten ==
    ASSUME BInv, WInv, [Next]_vars
    PROVE  WInv'
  <1> USE DEF BInv
  <1>0. exposed \subseteq exposed' BY HistoryStep
  <1>1. CASE UNCHANGED vars
    BY <1>1 DEF vars, machine, history, WInv, Written, Saved, Plan
  <1>2. CASE RemoteCrash
    <2>1. UNCHANGED <<tree, intent, sealed>> BY <1>2 DEF RemoteCrash
    <2>2. \A m \in Machines : job'[m] = job[m] \/ job'[m].at = "idle"
      BY <1>2, RemoteCrashFacts DEF Ends, Begins
    <2> QED BY <1>0, <2>1, <2>2 DEF WInv, Written, Saved, Plan
  <1>3. ASSUME NEW m \in Machines, Seal(m) \/ SealAll(m) PROVE WInv'
    <2>1. UNCHANGED <<tree, intent, job>> /\ sealed \subseteq sealed'
      BY <1>3, SealsTree, Seals, CapturedTree DEF Seal, SealAll
    <2>2. Written(m)' BY <1>0, <2>1 DEF WInv, Written, Saved, Plan
    <2> QED BY <1>0, <1>3, <2>1, <2>2, SealFacts, SealAllFacts, WrittenOthers
  <1>4. ASSUME NEW m \in Machines, Collect(m) PROVE WInv'
    <2>1. UNCHANGED <<tree, intent, job, sealed>> BY <1>4 DEF Collect
    <2> QED BY <1>0, <2>1 DEF WInv, Written, Saved, Plan
  <1>5. ASSUME NEW m \in Machines, Pair(m) PROVE WInv'
    BY <1>0, <1>5, PairFacts, WrittenElse DEF Pair
  <1>6. ASSUME NEW m \in Machines, Fail(m) PROVE WInv'
    BY <1>0, <1>6, FailFacts, WrittenElse DEF Fail, Ends, Begins
  <1>7. ASSUME NEW m \in Machines, Crash(m) PROVE WInv'
    <2>1. Others(m) /\ job'[m].at = "down" BY <1>7, CrashFacts DEF Ends, Begins
    <2>2. /\ UNCHANGED <<tree, intent, sealed>>
          /\ intent[m] # None => Held(tree[m]) \subseteq sealed \cup exposed'
      BY <1>7 DEF Crash
    <2>3. Written(m)' BY <2>1, <2>2 DEF Written, Saved, Held
    <2> QED BY <1>0, <2>1, <2>2, <2>3, WrittenOthers
  <1>8. ASSUME NEW m \in Machines, Open(m) PROVE WInv'
    BY <1>0, <1>8, OpenFacts, WrittenElse DEF Open, Ends, Begins
  <1>9. ASSUME NEW m \in Machines, NEW p \in Paths, Edit(m, p) PROVE WInv'
    <2>1. Others(m) /\ tree'[m] = [tree[m] EXCEPT ![p] = Len(past) + 1]
      BY <1>9, EditFacts
    <2>2. /\ UNCHANGED <<intent, job, sealed>>
          /\ Unwatched(m, p) => Len(past) + 1 \in exposed'
      BY <1>9 DEF Edit
    <2>3. Plan(m)' = Plan(m) /\ tree[m] \in Trees BY <2>2, Shapes DEF Plan
    <2>4. Plan(m) \subseteq Paths BY DEF Plan, Differ
    <2>5. Written(m)'
      BY <1>0, <2>1, <2>2, <2>3, <2>4 DEF WInv, Written, Saved, Trees, Unwatched
    <2> QED BY <1>0, <2>1, <2>2, <2>5, WrittenOthers
  <1>10. ASSUME NEW m \in Machines, NEW flag \in BOOLEAN, Push(m, flag) PROVE WInv'
    BY <1>0, <1>10, BeginPushFacts, SealsTree, WrittenElse DEF Push, BeginPush, Ends, Begins
  <1>11. ASSUME NEW m \in Machines, NEW flag \in BOOLEAN, Pull(m, flag) PROVE WInv'
    BY <1>0, <1>11, PullFacts, SealsTree, WrittenElse DEF Pull, Ends, Begins
  <1> QED BY <1>0, <1>1, <1>2, <1>3, <1>4, <1>5, <1>6, <1>7, <1>8, <1>9, <1>10, <1>11, WrittenStep
          DEF Next

(* No pull writes at the start. *)
LEMMA InitWritten ==
    ASSUME Init
    PROVE  WInv
  BY IdleJob DEF Init, WInv, Written

(* Only four steps write into a working tree. *)
LEMMA TreeAlone ==
    ASSUME Next
    PROVE  \/ UNCHANGED tree
           \/ \E m \in Machines :
                \/ Fail(m) \/ Open(m)
                \/ \E p \in Paths : Edit(m, p) \/ PullWrite(m, p)
  <1>1. CASE RemoteCrash BY <1>1 DEF RemoteCrash
  <1>2. ASSUME NEW m \in Machines, Step(m)
        PROVE  UNCHANGED tree \/ \E p \in Paths : PullWrite(m, p)
    BY <1>2 DEF Step, PushCheck, PushRefused, PushHead, PushEnd, PushUpload, machine, PullArm,
                PullFinish, PullIncoming, PullPublish, PullDisarm, PullSettle, PullClear, Follow,
                FollowIdle, FollowPush, BeginPush, FollowPull
  <1>3. ASSUME NEW m \in Machines, Seal(m) \/ SealAll(m) \/ Collect(m) \/ Pair(m) \/ Crash(m)
        PROVE  UNCHANGED tree
    BY <1>3 DEF Seal, SealAll, Collect, Pair, Crash
  <1>4. ASSUME NEW m \in Machines, NEW flag \in BOOLEAN, Push(m, flag) \/ Pull(m, flag)
        PROVE  UNCHANGED tree
    BY <1>4 DEF Push, BeginPush, Pull
  <1> QED BY <1>1, <1>2, <1>3, <1>4 DEF Next

(* Whatever a step other than an edit overwrites is held by a snapshot,
   or is exposed. *)
LEMMA NextLocal ==
    ASSUME BInv, WInv, [Next]_vars, past' = past
    PROVE  \A m \in Machines : \A p \in Differ(tree[m], tree'[m]) :
               tree[m][p] \in sealed \cup exposed
  <1> USE DEF BInv
  <1>1. CASE UNCHANGED tree BY <1>1 DEF Differ
  <1>2. ASSUME NEW m \in Machines, Others(m),
               \A p \in Paths : tree'[m][p] # tree[m][p] => Saved(tree[m][p])
        PROVE  \A q \in Machines : \A p \in Differ(tree[q], tree'[q]) :
                   tree[q][p] \in sealed \cup exposed
    BY <1>2 DEF Others, Differ, Saved
  <1>3. ASSUME NEW m \in Machines, NEW p \in Paths, Edit(m, p) PROVE FALSE
    <2>1. Len(past') = Len(past) + 1 BY <1>3, EditFacts
    <2>2. Len(past) \in Nat BY DEF Typed
    <2> QED BY <2>1, <2>2
  <1>4. \A m \in Machines : Sources(m) /\ Written(m) /\ tree[m] \in Trees
    BY Shapes DEF SealedOK, WInv
  <1>5. ASSUME NEW m \in Machines, NEW f \in Paths, PullWrite(m, f)
        PROVE  \A p \in Paths : tree'[m][p] # tree[m][p] => Saved(tree[m][p])
    <2>1. job[m].at = "apply" /\ f \in job[m].todo BY <1>5 DEF PullWrite
    <2>2. job[m].local # None /\ job[m].todo \subseteq Plan(m)
      BY <2>1 DEF Staged, Pulling, Restoring
    <2>3. Saved(tree[m][f]) BY <1>4, <2>1, <2>2 DEF Written
    <2>4. tree'[m] = [tree[m] EXCEPT ![f] = job[m].seen.root[f]] BY <1>5, PullWriteFacts
    <2> QED BY <1>4, <2>3, <2>4 DEF Trees
  <1>6. ASSUME NEW m \in Machines, Fail(m)
        PROVE  \A p \in Paths : tree'[m][p] # tree[m][p] => Saved(tree[m][p])
    <2>1. CASE UNCHANGED tree BY <2>1
    <2>2. CASE /\ job[m].at = "apply"
               /\ tree'[m] = [p \in Paths |-> IF p \in Plan(m) THEN job[m].local[p]
                                              ELSE tree[m][p]]
      <3>2. \A p \in Plan(m) : Saved(tree[m][p])
        BY <1>4, <2>2 DEF Written
      <3> QED BY <2>2, <3>2
    <2> QED BY <1>6, <2>1, <2>2, FailFacts
  <1>7. ASSUME NEW m \in Machines, Open(m)
        PROVE  \A p \in Paths : tree'[m][p] # tree[m][p] => Saved(tree[m][p])
    <2>1. tree'[m] = IF intent[m] = None THEN tree[m] ELSE intent[m].pre BY <1>7, OpenFacts
    <2>2. job[m].at = "down" BY <1>7 DEF Open
    <2> QED BY <1>4, <2>1, <2>2 DEF Written
  <1>8. UNCHANGED vars => UNCHANGED tree BY DEF vars, machine
  <1> QED BY <1>1, <1>2, <1>3, <1>5, <1>6, <1>7, <1>8, TreeAlone, PullWriteFacts, FailFacts,
             OpenFacts

(* Neither a pull, nor follow, nor the rollback of a failed pull, nor the
   recovery at the next open ever replaces a file whose content no snapshot
   holds, for any edits, captures and faults meanwhile, but for the contents
   that are exposed: those the person wrote between the pull's look at the file
   and the end of its writes, or while the machine was down with a rollback
   pending, and those no snapshot held when it went down. *)
THEOREM LocalIsKept == Spec => LocalKept
  <1>1. BInv /\ WInv /\ [Next]_vars => WInv' BY NextWritten
  <1>2. BInv /\ WInv /\ [Next]_vars =>
            [past' = past =>
                \A m \in Machines : \A p \in Differ(tree[m], tree'[m]) :
                    tree[m][p] \in sealed \cup exposed]_vars
    BY NextLocal
  <1> QED BY <1>1, <1>2, InitWritten, BaseInvariant, PTL DEF Spec, LocalKept

-----------------------------------------------------------------------------
(* Part 4: what a push may replace. "Made upon" is an order. *)

(* "Made upon" is transitive, because an edit remembers all it was made upon. *)
LEMMA UponTrans ==
    ASSUME PastOK, NEW a, NEW b, NEW c, Upon(a, b), Upon(b, c)
    PROVE  Upon(a, c)
  <1>1. CASE b \in 1..Len(past) /\ a \in past[b] /\ c \in 1..Len(past) /\ b \in past[c]
    <2>1. b # 0 BY <1>1
    <2>2. past[b] \subseteq past[c] BY <1>1, <2>1 DEF PastOK
    <2> QED BY <1>1, <2>2 DEF Upon
  <1> QED BY <1>1 DEF Upon

(* An edit of m's own keeps what lies below it. *)
LEMMA OwnTrans ==
    ASSUME PastOK, NEW m, NEW a, NEW b, NEW c, Own(m, b, c)
    PROVE  /\ Upon(a, b) => Upon(a, c)
           /\ Own(m, a, b) => Own(m, a, c)
  <1>1. Upon(a, b) => Upon(a, c) BY UponTrans DEF Own
  <1>2. Own(m, a, b) => Upon(a, b) BY DEF Own, Upon
  <1> QED BY <1>1, <1>2 DEF Own

(* The same, tree by tree. *)
LEMMA Orders ==
    ASSUME PastOK, NEW m, NEW s, NEW t, NEW u
    PROVE  /\ Above(s, s) /\ Grown(m, s, s)
           /\ Grown(m, s, t) => Above(s, t) /\ Loose(m, s, t)
           /\ Above(s, t) /\ Above(t, u) => Above(s, u)
           /\ Above(s, t) /\ Grown(m, t, u) => Above(s, u)
           /\ Grown(m, s, t) /\ Grown(m, t, u) => Grown(m, s, u)
  <1>1. \A a, b : a = b => Upon(a, b) /\ Own(m, a, b) BY DEF Upon, Own
  <1>2. \A a, b : Own(m, a, b) => Upon(a, b) /\ (b = a \/ Private(m, b)) BY DEF Own, Upon
  <1>3. Above(s, t) /\ Above(t, u) => Above(s, u) BY UponTrans DEF Above
  <1>4. Above(s, t) /\ Grown(m, t, u) => Above(s, u) BY OwnTrans DEF Above, Grown
  <1>5. Grown(m, s, t) /\ Grown(m, t, u) => Grown(m, s, u) BY OwnTrans DEF Grown
  <1> QED BY <1>1, <1>2, <1>3, <1>4, <1>5 DEF Above, Grown, Loose

(* What lies above a base is a base. *)
LEMMA Bases ==
    ASSUME PastOK, NEW m, NEW s, NEW t
    PROVE  /\ Base(m, s) /\ Above(s, t) => Base(m, t)
           /\ Base(m, s) /\ Grown(m, s, t) => Base(m, t)
  <1> QED BY Orders DEF Base

(* Content that was published, or read from the remote, is private no more. *)
LEMMA NotStray ==
    ASSUME NEW m \in Machines
    PROVE  /\ state[m] # None => ~Stray(m, state[m].remote)
           /\ job[m].seen # None => ~Stray(m, job[m].seen.root)
           /\ job[m].seen # None /\ job[m].seen.base # None => ~Stray(m, job[m].seen.base)
  BY DEF Stray, Private, Free, HeadLacks, Lacks

(* What stays true for machine m as edits are made and private content stays
   private. *)
Mono(m) ==
    /\ \A a, b : Own(m, a, b) => Own(m, a, b)'
    /\ \A s, t : Above(s, t) => Above(s, t)'
    /\ \A s, t : Grown(m, s, t) => Grown(m, s, t)'
    /\ \A s, t : Loose(m, s, t) => Loose(m, s, t)'
    /\ \A t : Stray(m, t) => Stray(m, t)'

Secret(m) == \A c : Private(m, c) => Private(m, c)'
Grows == \A a, b : Upon(a, b) => Upon(a, b)'

(* Private content and the order of edits carry all the relations on trees. *)
LEMMA MonoFrom ==
    ASSUME NEW m, Secret(m), Grows
    PROVE  Mono(m)
  <1>1. \A a, b : Own(m, a, b) => Own(m, a, b)' BY DEF Own, Secret, Grows
  <1>2. \A s, t : Above(s, t) => Above(s, t)' BY DEF Above, Grows
  <1>3. \A s, t : Loose(m, s, t) => Loose(m, s, t)' BY DEF Loose, Secret
  <1>4. \A t : Stray(m, t) => Stray(m, t)' BY DEF Stray, Secret
  <1>5. \A s, t : Grown(m, s, t) => Grown(m, s, t)'
    <2> QED BY <1>1 DEF Grown
  <1> QED BY <1>1, <1>2, <1>3, <1>4, <1>5 DEF Mono

(* Without an edit the order of contents stays as it is. *)
LEMMA Ungrown ==
    ASSUME UNCHANGED past
    PROVE  Grows /\ Known' = Known /\ \A a, b : Upon(a, b)' <=> Upon(a, b)
  BY DEF Grows, Upon, Known

(* An edit adds a new content above the one it replaces. *)
LEMMA EditGrows ==
    ASSUME BInv, NEW m \in Machines, NEW p \in Paths, Edit(m, p)
    PROVE  /\ Grows /\ Known \subseteq Known' /\ Len(past) + 1 \notin Known
           /\ \A o, n : o = tree[m][p] /\ n = Len(past) + 1 => Upon(o, n)'
  <1> USE DEF BInv
  <1>1. /\ Len(past') = Len(past) + 1 /\ \A i \in 1..Len(past) : past'[i] = past[i]
        /\ past'[Len(past) + 1] = IF tree[m][p] = 0 THEN {0}
                                  ELSE past[tree[m][p]] \cup {tree[m][p]}
    BY EditFacts
  <1>2. Len(past) \in Nat BY DEF Typed
  <1>3. Grows /\ Known \subseteq Known' /\ Len(past) + 1 \notin Known
    BY <1>1, <1>2 DEF Grows, Upon, Known
  <1>4. tree[m][p] \in past'[Len(past) + 1] /\ Len(past) + 1 \in 1..Len(past')
    BY <1>1, <1>2
  <1>5. \A o, n : o = tree[m][p] /\ n = Len(past) + 1 => Upon(o, n)'
    BY <1>4 DEF Upon
  <1> QED BY <1>3, <1>5

(* The content of q that was private stays so in most steps. *)
LEMMA SecretFrom ==
    ASSUME NEW m \in Machines, NEW q \in Machines, Others(m), UNCHANGED past,
           remote'.head = remote.head,
           \A c : Free(q, m, c) /\ HeadLacks(remote.head, c) => Free(q, m, c)'
    PROVE  Secret(q)
  <1> SUFFICES ASSUME NEW c, Private(q, c) PROVE Private(q, c)'
    BY DEF Secret
  <1>1. HeadLacks(remote.head, c)' /\ HeadLacks(remote.head, c) BY DEF Private, HeadLacks, Lacks
  <1>2. c \in Known' BY Ungrown DEF Private
  <1>3. Free(q, m, c)' BY <1>1 DEF Private
  <1>4. ASSUME NEW r \in Machines, r # m PROVE Free(q, r, c)'
    <2>1. Free(q, r, c) BY DEF Private
    <2> QED BY <1>4, <2>1 DEF Others, Free, HeadLacks, Lacks
  <1> QED BY <1>1, <1>2, <1>3, <1>4 DEF Private

(* A command's steps keep private content private; two of a push come below. *)
LEMMA SecretStep ==
    ASSUME BInv, NEW m \in Machines, NEW q \in Machines, Step(m), ~FollowPush(m), ~PushHead(m)
    PROVE  Secret(q)
  <1> USE DEF BInv
  <1>1. CASE PushCheck(m)
    <2>1. /\ Others(m) /\ job'[m].at = "upload" /\ job'[m].local = job[m].local
          /\ job'[m].seen = remote.head /\ remote'.head = remote.head
      BY <1>1, PushCheckFacts
    <2>2. UNCHANGED <<tree, head, state, intent, past>> /\ job[m].at = "locked"
      BY <1>1 DEF PushCheck
    <2>3. \A c : Free(q, m, c) /\ HeadLacks(remote.head, c) => Free(q, m, c)'
      BY <2>1, <2>2 DEF Free, HeadLacks, Lacks, Ends, Begins, Goes, Pushing
    <2> QED BY <2>1, <2>2, <2>3, SecretFrom
  <1>2. CASE PushRefused(m)
    <2>1. Others(m) /\ Ends(m, "idle")
      BY <1>2, PushRefusedFacts
    <2>2. UNCHANGED <<tree, head, state, intent, past, remote>>
      BY <1>2 DEF PushRefused
    <2>3. \A c : Free(q, m, c) /\ HeadLacks(remote.head, c) => Free(q, m, c)'
      BY <2>1, <2>2 DEF Free, HeadLacks, Lacks, Ends, Begins, Goes, Pushing
    <2> QED BY <2>1, <2>2, <2>3, SecretFrom
  <1>3. CASE PushEnd(m)
    <2>1. /\ Others(m) /\ Ends(m, "idle") /\ state'[m].remote = job[m].local
          /\ job[m].local \in Trees
      BY <1>3, PushEndFacts
    <2>2. UNCHANGED <<tree, head, intent, past, remote>> /\ job[m].at = "pushed"
      BY <1>3 DEF PushEnd
    <2>3. \A c : Free(q, m, c) /\ HeadLacks(remote.head, c) => Free(q, m, c)'
      BY <2>1, <2>2, NoneIsApart DEF Free, HeadLacks, Lacks, Ends, Begins, Goes, Pushing
    <2> QED BY <2>1, <2>2, <2>3, SecretFrom
  <1>4. CASE PullArm(m)
    <2>1. /\ Others(m)
          /\ \/ Ends(m, "idle") /\ UNCHANGED intent
             \/ /\ job'[m].at = "apply" /\ job'[m].local = job[m].local
                /\ job'[m].seen = job[m].seen /\ intent'[m].pre = job[m].local
      BY <1>4, PullArmFacts
    <2>2. UNCHANGED <<tree, head, state, past, remote>> /\ job[m].local # None
      BY <1>4 DEF PullArm, Staged, Pushing, Pulling, Restoring
    <2>3. \A c : Free(q, m, c) /\ HeadLacks(remote.head, c) => Free(q, m, c)'
      BY <2>1, <2>2 DEF Free, HeadLacks, Lacks, Ends, Begins, Goes, Pushing
    <2> QED BY <2>1, <2>2, <2>3, SecretFrom
  <1>5. CASE PullFinish(m)
    <2>1. Others(m) /\ Goes(m, "drained")
      BY <1>5, PullFinishFacts
    <2>2. UNCHANGED <<tree, head, state, intent, past, remote>>
      BY <1>5 DEF PullFinish
    <2>3. \A c : Free(q, m, c) /\ HeadLacks(remote.head, c) => Free(q, m, c)'
      BY <2>1, <2>2 DEF Free, HeadLacks, Lacks, Ends, Begins, Goes, Pushing
    <2> QED BY <2>1, <2>2, <2>3, SecretFrom
  <1>6. CASE PullIncoming(m)
    <2>1. Others(m) /\ (Goes(m, "adopt") \/ Goes(m, "settle") \/ Ends(m, "idle"))
      BY <1>6, PullIncomingFacts
    <2>2. UNCHANGED <<tree, head, state, intent, past, remote>>
      BY <1>6 DEF PullIncoming
    <2>3. \A c : Free(q, m, c) /\ HeadLacks(remote.head, c) => Free(q, m, c)'
      BY <2>1, <2>2 DEF Free, HeadLacks, Lacks, Ends, Begins, Goes, Pushing
    <2> QED BY <2>1, <2>2, <2>3, SecretFrom
  <1>7. CASE PullPublish(m)
    <2>1. Others(m) /\ Goes(m, "published") /\ head'[m] = job[m].seen.root
      BY <1>7, PullPublishFacts
    <2>2. UNCHANGED <<tree, state, intent, past, remote>> /\ job[m].seen # None
      BY <1>7 DEF PullPublish, Staged, Pushing, Pulling, Restoring
    <2>3. \A c : Free(q, m, c) /\ HeadLacks(remote.head, c) => Free(q, m, c)'
      BY <2>1, <2>2 DEF Free, HeadLacks, Lacks, Ends, Begins, Goes, Pushing
    <2> QED BY <2>1, <2>2, <2>3, SecretFrom
  <1>8. CASE PullDisarm(m)
    <2>1. Others(m) /\ Goes(m, "settle") /\ intent'[m] = None
      BY <1>8, PullDisarmFacts
    <2>2. UNCHANGED <<tree, head, state, past, remote>>
      BY <1>8 DEF PullDisarm
    <2>3. \A c : Free(q, m, c) /\ HeadLacks(remote.head, c) => Free(q, m, c)'
      BY <2>1, <2>2 DEF Free, HeadLacks, Lacks, Ends, Begins, Goes, Pushing
    <2> QED BY <2>1, <2>2, <2>3, SecretFrom
  <1>9. CASE PullSettle(m)
    <2>1. Others(m) /\ Goes(m, "clear") /\ state'[m].remote = job[m].seen.root
      BY <1>9, PullSettleFacts
    <2>2. UNCHANGED <<tree, head, intent, past, remote>> /\ job[m].seen # None
      BY <1>9 DEF PullSettle, Staged, Pushing, Pulling, Restoring
    <2>3. \A c : Free(q, m, c) /\ HeadLacks(remote.head, c) => Free(q, m, c)'
      BY <2>1, <2>2 DEF Free, HeadLacks, Lacks, Ends, Begins, Goes, Pushing
    <2> QED BY <2>1, <2>2, <2>3, SecretFrom
  <1>10. CASE PullClear(m)
    <2>1. Others(m) /\ Ends(m, "idle")
      BY <1>10, PullClearFacts
    <2>2. UNCHANGED <<tree, head, state, intent, past, remote>>
      BY <1>10 DEF PullClear
    <2>3. \A c : Free(q, m, c) /\ HeadLacks(remote.head, c) => Free(q, m, c)'
      BY <2>1, <2>2 DEF Free, HeadLacks, Lacks, Ends, Begins, Goes, Pushing
    <2> QED BY <2>1, <2>2, <2>3, SecretFrom
  <1>11. CASE Follow(m)
    <2>1. Others(m) /\ Begins(m, "follow", None, remote.head)
      BY <1>11, FollowFacts
    <2>2. UNCHANGED <<tree, head, state, intent, past, remote>>
      BY <1>11 DEF Follow
    <2>3. \A c : Free(q, m, c) /\ HeadLacks(remote.head, c) => Free(q, m, c)'
      BY <2>1, <2>2 DEF Free, HeadLacks, Lacks, Ends, Begins, Goes, Pushing
    <2> QED BY <2>1, <2>2, <2>3, SecretFrom
  <1>12. CASE FollowIdle(m)
    <2>1. /\ Others(m) /\ Ends(m, "idle") /\ job[m].seen # None
          /\ UNCHANGED state \/ state'[m].remote = job[m].seen.root
      BY <1>12, FollowIdleFacts
    <2>2. UNCHANGED <<tree, head, intent, past, remote>>
      BY <1>12 DEF FollowIdle
    <2>3. \A c : Free(q, m, c) /\ HeadLacks(remote.head, c) => Free(q, m, c)'
      BY <2>1, <2>2 DEF Free, HeadLacks, Lacks, Ends, Begins, Goes, Pushing
    <2> QED BY <2>1, <2>2, <2>3, SecretFrom
  <1>13. CASE FollowPull(m)
    <2>1. /\ Others(m)
          /\ Ends(m, "idle") \/ Begins(m, "fetched", head[m], remote.head)
      BY <1>13, FollowPullFacts
    <2>2. UNCHANGED <<tree, head, state, intent, past, remote>>
      BY <1>13 DEF FollowPull
    <2>3. \A c : Free(q, m, c) /\ HeadLacks(remote.head, c) => Free(q, m, c)'
      BY <2>1, <2>2 DEF Free, HeadLacks, Lacks, Ends, Begins, Goes, Pushing
    <2> QED BY <2>1, <2>2, <2>3, SecretFrom
  <1>14. ASSUME NEW c \in Contents, PushUpload(m, c) PROVE Secret(q)
    <2>1. Others(m) /\ remote'.head = remote.head BY <1>14, PushUploadFacts
    <2>2. UNCHANGED <<tree, head, state, intent, job, past>> BY <1>14 DEF PushUpload, machine
    <2>3. \A d : Free(q, m, d) => Free(q, m, d)' BY <2>2 DEF Free, HeadLacks, Lacks
    <2> QED BY <2>1, <2>2, <2>3, SecretFrom
  <1>15. ASSUME NEW p \in Paths, PullWrite(m, p) PROVE Secret(q)
    <2>1. /\ Others(m) /\ job'[m].at = "apply" /\ job'[m].local = job[m].local
          /\ job'[m].seen = job[m].seen
          /\ tree'[m] = [tree[m] EXCEPT ![p] = job[m].seen.root[p]]
      BY <1>15, PullWriteFacts
    <2>2. UNCHANGED <<head, state, intent, past, remote>> /\ job[m].at = "apply"
      BY <1>15 DEF PullWrite
    <2>3. tree[m] \in Trees /\ job[m].seen # None
      BY <2>2, Shapes DEF Staged, Pulling, Restoring
    <2>4. \A c : Free(q, m, c) => Free(q, m, c)'
      BY <2>1, <2>2, <2>3 DEF Free, HeadLacks, Lacks, Trees
    <2> QED BY <2>1, <2>2, <2>4, SecretFrom
  <1> QED BY <1>1, <1>2, <1>3, <1>4, <1>5, <1>6, <1>7, <1>8, <1>9, <1>10, <1>11, <1>12, <1>13, <1>14, <1>15
          DEF Step

(* A push in the act of publishing makes nothing public that it did not when
   it began. *)
LEMMA SecretPushHead ==
    ASSUME BInv, NEW m \in Machines, NEW q \in Machines, PushHead(m)
    PROVE  Secret(q)
  <1> USE DEF BInv
  <1>1. UNCHANGED <<tree, head, state, intent, past>> /\ job[m].at = "upload"
    BY DEF PushHead
  <1>2. job[m].local # None BY <1>1 DEF Staged, Pushing
  <1>3. /\ Others(m)
        /\ \/ Ends(m, "idle") /\ UNCHANGED remote
           \/ /\ Goes(m, "pushed") /\ remote'.head.root = job[m].local
              /\ remote'.head.base = IF job[m].seen = None THEN None ELSE job[m].seen.root
    BY PushHeadFacts
  <1> SUFFICES ASSUME NEW c, Private(q, c) PROVE Private(q, c)'
    BY DEF Secret
  <1>4. Free(q, m, c) /\ HeadLacks(remote.head, c) /\ c \in Known BY DEF Private
  <1>5. Free(q, m, c)'
    BY <1>1, <1>3, <1>4 DEF Free, HeadLacks, Lacks, Ends, Begins, Goes, Pushing
  <1>6. HeadLacks(remote.head, c)'
    BY <1>1, <1>2, <1>3, <1>4 DEF Free, HeadLacks, Lacks, Pushing
  <1>7. ASSUME NEW r \in Machines, r # m PROVE Free(q, r, c)'
    <2>1. Free(q, r, c) BY DEF Private
    <2> QED BY <1>3, <1>7, <2>1 DEF Others, Free, HeadLacks, Lacks
  <1> QED BY <1>1, <1>4, <1>5, <1>6, <1>7, Ungrown DEF Private

(* The snapshot of a push makes the machine's own content public. *)
LEMMA SecretBeginPush ==
    ASSUME BInv, NEW m \in Machines, NEW q \in Machines, NEW takeover \in BOOLEAN,
           BeginPush(m, takeover), q # m \/ Ends(m, "idle")
    PROVE  Secret(q)
  <1> USE DEF BInv
  <1>1. /\ Others(m) /\ remote'.head = remote.head
        /\ Ends(m, "idle") \/ Begins(m, "locked", tree[m], None)
    BY BeginPushFacts
  <1>2. UNCHANGED <<tree, state, intent, past>> /\ head'[m] = tree[m]
    BY SealsTree DEF BeginPush
  <1>3. \A c : Free(q, m, c) => Free(q, m, c)'
    BY <1>1, <1>2 DEF Free, HeadLacks, Lacks, Ends, Begins, Pushing
  <1> QED BY <1>1, <1>2, <1>3, SecretFrom

(* So it does outside of the commands, and at the start of a pull. *)
LEMMA SecretElse ==
    ASSUME BInv, NEW m \in Machines, NEW q \in Machines,
           \/ Seal(m) \/ Collect(m) \/ Pair(m) \/ Fail(m) \/ Crash(m) \/ Open(m)
           \/ \E flag \in BOOLEAN : Pull(m, flag)
    PROVE  Secret(q)
  <1> USE DEF BInv
  <1>1. CASE Seal(m)
    <2>1. /\ UNCHANGED <<tree, state, intent, job, past, remote>>
          /\ Others(m) /\ head'[m] = Captured(m)
      BY <1>1, Seals, CapturedTree, SealFacts DEF Seal
    <2>2. \A c : Free(q, m, c) => Free(q, m, c)'
      BY <2>1, CapturedTree DEF Free, HeadLacks, Lacks
    <2> QED BY <2>1, <2>2, SecretFrom
  <1>2. CASE Collect(m)
    <2>1. UNCHANGED <<tree, head, state, intent, job, past, remote>> /\ Others(m)
      BY <1>2, CollectFacts DEF Collect
    <2>2. \A c : Free(q, m, c) => Free(q, m, c)' BY <2>1 DEF Free, HeadLacks, Lacks
    <2> QED BY <2>1, <2>2, SecretFrom
  <1>3. CASE Pair(m)
    <2>1. /\ UNCHANGED <<tree, head, intent, job, past, remote>> /\ Others(m)
          /\ state'[m] = None
      BY <1>3, PairFacts DEF Pair
    <2>2. \A c : Free(q, m, c) => Free(q, m, c)' BY <2>1 DEF Free, HeadLacks, Lacks
    <2> QED BY <2>1, <2>2, SecretFrom
  <1>4. CASE Fail(m)
    <2>1. /\ Others(m) /\ Ends(m, "idle")
          /\ \/ /\ job[m].at = "apply" /\ intent'[m] = None
                /\ tree'[m] = [p \in Paths |-> IF p \in Plan(m) THEN job[m].local[p]
                                               ELSE tree[m][p]]
             \/ UNCHANGED <<tree, intent>>
      BY <1>4, FailFacts
    <2>2. UNCHANGED <<head, state, past, remote>> BY <1>4 DEF Fail
    <2>3. job[m].at = "apply" => job[m].local # None BY DEF Staged, Pulling, Restoring
    <2>4. ASSUME NEW c, Free(q, m, c) PROVE Free(q, m, c)'
      <3>1. CASE UNCHANGED <<tree, intent>>
        BY <2>1, <2>2, <2>4, <3>1 DEF Free, HeadLacks, Lacks, Ends, Begins
      <3>2. CASE /\ job[m].at = "apply" /\ intent'[m] = None
                 /\ tree'[m] = [p \in Paths |-> IF p \in Plan(m) THEN job[m].local[p]
                                                ELSE tree[m][p]]
        <4>1. q # m => Lacks(tree'[m], c)
          BY <2>3, <2>4, <3>2 DEF Free, Lacks
        <4> QED BY <2>1, <2>2, <2>4, <3>2, <4>1 DEF Free, HeadLacks, Lacks, Ends, Begins
      <3> QED BY <2>1, <3>1, <3>2
    <2> QED BY <2>1, <2>2, <2>4, SecretFrom
  <1>5. CASE Crash(m)
    <2>1. /\ UNCHANGED <<tree, head, state, intent, past, remote>> /\ Others(m)
          /\ Ends(m, "down")
      BY <1>5, CrashFacts DEF Crash
    <2>2. \A c : Free(q, m, c) => Free(q, m, c)'
      BY <2>1 DEF Free, HeadLacks, Lacks, Ends, Begins
    <2> QED BY <2>1, <2>2, SecretFrom
  <1>6. CASE Open(m)
    <2>1. /\ UNCHANGED <<head, state, past, remote>> /\ Others(m) /\ Ends(m, "idle")
          /\ intent'[m] = None
          /\ tree'[m] = IF intent[m] = None THEN tree[m] ELSE intent[m].pre
      BY <1>6, OpenFacts DEF Open
    <2>2. \A c : Free(q, m, c) => Free(q, m, c)'
      BY <2>1 DEF Free, HeadLacks, Lacks, Ends, Begins
    <2> QED BY <2>1, <2>2, SecretFrom
  <1>7. ASSUME NEW flag \in BOOLEAN, Pull(m, flag) PROVE Secret(q)
    <2>1. /\ Others(m)
          /\ Ends(m, "idle") \/ Begins(m, "fetched", tree[m], remote.head)
      BY <1>7, PullFacts
    <2>2. UNCHANGED <<tree, state, intent, past, remote>> /\ head'[m] = tree[m]
      BY <1>7, SealsTree DEF Pull
    <2>3. \A c : Free(q, m, c) /\ HeadLacks(remote.head, c) => Free(q, m, c)'
      BY <2>1, <2>2 DEF Free, HeadLacks, Lacks, Ends, Begins, Pushing
    <2> QED BY <2>1, <2>2, <2>3, SecretFrom
  <1> QED BY <1>1, <1>2, <1>3, <1>4, <1>5, <1>6, <1>7

(* An edit makes nothing public, and what it writes is private. *)
LEMMA SecretEdit ==
    ASSUME BInv, NEW m \in Machines, NEW q \in Machines, NEW p \in Paths, Edit(m, p)
    PROVE  /\ Secret(q)
           /\ \A n : n = Len(past) + 1 => Private(m, n)'
  <1> USE DEF BInv
  <1>1. /\ UNCHANGED <<head, state, intent, job, remote>> /\ Others(m)
        /\ tree'[m] = [tree[m] EXCEPT ![p] = Len(past) + 1]
    BY EditFacts DEF Edit
  <1>2. /\ Known \subseteq Known' /\ Len(past) + 1 \notin Known /\ Len(past) + 1 \in Known'
    <2>1. Len(past') = Len(past) + 1 BY EditFacts
    <2>2. Len(past) \in Nat BY DEF Typed
    <2> QED BY <2>1, <2>2, EditGrows DEF Known
  <1>3. tree[m] \in Trees BY Shapes
  <1>4. Secret(q)
    <2> SUFFICES ASSUME NEW c, Private(q, c) PROVE Private(q, c)'
      BY DEF Secret
    <2>1. c # Len(past) + 1 /\ c \in Known' BY <1>2 DEF Private
    <2>2. HeadLacks(remote.head, c)' BY <1>1 DEF Private, HeadLacks, Lacks
    <2>3. ASSUME NEW r \in Machines PROVE Free(q, r, c)'
      <3>1. Free(q, r, c) BY DEF Private
      <3>2. Lacks(tree[r], c) => Lacks(tree'[r], c)
        BY <1>1, <1>3, <2>1 DEF Others, Lacks, Trees
      <3> QED BY <1>1, <3>1, <3>2 DEF Free, HeadLacks, Lacks
    <2> QED BY <2>1, <2>2, <2>3 DEF Private
  <1>5. ASSUME NEW n, n = Len(past) + 1 PROVE Private(m, n)'
    <2>1. sealed \subseteq Known /\ HeadIn(remote.head, sealed) /\ \A r \in Machines : Sources(r)
      BY DEF SealedOK
    <2>2. n \notin Known /\ n \notin sealed BY <1>2, <1>5, <2>1
    <2>3. HeadLacks(remote.head, n)' BY <1>1, <2>1, <2>2 DEF HeadIn, In, HeadLacks, Lacks
    <2>4. ASSUME NEW r \in Machines PROVE Free(m, r, n)'
      <3>1. Sources(r) BY <2>1
      <3>2. r # m => Lacks(tree'[r], n) BY <1>1, <2>2, <3>1 DEF Others, Sources, In, Lacks
      <3> QED BY <1>1, <2>2, <3>1, <3>2 DEF Sources, In, HeadIn, Free, HeadLacks, Lacks
    <2> QED BY <1>2, <1>5, <2>3, <2>4 DEF Private
  <1> QED BY <1>4, <1>5

(* What is left to show of a step of machine m. *)
LEMMA OwnCarry ==
    ASSUME NEW q \in Machines, OwnOK(q), Mono(q),
           tree'[q] = tree[q], head'[q] = head[q], state'[q] = state[q], intent'[q] = intent[q],
           job'[q] = job[q]
    PROVE  OwnOK(q)'
  <1>1. Plan(q)' = Plan(q) BY DEF Plan
  <1>2. FastForward(q)' <=> FastForward(q)
    BY DEF FastForward, Matches, CanFastForward, FollowsPrior
  <1>3. \A t : Base(q, t) => Base(q, t)' BY DEF Base, Mono
  <1>4. Mine(q) => Mine(q)' BY <1>3 DEF Mine, Mono
  <1>5. Rest(q)' BY <1>3, <1>4 DEF OwnOK, Rest, AtRest, Mono
  <1>6. Publishing(q)' BY <1>3, <1>4 DEF OwnOK, Publishing, Mono
  <1>7. Fetching(q)' BY <1>3 DEF OwnOK, Fetching, Comparing, Good, Mono
  <1>8. Intents(q)' BY <1>2 DEF OwnOK, Intents
  <1>9. Restores(q)' BY <1>1, <1>3 DEF OwnOK, Restores, Mono
  <1>10. Settling(q)' BY DEF OwnOK, Settling, Mono
  <1>11. Fallen(q)' BY <1>3 DEF OwnOK, Fallen, Mono
  <1> QED BY <1>5, <1>6, <1>7, <1>8, <1>9, <1>10, <1>11 DEF OwnOK

(* The bounds on the head carry over. *)
LEMMA AscendingCarry ==
    ASSUME NEW q \in Machines, Ascending(q), state'[q] = state[q], job'[q] = job[q],
           \A s, t : Above(s, t) => Above(s, t)',
           \A t : Below(t) => Below(t)'
    PROVE  Ascending(q)'
  <1> QED BY DEF Ascending, Base

(* While the head stays, what was below it stays below. *)
LEMMA BelowSame ==
    ASSUME remote'.head = remote.head, \A s, t : Above(s, t) => Above(s, t)'
    PROVE  \A t : Below(t) => Below(t)'
  <1> QED BY DEF Below

(* What is left to show of a step that leaves the head alone. *)
LEMMA HFrame ==
    ASSUME BInv, HInv, NEW m \in Machines, Others(m), UNCHANGED transport,
           remote'.head = remote.head,
           \A q \in Machines : q # m /\ q \in remote'.current => q \in remote.current,
           \A q \in Machines : q # m => Secret(q), Grows,
           OwnOK(m)', Ascending(m)', Replacing(m)'
    PROVE  HInv'
  <1>1. ASSUME NEW q \in Machines, q # m
        PROVE  OwnOK(q)' /\ Ascending(q)' /\ Replacing(q)'
    <2>1. OwnOK(q) /\ Ascending(q) /\ Replacing(q) BY DEF HInv
    <2>2. Mono(q) BY <1>1, MonoFrom
    <2>3. \A s, t : Above(s, t) => Above(s, t)' BY <2>2 DEF Mono
    <2>4. /\ tree'[q] = tree[q] /\ head'[q] = head[q] /\ state'[q] = state[q]
          /\ intent'[q] = intent[q] /\ job'[q] = job[q]
      BY <1>1 DEF Others
    <2>5. OwnOK(q)' BY <2>1, <2>2, <2>4, OwnCarry
    <2>6. Ascending(q)' BY <2>1, <2>3, <2>4, AscendingCarry, BelowSame
    <2>7. Replacing(q)' BY <1>1, <2>1, <2>4 DEF Replacing, MayReplace, Locking
    <2> QED BY <2>5, <2>6, <2>7
  <1> QED BY <1>1 DEF HInv

(* The parts that speak of other stages hold of no stage at all. *)
LEMMA IdleOwn ==
    ASSUME NEW m \in Machines, Ends(m, "idle"), intent'[m] = None,
           state'[m] # None => state'[m].local = state'[m].remote,
           Base(m, tree[m])', Stray(m, head[m])' \/ Mine(m)'
    PROVE  OwnOK(m)'
  <1> QED BY DEF Ends, Begins, OwnOK, Rest, Publishing, Fetching, Comparing, Intents, Restores,
                 Settling, Fallen, Pushing, Restoring

(* A command that ends at rest leaves the machine as it was. *)
LEMMA BackToIdle ==
    ASSUME NEW m \in Machines, OwnOK(m), Mono(m), AtRest(m), Ends(m, "idle"), intent'[m] = None,
           tree'[m] = tree[m], head'[m] = head[m], state'[m] = state[m]
    PROVE  OwnOK(m)'
  <1>1. \A t : Base(m, t) => Base(m, t)' BY DEF Base, Mono
  <1>2. Mine(m) => Mine(m)' BY <1>1 DEF Mine, Mono
  <1>3. Base(m, tree[m]) /\ (Stray(m, head[m]) \/ Mine(m)) BY DEF OwnOK, Rest
  <1>4. Base(m, tree[m])' /\ (Stray(m, head[m])' \/ Mine(m)') BY <1>1, <1>2, <1>3 DEF Mono
  <1> QED BY <1>4, IdleOwn DEF OwnOK, Intents

(* Where the command ends. *)
LEMMA AscendingEnds ==
    ASSUME NEW m \in Machines, Ascending(m), Grows, remote'.head = remote.head,
           state'[m] = state[m], job'[m].seen = None, job'[m].at \notin Pulling \cup Pushing
    PROVE  Ascending(m)' /\ Replacing(m)'
  <1>1. \A s, t : Above(s, t) => Above(s, t)' BY DEF Above, Grows
  <1>2. \A t : Below(t) => Below(t)' BY <1>1, BelowSame
  <1> QED BY <1>2 DEF Ascending, Replacing, Pushing

(* Where the command goes on. *)
LEMMA AscendingGoes ==
    ASSUME NEW m \in Machines, Ascending(m), Grows, remote'.head = remote.head,
           state'[m] = state[m], job'[m].seen = job[m].seen,
           job[m].at \in Pulling, job'[m].at \in Pulling
    PROVE  Ascending(m)' /\ Replacing(m)'
  <1>1. \A s, t : Above(s, t) => Above(s, t)' BY DEF Above, Grows
  <1>2. \A t : Below(t) => Below(t)' BY <1>1, BelowSame
  <1>3. \A t : Base(m, t) => Base(m, t)' BY <1>1 DEF Base
  <1>4. job'[m].at \notin {"pushed", "upload"} BY DEF Pulling, Restoring
  <1> QED BY <1>2, <1>3, <1>4 DEF Ascending, Replacing

(* Reading the head at the start of a push preserves HInv. *)
LEMMA PushCheckHist ==
    ASSUME BInv, HInv, NEW m \in Machines, PushCheck(m)
    PROVE  HInv'
  <1> USE DEF BInv
  <1>1. /\ Others(m) /\ job'[m].at = "upload" /\ job'[m].local = job[m].local
        /\ job'[m].seen = remote.head /\ remote'.head = remote.head
        /\ remote'.current = remote.current
    BY PushCheckFacts
  <1>2. /\ UNCHANGED <<transport, tree, head, state, intent, past>>
        /\ job[m].at = "locked" /\ (ExpectedHead(m) \/ SameSnapshot(m))
    BY DEF PushCheck
  <1>3. Grows BY <1>2, Ungrown
  <1>4. \A q \in Machines : Secret(q)
    <2>1. Step(m) BY DEF Step
    <2>2. ~FollowPush(m) /\ ~PushHead(m) BY <1>2 DEF FollowPush, PushHead
    <2> QED BY <2>1, <2>2, SecretStep
  <1>5. Mono(m) BY <1>3, <1>4, MonoFrom
  <1>6. OwnOK(m) /\ Ascending(m) BY DEF HInv
  <1>7. \A t : Base(m, t) => Base(m, t)' BY <1>2, <1>5 DEF Base, Mono
  <1>8. Mine(m) => Mine(m)' BY <1>2, <1>5, <1>7 DEF Mine, Mono
  <1>9. OwnOK(m)'
    <2>1. Rest(m) /\ Publishing(m) /\ Intents(m) /\ Mine(m) /\ intent[m] = None
      BY <1>2, <1>6 DEF OwnOK, Publishing, Intents, Pushing, Restoring
    <2>2. Rest(m)' BY <1>1, <1>2, <1>5, <1>7, <1>8, <2>1 DEF Rest, AtRest, Pushing
    <2>3. Publishing(m)' BY <1>1, <1>2, <1>5, <1>7, <1>8, <2>1 DEF Publishing, Pushing, Mono
    <2>4. Intents(m)' BY <1>1, <1>2, <2>1 DEF Intents
    <2> QED BY <1>1, <2>2, <2>3, <2>4
            DEF OwnOK, Fetching, Comparing, Restores, Restoring, Settling, Fallen
  <1>10. Ascending(m)'
    <2>1. \A t : Below(t) => Below(t)' BY <1>1, <1>5, BelowSame DEF Mono
    <2>2. remote.head # None => Below(remote.head.root) BY Orders DEF Below
    <2> QED BY <1>1, <1>2, <1>6, <2>1, <2>2 DEF Ascending, Pulling, Restoring
  <1>11. Replacing(m)' BY <1>1, <1>2 DEF Replacing, ExpectedHead, SameSnapshot
  <1> QED BY <1>1, <1>2, <1>3, <1>4, <1>9, <1>10, <1>11, HFrame

(* A refused push preserves HInv. *)
LEMMA PushRefusedHist ==
    ASSUME BInv, HInv, NEW m \in Machines, PushRefused(m)
    PROVE  HInv'
  <1> USE DEF BInv
  <1>1. Others(m) /\ Ends(m, "idle") BY PushRefusedFacts
  <1>2. /\ UNCHANGED <<transport, tree, head, state, intent, past, remote>>
        /\ job[m].at = "locked"
    BY DEF PushRefused
  <1>3. Grows BY <1>2, Ungrown
  <1>4. \A q \in Machines : Secret(q)
    <2>1. Step(m) BY DEF Step
    <2>2. ~FollowPush(m) /\ ~PushHead(m) BY <1>2 DEF FollowPush, PushHead
    <2> QED BY <2>1, <2>2, SecretStep
  <1>5. Mono(m) BY <1>3, <1>4, MonoFrom
  <1>6. OwnOK(m) /\ Ascending(m) BY DEF HInv
  <1>7. OwnOK(m)'
    <2>1. AtRest(m) /\ intent[m] = None
      BY <1>2, <1>6 DEF AtRest, Pushing, OwnOK, Intents, Restoring
    <2> QED BY <1>1, <1>2, <1>5, <1>6, <2>1, BackToIdle
  <1>8. Ascending(m)' /\ Replacing(m)'
    BY <1>1, <1>2, <1>3, <1>6, AscendingEnds DEF Ends, Begins, Pulling, Pushing, Restoring
  <1> QED BY <1>1, <1>2, <1>3, <1>4, <1>7, <1>8, HFrame

(* One upload of a push preserves HInv. *)
LEMMA PushUploadHist ==
    ASSUME BInv, HInv, NEW m \in Machines, NEW c \in Contents, PushUpload(m, c)
    PROVE  HInv'
  <1> USE DEF BInv
  <1>1. /\ Others(m) /\ remote'.head = remote.head /\ remote'.current = remote.current
    BY PushUploadFacts
  <1>2. UNCHANGED <<transport, tree, head, state, intent, job, past>> /\ job[m].at = "upload"
    BY DEF PushUpload, machine
  <1>3. Grows BY <1>2, Ungrown
  <1>4. \A q \in Machines : Secret(q)
    <2>1. Step(m) BY DEF Step
    <2>2. ~FollowPush(m) BY <1>2 DEF FollowPush
    <2>3. ~PushHead(m)
      BY DEF PushHead, PushUpload
    <2> QED BY <2>1, <2>2, <2>3, SecretStep
  <1>5. Mono(m) BY <1>3, <1>4, MonoFrom
  <1>6. OwnOK(m) /\ Ascending(m) /\ Replacing(m) BY DEF HInv
  <1>7. OwnOK(m)' BY <1>2, <1>5, <1>6, OwnCarry
  <1>8. Ascending(m)' BY <1>1, <1>2, <1>5, <1>6, AscendingCarry, BelowSame DEF Mono
  <1>9. Replacing(m)' BY <1>1, <1>2, <1>6 DEF Replacing, MayReplace, Locking
  <1> QED BY <1>1, <1>2, <1>3, <1>4, <1>7, <1>8, <1>9, HFrame

(* Away from upload and follow, what is private stays private. *)
LEMMA SecretAt ==
    ASSUME BInv, NEW m \in Machines, Step(m), job[m].at \notin {"upload", "follow"}
    PROVE  \A q \in Machines : Secret(q)
  <1>1. ~FollowPush(m) /\ ~PushHead(m) BY DEF FollowPush, PushHead
  <1> QED BY <1>1, SecretStep

(* The heart of the matter: the head is replaced by a tree above it, because
   it is still the one the push was checked against. *)
LEMMA Replaced ==
    ASSUME BInv, HInv, NEW m \in Machines, PushHead(m), MayReplace(m), remote.head # None
    PROVE  Above(remote.head.root, job[m].local)
  <1>1. job[m].at = "upload" BY DEF PushHead
  <1>2. Publishing(m) /\ Replacing(m) BY DEF HInv, OwnOK
  <1>3. \/ state[m] # None /\ state[m].remote = remote.head.root
        \/ job[m].local = remote.head.root
    BY <1>1, <1>2 DEF Replacing
  <1>4. Base(m, job[m].local) BY <1>1, <1>2 DEF Publishing, Pushing
  <1>5. Above(job[m].local, job[m].local) BY DEF Above, Upon
  <1> QED BY <1>3, <1>4, <1>5 DEF Base

(* Writing the head preserves HInv. *)
LEMMA PushHeadHist ==
    ASSUME BInv, HInv, NEW m \in Machines, PushHead(m)
    PROVE  HInv'
  <1> USE DEF BInv
  <1>1. UNCHANGED <<transport, tree, head, state, intent, past>> /\ job[m].at = "upload"
    BY DEF PushHead
  <1>2. Grows /\ \A q \in Machines : Secret(q) BY <1>1, Ungrown, SecretPushHead
  <1>3. \A q \in Machines : Mono(q) BY <1>2, MonoFrom
  <1>4. OwnOK(m) /\ Ascending(m) BY DEF HInv
  <1>5. Others(m) BY PushHeadFacts
  <1>6. CASE ~MayReplace(m) /\ Ends(m, "idle") /\ UNCHANGED remote
    <2>1. AtRest(m) /\ intent[m] = None
      BY <1>1, <1>4 DEF AtRest, Pushing, OwnOK, Intents, Restoring
    <2>2. OwnOK(m)' BY <1>1, <1>3, <1>4, <1>6, <2>1, BackToIdle
    <2>3. Ascending(m)' /\ Replacing(m)'
      BY <1>1, <1>2, <1>4, <1>6, AscendingEnds DEF Ends, Begins, Pulling, Pushing, Restoring
    <2> QED BY <1>1, <1>2, <1>5, <1>6, <2>2, <2>3, HFrame
  <1>7. CASE /\ MayReplace(m) /\ Goes(m, "pushed")
             /\ remote'.head # None /\ remote'.head.root = job[m].local
             /\ remote'.current \subseteq {m}
    <2>1. \A t : Below(t) => Below(t)'
      <3>1. ASSUME NEW t, Below(t) PROVE Below(t)'
        <4>1. Above(t, job[m].local) BY <1>7, <3>1, Replaced, Orders DEF Below
        <4>2. \A s, u : Above(s, u) => Above(s, u)' BY <1>3 DEF Mono
        <4> QED BY <1>7, <4>1, <4>2 DEF Below
      <3> QED BY <3>1
    <2>2. ASSUME NEW q \in Machines, q # m PROVE OwnOK(q)' /\ Ascending(q)' /\ Replacing(q)'
      <3>1. OwnOK(q) /\ Ascending(q) /\ Replacing(q) BY DEF HInv
      <3>2. /\ tree'[q] = tree[q] /\ head'[q] = head[q] /\ state'[q] = state[q]
            /\ intent'[q] = intent[q] /\ job'[q] = job[q]
        BY <1>5, <2>2 DEF Others
      <3>3. OwnOK(q)' BY <1>3, <3>1, <3>2, OwnCarry
      <3>4. Ascending(q)' BY <1>3, <2>1, <3>1, <3>2, AscendingCarry DEF Mono
      <3>5. job[q].at = "upload" => ~MayReplace(q)'
        <4>1. Locking => lock = m BY <1>1 DEF LockOK, Pushing
        <4>2. Locking /\ job[q].at = "upload" => lock = q BY DEF LockOK, Pushing
        <4> QED BY <1>1, <1>7, <2>2, <4>1, <4>2 DEF MayReplace, Locking
      <3>6. Replacing(q)' BY <3>1, <3>2, <3>5 DEF Replacing
      <3> QED BY <3>3, <3>4, <3>6
    <2>3. \A t : Base(m, t) => Base(m, t)' BY <1>1, <1>3 DEF Base, Mono
    <2>4. Mine(m) => Mine(m)' BY <1>1, <1>3, <2>3 DEF Mine, Mono
    <2>5. OwnOK(m)'
      <3>1. Rest(m) /\ Publishing(m) /\ Intents(m) /\ Mine(m) /\ intent[m] = None
        BY <1>1, <1>4 DEF OwnOK, Publishing, Intents, Pushing, Restoring
      <3>2. Rest(m)' BY <1>1, <1>3, <1>7, <2>3, <2>4, <3>1 DEF Rest, AtRest, Pushing, Goes
      <3>3. Publishing(m)'
        BY <1>1, <1>3, <1>7, <2>3, <2>4, <3>1 DEF Publishing, Pushing, Mono, Goes
      <3>4. Intents(m)' BY <1>1, <1>7, <3>1 DEF Intents, Goes
      <3> QED BY <1>7, <3>2, <3>3, <3>4
              DEF Goes, OwnOK, Fetching, Comparing, Restores, Restoring, Settling, Fallen
    <2>6. Ascending(m)'
      <3>1. Below(job[m].local)' BY <1>1, <1>7, Orders, Ungrown DEF Below, Above, Upon, Goes
      <3> QED BY <1>1, <1>4, <1>7, <2>1, <3>1 DEF Ascending, Goes, Pulling, Restoring
    <2>7. Replacing(m)' BY <1>7 DEF Replacing, Goes
    <2> QED BY <2>2, <2>5, <2>6, <2>7 DEF HInv
  <1> QED BY <1>6, <1>7, PushHeadFacts

(* The end of a push preserves HInv. *)
LEMMA PushEndHist ==
    ASSUME BInv, HInv, NEW m \in Machines, PushEnd(m)
    PROVE  HInv'
  <1> USE DEF BInv
  <1>1. /\ Others(m) /\ Ends(m, "idle") /\ state'[m] # None
        /\ state'[m].remote = job[m].local /\ state'[m].local = job[m].local
    BY PushEndFacts
  <1>2. UNCHANGED <<transport, tree, head, intent, past, remote>> /\ job[m].at = "pushed"
    BY DEF PushEnd
  <1>3. Grows BY <1>2, Ungrown
  <1>4. Step(m) BY DEF Step
  <1>5. \A q \in Machines : Secret(q) BY <1>2, <1>4, SecretAt
  <1>6. Mono(m) BY <1>3, <1>5, MonoFrom
  <1>7. Mine(m) /\ Above(job[m].local, head[m]) /\ intent[m] = None /\ Below(job[m].local)
    BY <1>2 DEF HInv, OwnOK, Publishing, Pushing, Intents, Restoring, Ascending
  <1>8. OwnOK(m)'
    <2>1. Above(job[m].local, tree[m]) BY <1>7, Orders DEF Mine
    <2>2. Base(m, tree[m])' /\ Base(m, head[m])'
      BY <1>1, <1>2, <1>6, <1>7, <2>1 DEF Base, Mono
    <2>3. Mine(m)' BY <1>2, <1>6, <1>7, <2>2 DEF Mine, Mono
    <2> QED BY <1>1, <1>2, <1>7, <2>2, <2>3, IdleOwn
  <1>9. Ascending(m)' /\ Replacing(m)'
    <2>1. \A t : Below(t) => Below(t)' BY <1>2, <1>6, BelowSame DEF Mono
    <2> QED BY <1>1, <1>7, <2>1
            DEF Ends, Begins, Ascending, Replacing, Pulling, Restoring
  <1> QED BY <1>1, <1>2, <1>3, <1>5, <1>8, <1>9, HFrame

(* The start of a push preserves HInv. *)
LEMMA BeginPushHist ==
    ASSUME BInv, HInv, NEW m \in Machines, NEW takeover \in BOOLEAN, BeginPush(m, takeover),
           job[m].at \in {"idle", "follow"}
    PROVE  HInv'
  <1> USE DEF BInv
  <1>1. /\ Others(m) /\ remote'.head = remote.head
        /\ \/ Ends(m, "idle") /\ UNCHANGED remote
           \/ Begins(m, "locked", tree[m], None) /\ remote' = NoteETag(m)
    BY BeginPushFacts
  <1>2. UNCHANGED <<transport, tree, state, intent, past>> BY DEF BeginPush
  <1>3. Grows /\ \A a, b : Upon(a, b)' <=> Upon(a, b) BY <1>2, Ungrown
  <1>4. \A q \in Machines : q # m => Secret(q) BY SecretBeginPush
  <1>5. OwnOK(m) /\ Ascending(m) BY DEF HInv
  <1>6. intent[m] = None /\ Base(m, tree[m])
    BY <1>5 DEF OwnOK, Intents, Rest, AtRest, Restoring
  <1>7. head'[m] = tree[m]
    BY SealsTree DEF BeginPush
  <1>8. \A s, t : Above(s, t) => Above(s, t)' BY <1>3 DEF Above
  <1>9. \A t : Base(m, t) => Base(m, t)' BY <1>2, <1>8 DEF Base
  <1>10. \A t : Grown(m, t, t)' BY DEF Grown, Own
  <1>11. Base(m, tree[m])' /\ Mine(m)'
    BY <1>2, <1>6, <1>7, <1>9, <1>10 DEF Mine
  <1>12. \A q \in Machines : q # m /\ q \in remote'.current => q \in remote.current
    BY <1>1 DEF NoteETag, ETag, Typed, Remotes
  <1>13. state'[m] # None => state'[m].local = state'[m].remote
    BY <1>2, <1>5 DEF OwnOK, Intents
  <1>14. CASE Ends(m, "idle")
    <2>1. OwnOK(m)' BY <1>2, <1>6, <1>11, <1>13, <1>14, IdleOwn
    <2>2. Ascending(m)' /\ Replacing(m)'
      BY <1>1, <1>2, <1>3, <1>5, <1>14, AscendingEnds
         DEF Ends, Begins, Pulling, Pushing, Restoring
    <2> QED BY <1>1, <1>2, <1>3, <1>4, <1>12, <2>1, <2>2, HFrame
  <1>15. CASE Begins(m, "locked", tree[m], None)
    <2>1. Rest(m)' BY <1>11 DEF Rest
    <2>2. Publishing(m)'
      <3>1. \A t : Above(t, t)' BY DEF Above, Upon
      <3> QED BY <1>2, <1>7, <1>11, <1>15, <3>1 DEF Publishing, Begins
    <2>3. Intents(m)' BY <1>2, <1>6, <1>13, <1>15 DEF Intents, Begins
    <2>4. OwnOK(m)'
      BY <1>2, <1>15, <2>1, <2>2, <2>3
         DEF Begins, OwnOK, Fetching, Comparing, Restores, Restoring, Settling, Fallen
    <2>5. Ascending(m)' /\ Replacing(m)'
      <3>1. \A t : Below(t) => Below(t)' BY <1>1, <1>8, BelowSame
      <3> QED BY <1>2, <1>5, <1>15, <3>1
              DEF Begins, Ascending, Replacing, Pulling, Restoring
    <2> QED BY <1>1, <1>2, <1>3, <1>4, <1>12, <2>4, <2>5, HFrame
  <1> QED BY <1>1, <1>14, <1>15

(* A pull that has read the head has only its local root to answer for. *)
LEMMA FetchedOwn ==
    ASSUME NEW m \in Machines, NEW local, NEW seen, Begins(m, "fetched", local, seen),
           intent'[m] = None,
           state'[m] # None => state'[m].local = state'[m].remote,
           Base(m, tree[m])', Stray(m, head[m])' \/ Mine(m)',
           (~job'[m].bootstrap /\ Stray(m, job[m].local)') \/ Good(m)'
    PROVE  OwnOK(m)'
  BY DEF Begins, OwnOK, Rest, Publishing, Fetching, Comparing, Intents, Restores, Settling,
         Fallen, Pushing, Restoring

(* The head it has read is above what was reconciled last. *)
LEMMA FetchedAscending ==
    ASSUME NEW m \in Machines, NEW local, Begins(m, "fetched", local, remote.head), Ascending(m),
           Grows, remote'.head = remote.head, state'[m] = state[m], remote.head # None
    PROVE  Ascending(m)' /\ Replacing(m)'
  <1>1. \A s, t : Above(s, t) => Above(s, t)' BY DEF Above, Grows
  <1>2. \A t : Below(t) => Below(t)' BY <1>1, BelowSame
  <1>3. Below(remote.head.root) BY DEF Below, Above, Upon
  <1>4. state[m] # None => Above(state[m].remote, remote.head.root) BY DEF Ascending, Below
  <1> QED BY <1>1, <1>2, <1>3, <1>4 DEF Begins, Ascending, Replacing, Base

(* The start of a pull preserves HInv. *)
LEMMA PullHist ==
    ASSUME BInv, HInv, NEW m \in Machines, NEW bootstrap \in BOOLEAN, Pull(m, bootstrap)
    PROVE  HInv'
  <1> USE DEF BInv
  <1>1. /\ Others(m)
        /\ \/ Ends(m, "idle")
           \/ remote.head # None /\ Begins(m, "fetched", tree[m], remote.head)
    BY PullFacts
  <1>2. UNCHANGED <<transport, tree, state, intent, past, remote>> /\ job[m].at = "idle"
    BY DEF Pull
  <1>3. Grows BY <1>2, Ungrown
  <1>4. \A q \in Machines : Secret(q) BY SecretElse
  <1>5. Mono(m) BY <1>3, <1>4, MonoFrom
  <1>6. OwnOK(m) /\ Ascending(m) BY DEF HInv
  <1>7. intent[m] = None /\ Base(m, tree[m])
    BY <1>2, <1>6 DEF OwnOK, Intents, Rest, AtRest, Restoring
  <1>8. head'[m] = tree[m]
    BY SealsTree DEF Pull
  <1>9. \A t : Base(m, t) => Base(m, t)' BY <1>2, <1>5 DEF Base, Mono
  <1>10. \A t : Grown(m, t, t)' BY DEF Grown, Own
  <1>11. Base(m, tree[m])' /\ Mine(m)'
    BY <1>2, <1>7, <1>8, <1>9, <1>10 DEF Mine
  <1>12. state'[m] # None => state'[m].local = state'[m].remote
    BY <1>2, <1>6 DEF OwnOK, Intents
  <1>13. CASE Ends(m, "idle")
    <2>1. OwnOK(m)' BY <1>2, <1>7, <1>11, <1>12, <1>13, IdleOwn
    <2>2. Ascending(m)' /\ Replacing(m)'
      BY <1>2, <1>3, <1>6, <1>13, AscendingEnds DEF Ends, Begins, Pulling, Pushing, Restoring
    <2> QED BY <1>1, <1>2, <1>3, <1>4, <2>1, <2>2, HFrame
  <1>14. CASE remote.head # None /\ Begins(m, "fetched", tree[m], remote.head)
    <2>1. Good(m)'
      BY <1>2, <1>8, <1>10, <1>11, <1>14 DEF Good, Begins
    <2>2. OwnOK(m)' BY <1>2, <1>7, <1>11, <1>12, <1>14, <2>1, FetchedOwn
    <2>3. Ascending(m)' /\ Replacing(m)' BY <1>2, <1>3, <1>6, <1>14, FetchedAscending
    <2> QED BY <1>1, <1>2, <1>3, <1>4, <2>2, <2>3, HFrame
  <1> QED BY <1>1, <1>13, <1>14

(* A pull by follow preserves HInv. *)
LEMMA FollowPullHist ==
    ASSUME BInv, HInv, NEW m \in Machines, FollowPull(m)
    PROVE  HInv'
  <1> USE DEF BInv
  <1>1. /\ Others(m)
        /\ \/ Ends(m, "idle")
           \/ /\ remote.head # None /\ Begins(m, "fetched", head[m], remote.head)
              /\ job'[m].bootstrap = FALSE
    BY FollowPullFacts
  <1>2. UNCHANGED <<transport, tree, head, state, intent, past, remote>> /\ job[m].at = "follow"
    BY DEF FollowPull
  <1>3. Grows BY <1>2, Ungrown
  <1>4. \A q \in Machines : Secret(q)
    <2>1. Step(m) BY DEF Step
    <2>2. ~FollowPush(m) /\ ~PushHead(m) BY <1>2 DEF FollowPull, FollowPush, PushHead
    <2> QED BY <2>1, <2>2, SecretStep
  <1>5. Mono(m) BY <1>3, <1>4, MonoFrom
  <1>6. OwnOK(m) /\ Ascending(m) BY DEF HInv
  <1>7. /\ intent[m] = None /\ AtRest(m) /\ Base(m, tree[m])
        /\ Stray(m, head[m]) \/ Mine(m)
    BY <1>2, <1>6 DEF OwnOK, Intents, Rest, AtRest, Restoring
  <1>8. CASE Ends(m, "idle")
    <2>1. OwnOK(m)' BY <1>2, <1>5, <1>6, <1>7, <1>8, BackToIdle
    <2>2. Ascending(m)' /\ Replacing(m)'
      BY <1>2, <1>3, <1>6, <1>8, AscendingEnds DEF Ends, Begins, Pulling, Pushing, Restoring
    <2> QED BY <1>1, <1>2, <1>3, <1>4, <2>1, <2>2, HFrame
  <1>9. CASE /\ remote.head # None /\ Begins(m, "fetched", head[m], remote.head)
             /\ job'[m].bootstrap = FALSE
    <2>1. \A t : Base(m, t) => Base(m, t)' BY <1>2, <1>5 DEF Base, Mono
    <2>2. Mine(m) => Mine(m)' BY <1>2, <1>5, <2>1 DEF Mine, Mono
    <2>3. Base(m, tree[m])' BY <1>2, <1>7, <2>1
    <2>4. job'[m].local = head[m] BY <1>9 DEF Begins
    <2>5. Stray(m, head[m]) => Stray(m, head[m])' /\ Stray(m, job[m].local)'
      BY <1>2, <1>5, <2>4 DEF Mono
    <2>6. Mine(m) => Good(m)'
      <3>1. \A t : Grown(m, t, t)' BY DEF Grown, Own
      <3> QED BY <1>2, <1>5, <2>1, <2>4, <3>1 DEF Mine, Good, Mono
    <2>7. OwnOK(m)'
      <3>1. state'[m] # None => state'[m].local = state'[m].remote
        BY <1>2, <1>6 DEF OwnOK, Intents
      <3> QED BY <1>2, <1>7, <1>9, <2>2, <2>3, <2>5, <2>6, <3>1, FetchedOwn
    <2>8. Ascending(m)' /\ Replacing(m)' BY <1>2, <1>3, <1>6, <1>9, FetchedAscending
    <2> QED BY <1>1, <1>2, <1>3, <1>4, <2>7, <2>8, HFrame
  <1> QED BY <1>1, <1>8, <1>9

(* A round of follow preserves HInv. *)
LEMMA FollowHist ==
    ASSUME BInv, HInv, NEW m \in Machines, Follow(m)
    PROVE  HInv'
  <1> USE DEF BInv
  <1>1. Others(m) /\ Begins(m, "follow", None, remote.head) BY FollowFacts
  <1>2. UNCHANGED <<transport, tree, head, state, intent, past, remote>> /\ job[m].at = "idle"
    BY DEF Follow
  <1>3. Grows BY <1>2, Ungrown
  <1>4. Step(m) BY DEF Step
  <1>5. \A q \in Machines : Secret(q) BY <1>2, <1>4, SecretAt
  <1>6. Mono(m) BY <1>3, <1>5, MonoFrom
  <1>7. OwnOK(m) /\ Ascending(m) BY DEF HInv
  <1>8. /\ intent[m] = None /\ Base(m, tree[m])
        /\ Stray(m, head[m]) \/ Mine(m)
    BY <1>2, <1>7 DEF OwnOK, Intents, Rest, AtRest, Restoring
  <1>9. \A t : Base(m, t) => Base(m, t)' BY <1>2, <1>6 DEF Base, Mono
  <1>10. Mine(m) => Mine(m)' BY <1>2, <1>6, <1>9 DEF Mine, Mono
  <1>11. OwnOK(m)'
    <2>1. Rest(m)' BY <1>2, <1>6, <1>8, <1>9, <1>10 DEF Rest, Mono
    <2>2. Intents(m)' BY <1>1, <1>2, <1>7, <1>8 DEF OwnOK, Intents, Begins
    <2> QED BY <1>1, <1>2, <1>8, <2>1, <2>2
            DEF Begins, OwnOK, Publishing, Fetching, Comparing, Restores, Settling, Fallen,
                Pushing, Restoring
  <1>12. Ascending(m)' /\ Replacing(m)'
    <2>1. \A t : Below(t) => Below(t)' BY <1>2, <1>6, BelowSame DEF Mono
    <2>2. remote.head # None => Below(remote.head.root) BY DEF Below, Above, Upon
    <2> QED BY <1>1, <1>2, <1>7, <2>1, <2>2
            DEF Begins, Ascending, Replacing, Pulling, Restoring
  <1> QED BY <1>1, <1>2, <1>3, <1>5, <1>11, <1>12, HFrame

(* A round of follow with nothing to do preserves HInv. *)
LEMMA FollowIdleHist ==
    ASSUME BInv, HInv, NEW m \in Machines, FollowIdle(m)
    PROVE  HInv'
  <1> USE DEF BInv
  <1>1. /\ Others(m) /\ Ends(m, "idle") /\ job[m].seen # None
        /\ \/ UNCHANGED state
           \/ /\ Unpaired(m) /\ state'[m].remote = job[m].seen.root
              /\ state'[m].local = job[m].seen.root
    BY FollowIdleFacts
  <1>2. UNCHANGED <<transport, tree, head, intent, past, remote>> /\ job[m].at = "follow"
    BY DEF FollowIdle
  <1>3. Grows BY <1>2, Ungrown
  <1>4. \A q \in Machines : Secret(q)
    <2>1. Step(m) BY DEF Step
    <2>2. ~FollowPush(m) /\ ~PushHead(m)
      BY <1>2 DEF FollowIdle, FollowPush, PushHead, Unpaired, Reached
    <2> QED BY <2>1, <2>2, SecretStep
  <1>5. Mono(m) BY <1>3, <1>4, MonoFrom
  <1>6. OwnOK(m) /\ Ascending(m) BY DEF HInv
  <1>7. /\ intent[m] = None /\ AtRest(m) /\ Base(m, tree[m])
        /\ Stray(m, head[m]) \/ Mine(m)
    BY <1>2, <1>6 DEF OwnOK, Intents, Rest, AtRest, Restoring
  <1>8. CASE UNCHANGED state
    <2>1. OwnOK(m)' BY <1>1, <1>2, <1>5, <1>6, <1>7, <1>8, BackToIdle
    <2>2. Ascending(m)' /\ Replacing(m)'
      BY <1>1, <1>2, <1>3, <1>6, <1>8, AscendingEnds
         DEF Ends, Begins, Pulling, Pushing, Restoring
    <2> QED BY <1>1, <1>2, <1>3, <1>4, <2>1, <2>2, HFrame
  <1>9. CASE /\ Unpaired(m) /\ state'[m].remote = job[m].seen.root
             /\ state'[m].local = job[m].seen.root
    <2>1. head[m] = job[m].seen.root BY <1>9 DEF Unpaired
    <2>2. ~Stray(m, head[m]) BY <1>1, <2>1, NotStray
    <2>3. Grown(m, head[m], tree[m]) BY <1>7, <2>2 DEF Mine
    <2>4. Above(head[m], head[m]) /\ Above(head[m], tree[m]) BY <2>3, Orders
    <2>5. Base(m, tree[m])' /\ Base(m, head[m])'
      BY <1>2, <1>5, <1>9, <2>1, <2>4 DEF Base, Mono
    <2>6. Mine(m)' BY <1>2, <1>5, <2>3, <2>5 DEF Mine, Mono
    <2>7. OwnOK(m)' BY <1>1, <1>2, <1>7, <1>9, <2>5, <2>6, IdleOwn
    <2>8. Ascending(m)' /\ Replacing(m)'
      <3>1. \A t : Below(t) => Below(t)' BY <1>2, <1>5, BelowSame DEF Mono
      <3> QED BY <1>1, <1>6, <1>9, <3>1
              DEF Ends, Begins, Ascending, Replacing, Pulling, Restoring
    <2> QED BY <1>1, <1>2, <1>3, <1>4, <2>7, <2>8, HFrame
  <1> QED BY <1>1, <1>8, <1>9

(* Dropping the incoming root preserves HInv. *)
LEMMA PullClearHist ==
    ASSUME BInv, HInv, NEW m \in Machines, PullClear(m)
    PROVE  HInv'
  <1> USE DEF BInv
  <1>1. Others(m) /\ Ends(m, "idle") BY PullClearFacts
  <1>2. UNCHANGED <<transport, tree, head, state, intent, past, remote>> /\ job[m].at = "clear"
    BY DEF PullClear
  <1>3. Grows BY <1>2, Ungrown
  <1>4. Step(m) BY DEF Step
  <1>5. \A q \in Machines : Secret(q) BY <1>2, <1>4, SecretAt
  <1>6. Mono(m) BY <1>3, <1>5, MonoFrom
  <1>7. OwnOK(m) /\ Ascending(m) BY DEF HInv
  <1>8. OwnOK(m)'
    <2>1. AtRest(m) /\ intent[m] = None
      BY <1>2, <1>7 DEF AtRest, OwnOK, Intents, Restoring
    <2> QED BY <1>1, <1>2, <1>6, <1>7, <2>1, BackToIdle
  <1>9. Ascending(m)' /\ Replacing(m)'
    BY <1>1, <1>2, <1>3, <1>7, AscendingEnds DEF Ends, Begins, Pulling, Pushing, Restoring
  <1> QED BY <1>1, <1>2, <1>3, <1>5, <1>8, <1>9, HFrame

(* Who fast-forwards holds nothing that was never published. *)
LEMMA ForwardGood ==
    ASSUME BInv, HInv, NEW m \in Machines, Comparing(m),
           Matches(m) \/ CanFastForward(m), job[m].local # None, job[m].seen # None
    PROVE  Good(m)
  <1>1. Fetching(m) /\ Intents(m) BY DEF HInv, OwnOK
  <1>2. job[m].bootstrap \/ ~Stray(m, job[m].local)
    <2>1. CASE Matches(m) BY <2>1, NotStray DEF Matches
    <2>2. CASE job[m].seen.base = job[m].local BY <2>2, NotStray
    <2>3. CASE FollowsPrior(m) BY <1>1, <2>3, NotStray DEF FollowsPrior, Intents
    <2> QED BY <2>1, <2>2, <2>3 DEF CanFastForward
  <1> QED BY <1>1, <1>2 DEF Fetching

(* The comparison of a pull depends on what it has read and recorded only. *)
LEMMA ForwardSame ==
    ASSUME NEW m \in Machines, state'[m] = state[m], job'[m].local = job[m].local,
           job'[m].seen = job[m].seen, job'[m].bootstrap = job[m].bootstrap
    PROVE  Plan(m)' = Plan(m) /\ (FastForward(m)' <=> FastForward(m))
  BY DEF Plan, FastForward, Matches, CanFastForward, FollowsPrior

(* Arming the restore of a pull preserves HInv. *)
LEMMA PullArmHist ==
    ASSUME BInv, HInv, NEW m \in Machines, PullArm(m)
    PROVE  HInv'
  <1> USE DEF BInv
  <1>1. /\ Others(m)
        /\ \/ Ends(m, "idle") /\ UNCHANGED intent
           \/ /\ job'[m].at = "apply" /\ job'[m].local = job[m].local
              /\ job'[m].seen = job[m].seen /\ job'[m].bootstrap = job[m].bootstrap
              /\ job'[m].todo = Plan(m)
              /\ intent'[m] # None /\ intent'[m].pre = job[m].local
              /\ intent'[m].target = job[m].seen.root
    BY PullArmFacts
  <1>2. /\ UNCHANGED <<transport, tree, head, state, past, remote>> /\ job[m].at = "fetched"
        /\ FastForward(m)
    BY DEF PullArm
  <1>3. Grows BY <1>2, Ungrown
  <1>4. Step(m) BY DEF Step
  <1>5. \A q \in Machines : Secret(q) BY <1>2, <1>4, SecretAt
  <1>6. Mono(m) BY <1>3, <1>5, MonoFrom
  <1>7. OwnOK(m) /\ Ascending(m) BY DEF HInv
  <1>8. CASE Ends(m, "idle") /\ UNCHANGED intent
    <2>1. AtRest(m) /\ intent[m] = None
      BY <1>2, <1>7 DEF AtRest, OwnOK, Intents, Restoring
    <2>2. OwnOK(m)' BY <1>1, <1>2, <1>6, <1>7, <1>8, <2>1, BackToIdle
    <2>3. Ascending(m)' /\ Replacing(m)'
      BY <1>2, <1>3, <1>7, <1>8, AscendingEnds DEF Ends, Begins, Pulling, Pushing, Restoring
    <2> QED BY <1>1, <1>2, <1>3, <1>5, <2>2, <2>3, HFrame
  <1>9. CASE /\ job'[m].at = "apply" /\ job'[m].local = job[m].local
             /\ job'[m].seen = job[m].seen /\ job'[m].bootstrap = job[m].bootstrap
             /\ job'[m].todo = Plan(m)
             /\ intent'[m] # None /\ intent'[m].pre = job[m].local
             /\ intent'[m].target = job[m].seen.root
    <2>1. job[m].local # None /\ job[m].seen # None
      BY <1>2 DEF Staged, Pulling, Pushing
    <2>2. Good(m)
      BY <1>2, <2>1, ForwardGood DEF Comparing, FastForward
    <2>3. Plan(m)' = Plan(m) /\ FastForward(m)' BY <1>2, <1>9, ForwardSame
    <2>4. \A t : Base(m, t) => Base(m, t)' BY <1>2, <1>6 DEF Base, Mono
    <2>5. Loose(m, job[m].local, head[m]) BY <2>2, Orders DEF Good
    <2>6. \A p \in Paths : p \notin job'[m].todo => Own(m, job[m].seen.root[p], tree[m][p])
      <3>1. \A p \in Paths : p \notin Plan(m) => job[m].local[p] = job[m].seen.root[p]
        BY DEF Plan, Differ
      <3> QED BY <1>9, <2>2, <3>1 DEF Good, Grown
    <2>7. Restores(m)'
      BY <1>2, <1>6, <1>9, <2>2, <2>3, <2>4, <2>5, <2>6 DEF Restores, Good, Mono
    <2>8. Intents(m)' BY <1>2, <1>7, <1>9, <2>3 DEF OwnOK, Intents, Restoring
    <2>9. OwnOK(m)'
      BY <1>9, <2>7, <2>8
         DEF OwnOK, Rest, AtRest, Publishing, Pushing, Fetching, Comparing, Settling, Fallen
    <2>10. Ascending(m)' /\ Replacing(m)'
      BY <1>2, <1>3, <1>7, <1>9, AscendingGoes DEF Pulling, Restoring
    <2> QED BY <1>1, <1>2, <1>3, <1>5, <2>9, <2>10, HFrame
  <1> QED BY <1>1, <1>8, <1>9

(* One file of a pull preserves HInv. *)
LEMMA PullWriteHist ==
    ASSUME BInv, HInv, NEW m \in Machines, NEW f \in Paths, PullWrite(m, f)
    PROVE  HInv'
  <1> USE DEF BInv
  <1>1. /\ Others(m) /\ job'[m].at = "apply" /\ job'[m].local = job[m].local
        /\ job'[m].seen = job[m].seen /\ job'[m].bootstrap = job[m].bootstrap
        /\ job'[m].todo = job[m].todo \ {f}
        /\ tree'[m] = [tree[m] EXCEPT ![f] = job[m].seen.root[f]]
    BY PullWriteFacts
  <1>2. /\ UNCHANGED <<transport, head, state, intent, past, remote>> /\ job[m].at = "apply"
        /\ f \in job[m].todo
    BY DEF PullWrite
  <1>3. Grows BY <1>2, Ungrown
  <1>4. Step(m) BY DEF Step
  <1>5. \A q \in Machines : Secret(q) BY <1>2, <1>4, SecretAt
  <1>6. Mono(m) BY <1>3, <1>5, MonoFrom
  <1>7. OwnOK(m) /\ Ascending(m) BY DEF HInv
  <1>8. Plan(m)' = Plan(m) /\ (FastForward(m)' <=> FastForward(m)) BY <1>1, <1>2, ForwardSame
  <1>9. \A t : Base(m, t) => Base(m, t)' BY <1>2, <1>6 DEF Base, Mono
  <1>10. \A p \in Paths : p \notin job'[m].todo => Own(m, job[m].seen.root[p], tree[m][p])'
    <2>1. tree[m] \in Trees /\ intent[m] # None BY <1>2, <1>7, Shapes DEF OwnOK, Intents
    <2>2. \A p \in Paths : p \notin job[m].todo => Own(m, job[m].seen.root[p], tree[m][p])
      BY <1>2, <1>7, <2>1 DEF OwnOK, Restores, Restoring
    <2>3. \A a : Own(m, a, a)' BY DEF Own
    <2> SUFFICES ASSUME NEW p \in Paths, p \notin job'[m].todo
                 PROVE  Own(m, job[m].seen.root[p], tree[m][p])'
      OBVIOUS
    <2>4. CASE p = f BY <1>1, <2>1, <2>3, <2>4 DEF Trees
    <2>5. CASE p # f
      <3>1. p \notin job[m].todo /\ tree'[m][p] = tree[m][p]
        BY <1>1, <2>1, <2>5 DEF Trees
      <3> QED BY <1>1, <1>6, <2>2, <3>1 DEF Mono
    <2> QED BY <2>4, <2>5
  <1>11. Restores(m)'
    BY <1>1, <1>2, <1>6, <1>7, <1>8, <1>9, <1>10 DEF OwnOK, Restores, Mono
  <1>12. Intents(m)' BY <1>1, <1>2, <1>7, <1>8 DEF OwnOK, Intents
  <1>13. OwnOK(m)'
    BY <1>1, <1>11, <1>12
       DEF OwnOK, Rest, AtRest, Publishing, Pushing, Fetching, Comparing, Settling, Fallen
  <1>14. Ascending(m)' /\ Replacing(m)'
    BY <1>1, <1>2, <1>3, <1>7, AscendingGoes DEF Pulling, Restoring
  <1> QED BY <1>1, <1>2, <1>3, <1>5, <1>13, <1>14, HFrame

(* The end of the writes of a pull preserves HInv. *)
LEMMA PullFinishHist ==
    ASSUME BInv, HInv, NEW m \in Machines, PullFinish(m)
    PROVE  HInv'
  <1> USE DEF BInv
  <1>1. Others(m) /\ Goes(m, "drained") BY PullFinishFacts
  <1>2. /\ UNCHANGED <<transport, tree, head, state, intent, past, remote>>
        /\ \/ job[m].at = "fetched" /\ ~FastForward(m)
           \/ job[m].at = "apply" /\ job[m].todo = {}
    BY DEF PullFinish
  <1>3. Grows BY <1>2, Ungrown
  <1>4. Step(m) BY DEF Step
  <1>5. \A q \in Machines : Secret(q) BY <1>2, <1>4, SecretAt
  <1>6. Mono(m) BY <1>3, <1>5, MonoFrom
  <1>7. OwnOK(m) /\ Ascending(m) BY DEF HInv
  <1>8. Plan(m)' = Plan(m) /\ (FastForward(m)' <=> FastForward(m))
    BY <1>1, <1>2, ForwardSame DEF Goes
  <1>9. \A t : Base(m, t) => Base(m, t)' BY <1>2, <1>6 DEF Base, Mono
  <1>10. Ascending(m)' /\ Replacing(m)'
    BY <1>1, <1>2, <1>3, <1>7, AscendingGoes DEF Goes, Pulling, Restoring
  <1>11. CASE job[m].at = "fetched" /\ ~FastForward(m)
    <2>1. intent[m] = None BY <1>7, <1>11 DEF OwnOK, Intents, Restoring
    <2>2. Mine(m) => Mine(m)' BY <1>2, <1>6, <1>9 DEF Mine, Mono
    <2>3. Rest(m)' BY <1>2, <1>6, <1>7, <1>9, <1>11, <2>2 DEF OwnOK, Rest, AtRest, Mono
    <2>4. Fetching(m)'
      BY <1>1, <1>2, <1>6, <1>7, <1>9, <1>11 DEF OwnOK, Fetching, Comparing, Good, Mono, Goes
    <2>5. Intents(m)' BY <1>1, <1>2, <1>7, <1>8, <1>11, <2>1 DEF OwnOK, Intents, Goes
    <2>6. OwnOK(m)'
      BY <1>1, <1>2, <2>1, <2>3, <2>4, <2>5
         DEF OwnOK, Publishing, Pushing, Restores, Settling, Fallen, Goes
    <2> QED BY <1>1, <1>2, <1>3, <1>5, <1>10, <2>6, HFrame
  <1>12. CASE job[m].at = "apply" /\ job[m].todo = {}
    <2>1. intent[m] # None /\ FastForward(m) /\ Restores(m)
      BY <1>7, <1>12 DEF OwnOK, Intents
    <2>2. Grown(m, job[m].seen.root, tree[m])
      BY <1>12, <2>1 DEF Restores, Restoring, Grown
    <2>3. Restores(m)'
      BY <1>1, <1>2, <1>6, <1>9, <1>12, <2>1, <2>2 DEF Restores, Restoring, Mono, Goes
    <2>4. Intents(m)' BY <1>1, <1>2, <1>7, <1>8, <1>12, <2>1
                      DEF OwnOK, Intents, Goes, Restoring
    <2>5. OwnOK(m)'
      BY <1>1, <1>2, <2>1, <2>3, <2>4
         DEF OwnOK, Rest, AtRest, Publishing, Pushing, Fetching, Comparing, Settling, Fallen, Goes
    <2> QED BY <1>1, <1>2, <1>3, <1>5, <1>10, <2>5, HFrame
  <1> QED BY <1>2, <1>11, <1>12

(* Recording the incoming root preserves HInv. *)
LEMMA PullIncomingHist ==
    ASSUME BInv, HInv, NEW m \in Machines, PullIncoming(m)
    PROVE  HInv'
  <1> USE DEF BInv
  <1>1. /\ Others(m)
        /\ \/ FastForward(m) /\ Goes(m, "adopt")
           \/ Matches(m) /\ Goes(m, "settle")
           \/ ~FastForward(m) /\ Ends(m, "idle")
    BY PullIncomingFacts
  <1>2. UNCHANGED <<transport, tree, head, state, intent, past, remote>> /\ job[m].at = "drained"
    BY DEF PullIncoming
  <1>3. Grows BY <1>2, Ungrown
  <1>4. Step(m) BY DEF Step
  <1>5. \A q \in Machines : Secret(q) BY <1>2, <1>4, SecretAt
  <1>6. Mono(m) BY <1>3, <1>5, MonoFrom
  <1>7. OwnOK(m) /\ Ascending(m) BY DEF HInv
  <1>8. FastForward(m) <=> intent[m] # None BY <1>2, <1>7 DEF OwnOK, Intents
  <1>9. \A t : Base(m, t) => Base(m, t)' BY <1>2, <1>6 DEF Base, Mono
  <1>10. state[m] # None => state[m].local = state[m].remote BY <1>7 DEF OwnOK, Intents
  <1>11. CASE FastForward(m) /\ Goes(m, "adopt")
    <2>1. Restores(m)'
      BY <1>2, <1>6, <1>7, <1>8, <1>9, <1>11 DEF OwnOK, Restores, Restoring, Mono, Goes
    <2>2. Intents(m)' BY <1>2, <1>8, <1>10, <1>11 DEF Intents, Goes, Restoring
    <2>3. OwnOK(m)'
      BY <1>11, <2>1, <2>2
         DEF OwnOK, Rest, AtRest, Publishing, Pushing, Fetching, Comparing, Settling, Fallen, Goes
    <2>4. Ascending(m)' /\ Replacing(m)'
      BY <1>2, <1>3, <1>7, <1>11, AscendingGoes DEF Goes, Pulling, Restoring
    <2> QED BY <1>1, <1>2, <1>3, <1>5, <2>3, <2>4, HFrame
  <1>12. CASE Matches(m) /\ Goes(m, "settle")
    <2>1. intent[m] = None BY <1>8, <1>12 DEF FastForward
    <2>2. job[m].local # None /\ job[m].seen # None BY <1>2 DEF Staged, Pulling, Restoring, Pushing
    <2>3. Good(m) BY <1>2, <1>12, <2>1, <2>2, ForwardGood DEF Comparing
    <2>4. Stray(m, head[m]) \/ Mine(m) BY <1>2, <1>7, <2>1 DEF OwnOK, Rest, AtRest
    <2>5. Above(job[m].seen.root, tree[m]) /\ Above(job[m].seen.root, head[m])
      BY <1>12, <2>3, Orders DEF Good, Matches
    <2>6. Settling(m)'
      BY <1>2, <1>6, <1>12, <2>4, <2>5 DEF Settling, Mine, Mono, Goes
    <2>7. Intents(m)' BY <1>2, <1>10, <1>12, <2>1 DEF Intents, Goes
    <2>8. OwnOK(m)'
      BY <1>2, <1>12, <2>1, <2>6, <2>7
         DEF OwnOK, Rest, AtRest, Publishing, Pushing, Fetching, Comparing, Restores, Fallen, Goes
    <2>9. Ascending(m)' /\ Replacing(m)'
      BY <1>2, <1>3, <1>7, <1>12, AscendingGoes DEF Goes, Pulling, Restoring
    <2> QED BY <1>1, <1>2, <1>3, <1>5, <2>8, <2>9, HFrame
  <1>13. CASE ~FastForward(m) /\ Ends(m, "idle")
    <2>1. AtRest(m) /\ intent[m] = None BY <1>2, <1>8, <1>13 DEF AtRest
    <2>2. OwnOK(m)' BY <1>2, <1>6, <1>7, <1>13, <2>1, BackToIdle
    <2>3. Ascending(m)' /\ Replacing(m)'
      BY <1>2, <1>3, <1>7, <1>13, AscendingEnds DEF Ends, Begins, Pulling, Pushing, Restoring
    <2> QED BY <1>1, <1>2, <1>3, <1>5, <2>2, <2>3, HFrame
  <1> QED BY <1>1, <1>11, <1>12, <1>13

(* Publishing the pulled root preserves HInv. *)
LEMMA PullPublishHist ==
    ASSUME BInv, HInv, NEW m \in Machines, PullPublish(m)
    PROVE  HInv'
  <1> USE DEF BInv
  <1>1. Others(m) /\ Goes(m, "published") /\ head'[m] = job[m].seen.root BY PullPublishFacts
  <1>2. UNCHANGED <<transport, tree, state, intent, past, remote>> /\ job[m].at = "adopt"
    BY DEF PullPublish
  <1>3. Grows BY <1>2, Ungrown
  <1>4. Step(m) BY DEF Step
  <1>5. \A q \in Machines : Secret(q) BY <1>2, <1>4, SecretAt
  <1>6. Mono(m) BY <1>3, <1>5, MonoFrom
  <1>7. OwnOK(m) /\ Ascending(m) BY DEF HInv
  <1>8. \A t : Base(m, t) => Base(m, t)' BY <1>2, <1>6 DEF Base, Mono
  <1>9. intent[m] # None BY <1>2, <1>7 DEF OwnOK, Intents
  <1>10. Restores(m)'
    <2>1. \A t : Grown(m, t, t)' BY DEF Grown, Own
    <2> QED BY <1>1, <1>2, <1>6, <1>7, <1>8, <1>9, <2>1
            DEF OwnOK, Restores, Restoring, Mono, Goes
  <1>11. Intents(m)' BY <1>1, <1>2, <1>7, <1>9 DEF OwnOK, Intents, Goes, Restoring
  <1>12. OwnOK(m)'
    BY <1>1, <1>10, <1>11
       DEF OwnOK, Rest, AtRest, Publishing, Pushing, Fetching, Comparing, Settling, Fallen, Goes
  <1>13. Ascending(m)' /\ Replacing(m)'
    BY <1>1, <1>2, <1>3, <1>7, AscendingGoes DEF Goes, Pulling, Restoring
  <1> QED BY <1>1, <1>2, <1>3, <1>5, <1>12, <1>13, HFrame

(* Disarming the restore preserves HInv. *)
LEMMA PullDisarmHist ==
    ASSUME BInv, HInv, NEW m \in Machines, PullDisarm(m)
    PROVE  HInv'
  <1> USE DEF BInv
  <1>1. Others(m) /\ Goes(m, "settle") /\ intent'[m] = None BY PullDisarmFacts
  <1>2. UNCHANGED <<transport, tree, head, state, past, remote>> /\ job[m].at = "published"
    BY DEF PullDisarm
  <1>3. Grows BY <1>2, Ungrown
  <1>4. Step(m) BY DEF Step
  <1>5. \A q \in Machines : Secret(q) BY <1>2, <1>4, SecretAt
  <1>6. Mono(m) BY <1>3, <1>5, MonoFrom
  <1>7. OwnOK(m) /\ Ascending(m) BY DEF HInv
  <1>8. Grown(m, job[m].seen.root, head[m]) /\ Grown(m, head[m], tree[m])
    BY <1>2, <1>7 DEF OwnOK, Intents, Restores, Restoring
  <1>9. Above(job[m].seen.root, head[m]) /\ Above(job[m].seen.root, tree[m])
    BY <1>8, Orders
  <1>10. Settling(m)' BY <1>1, <1>2, <1>6, <1>8, <1>9 DEF Settling, Mono, Goes
  <1>11. Intents(m)' BY <1>1, <1>2, <1>7 DEF OwnOK, Intents, Goes
  <1>12. OwnOK(m)'
    BY <1>1, <1>10, <1>11
       DEF OwnOK, Rest, AtRest, Publishing, Pushing, Fetching, Comparing, Restores, Fallen, Goes
  <1>13. Ascending(m)' /\ Replacing(m)'
    BY <1>1, <1>2, <1>3, <1>7, AscendingGoes DEF Goes, Pulling, Restoring
  <1> QED BY <1>1, <1>2, <1>3, <1>5, <1>12, <1>13, HFrame

(* Recording the reconciled roots preserves HInv. *)
LEMMA PullSettleHist ==
    ASSUME BInv, HInv, NEW m \in Machines, PullSettle(m)
    PROVE  HInv'
  <1> USE DEF BInv
  <1>1. /\ Others(m) /\ Goes(m, "clear") /\ state'[m] # None
        /\ state'[m].remote = job[m].seen.root /\ state'[m].local = job[m].seen.root
    BY PullSettleFacts
  <1>2. UNCHANGED <<transport, tree, head, intent, past, remote>> /\ job[m].at = "settle"
    BY DEF PullSettle
  <1>3. Grows BY <1>2, Ungrown
  <1>4. Step(m) BY DEF Step
  <1>5. \A q \in Machines : Secret(q) BY <1>2, <1>4, SecretAt
  <1>6. Mono(m) BY <1>3, <1>5, MonoFrom
  <1>7. OwnOK(m) /\ Ascending(m) BY DEF HInv
  <1>8. intent[m] = None BY <1>2, <1>7 DEF OwnOK, Intents, Restoring
  <1>9. job[m].seen # None BY <1>2 DEF Staged, Pulling
  <1>10. Rest(m)'
    <2>1. /\ Above(job[m].seen.root, tree[m])
          /\ \/ Stray(m, head[m])
             \/ Grown(m, head[m], tree[m]) /\ Above(job[m].seen.root, head[m])
      BY <1>2, <1>7 DEF OwnOK, Settling
    <2>2. Base(m, tree[m])' BY <1>1, <1>2, <1>6, <2>1 DEF Base, Mono
    <2>3. Stray(m, head[m])' \/ Mine(m)' BY <1>1, <1>2, <1>6, <2>1 DEF Mine, Base, Mono
    <2> QED BY <2>2, <2>3 DEF Rest
  <1>11. Intents(m)' BY <1>1, <1>2, <1>8 DEF Intents, Goes
  <1>12. OwnOK(m)'
    BY <1>1, <1>2, <1>8, <1>10, <1>11
       DEF OwnOK, Publishing, Pushing, Fetching, Comparing, Restores, Settling, Fallen, Goes
  <1>13. Ascending(m)' /\ Replacing(m)'
    <2>1. \A t : Below(t) => Below(t)' BY <1>2, <1>6, BelowSame DEF Mono
    <2>2. \A t : Above(t, t)' BY DEF Above, Upon
    <2>3. Below(job[m].seen.root) BY <1>7, <1>9 DEF Ascending
    <2> QED BY <1>1, <2>1, <2>2, <2>3 DEF Goes, Ascending, Replacing, Base
  <1> QED BY <1>1, <1>2, <1>3, <1>5, <1>12, <1>13, HFrame

(* Pairing with a remote preserves HInv. *)
LEMMA PairHist ==
    ASSUME BInv, HInv, NEW m \in Machines, Pair(m)
    PROVE  HInv'
  <1> USE DEF BInv
  <1>1. Others(m) /\ state'[m] = None BY PairFacts
  <1>2. UNCHANGED <<transport, tree, head, intent, job, past, remote>> /\ job[m].at = "idle"
    BY DEF Pair
  <1>3. Grows BY <1>2, Ungrown
  <1>4. \A q \in Machines : Secret(q) BY SecretElse
  <1>5. Mono(m) BY <1>3, <1>4, MonoFrom
  <1>6. OwnOK(m) /\ Ascending(m) BY DEF HInv
  <1>7. intent[m] = None /\ (Stray(m, head[m]) \/ Mine(m))
    BY <1>2, <1>6 DEF OwnOK, Intents, Rest, AtRest, Restoring
  <1>8. Rest(m)' BY <1>1, <1>2, <1>5, <1>7 DEF Rest, Base, Mine, Mono
  <1>9. Intents(m)' BY <1>1, <1>2, <1>7 DEF Intents
  <1>10. OwnOK(m)'
    BY <1>2, <1>8, <1>9
       DEF OwnOK, Publishing, Pushing, Fetching, Comparing, Restores, Restoring, Settling, Fallen
  <1>11. Ascending(m)' /\ Replacing(m)'
    <2>1. \A t : Below(t) => Below(t)' BY <1>2, <1>5, BelowSame DEF Mono
    <2> QED BY <1>1, <1>2, <1>6, <2>1 DEF Ascending, Replacing, Pulling, Restoring
  <1> QED BY <1>1, <1>2, <1>3, <1>4, <1>10, <1>11, HFrame

(* A collection preserves HInv. *)
LEMMA CollectHist ==
    ASSUME BInv, HInv, NEW m \in Machines, Collect(m)
    PROVE  HInv'
  <1> USE DEF BInv
  <1>1. Others(m) BY CollectFacts
  <1>2. UNCHANGED <<transport, tree, head, state, intent, job, past, remote>> BY DEF Collect
  <1>3. Grows BY <1>2, Ungrown
  <1>4. \A q \in Machines : Secret(q) BY SecretElse
  <1>5. Mono(m) BY <1>3, <1>4, MonoFrom
  <1>6. OwnOK(m) /\ Ascending(m) /\ Replacing(m) BY DEF HInv
  <1>7. OwnOK(m)' BY <1>2, <1>5, <1>6, OwnCarry
  <1>8. Ascending(m)' BY <1>2, <1>5, <1>6, AscendingCarry, BelowSame DEF Mono
  <1>9. Replacing(m)' BY <1>2, <1>6 DEF Replacing, MayReplace, Locking
  <1> QED BY <1>1, <1>2, <1>3, <1>4, <1>7, <1>8, <1>9, HFrame

(* A capture preserves HInv. *)
LEMMA SealHist ==
    ASSUME BInv, HInv, NEW m \in Machines, Seal(m)
    PROVE  HInv'
  <1> USE DEF BInv
  <1>1. /\ Others(m) /\ head'[m] = Captured(m)
    BY SealFacts, Seals, CapturedTree DEF Seal
  <1>2. /\ UNCHANGED <<transport, tree, state, intent, job, past, remote>> /\ job[m].at # "down"
    BY DEF Seal
  <1>3. Grows BY <1>2, Ungrown
  <1>4. \A q \in Machines : Secret(q) BY SecretElse
  <1>5. Mono(m) BY <1>3, <1>4, MonoFrom
  <1>6. OwnOK(m) /\ Ascending(m) /\ Replacing(m) BY DEF HInv
  <1>7. Plan(m)' = Plan(m) /\ (FastForward(m)' <=> FastForward(m)) BY <1>2, ForwardSame
  <1>8. \A t : Base(m, t) => Base(m, t)' BY <1>2, <1>5 DEF Base, Mono
  <1>9. \A t : Grown(m, t, t)' BY DEF Grown, Own
  <1>10. ~Applying(m) => head'[m] = tree[m] BY <1>1, CapturedTree
  <1>11. AtRest(m) => ~Applying(m) BY DEF AtRest, Applying, Pushing
  <1>12. Rest(m)' /\ (AtRest(m) => Mine(m)')
    <2>1. AtRest(m)' <=> AtRest(m) BY <1>2 DEF AtRest
    <2>2. AtRest(m) => Base(m, tree[m])' BY <1>2, <1>6, <1>8 DEF OwnOK, Rest
    <2>3. AtRest(m) => Mine(m)' BY <1>2, <1>9, <1>10, <1>11, <2>2 DEF Mine
    <2> QED BY <2>1, <2>2, <2>3 DEF Rest
  <1>13. Publishing(m)'
    <2>1. CASE job[m].at \in Pushing
      <3>1. AtRest(m) /\ head'[m] = tree[m] BY <1>10, <1>11, <2>1 DEF AtRest
      <3>2. Above(job[m].local, tree[m]) /\ Base(m, job[m].local)
        BY <1>6, <2>1, Orders DEF OwnOK, Publishing, Mine
      <3> QED BY <1>2, <1>5, <1>8, <1>12, <3>1, <3>2 DEF Publishing, Mono
    <2> QED BY <1>2, <2>1 DEF Publishing
  <1>14. Fetching(m)'
    <2>1. Comparing(m)' <=> Comparing(m) BY <1>2 DEF Comparing
    <2>2. CASE Comparing(m)
      <3>1. head'[m] = tree[m] BY <1>10, <1>11, <2>2 DEF Comparing, AtRest
      <3>2. (~job[m].bootstrap /\ Stray(m, job[m].local)) \/ Good(m)
        BY <1>6, <2>2 DEF OwnOK, Fetching
      <3>3. Good(m) => Good(m)' BY <1>2, <1>5, <1>8, <3>1 DEF Good, Mono
      <3> QED BY <1>2, <1>5, <3>2, <3>3 DEF Fetching, Mono
    <2> QED BY <2>1, <2>2 DEF Fetching
  <1>15. Intents(m)' BY <1>2, <1>6, <1>7 DEF OwnOK, Intents
  <1>16. Restores(m)'
    <2>1. CASE job[m].at \in Restoring /\ intent[m] # None
      <3>1. Restores(m) /\ Applying(m) BY <1>6, <2>1 DEF OwnOK, Applying, Restoring
      <3>2. \A p \in Paths : head'[m][p] = IF p \in Plan(m) THEN head[m][p] ELSE tree[m][p]
        BY <1>1, <3>1 DEF Captured
      <3>3. job[m].at # "published" => Loose(m, job[m].local, head'[m])
        <4> SUFFICES ASSUME NEW p \in Paths, job[m].at # "published"
                     PROVE  head'[m][p] = job[m].local[p] \/ Private(m, head'[m][p])
          BY DEF Loose
        <4>1. CASE p \in Plan(m) BY <2>1, <3>1, <3>2, <4>1 DEF Restores, Loose
        <4>2. CASE p \notin Plan(m)
          <5>1. job[m].local[p] = job[m].seen.root[p] BY <4>2 DEF Plan, Differ
          <5>2. Own(m, job[m].local[p], tree[m][p])
            BY <2>1, <3>1, <4>2, <5>1 DEF Restores, Restoring, Grown, Staged
          <5> QED BY <3>2, <4>2, <5>2 DEF Own
        <4> QED BY <4>1, <4>2
      <3>4. job[m].at = "published" =>
              Grown(m, job[m].seen.root, head'[m]) /\ Grown(m, head'[m], tree[m])
        <4> SUFFICES ASSUME NEW p \in Paths, job[m].at = "published"
                     PROVE  /\ Own(m, job[m].seen.root[p], head'[m][p])
                            /\ Own(m, head'[m][p], tree[m][p])
          BY DEF Grown
        <4>1. Own(m, job[m].seen.root[p], head[m][p]) /\ Own(m, head[m][p], tree[m][p])
          BY <2>1, <3>1 DEF Restores, Grown
        <4>2. Own(m, job[m].seen.root[p], tree[m][p]) BY <4>1, OwnTrans
        <4>3. Own(m, tree[m][p], tree[m][p]) BY DEF Own
        <4> QED BY <3>2, <4>1, <4>2, <4>3
      <3>5. Base(m, job[m].local)' BY <1>2, <1>8, <2>1, <3>1 DEF Restores
      <3> QED BY <1>2, <1>5, <1>7, <2>1, <3>1, <3>3, <3>4, <3>5 DEF Restores, Mono
    <2> QED BY <1>2, <2>1 DEF Restores
  <1>17. Settling(m)'
    <2>1. job[m].at = "settle" => head'[m] = tree[m] BY <1>10 DEF Applying
    <2> QED BY <1>2, <1>5, <1>6, <1>9, <2>1 DEF OwnOK, Settling, Mono
  <1>18. OwnOK(m)'
    BY <1>2, <1>12, <1>13, <1>14, <1>15, <1>16, <1>17 DEF OwnOK, Fallen
  <1>19. Ascending(m)' BY <1>2, <1>5, <1>6, AscendingCarry, BelowSame DEF Mono
  <1>20. Replacing(m)' BY <1>2, <1>6 DEF Replacing, MayReplace, Locking
  <1> QED BY <1>1, <1>2, <1>3, <1>4, <1>18, <1>19, <1>20, HFrame

(* An edit keeps whatever the tree was above. *)
LEMMA EditTree ==
    ASSUME BInv, NEW m \in Machines, NEW f \in Paths, Edit(m, f)
    PROVE  /\ \A a : \A p \in Paths : Own(m, a, tree[m][p]) => Own(m, a, tree[m][p])'
           /\ \A s : Above(s, tree[m]) => Above(s, tree[m])'
           /\ \A s : Grown(m, s, tree[m]) => Grown(m, s, tree[m])'
  <1> USE DEF BInv
  <1> DEFINE n == Len(past) + 1
  <1>1. /\ tree'[m] = [tree[m] EXCEPT ![f] = n] /\ Len(past') = n
        /\ past'[n] = IF tree[m][f] = 0 THEN {0} ELSE past[tree[m][f]] \cup {tree[m][f]}
    BY EditFacts
  <1>2. tree[m] \in Trees BY Shapes
  <1>3. \A p \in Paths : tree'[m][p] = IF p = f THEN n ELSE tree[m][p]
    BY <1>1, <1>2 DEF Trees
  <1>4. Len(past) \in Nat BY DEF Typed
  <1>5. \A a : Upon(a, tree[m][f]) => a \in past'[n] /\ n \in 1..Len(past')
    BY <1>1, <1>4 DEF Upon
  <1>6. \A a, b : b = n /\ Upon(a, tree[m][f]) => Upon(a, b)' BY <1>5 DEF Upon
  <1>7. \A b : b = n => Private(m, b)' BY SecretEdit
  <1>8. Grows /\ Secret(m) BY EditGrows, SecretEdit
  <1>9. Mono(m) BY <1>8, MonoFrom
  <1> HIDE DEF n
  <1>10. \A a : \A p \in Paths : Upon(a, tree[m][p]) => Upon(a, tree[m][p])'
    BY <1>3, <1>6, <1>8 DEF Grows
  <1>11. \A a : \A p \in Paths : Own(m, a, tree[m][p]) => Own(m, a, tree[m][p])'
    <2> SUFFICES ASSUME NEW a, NEW p \in Paths, Own(m, a, tree[m][p])
                 PROVE  Own(m, a, tree[m][p])'
      OBVIOUS
    <2>1. CASE p = f
      <3>1. Upon(a, tree[m][p]) BY DEF Own, Upon
      <3>2. Upon(a, tree[m][p])' BY <1>10, <3>1
      <3>3. Private(m, tree[m][p])' BY <1>3, <1>7, <2>1
      <3> QED BY <3>2, <3>3 DEF Own
    <2>2. CASE p # f BY <1>3, <1>9, <2>2 DEF Mono
    <2> QED BY <2>1, <2>2
  <1> QED BY <1>10, <1>11 DEF Above, Grown

(* An edit preserves HInv. *)
LEMMA EditHist ==
    ASSUME BInv, HInv, NEW m \in Machines, NEW f \in Paths, Edit(m, f)
    PROVE  HInv'
  <1> USE DEF BInv
  <1>1. Others(m) BY EditFacts
  <1>2. UNCHANGED <<transport, head, state, intent, job, remote>> BY DEF Edit
  <1>3. Grows /\ \A q \in Machines : Secret(q) BY EditGrows, SecretEdit
  <1>4. Mono(m) BY <1>3, MonoFrom
  <1>5. OwnOK(m) /\ Ascending(m) /\ Replacing(m) BY DEF HInv
  <1>6. Plan(m)' = Plan(m) /\ (FastForward(m)' <=> FastForward(m)) BY <1>2, ForwardSame
  <1>7. \A t : Base(m, t) => Base(m, t)' BY <1>2, <1>4 DEF Base, Mono
  <1>8. Base(m, tree[m]) => Base(m, tree[m])' BY <1>2, EditTree DEF Base
  <1>9. Mine(m) => Mine(m)' BY <1>2, <1>7, EditTree DEF Mine
  <1>10. Rest(m)' BY <1>2, <1>4, <1>5, <1>8, <1>9 DEF OwnOK, Rest, AtRest, Mono
  <1>11. Publishing(m)' BY <1>2, <1>4, <1>5, <1>7, <1>9 DEF OwnOK, Publishing, Mono
  <1>12. Fetching(m)'
    BY <1>2, <1>4, <1>5, <1>7, EditTree DEF OwnOK, Fetching, Comparing, Good, Mono
  <1>13. Intents(m)' BY <1>2, <1>5, <1>6 DEF OwnOK, Intents
  <1>14. Restores(m)'
    BY <1>2, <1>4, <1>5, <1>6, <1>7, EditTree DEF OwnOK, Restores, Mono
  <1>15. Settling(m)' BY <1>2, <1>4, <1>5, EditTree DEF OwnOK, Settling, Mono
  <1>16. Fallen(m)' BY <1>2, <1>4, <1>5, <1>7 DEF OwnOK, Fallen, Mono
  <1>17. OwnOK(m)'
    BY <1>10, <1>11, <1>12, <1>13, <1>14, <1>15, <1>16 DEF OwnOK
  <1>18. Ascending(m)' BY <1>2, <1>4, <1>5, AscendingCarry, BelowSame DEF Mono
  <1>19. Replacing(m)' BY <1>2, <1>5 DEF Replacing, MayReplace, Locking
  <1> QED BY <1>1, <1>2, <1>3, <1>17, <1>18, <1>19, HFrame

(* A command that fails preserves HInv. *)
LEMMA FailHist ==
    ASSUME BInv, HInv, NEW m \in Machines, Fail(m), "finish" \notin races'
    PROVE  HInv'
  <1> USE DEF BInv
  <1>1. /\ Others(m) /\ Ends(m, "idle")
        /\ \/ /\ job[m].at = "apply" /\ intent'[m] = None
              /\ tree'[m] = [p \in Paths |-> IF p \in Plan(m) THEN job[m].local[p]
                                             ELSE tree[m][p]]
           \/ UNCHANGED <<tree, intent>> /\ job[m].at # "apply"
    BY FailFacts
  <1>2. UNCHANGED <<transport, head, state, past, remote>> BY DEF Fail
  <1>3. Grows BY <1>2, Ungrown
  <1>4. \A q \in Machines : Secret(q) BY SecretElse
  <1>5. Mono(m) BY <1>3, <1>4, MonoFrom
  <1>6. OwnOK(m) /\ Ascending(m) BY DEF HInv
  <1>7. OwnOK(m)'
    <2>1. CASE UNCHANGED <<tree, intent>> /\ job[m].at # "apply"
      <3>1. job[m].at \in Pushing \cup {"fetched"} BY <2>1 DEF Fail, Pushing
      <3>2. AtRest(m) /\ intent[m] = None
        BY <1>6, <3>1 DEF AtRest, OwnOK, Intents, Pushing, Restoring
      <3> QED BY <1>1, <1>2, <1>5, <1>6, <2>1, <3>2, BackToIdle
    <2>2. CASE /\ job[m].at = "apply" /\ intent'[m] = None
               /\ tree'[m] = [p \in Paths |-> IF p \in Plan(m) THEN job[m].local[p]
                                              ELSE tree[m][p]]
      <3>1. Restores(m) /\ intent[m] # None BY <1>6, <2>2 DEF OwnOK, Intents
      <3>2. /\ Base(m, job[m].local) /\ Loose(m, job[m].local, head[m])
            /\ \A p \in Paths : p \notin Plan(m) => Own(m, job[m].local[p], tree[m][p])
        <4>1. job[m].todo \subseteq Plan(m) BY <2>2 DEF Staged
        <4>2. \A p \in Paths : p \notin Plan(m) => job[m].local[p] = job[m].seen.root[p]
          BY DEF Plan, Differ
        <4> QED BY <2>2, <3>1, <4>1, <4>2 DEF Restores, Restoring
      <3>3. Grown(m, job[m].local, tree'[m])
        <4>1. \A a : Own(m, a, a) BY DEF Own
        <4> QED BY <2>2, <3>2, <4>1 DEF Grown
      <3>4. \A t : Base(m, t) => Base(m, t)' BY <1>2, <1>5 DEF Base, Mono
      <3>5. Base(m, tree'[m]) BY <3>2, <3>3, Bases
      <3>6. Base(m, tree[m])' BY <3>4, <3>5
      <3>7. Stray(m, head[m])' \/ Mine(m)'
        <4>1. CASE Stray(m, head[m]) BY <1>2, <1>5, <4>1 DEF Mono
        <4>2. CASE ~Stray(m, head[m])
          <5>1. job[m].local \in Trees /\ head[m] \in Trees
            BY <2>2, Shapes DEF Staged, Pulling, Restoring
          <5>2. \A p \in Paths : head[m][p] = job[m].local[p]
            BY <3>2, <4>2 DEF Loose, Stray
          <5>3. head[m] = job[m].local BY <5>1, <5>2 DEF Trees
          <5>4. Grown(m, head[m], tree'[m]) /\ Base(m, head[m]) BY <3>2, <3>3, <5>3
          <5> QED BY <1>2, <1>5, <3>4, <5>4 DEF Mine, Mono
        <4> QED BY <4>1, <4>2
      <3>8. state'[m] # None => state'[m].local = state'[m].remote
        BY <1>2, <1>6 DEF OwnOK, Intents
      <3> QED BY <1>1, <2>2, <3>6, <3>7, <3>8, IdleOwn
    <2> QED BY <1>1, <2>1, <2>2
  <1>8. Ascending(m)' /\ Replacing(m)'
    BY <1>1, <1>2, <1>3, <1>6, AscendingEnds DEF Ends, Begins, Pulling, Pushing, Restoring
  <1> QED BY <1>1, <1>2, <1>3, <1>4, <1>7, <1>8, HFrame

(* A crash preserves HInv. *)
LEMMA CrashHist ==
    ASSUME BInv, HInv, NEW m \in Machines, Crash(m), "publish" \notin races'
    PROVE  HInv'
  <1> USE DEF BInv
  <1>1. Others(m) /\ Ends(m, "down") BY CrashFacts
  <1>2. /\ UNCHANGED <<transport, tree, head, state, intent, past, remote>>
        /\ job[m].at # "down" /\ (intent[m] # None => head[m] # intent[m].target)
    BY DEF Crash, When
  <1>3. Grows BY <1>2, Ungrown
  <1>4. \A q \in Machines : Secret(q) BY SecretElse
  <1>5. Mono(m) BY <1>3, <1>4, MonoFrom
  <1>6. OwnOK(m) /\ Ascending(m) BY DEF HInv
  <1>7. \A t : Base(m, t) => Base(m, t)' BY <1>2, <1>5 DEF Base, Mono
  <1>8. Mine(m) => Mine(m)' BY <1>2, <1>5, <1>7 DEF Mine, Mono
  <1>9. intent[m] = None => Base(m, tree[m]) /\ (Stray(m, head[m]) \/ Mine(m))
    <2>1. CASE job[m].at = "settle"
      <3>1. /\ Above(job[m].seen.root, tree[m]) /\ Base(m, job[m].seen.root)
            /\ \/ Stray(m, head[m])
               \/ Grown(m, head[m], tree[m]) /\ Above(job[m].seen.root, head[m])
        BY <1>6, <2>1 DEF OwnOK, Settling, Ascending, Pulling
      <3> QED BY <3>1, Bases DEF Mine
    <2>2. CASE job[m].at # "settle" /\ intent[m] = None
      <3>1. job[m].at \in Stages BY Shapes DEF Jobs
      <3>2. AtRest(m)
        BY <1>2, <1>6, <2>2, <3>1
           DEF OwnOK, Intents, AtRest, Stages, Pulling, Restoring
      <3> QED BY <1>6, <3>2 DEF OwnOK, Rest
    <2> QED BY <2>1, <2>2
  <1>10. intent[m] # None =>
            Base(m, intent[m].pre) /\ (Stray(m, head[m]) \/ head[m] = intent[m].pre)
    <2> SUFFICES ASSUME intent[m] # None
                 PROVE  Base(m, intent[m].pre) /\ (Stray(m, head[m]) \/ head[m] = intent[m].pre)
      OBVIOUS
    <2>1. job[m].at \in Restoring /\ Restores(m)
      BY <1>2, <1>6 DEF OwnOK, Intents
    <2>2. /\ intent[m].pre = job[m].local /\ intent[m].target = job[m].seen.root
          /\ Base(m, job[m].local)
          /\ job[m].at # "published" => Loose(m, job[m].local, head[m])
          /\ job[m].at = "published" => Grown(m, job[m].seen.root, head[m])
      BY <2>1 DEF Restores
    <2>3. intent[m].pre \in Trees /\ intent[m].target \in Trees /\ head[m] \in Trees BY Shapes
    <2>4. CASE job[m].at # "published"
      <3>1. Stray(m, head[m]) \/ \A p \in Paths : head[m][p] = intent[m].pre[p]
        BY <2>2, <2>4 DEF Loose, Stray
      <3> QED BY <2>2, <2>3, <3>1 DEF Trees
    <2>5. CASE job[m].at = "published"
      <3>1. Loose(m, intent[m].target, head[m]) BY <2>2, <2>5, Orders
      <3>2. Stray(m, head[m]) \/ \A p \in Paths : head[m][p] = intent[m].target[p]
        BY <3>1 DEF Loose, Stray
      <3>3. ~\A p \in Paths : head[m][p] = intent[m].target[p] BY <1>2, <2>3 DEF Trees
      <3> QED BY <2>2, <3>2, <3>3
    <2> QED BY <2>4, <2>5
  <1>11. OwnOK(m)'
    <2>1. Rest(m)'
      BY <1>1, <1>2, <1>5, <1>7, <1>8, <1>9
         DEF Rest, AtRest, Ends, Begins, Pushing, Mono
    <2>2. Fallen(m)' BY <1>2, <1>5, <1>7, <1>10 DEF Fallen, Mono
    <2>3. Intents(m)' BY <1>1, <1>2, <1>6 DEF OwnOK, Intents, Ends, Begins
    <2> QED BY <1>1, <2>1, <2>2, <2>3
            DEF OwnOK, Publishing, Pushing, Fetching, Comparing, Restores, Restoring, Settling,
                Ends, Begins
  <1>12. Ascending(m)' /\ Replacing(m)'
    BY <1>1, <1>2, <1>3, <1>6, AscendingEnds DEF Ends, Begins, Pulling, Pushing, Restoring
  <1> QED BY <1>1, <1>2, <1>3, <1>4, <1>11, <1>12, HFrame

(* Opening after a crash preserves HInv. *)
LEMMA OpenHist ==
    ASSUME BInv, HInv, NEW m \in Machines, Open(m)
    PROVE  HInv'
  <1> USE DEF BInv
  <1>1. /\ Others(m) /\ Ends(m, "idle") /\ intent'[m] = None
        /\ tree'[m] = IF intent[m] = None THEN tree[m] ELSE intent[m].pre
    BY OpenFacts
  <1>2. UNCHANGED <<transport, head, state, past, remote>> /\ job[m].at = "down" BY DEF Open
  <1>3. Grows BY <1>2, Ungrown
  <1>4. \A q \in Machines : Secret(q) BY SecretElse
  <1>5. Mono(m) BY <1>3, <1>4, MonoFrom
  <1>6. OwnOK(m) /\ Ascending(m) BY DEF HInv
  <1>7. OwnOK(m)'
    <2>1. CASE intent[m] = None
      <3>1. AtRest(m) BY <1>2, <2>1 DEF AtRest
      <3> QED BY <1>1, <1>2, <1>5, <1>6, <2>1, <3>1, BackToIdle
    <2>2. CASE intent[m] # None
      <3>1. Base(m, intent[m].pre) /\ (Stray(m, head[m]) \/ head[m] = intent[m].pre)
        BY <1>2, <1>6, <2>2 DEF OwnOK, Fallen
      <3>2. \A t : Base(m, t) => Base(m, t)' BY <1>2, <1>5 DEF Base, Mono
      <3>3. \A t : Grown(m, t, t)' BY DEF Grown, Own
      <3>4. Base(m, tree[m])' BY <1>1, <2>2, <3>1, <3>2
      <3>5. Stray(m, head[m])' \/ Mine(m)'
        BY <1>1, <1>2, <1>5, <2>2, <3>1, <3>2, <3>3 DEF Mine, Mono
      <3>6. state'[m] # None => state'[m].local = state'[m].remote
        BY <1>2, <1>6 DEF OwnOK, Intents
      <3> QED BY <1>1, <3>4, <3>5, <3>6, IdleOwn
    <2> QED BY <2>1, <2>2
  <1>8. Ascending(m)' /\ Replacing(m)'
    BY <1>1, <1>2, <1>3, <1>6, AscendingEnds DEF Ends, Begins, Pulling, Pushing, Restoring
  <1> QED BY <1>1, <1>2, <1>3, <1>4, <1>7, <1>8, HFrame

(* A crash of the remote preserves HInv. *)
LEMMA RemoteCrashHist ==
    ASSUME BInv, HInv, RemoteCrash
    PROVE  HInv'
  <1> USE DEF BInv
  <1>1. /\ remote'.head = remote.head
        /\ \A m \in Machines : IF job[m].at \in Pushing THEN Ends(m, "idle")
                               ELSE job'[m] = job[m]
    BY RemoteCrashFacts
  <1>2. UNCHANGED <<transport, tree, head, state, intent, past>> BY DEF RemoteCrash
  <1>3. Grows /\ Known' = Known BY <1>2, Ungrown
  <1>4. ASSUME NEW q \in Machines PROVE Secret(q)
    <2> SUFFICES ASSUME NEW c, Private(q, c) PROVE Private(q, c)'
      BY DEF Secret
    <2>1. HeadLacks(remote.head, c)' BY <1>1 DEF Private, HeadLacks, Lacks
    <2>2. ASSUME NEW r \in Machines PROVE Free(q, r, c)'
      <3>1. Free(q, r, c) BY DEF Private
      <3>2. CASE Ends(r, "idle")
        BY <1>2, <3>1, <3>2 DEF Free, HeadLacks, Lacks, Ends, Begins
      <3>3. CASE job'[r] = job[r] BY <1>2, <3>1, <3>3 DEF Free, HeadLacks, Lacks
      <3> QED BY <1>1, <3>2, <3>3
    <2> QED BY <1>3, <2>1, <2>2 DEF Private
  <1>5. ASSUME NEW m \in Machines PROVE OwnOK(m)' /\ Ascending(m)' /\ Replacing(m)'
    <2>1. OwnOK(m) /\ Ascending(m) BY DEF HInv
    <2>2. Mono(m) BY <1>3, <1>4, MonoFrom
    <2>3. CASE job[m].at \in Pushing /\ Ends(m, "idle")
      <3>1. AtRest(m) /\ intent[m] = None
        BY <2>1, <2>3 DEF AtRest, OwnOK, Intents, Pushing, Restoring
      <3>2. OwnOK(m)' BY <1>2, <2>1, <2>2, <2>3, <3>1, BackToIdle
      <3>3. Ascending(m)' /\ Replacing(m)'
        BY <1>1, <1>2, <1>3, <2>1, <2>3, AscendingEnds
           DEF Ends, Begins, Pulling, Pushing, Restoring
      <3> QED BY <3>2, <3>3
    <2>4. CASE job[m].at \notin Pushing /\ job'[m] = job[m]
      <3>1. OwnOK(m)' BY <1>2, <2>1, <2>2, <2>4, OwnCarry
      <3>2. Ascending(m)' BY <1>1, <1>2, <2>1, <2>2, <2>4, AscendingCarry, BelowSame DEF Mono
      <3>3. Replacing(m)' BY <2>4 DEF Replacing, Pushing
      <3> QED BY <3>1, <3>2, <3>3
    <2> QED BY <1>1, <2>3, <2>4
  <1> QED BY <1>5 DEF HInv

(* All machines start from the same tree. *)
LEMMA InitHist ==
    ASSUME Init
    PROVE  HInv
  <1>1. ASSUME NEW m \in Machines
        PROVE  /\ job[m] = Idle /\ head[m] = tree[m] /\ state[m] = None /\ intent[m] = None
               /\ remote.head = None
    BY DEF Init
  <1>2. ASSUME NEW m \in Machines PROVE OwnOK(m) /\ Ascending(m) /\ Replacing(m)
    <2>1. Rest(m) BY <1>1 DEF Rest, Base, Mine, Grown, Own
    <2>2. Intents(m) BY <1>1, IdleJob DEF Intents
    <2>3. OwnOK(m)
      BY <1>1, <2>1, <2>2, IdleJob
         DEF OwnOK, Publishing, Pushing, Fetching, Comparing, Restores, Restoring, Settling, Fallen
    <2> QED BY <1>1, <2>3, IdleJob DEF Ascending, Replacing, Pulling, Restoring
  <1> QED BY <1>2 DEF HInv

(* Every step preserves the history invariant. *)
LEMMA NextHist ==
    ASSUME BInv, HInv, [Next]_vars, races' \subseteq {"pointer"}
    PROVE  HInv'
  <1>1. CASE UNCHANGED vars
    <2>1. /\ UNCHANGED <<transport, tree, head, state, intent, job, past, remote>>
      BY <1>1 DEF vars, machine
    <2>2. Grows /\ Known' = Known BY <2>1, Ungrown
    <2>3. ASSUME NEW m \in Machines PROVE OwnOK(m)' /\ Ascending(m)' /\ Replacing(m)'
      <3>1. Secret(m) BY <2>1, <2>2 DEF Secret, Private, Free, HeadLacks, Lacks
      <3>2. Mono(m) BY <2>2, <3>1, MonoFrom
      <3>3. OwnOK(m) /\ Ascending(m) /\ Replacing(m) BY DEF HInv
      <3>4. OwnOK(m)' BY <2>1, <3>2, <3>3, OwnCarry
      <3>5. Ascending(m)' BY <2>1, <3>2, <3>3, AscendingCarry, BelowSame DEF Mono
      <3>6. Replacing(m)' BY <2>1, <3>3 DEF Replacing, MayReplace, Locking
      <3> QED BY <3>4, <3>5, <3>6
    <2> QED BY <2>3 DEF HInv
  <1>2. CASE RemoteCrash BY <1>2, RemoteCrashHist
  <1>3. ASSUME NEW m \in Machines, Step(m) PROVE HInv'
    <2>1. CASE PushCheck(m) BY <2>1, PushCheckHist
    <2>2. CASE PushRefused(m) BY <2>2, PushRefusedHist
    <2>3. CASE PushHead(m) BY <2>3, PushHeadHist
    <2>4. CASE PushEnd(m) BY <2>4, PushEndHist
    <2>5. CASE \E c \in Contents : PushUpload(m, c) BY <2>5, PushUploadHist
    <2>6. CASE PullArm(m) BY <2>6, PullArmHist
    <2>7. CASE PullFinish(m) BY <2>7, PullFinishHist
    <2>8. CASE PullIncoming(m) BY <2>8, PullIncomingHist
    <2>9. CASE PullPublish(m) BY <2>9, PullPublishHist
    <2>10. CASE PullDisarm(m) BY <2>10, PullDisarmHist
    <2>11. CASE PullSettle(m) BY <2>11, PullSettleHist
    <2>12. CASE PullClear(m) BY <2>12, PullClearHist
    <2>13. CASE \E p \in Paths : PullWrite(m, p) BY <2>13, PullWriteHist
    <2>14. CASE Follow(m) BY <2>14, FollowHist
    <2>15. CASE FollowIdle(m) BY <2>15, FollowIdleHist
    <2>16. CASE FollowPush(m) BY <2>16, BeginPushHist DEF FollowPush
    <2>17. CASE FollowPull(m) BY <2>17, FollowPullHist
    <2> QED BY <1>3, <2>1, <2>2, <2>3, <2>4, <2>5, <2>6, <2>7, <2>8, <2>9, <2>10, <2>11, <2>12,
               <2>13, <2>14, <2>15, <2>16, <2>17 DEF Step
  <1>4. "seal" \notin races' /\ "finish" \notin races' /\ "publish" \notin races'
    OBVIOUS
  <1>7. \A m \in Machines : ~SealAll(m) BY <1>4 DEF SealAll
  <1>5. ASSUME NEW m \in Machines,
               \/ Seal(m) \/ Collect(m) \/ Pair(m) \/ Fail(m) \/ Crash(m) \/ Open(m)
               \/ \E p \in Paths : Edit(m, p)
        PROVE  HInv'
    BY <1>4, <1>5, SealHist, CollectHist, PairHist, FailHist, CrashHist, OpenHist, EditHist
  <1>6. ASSUME NEW m \in Machines, NEW flag \in BOOLEAN, Push(m, flag) \/ Pull(m, flag)
        PROVE  HInv'
    BY <1>6, BeginPushHist, PullHist DEF Push
  <1> QED BY <1>1, <1>2, <1>3, <1>5, <1>6, <1>7 DEF Next

(* The one step that replaces the remote's head puts a tree above it there. *)
LEMMA NextRemote ==
    ASSUME BInv, HInv, [Next]_vars, remote.head # None, NEW p \in Paths
    PROVE  LET was == remote.head.root[p]
               new == remote'.head.root[p]
           IN  was # new => new # 0 /\ was \in past[new]
  <1> USE DEF BInv
  <1>1. CASE remote'.head = remote.head BY <1>1
  <1>2. ASSUME NEW m \in Machines, PushHead(m), remote'.head # remote.head
        PROVE  Upon(remote.head.root[p], remote'.head.root[p])
    <2>1. MayReplace(m) /\ remote'.head.root = job[m].local BY <1>2, PushHeadFacts
    <2> QED BY <1>2, <2>1, Replaced DEF Above
  <1>3. Upon(remote.head.root[p], remote'.head.root[p]) =>
            (remote.head.root[p] # remote'.head.root[p] =>
                /\ remote'.head.root[p] # 0
                /\ remote.head.root[p] \in past[remote'.head.root[p]])
    BY DEF Upon
  <1>4. ASSUME NEW m \in Machines, NEW flag \in BOOLEAN, BeginPush(m, flag)
        PROVE  remote'.head = remote.head
    BY <1>4, BeginPushFacts
  <1>5. \/ remote'.head = remote.head
        \/ \E m \in Machines : PushHead(m)
    <2>1. UNCHANGED vars => UNCHANGED remote BY DEF vars
    <2> QED BY <1>4, <2>1, RemoteAlone, RemoteCrashFacts, PushCheckFacts, PushUploadFacts
  <1> QED BY <1>1, <1>2, <1>3, <1>5

(* No push takes back what another machine published: each file of the
   remote's head is left alone or replaced by an edit made upon it, for any
   machines and transports, edits, lost answers and crashes, with or without the
   remote's lock, until a machine dies between the publication of a pulled head
   and the removal of its intent, a pull fails after its last file, or another
   command captures a half-pulled tree. *)
THEOREM RemoteIsKept == Spec => RemoteKept
  <1> DEFINE Holds == races \subseteq {"pointer"} => HInv
  <1>1. Init => Holds BY InitHist
  <1>2. BInv /\ Holds /\ [Next]_vars => Holds' BY NextHist, HistoryStep
  <1>3. BInv /\ Holds /\ [Next]_vars =>
            [remote.head # None /\ races' \subseteq {"pointer"} =>
                \A p \in Paths :
                    LET was == remote.head.root[p]
                        new == remote'.head.root[p]
                    IN  was # new => new # 0 /\ was \in past[new]]_vars
    BY NextRemote, HistoryStep
  <1> QED BY <1>1, <1>2, <1>3, BaseInvariant, PTL DEF Spec, RemoteKept

=============================================================================
