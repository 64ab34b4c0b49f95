---------------------------- MODULE FamilyProofs ----------------------------
(***************************************************************************)
(* What is proved of a family of workspaces for any forks, names, files,   *)
(* coordination keys and bounds.                                           *)
(*                                                                         *)
(* The two halves of the module meet in the directories of the forks:      *)
(* ForkInv says in which states of a fork or of a removal a directory is   *)
(* there and whose it is, and that only a workspace of the family has a    *)
(* coordination command at work; CoordInv adds what is known of the files, *)
(* and OpenInv what is known while no key lies above another.              *)
(***************************************************************************)
EXTENDS Family, FiniteSetTheorems, TLAPS

(***************************************************************************)
(* The inductive invariants.                                               *)
(***************************************************************************)
Staged == UNION {[S -> Contents] : S \in SUBSET Paths}
Builds == [step : {"compare", "copy", "capture", "verify", "adopt", "record"}, name : Names,
           base : Nat, at : BOOLEAN, same : SUBSET Paths, staged : Staged, atomic : BOOLEAN,
           head : Nat \cup {None}, id : Nat]
Updates == [step : {"tombstone", "remove", "propagate"}, key : Keys, value : Nat, number : Nat,
            todo : SUBSET Workspaces]
Opens == [step : {"tombstones"}, since : [Keys -> Nat], todo : SUBSET Keys]
         \cup [step : {"read"}, since : [Keys -> Nat]]
Answers == [step : {"answered"}, since : [Keys -> Nat], got : [Keys -> Int]]
Refused == [step |-> "refused"]

TypeOK ==
    /\ live \in [Workspaces -> Trees \cup {None}] /\ live[Source] # None
    /\ home \in [Workspaces -> {None, "own", "family"}] /\ mark \in [Workspaces -> Nat \cup {None}]
    /\ snaps \in Seq(Trees) /\ held \in SUBSET Nat /\ rows \in SUBSET (Int \X Nat)
    /\ head \in [Workspaces -> Nat \cup {None}] /\ records \in [Names -> Records \cup {None}]
    /\ build \in [Forks -> {Idle} \cup Builds] /\ removing \in [Names -> Removals \cup {None}]
    /\ authority \in [Keys -> Int] /\ tombstones \in SUBSET Keys
    /\ copy \in [Workspaces -> [Keys -> Int]] /\ lock \in Workspaces \cup {None}
    /\ ops \in [Workspaces -> {Idle, Refused} \cup Updates \cup Opens \cup Answers]
    /\ acked \in [Keys -> Nat] /\ cleared \in [Keys -> Nat]
    /\ spent \in [forks : Nat, edits : Nat, ops : Nat, removals : Nat, faults : Nat]

\* The snapshots: what is in the store or in a timeline was sealed, and what a
\* fork took for verified is.
Exact(b) == /\ b.base \in 1..Len(snaps) /\ b.head \in 1..Len(snaps)
            /\ snaps[b.head] = snaps[b.base]
StoreInv == held \subseteq 1..Len(snaps) /\ \A row \in rows : row[2] \in 1..Len(snaps)
BuildSnaps(d) ==
    /\ build[d].step # "idle" => build[d].base \in 1..Len(snaps)
    /\ build[d].step = "verify" /\ ~build[d].atomic => build[d].head \in 1..Len(snaps)
    /\ build[d].step \in {"adopt", "record"} => Exact(build[d])
RecordSnaps(n) == records[n] # None => Exact(records[n])

\* The directories: where there is none there is no identity, and only a member
\* of the family has a coordination command at work.  A fork that is being built
\* has a directory once it was renamed, and one that is being removed until it is
\* deleted, with no fork being built in it and no other removal of it.
HomeAt(w) == /\ live[w] = None => home[w] = None
             /\ ops[w].step # "idle" => home[w] = "family"
BuildHome(d) == /\ build[d].step = "capture" => live[d] # None /\ home[d] = None
                /\ build[d].step \in {"verify", "adopt", "record"} => live[d] # None
Deleting(n) == removing[n] # None /\ removing[n].step = "directory"
RemovalHome(n) == Deleting(n) =>
    LET d == removing[n].dest IN live[d] # None /\ home[d] = None /\ build[d].step = "idle"
RemovalApart == \A m, n \in Names :
    Deleting(m) /\ Deleting(n) /\ m # n => removing[m].dest # removing[n].dest

ForkInv ==
    /\ TypeOK /\ StoreInv /\ RemovalApart
    /\ \A d \in Forks : BuildSnaps(d) /\ BuildHome(d)
    /\ \A n \in Names : RecordSnaps(n) /\ RemovalHome(n)
    /\ \A w \in Workspaces : HomeAt(w)

\* The bases: that of a fork is in the timeline of the source, but for those that
\* were thinned out of it or never there.
Based(base) == base \in loose \/ (<<Source, base>> \in rows /\ base \in held)
RecordRows(n) == records[n] # None => Based(records[n].base)
BuildRows(d) == build[d].step # "idle" => Based(build[d].base)
RowsInv == (\A n \in Names : RecordRows(n)) /\ (\A d \in Forks : BuildRows(d))

\* The identities: a record names the directory that carries its mark, unless
\* another fork was put there since.
RecordMark(n) == records[n] # None /\ records[n].dest \notin reused =>
    LET d == records[n].dest IN build[d].step = "idle" /\ (live[d] # None => mark[d] = records[n].id)
BuildMark(d) == build[d].step = "record" => mark[d] = build[d].id
RemovalMark(n) == Deleting(n) /\ removing[n].dest \notin reused =>
    mark[removing[n].dest] = removing[n].id
MarkInv == /\ \A n \in Names : RecordMark(n) /\ RemovalMark(n)
           /\ \A d \in Forks : BuildMark(d)

\* The trees: what a fork holds is what was compared with its base, but for the
\* files edited in it since.
Same(d, tree) == \A p \in Paths \ edited[d] : live[d][p] = tree[p]
BuildTree(d) ==
    /\ build[d].step = "verify" /\ ~build[d].atomic => Same(d, snaps[build[d].head])
    /\ build[d].step \in {"adopt", "record"} => Same(d, snaps[build[d].base])
RecordTree(n) ==
    records[n] # None /\ records[n].dest \notin reused /\ live[records[n].dest] # None =>
        Same(records[n].dest, snaps[records[n].base])
TreeInv == /\ edited \in [Forks -> SUBSET Paths]
           /\ \A d \in Forks : BuildTree(d)
           /\ \A n \in Names : RecordTree(n)

\* The keys that were ever written or removed; what is in a tree is one of them
\* or a directory above one.
Touched == {k \in Keys : k \in tombstones \/ authority[k] > 0}
Grown(tree) == \A k \in Keys : /\ tree[k] > 0 => k \in Touched
                               /\ tree[k] < 0 => \E t \in Touched : IsStrictPrefix(k, t)

\* What a key holds is not older than a write or removal.
Fresh(value, k, since) == IF value > 0 THEN value >= since ELSE since = 0 \/ cleared[k] >= since
AckAt(k) ==
    /\ Fresh(authority[k], k, acked[k]) /\ (acked[k] > 0 => k \in Touched)
    /\ authority[k] <= spent.ops /\ acked[k] <= spent.ops /\ cleared[k] <= spent.ops

\* A command that changes the coordination files has the lock, and what it does
\* is the latest that was done to its key.
LockAt(w) ==
    ops[w].step \in {"tombstone", "remove", "propagate", "tombstones"} => lock = w
UpdateAt(w) == ops[w].step \in {"tombstone", "remove", "propagate"} =>
    /\ acked[ops[w].key] < ops[w].number /\ ops[w].number <= spent.ops
    /\ ops[w].step = "tombstone" => ops[w].value > 0
    /\ ops[w].step = "remove" => ops[w].value = 0
    /\ ops[w].value > 0 => authority[ops[w].key] = ops[w].value /\ ops[w].value = ops[w].number
    /\ ops[w].value = 0 => ops[w].key \in tombstones /\ cleared[ops[w].key] = ops[w].number
    /\ ops[w].value = 0 /\ ops[w].step = "propagate" => authority[ops[w].key] <= 0

\* What a command that reads has reconciled.
OpenAt(w) ==
    /\ ops[w].step \in {"tombstones", "read", "answered"} =>
           \A k \in Keys : ops[w].since[k] <= acked[k]
    /\ ops[w].step = "tombstones" =>
           /\ ops[w].todo \subseteq tombstones
           /\ \A k \in tombstones \ ops[w].todo : copy[w][k] <= 0
    /\ ops[w].step = "read" => \A k \in Keys : Fresh(copy[w][k], k, ops[w].since[k])
    /\ ops[w].step = "answered" => \A k \in Keys : Fresh(ops[w].got[k], k, ops[w].since[k])

CoordInv ==
    /\ Grown(authority) /\ \A k \in Keys : AckAt(k)
    /\ \A w \in Workspaces : Grown(copy[w]) /\ LockAt(w) /\ UpdateAt(w) /\ OpenAt(w)

\* While no key lies above another and there are no more files than are read, no
\* open is refused.
KeysApart == \A k, t \in Touched : ~IsStrictPrefix(k, t)
OpenInv == /\ KeysApart /\ ~TooMany(authority)
           /\ \A w \in Workspaces : ops[w].step # "refused"

(***************************************************************************)
(* Facts about the constants and the shared steps.                         *)
(***************************************************************************)
LEMMA PlaceFacts ==
    /\ Source \in Workspaces /\ Source \notin Forks /\ Forks \subseteq Workspaces
    /\ None \notin Trees /\ None \notin Records /\ None \notin Removals /\ None \notin Workspaces
    /\ None # "own" /\ None # "family" /\ "own" # "family"
    /\ \A w \in Workspaces : w \in Int
  BY ForksAssumption, NoneAssumption DEF Source, Workspaces

LEMMA StrictFacts == \A k \in Keys : ~IsStrictPrefix(k, k)
  BY DEF IsStrictPrefix

\* What the coordination half sees of a step of the other half.
Quiet == UNCHANGED shared /\ spent'.ops = spent.ops

\* The same where a directory goes away, or a command ends: what worked there is
\* idle, and its copy is as it was or empty.
Calm ==
    /\ UNCHANGED <<authority, tombstones, acked, cleared>> /\ spent'.ops = spent.ops
    /\ \A v \in Workspaces : \/ ops'[v] = ops[v] /\ copy'[v] = copy[v] /\ (lock = v => lock' = v)
                             \/ ops'[v].step = "idle" /\ copy'[v] \in {copy[v], Nowhere}

(* A counter of another bound than that of coordination. *)
LEMMA SpendFacts ==
    ASSUME TypeOK, NEW what \in {"forks", "edits", "removals", "faults"}, Spend(what)
    PROVE  /\ spent' \in [forks : Nat, edits : Nat, ops : Nat, removals : Nat, faults : Nat]
           /\ spent'.ops = spent.ops
<1>1. spent' = [spent EXCEPT ![what] = @ + 1]
  BY DEF Spend
<1>2. spent \in [forks : Nat, edits : Nat, ops : Nat, removals : Nat, faults : Nat]
  BY DEF TypeOK
<1>3. CASE what = "forks"
  BY <1>1, <1>2, <1>3
<1>4. CASE what = "edits"
  BY <1>1, <1>2, <1>4
<1>5. CASE what = "removals"
  BY <1>1, <1>2, <1>5
<1>6. CASE what = "faults"
  BY <1>1, <1>2, <1>6
<1> QED
  BY <1>3, <1>4, <1>5, <1>6

(* A seal adds a snapshot and leaves the others. *)
LEMMA PublishedFacts ==
    ASSUME TypeOK, NEW w \in Workspaces, NEW tree \in Trees, Published(w, tree)
    PROVE  /\ snaps' \in Seq(Trees) /\ Len(snaps) \in Nat /\ Len(snaps') = Len(snaps) + 1
           /\ \A i \in 1..Len(snaps) : snaps'[i] = snaps[i]
           /\ held' = held \cup {Len(snaps) + 1} /\ rows' = rows \cup {<<w, Len(snaps) + 1>>}
           /\ held' \in SUBSET Nat /\ rows' \in SUBSET (Int \X Nat)
           /\ head' \in [Workspaces -> Nat \cup {None}]
<1>1. snaps \in Seq(Trees) /\ Len(snaps) \in Nat
  BY DEF TypeOK
<1>2. snaps' = Append(snaps, tree)
  BY DEF Published
<1>3. /\ snaps' \in Seq(Trees) /\ Len(snaps') = Len(snaps) + 1
      /\ \A i \in 1..Len(snaps) : snaps'[i] = snaps[i]
  BY <1>1, <1>2
<1>4. /\ held' = held \cup {Len(snaps) + 1} /\ rows' = rows \cup {<<w, Len(snaps) + 1>>}
      /\ head' = [head EXCEPT ![w] = Len(snaps) + 1]
  BY DEF Published
<1>5. held' \in SUBSET Nat /\ rows' \in SUBSET (Int \X Nat)
  <2>1. w \in Int /\ Len(snaps) + 1 \in Nat
    BY <1>1, PlaceFacts
  <2>2. <<w, Len(snaps) + 1>> \in Int \X Nat
    BY <2>1
  <2>3. held \in SUBSET Nat /\ rows \in SUBSET (Int \X Nat)
    BY DEF TypeOK
  <2> QED
    BY <1>4, <2>1, <2>2, <2>3
<1>6. head' \in [Workspaces -> Nat \cup {None}]
  BY <1>1, <1>4 DEF TypeOK
<1> QED
  BY <1>1, <1>3, <1>4, <1>5, <1>6

(* A fork begins where there is nothing. *)
LEMMA BeginFacts ==
    ASSUME TypeOK, NEW d \in Forks, NEW name \in Names, NEW base \in Nat, NEW at \in BOOLEAN,
           Begin(d, name, base, at)
    PROVE  /\ build[d].step = "idle" /\ live[d] = None
           /\ build' \in [Forks -> {Idle} \cup Builds]
           /\ \A e \in Forks : e # d => build'[e] = build[e]
           /\ build'[d].step \in {"compare", "copy"} /\ build'[d].base = base
           /\ spent' \in [forks : Nat, edits : Nat, ops : Nat, removals : Nat, faults : Nat]
           /\ UNCHANGED <<live, home, mark, records, removing>> /\ Quiet
           /\ reused \subseteq reused'
           /\ d \notin reused' => \A n \in Names : records[n] # None => records[n].dest # d
<1>1. Spend("forks")
  BY DEF Begin
<1>2. /\ spent' \in [forks : Nat, edits : Nat, ops : Nat, removals : Nat, faults : Nat]
      /\ spent'.ops = spent.ops /\ 10 + spent.forks \in Nat
  <2>1. spent.forks \in Nat
    BY DEF TypeOK
  <2>2. 10 + spent.forks \in Nat
    BY <2>1
  <2> QED
    BY <1>1, <2>2, SpendFacts
<1> DEFINE b == [step |-> IF at THEN "compare" ELSE "copy", name |-> name, base |-> base, at |-> at,
                 same |-> {}, staged |-> [p \in {} |-> 0], atomic |-> FALSE, head |-> None,
                 id |-> 10 + spent.forks]
<1>3. build' = [build EXCEPT ![d] = b]
  BY DEF Begin
<1>4. [p \in {} |-> 0] \in Staged
  <2>1. [p \in {} |-> 0] \in [{} -> Contents] /\ {} \in SUBSET Paths
    OBVIOUS
  <2> QED
    BY <2>1 DEF Staged
<1>5. b \in Builds
  BY <1>2, <1>4 DEF Builds
<1>6. b.step \in {"compare", "copy"} /\ b.base = base
  OBVIOUS
<1> HIDE DEF b
<1>7. /\ build' \in [Forks -> {Idle} \cup Builds] /\ build'[d] = b
      /\ \A e \in Forks : e # d => build'[e] = build[e]
  BY <1>3, <1>5 DEF TypeOK
<1>8. UNCHANGED <<live, home, mark, records, removing>> /\ Quiet
  BY <1>2 DEF Begin, trees, shared, Quiet
<1>9. build[d].step = "idle" /\ live[d] = None
  BY DEF Begin
<1>10. /\ reused \subseteq reused'
       /\ d \notin reused' => \A n \in Names : records[n] # None => records[n].dest # d
  BY DEF Begin
<1> QED
  BY <1>2, <1>6, <1>7, <1>8, <1>9, <1>10

(* What a fork command is at. *)
LEMMA BuildKinds ==
    ASSUME TypeOK, NEW d \in Forks
    PROVE  /\ build[d].step # "idle" => build[d] \in Builds
           /\ build[d] \in Builds => build[d].step # "idle"
           /\ d \in DOMAIN build /\ d \in DOMAIN live /\ d \in DOMAIN home /\ d \in DOMAIN mark
           /\ d \in DOMAIN head /\ d \in Workspaces /\ d # Source /\ live[Source] \in Trees
  BY PlaceFacts DEF TypeOK, Builds, Idle

(* What the records and the removals name. *)
LEMMA Shapes ==
    ASSUME TypeOK
    PROVE  /\ Forks \subseteq Workspaces
           /\ \A n \in Names :
                  /\ records[n] # None => records[n] \in Records /\ records[n].dest \in Forks
                  /\ removing[n] # None => removing[n] \in Removals /\ removing[n].dest \in Forks
  BY PlaceFacts DEF TypeOK, Records, Removals

(***************************************************************************)
(* The steps of the fork half: each keeps what is known of the snapshots,  *)
(* of the directories, of the bases and of the identities.                 *)
(***************************************************************************)

(* People edit a tree that is there. *)
LEMMA EditGood ==
    ASSUME ForkInv, NEW w \in Workspaces, NEW p \in Paths, NEW content \in Contents, Edit(w, p, content)
    PROVE  /\ ForkInv'
           /\ (RowsInv => RowsInv')
           /\ (MarkInv => MarkInv')
           /\ Quiet
<1>1. TypeOK /\ StoreInv /\ RemovalApart
  BY DEF ForkInv
<1>2. /\ \A e \in Forks : BuildSnaps(e) /\ BuildHome(e)
      /\ \A m \in Names : RecordSnaps(m) /\ RemovalHome(m)
      /\ \A v \in Workspaces : HomeAt(v)
  BY DEF ForkInv
<1>3. UNCHANGED << home, mark, snaps, held, rows, head, records, build, removing, authority,
                   tombstones, copy, lock, ops, acked, cleared, loose, reused>>
  BY DEF Edit, trees, store, forkery, shared, history
<1>f1. live' = [live EXCEPT ![w] = [live[w] EXCEPT ![p] = content]] /\ live[w] \in Trees
  BY <1>1 DEF Edit, TypeOK
<1>f2. [live[w] EXCEPT ![p] = content] \in Trees
  BY <1>f1 DEF Trees
<1>f3. live' \in [Workspaces -> Trees \cup {None}] /\ live'[Source] # None
  BY <1>1, <1>f1, <1>f2, PlaceFacts DEF TypeOK
<1>f4. \A v \in Workspaces : live'[v] = None <=> live[v] = None
  BY <1>1, <1>f1, <1>f2, PlaceFacts DEF TypeOK
<1>f5. /\ spent' \in [forks : Nat, edits : Nat, ops : Nat, removals : Nat, faults : Nat]
       /\ spent'.ops = spent.ops
  BY <1>1, SpendFacts DEF Edit
<1>4. TypeOK'
  BY <1>1, <1>3, <1>f3, <1>f5 DEF TypeOK
<1>5. StoreInv'
  BY <1>1, <1>3 DEF StoreInv
<1>6. ASSUME NEW e \in Forks PROVE BuildSnaps(e)'
  BY <1>2, <1>3, <1>6 DEF BuildSnaps, Exact
<1>7. ASSUME NEW m \in Names PROVE RecordSnaps(m)'
  BY <1>2, <1>3, <1>7 DEF RecordSnaps, Exact
<1>8. ASSUME NEW v \in Workspaces PROVE HomeAt(v)'
  BY <1>2, <1>3, <1>8, <1>f4, <1>f5 DEF HomeAt
<1>9. ASSUME NEW e \in Forks PROVE BuildHome(e)'
  BY <1>2, <1>3, <1>9, PlaceFacts, <1>f4 DEF BuildHome
<1>10. ASSUME NEW m \in Names PROVE RemovalHome(m)'
  BY <1>1, <1>2, <1>3, <1>10, <1>f4, Shapes DEF RemovalHome, Deleting
<1>11. RemovalApart'
  BY <1>1, <1>3 DEF RemovalApart, Deleting
<1>12. ASSUME RowsInv, NEW m \in Names PROVE RecordRows(m)'
  BY <1>2, <1>3, <1>12 DEF RowsInv, RecordRows, Based
<1>13. ASSUME RowsInv, NEW e \in Forks PROVE BuildRows(e)'
  BY <1>2, <1>3, <1>13 DEF RowsInv, BuildRows, Based
<1>14. ASSUME MarkInv, NEW m \in Names PROVE RecordMark(m)'
  BY <1>1, <1>2, <1>3, <1>14, <1>f4, Shapes DEF MarkInv, RecordMark
<1>15. ASSUME MarkInv, NEW e \in Forks PROVE BuildMark(e)'
  BY <1>2, <1>3, <1>15 DEF MarkInv, BuildMark
<1>16. ASSUME MarkInv, NEW m \in Names PROVE RemovalMark(m)'
  BY <1>1, <1>2, <1>3, <1>16, Shapes DEF MarkInv, RemovalMark, Deleting, RemovalHome
<1>17. Quiet
  BY <1>3, <1>f5 DEF Quiet, shared
<1>18. ForkInv'
  BY <1>4, <1>5, <1>6, <1>7, <1>8, <1>9, <1>10, <1>11 DEF ForkInv
<1>19. RowsInv => RowsInv'
  BY <1>12, <1>13 DEF RowsInv
<1>20. MarkInv => MarkInv'
  BY <1>14, <1>15, <1>16 DEF MarkInv
<1> QED
  BY <1>17, <1>18, <1>19, <1>20


(* A base that leaves the timeline of the source is noted. *)
LEMMA CollectGood ==
    ASSUME ForkInv, Collect
    PROVE  /\ ForkInv'
           /\ (RowsInv => RowsInv')
           /\ (MarkInv => MarkInv')
           /\ Quiet
<1>1. TypeOK /\ StoreInv /\ RemovalApart
  BY DEF ForkInv
<1>2. /\ \A e \in Forks : BuildSnaps(e) /\ BuildHome(e)
      /\ \A m \in Names : RecordSnaps(m) /\ RemovalHome(m)
      /\ \A v \in Workspaces : HomeAt(v)
  BY DEF ForkInv
<1>3. UNCHANGED << live, home, mark, snaps, head, records, build, removing, authority,
                   tombstones, copy, lock, ops, acked, cleared, spent, reused>>
  BY DEF Collect, trees, store, forkery, shared, history
<1>f1. PICK gone : /\ rows' = rows \ gone
                   /\ loose' = loose \cup {row[2] : row \in {r \in gone : r[1] = Source /\ IsBase(r[2])}}
  BY DEF Collect
<1>b. ASSUME NEW base, Based(base), IsBase(base) PROVE Based(base)'
  <2>1. CASE base \in loose
    BY <1>f1, <2>1 DEF Based
  <2>2. CASE <<Source, base>> \in gone
    <3>1. /\ <<Source, base>> \in {r \in gone : r[1] = Source /\ IsBase(r[2])}
          /\ <<Source, base>>[2] = base
      BY <1>b, <2>2
    <3>2. base \in loose'
      BY <1>f1, <3>1
    <3> QED
      BY <3>2 DEF Based
  <2>3. CASE <<Source, base>> \in rows /\ <<Source, base>> \notin gone
    <3>1. <<Source, base>> \in rows' /\ held' = {row[2] : row \in rows'} /\ <<Source, base>>[2] = base
      BY <1>f1, <2>3 DEF Collect, Retained
    <3>2. base \in held'
      BY <3>1
    <3> QED
      BY <3>1, <3>2 DEF Based
  <2> QED
    BY <1>b, <2>1, <2>2, <2>3 DEF Based
<1>f2. held' = {row[2] : row \in rows'}
  BY DEF Collect, Retained
<1>f3. held' \in SUBSET Nat /\ rows' \in SUBSET (Int \X Nat) /\ rows' \subseteq rows
  BY <1>1, <1>f1, <1>f2 DEF TypeOK
<1>4. TypeOK'
  BY <1>1, <1>3, <1>f3 DEF TypeOK
<1>5. StoreInv'
  BY <1>1, <1>3, <1>f2, <1>f3 DEF StoreInv
<1>6. ASSUME NEW e \in Forks PROVE BuildSnaps(e)'
  BY <1>2, <1>3, <1>6 DEF BuildSnaps, Exact
<1>7. ASSUME NEW m \in Names PROVE RecordSnaps(m)'
  BY <1>2, <1>3, <1>7 DEF RecordSnaps, Exact
<1>8. ASSUME NEW v \in Workspaces PROVE HomeAt(v)'
  BY <1>2, <1>3, <1>8 DEF HomeAt
<1>9. ASSUME NEW e \in Forks PROVE BuildHome(e)'
  BY <1>2, <1>3, <1>9 DEF BuildHome
<1>10. ASSUME NEW m \in Names PROVE RemovalHome(m)'
  BY <1>1, <1>2, <1>3, <1>10, Shapes DEF RemovalHome, Deleting
<1>11. RemovalApart'
  BY <1>1, <1>3 DEF RemovalApart, Deleting
<1>12. ASSUME RowsInv, NEW m \in Names PROVE RecordRows(m)'
  BY <1>3, <1>12, <1>b DEF RowsInv, RecordRows, IsBase
<1>13. ASSUME RowsInv, NEW e \in Forks PROVE BuildRows(e)'
  BY <1>3, <1>13, <1>b DEF RowsInv, BuildRows, IsBase
<1>14. ASSUME MarkInv, NEW m \in Names PROVE RecordMark(m)'
  BY <1>1, <1>2, <1>3, <1>14, Shapes DEF MarkInv, RecordMark
<1>15. ASSUME MarkInv, NEW e \in Forks PROVE BuildMark(e)'
  BY <1>2, <1>3, <1>15 DEF MarkInv, BuildMark
<1>16. ASSUME MarkInv, NEW m \in Names PROVE RemovalMark(m)'
  BY <1>1, <1>2, <1>3, <1>16, Shapes DEF MarkInv, RemovalMark, Deleting, RemovalHome
<1>17. Quiet
  BY <1>3 DEF Quiet, shared
<1>18. ForkInv'
  BY <1>4, <1>5, <1>6, <1>7, <1>8, <1>9, <1>10, <1>11 DEF ForkInv
<1>19. RowsInv => RowsInv'
  BY <1>12, <1>13 DEF RowsInv
<1>20. MarkInv => MarkInv'
  BY <1>14, <1>15, <1>16 DEF MarkInv
<1> QED
  BY <1>17, <1>18, <1>19, <1>20


(* prepare_fork seals the source; the base is in its timeline. *)
LEMMA PrepareGood ==
    ASSUME ForkInv, NEW d \in Forks, NEW name \in Names, Prepare(d, name)
    PROVE  /\ ForkInv'
           /\ (RowsInv => RowsInv')
           /\ (MarkInv => MarkInv')
           /\ Quiet
<1>1. TypeOK /\ StoreInv /\ RemovalApart
  BY DEF ForkInv
<1>2. /\ \A e \in Forks : BuildSnaps(e) /\ BuildHome(e)
      /\ \A m \in Names : RecordSnaps(m) /\ RemovalHome(m)
      /\ \A v \in Workspaces : HomeAt(v)
  BY DEF ForkInv
<1>3. UNCHANGED << live, home, mark, records, removing, authority, tombstones, copy, lock, ops,
                   acked, cleared, loose>>
  BY DEF Prepare, Published, Begin, trees, store, forkery, shared, history
<1>f1. Published(Source, live[Source]) /\ Begin(d, name, Len(snaps) + 1, FALSE)
  BY DEF Prepare
<1>f2. live[Source] \in Trees /\ Len(snaps) + 1 \in Nat /\ Source \in Workspaces
  BY <1>1, PlaceFacts DEF TypeOK
<1>f3. /\ snaps' \in Seq(Trees) /\ Len(snaps) \in Nat /\ Len(snaps') = Len(snaps) + 1
       /\ \A i \in 1..Len(snaps) : snaps'[i] = snaps[i]
       /\ held' = held \cup {Len(snaps) + 1} /\ rows' = rows \cup {<<Source, Len(snaps) + 1>>}
       /\ held' \in SUBSET Nat /\ rows' \in SUBSET (Int \X Nat)
       /\ head' \in [Workspaces -> Nat \cup {None}]
  BY <1>1, <1>f1, <1>f2, PublishedFacts
<1>f4. /\ build[d].step = "idle" /\ live[d] = None
       /\ build' \in [Forks -> {Idle} \cup Builds] /\ \A e \in Forks : e # d => build'[e] = build[e]
  BY <1>1, <1>f1, <1>f2, BeginFacts
<1>f5. build'[d].step \in {"compare", "copy"} /\ build'[d].base = Len(snaps) + 1
  BY <1>1, <1>f1, <1>f2, BeginFacts
<1>f6. spent' \in [forks : Nat, edits : Nat, ops : Nat, removals : Nat, faults : Nat] /\ Quiet
  BY <1>1, <1>f1, <1>f2, BeginFacts
<1>f7. /\ reused \subseteq reused'
       /\ d \notin reused' => \A n \in Names : records[n] # None => records[n].dest # d
  BY <1>1, <1>f1, <1>f2, BeginFacts
<1>4. TypeOK'
  BY <1>1, <1>3, <1>f3, <1>f4, <1>f6 DEF TypeOK
<1>5. StoreInv'
  BY <1>1, <1>3, <1>f3, <1>f5 DEF StoreInv
<1>6. ASSUME NEW e \in Forks PROVE BuildSnaps(e)'
  BY <1>2, <1>3, <1>6, <1>f3, <1>f4, <1>f5 DEF BuildSnaps, Exact
<1>7. ASSUME NEW m \in Names PROVE RecordSnaps(m)'
  BY <1>2, <1>3, <1>7, <1>f3, <1>f5, <1>f7 DEF RecordSnaps, Exact
<1>8. ASSUME NEW v \in Workspaces PROVE HomeAt(v)'
  BY <1>2, <1>3, <1>8, <1>f4 DEF HomeAt
<1>9. ASSUME NEW e \in Forks PROVE BuildHome(e)'
  BY <1>2, <1>3, <1>9, <1>f4, <1>f5 DEF BuildHome
<1>10. ASSUME NEW m \in Names PROVE RemovalHome(m)'
  BY <1>1, <1>2, <1>3, <1>10, <1>f4, <1>f5, Shapes DEF RemovalHome, Deleting
<1>11. RemovalApart'
  BY <1>1, <1>3 DEF RemovalApart, Deleting
<1>12. ASSUME RowsInv, NEW m \in Names PROVE RecordRows(m)'
  BY <1>2, <1>3, <1>12, <1>f3, <1>f7 DEF RowsInv, RecordRows, Based
<1>13. ASSUME RowsInv, NEW e \in Forks PROVE BuildRows(e)'
  BY <1>2, <1>3, <1>13, <1>f3, <1>f4, <1>f5 DEF RowsInv, BuildRows, Based
<1>14. ASSUME MarkInv, NEW m \in Names PROVE RecordMark(m)'
  BY <1>1, <1>2, <1>3, <1>14, <1>f4, <1>f5, <1>f7, Shapes DEF MarkInv, RecordMark
<1>15. ASSUME MarkInv, NEW e \in Forks PROVE BuildMark(e)'
  BY <1>2, <1>3, <1>15, <1>f4, <1>f5 DEF MarkInv, BuildMark
<1>16. ASSUME MarkInv, NEW m \in Names PROVE RemovalMark(m)'
  BY <1>1, <1>2, <1>3, <1>16, <1>f7, Shapes DEF MarkInv, RemovalMark, Deleting, RemovalHome
<1>17. Quiet
  BY <1>f6
<1>18. ForkInv'
  BY <1>4, <1>5, <1>6, <1>7, <1>8, <1>9, <1>10, <1>11 DEF ForkInv
<1>19. RowsInv => RowsInv'
  BY <1>12, <1>13 DEF RowsInv
<1>20. MarkInv => MarkInv'
  BY <1>14, <1>15, <1>16 DEF MarkInv
<1> QED
  BY <1>17, <1>18, <1>19, <1>20


(* prepare_fork_at takes a snapshot that is in the store, of any timeline. *)
LEMMA PrepareAtGood ==
    ASSUME ForkInv, NEW d \in Forks, NEW name \in Names, PrepareAt(d, name)
    PROVE  /\ ForkInv'
           /\ (RowsInv => RowsInv')
           /\ (MarkInv => MarkInv')
           /\ Quiet
<1>1. TypeOK /\ StoreInv /\ RemovalApart
  BY DEF ForkInv
<1>2. /\ \A e \in Forks : BuildSnaps(e) /\ BuildHome(e)
      /\ \A m \in Names : RecordSnaps(m) /\ RemovalHome(m)
      /\ \A v \in Workspaces : HomeAt(v)
  BY DEF ForkInv
<1>3. UNCHANGED << live, home, mark, snaps, held, rows, head, records, removing, authority,
                   tombstones, copy, lock, ops, acked, cleared>>
  BY DEF PrepareAt, Begin, trees, store, forkery, shared, history
<1>f1. PICK id \in held : /\ loose' = loose \cup (IF <<Source, id>> \in rows THEN {} ELSE {id})
                          /\ Begin(d, name, id, TRUE)
  BY DEF PrepareAt
<1>f2. id \in Nat /\ id \in 1..Len(snaps)
  BY <1>1 DEF TypeOK, StoreInv
<1>f3. /\ build[d].step = "idle" /\ live[d] = None
       /\ build' \in [Forks -> {Idle} \cup Builds] /\ \A e \in Forks : e # d => build'[e] = build[e]
  BY <1>1, <1>f1, <1>f2, BeginFacts
<1>f4. build'[d].step \in {"compare", "copy"} /\ build'[d].base = id
  BY <1>1, <1>f1, <1>f2, BeginFacts
<1>f5. spent' \in [forks : Nat, edits : Nat, ops : Nat, removals : Nat, faults : Nat] /\ Quiet
  BY <1>1, <1>f1, <1>f2, BeginFacts
<1>f6. /\ reused \subseteq reused'
       /\ d \notin reused' => \A n \in Names : records[n] # None => records[n].dest # d
  BY <1>1, <1>f1, <1>f2, BeginFacts
<1>4. TypeOK'
  BY <1>1, <1>3, <1>f3, <1>f5 DEF TypeOK
<1>5. StoreInv'
  BY <1>1, <1>3, <1>f1, <1>f2 DEF StoreInv
<1>6. ASSUME NEW e \in Forks PROVE BuildSnaps(e)'
  BY <1>2, <1>3, <1>6, <1>f2, <1>f3, <1>f4 DEF BuildSnaps, Exact
<1>7. ASSUME NEW m \in Names PROVE RecordSnaps(m)'
  BY <1>2, <1>3, <1>7, <1>f2, <1>f6 DEF RecordSnaps, Exact
<1>8. ASSUME NEW v \in Workspaces PROVE HomeAt(v)'
  BY <1>2, <1>3, <1>8, <1>f3 DEF HomeAt
<1>9. ASSUME NEW e \in Forks PROVE BuildHome(e)'
  BY <1>2, <1>3, <1>9, <1>f3, <1>f4 DEF BuildHome
<1>10. ASSUME NEW m \in Names PROVE RemovalHome(m)'
  BY <1>1, <1>2, <1>3, <1>10, <1>f3, <1>f4, Shapes DEF RemovalHome, Deleting
<1>11. RemovalApart'
  BY <1>1, <1>3 DEF RemovalApart, Deleting
<1>12. ASSUME RowsInv, NEW m \in Names PROVE RecordRows(m)'
  BY <1>2, <1>3, <1>12, <1>f1, <1>f6 DEF RowsInv, RecordRows, Based
<1>13. ASSUME RowsInv, NEW e \in Forks PROVE BuildRows(e)'
  BY <1>2, <1>3, <1>13, <1>f1, <1>f3, <1>f4 DEF RowsInv, BuildRows, Based
<1>14. ASSUME MarkInv, NEW m \in Names PROVE RecordMark(m)'
  BY <1>1, <1>2, <1>3, <1>14, <1>f3, <1>f4, <1>f6, Shapes DEF MarkInv, RecordMark
<1>15. ASSUME MarkInv, NEW e \in Forks PROVE BuildMark(e)'
  BY <1>2, <1>3, <1>15, <1>f3, <1>f4 DEF MarkInv, BuildMark
<1>16. ASSUME MarkInv, NEW m \in Names PROVE RemovalMark(m)'
  BY <1>1, <1>2, <1>3, <1>16, <1>f6, Shapes DEF MarkInv, RemovalMark, Deleting, RemovalHome
<1>17. Quiet
  BY <1>f5
<1>18. ForkInv'
  BY <1>4, <1>5, <1>6, <1>7, <1>8, <1>9, <1>10, <1>11 DEF ForkInv
<1>19. RowsInv => RowsInv'
  BY <1>12, <1>13 DEF RowsInv
<1>20. MarkInv => MarkInv'
  BY <1>14, <1>15, <1>16 DEF MarkInv
<1> QED
  BY <1>17, <1>18, <1>19, <1>20


(* What is still as it was is noted. *)
LEMMA CompareGood ==
    ASSUME ForkInv, NEW d \in Forks, Compare(d)
    PROVE  /\ ForkInv'
           /\ (RowsInv => RowsInv')
           /\ (MarkInv => MarkInv')
           /\ Quiet
<1>1. TypeOK /\ StoreInv /\ RemovalApart
  BY DEF ForkInv
<1>2. /\ \A e \in Forks : BuildSnaps(e) /\ BuildHome(e)
      /\ \A m \in Names : RecordSnaps(m) /\ RemovalHome(m)
      /\ \A v \in Workspaces : HomeAt(v)
  BY DEF ForkInv
<1>3. UNCHANGED << live, home, mark, snaps, held, rows, head, records, removing, authority,
                   tombstones, copy, lock, ops, acked, cleared, spent, loose, reused>>
  BY DEF Compare, trees, store, forkery, shared, history
<1>f1. build[d].step = "compare" /\ build[d] \in Builds
  BY <1>1, BuildKinds DEF Compare
<1>f2. build' = [build EXCEPT ![d] = [build[d] EXCEPT !.step = "copy",
                !.same = {p \in Paths : live[Source][p] = snaps[build[d].base][p]}]]
  BY <1>1, <1>f1, BuildKinds DEF Compare
<1>f3. build'[d].step = "copy" /\ build'[d].base = build[d].base
  BY <1>1, <1>f1, <1>f2, BuildKinds DEF Builds
<1>f4. build'[d] \in Builds
  BY <1>1, <1>f1, <1>f2, BuildKinds DEF Builds
<1>f5. /\ build' \in [Forks -> {Idle} \cup Builds]
       /\ \A e \in Forks : e # d => build'[e] = build[e]
  BY <1>1, <1>f2, <1>f4, BuildKinds DEF TypeOK
<1>4. TypeOK'
  BY <1>1, <1>3, <1>f5 DEF TypeOK
<1>5. StoreInv'
  BY <1>1, <1>3 DEF StoreInv
<1>6. ASSUME NEW e \in Forks PROVE BuildSnaps(e)'
  BY <1>2, <1>3, <1>6, <1>f1, <1>f3, <1>f5 DEF BuildSnaps, Exact
<1>7. ASSUME NEW m \in Names PROVE RecordSnaps(m)'
  BY <1>2, <1>3, <1>7 DEF RecordSnaps, Exact
<1>8. ASSUME NEW v \in Workspaces PROVE HomeAt(v)'
  BY <1>2, <1>3, <1>8 DEF HomeAt
<1>9. ASSUME NEW e \in Forks PROVE BuildHome(e)'
  BY <1>2, <1>3, <1>9, <1>f1, <1>f3, <1>f5 DEF BuildHome
<1>10. ASSUME NEW m \in Names PROVE RemovalHome(m)'
  BY <1>1, <1>2, <1>3, <1>10, <1>f1, <1>f3, <1>f5, Shapes DEF RemovalHome, Deleting
<1>11. RemovalApart'
  BY <1>1, <1>3 DEF RemovalApart, Deleting
<1>12. ASSUME RowsInv, NEW m \in Names PROVE RecordRows(m)'
  BY <1>2, <1>3, <1>12 DEF RowsInv, RecordRows, Based
<1>13. ASSUME RowsInv, NEW e \in Forks PROVE BuildRows(e)'
  BY <1>2, <1>3, <1>13, <1>f1, <1>f3, <1>f5 DEF RowsInv, BuildRows, Based
<1>14. ASSUME MarkInv, NEW m \in Names PROVE RecordMark(m)'
  BY <1>1, <1>2, <1>3, <1>14, <1>f1, <1>f3, <1>f5, Shapes DEF MarkInv, RecordMark
<1>15. ASSUME MarkInv, NEW e \in Forks PROVE BuildMark(e)'
  BY <1>2, <1>3, <1>15, <1>f1, <1>f3, <1>f5 DEF MarkInv, BuildMark
<1>16. ASSUME MarkInv, NEW m \in Names PROVE RemovalMark(m)'
  BY <1>1, <1>2, <1>3, <1>16, Shapes DEF MarkInv, RemovalMark, Deleting, RemovalHome
<1>17. Quiet
  BY <1>3 DEF Quiet, shared
<1>18. ForkInv'
  BY <1>4, <1>5, <1>6, <1>7, <1>8, <1>9, <1>10, <1>11 DEF ForkInv
<1>19. RowsInv => RowsInv'
  BY <1>12, <1>13 DEF RowsInv
<1>20. MarkInv => MarkInv'
  BY <1>14, <1>15, <1>16 DEF MarkInv
<1> QED
  BY <1>17, <1>18, <1>19, <1>20


(* A file is copied, from the source or from the store. *)
LEMMA CopyFileGood ==
    ASSUME ForkInv, NEW d \in Forks, NEW p \in Paths, CopyFile(d, p)
    PROVE  /\ ForkInv'
           /\ (RowsInv => RowsInv')
           /\ (MarkInv => MarkInv')
           /\ Quiet
<1>1. TypeOK /\ StoreInv /\ RemovalApart
  BY DEF ForkInv
<1>2. /\ \A e \in Forks : BuildSnaps(e) /\ BuildHome(e)
      /\ \A m \in Names : RecordSnaps(m) /\ RemovalHome(m)
      /\ \A v \in Workspaces : HomeAt(v)
  BY DEF ForkInv
<1>3. UNCHANGED << live, home, mark, snaps, held, rows, head, records, removing, authority,
                   tombstones, copy, lock, ops, acked, cleared, spent, loose, reused>>
  BY DEF CopyFile, trees, store, forkery, shared, history
<1>f1. build[d].step = "copy" /\ build[d] \in Builds
  BY <1>1, BuildKinds DEF CopyFile
<1>f2. build[d].base \in 1..Len(snaps) /\ live[Source] \in Trees /\ snaps \in Seq(Trees)
  BY <1>1, <1>2, <1>f1, BuildKinds DEF BuildSnaps, TypeOK
<1>f3. snaps[build[d].base] \in Trees
  BY <1>f2
<1>f4. CopyOf(build[d], p) \in Contents
  BY <1>f2, <1>f3 DEF CopyOf, Trees
<1>f5. PICK S \in SUBSET Paths : build[d].staged \in [S -> Contents]
  BY <1>f1 DEF Builds, Staged
<1>f6. PICK staged : /\ staged = [q \in DOMAIN build[d].staged \cup {p} |->
                               IF q # p THEN build[d].staged[q] ELSE CopyOf(build[d], p)]
                     /\ build' = [build EXCEPT ![d] = [build[d] EXCEPT !.staged = staged]]
  BY DEF CopyFile
<1>f7. staged \in [S \cup {p} -> Contents] /\ S \cup {p} \in SUBSET Paths
  BY <1>f4, <1>f5, <1>f6
<1>f8. staged \in Staged
  BY <1>f7 DEF Staged
<1>f9. build'[d] \in Builds /\ build'[d].step = "copy" /\ build'[d].base = build[d].base
  BY <1>1, <1>f1, <1>f6, <1>f8, BuildKinds DEF Builds
<1>f10. /\ build' \in [Forks -> {Idle} \cup Builds]
       /\ \A e \in Forks : e # d => build'[e] = build[e]
  BY <1>1, <1>f6, <1>f9, BuildKinds DEF TypeOK
<1>4. TypeOK'
  BY <1>1, <1>3, <1>f10 DEF TypeOK
<1>5. StoreInv'
  BY <1>1, <1>3 DEF StoreInv
<1>6. ASSUME NEW e \in Forks PROVE BuildSnaps(e)'
  BY <1>2, <1>3, <1>6, <1>f1, <1>f9, <1>f10 DEF BuildSnaps, Exact
<1>7. ASSUME NEW m \in Names PROVE RecordSnaps(m)'
  BY <1>2, <1>3, <1>7 DEF RecordSnaps, Exact
<1>8. ASSUME NEW v \in Workspaces PROVE HomeAt(v)'
  BY <1>2, <1>3, <1>8 DEF HomeAt
<1>9. ASSUME NEW e \in Forks PROVE BuildHome(e)'
  BY <1>2, <1>3, <1>9, <1>f1, <1>f9, <1>f10 DEF BuildHome
<1>10. ASSUME NEW m \in Names PROVE RemovalHome(m)'
  BY <1>1, <1>2, <1>3, <1>10, <1>f1, <1>f9, <1>f10, Shapes DEF RemovalHome, Deleting
<1>11. RemovalApart'
  BY <1>1, <1>3 DEF RemovalApart, Deleting
<1>12. ASSUME RowsInv, NEW m \in Names PROVE RecordRows(m)'
  BY <1>2, <1>3, <1>12 DEF RowsInv, RecordRows, Based
<1>13. ASSUME RowsInv, NEW e \in Forks PROVE BuildRows(e)'
  BY <1>2, <1>3, <1>13, <1>f1, <1>f9, <1>f10 DEF RowsInv, BuildRows, Based
<1>14. ASSUME MarkInv, NEW m \in Names PROVE RecordMark(m)'
  BY <1>1, <1>2, <1>3, <1>14, <1>f1, <1>f9, <1>f10, Shapes DEF MarkInv, RecordMark
<1>15. ASSUME MarkInv, NEW e \in Forks PROVE BuildMark(e)'
  BY <1>2, <1>3, <1>15, <1>f1, <1>f9, <1>f10 DEF MarkInv, BuildMark
<1>16. ASSUME MarkInv, NEW m \in Names PROVE RemovalMark(m)'
  BY <1>1, <1>2, <1>3, <1>16, Shapes DEF MarkInv, RemovalMark, Deleting, RemovalHome
<1>17. Quiet
  BY <1>3 DEF Quiet, shared
<1>18. ForkInv'
  BY <1>4, <1>5, <1>6, <1>7, <1>8, <1>9, <1>10, <1>11 DEF ForkInv
<1>19. RowsInv => RowsInv'
  BY <1>12, <1>13 DEF RowsInv
<1>20. MarkInv => MarkInv'
  BY <1>14, <1>15, <1>16 DEF MarkInv
<1> QED
  BY <1>17, <1>18, <1>19, <1>20


(* The hierarchy is cloned at once. *)
LEMMA CloneHierarchyGood ==
    ASSUME ForkInv, NEW d \in Forks, CloneHierarchy(d)
    PROVE  /\ ForkInv'
           /\ (RowsInv => RowsInv')
           /\ (MarkInv => MarkInv')
           /\ Quiet
<1>1. TypeOK /\ StoreInv /\ RemovalApart
  BY DEF ForkInv
<1>2. /\ \A e \in Forks : BuildSnaps(e) /\ BuildHome(e)
      /\ \A m \in Names : RecordSnaps(m) /\ RemovalHome(m)
      /\ \A v \in Workspaces : HomeAt(v)
  BY DEF ForkInv
<1>3. UNCHANGED << live, home, mark, snaps, held, rows, head, records, removing, authority,
                   tombstones, copy, lock, ops, acked, cleared, spent, loose, reused>>
  BY DEF CloneHierarchy, trees, store, forkery, shared, history
<1>f1. build[d].step = "copy" /\ build[d] \in Builds
  BY <1>1, BuildKinds DEF CloneHierarchy
<1>f2. live[Source] \in Staged
  BY <1>1, BuildKinds DEF Staged, Trees
<1>f3. build' = [build EXCEPT ![d] = [build[d] EXCEPT !.staged = live[Source], !.atomic = TRUE]]
  BY <1>1, BuildKinds DEF CloneHierarchy
<1>f4. build'[d] \in Builds /\ build'[d].step = "copy" /\ build'[d].base = build[d].base
  BY <1>1, <1>f1, <1>f2, <1>f3, BuildKinds DEF Builds
<1>f5. /\ build' \in [Forks -> {Idle} \cup Builds]
       /\ \A e \in Forks : e # d => build'[e] = build[e]
  BY <1>1, <1>f3, <1>f4, BuildKinds DEF TypeOK
<1>4. TypeOK'
  BY <1>1, <1>3, <1>f5 DEF TypeOK
<1>5. StoreInv'
  BY <1>1, <1>3 DEF StoreInv
<1>6. ASSUME NEW e \in Forks PROVE BuildSnaps(e)'
  BY <1>2, <1>3, <1>6, <1>f1, <1>f4, <1>f5 DEF BuildSnaps, Exact
<1>7. ASSUME NEW m \in Names PROVE RecordSnaps(m)'
  BY <1>2, <1>3, <1>7 DEF RecordSnaps, Exact
<1>8. ASSUME NEW v \in Workspaces PROVE HomeAt(v)'
  BY <1>2, <1>3, <1>8 DEF HomeAt
<1>9. ASSUME NEW e \in Forks PROVE BuildHome(e)'
  BY <1>2, <1>3, <1>9, <1>f1, <1>f4, <1>f5 DEF BuildHome
<1>10. ASSUME NEW m \in Names PROVE RemovalHome(m)'
  BY <1>1, <1>2, <1>3, <1>10, <1>f1, <1>f4, <1>f5, Shapes DEF RemovalHome, Deleting
<1>11. RemovalApart'
  BY <1>1, <1>3 DEF RemovalApart, Deleting
<1>12. ASSUME RowsInv, NEW m \in Names PROVE RecordRows(m)'
  BY <1>2, <1>3, <1>12 DEF RowsInv, RecordRows, Based
<1>13. ASSUME RowsInv, NEW e \in Forks PROVE BuildRows(e)'
  BY <1>2, <1>3, <1>13, <1>f1, <1>f4, <1>f5 DEF RowsInv, BuildRows, Based
<1>14. ASSUME MarkInv, NEW m \in Names PROVE RecordMark(m)'
  BY <1>1, <1>2, <1>3, <1>14, <1>f1, <1>f4, <1>f5, Shapes DEF MarkInv, RecordMark
<1>15. ASSUME MarkInv, NEW e \in Forks PROVE BuildMark(e)'
  BY <1>2, <1>3, <1>15, <1>f1, <1>f4, <1>f5 DEF MarkInv, BuildMark
<1>16. ASSUME MarkInv, NEW m \in Names PROVE RemovalMark(m)'
  BY <1>1, <1>2, <1>3, <1>16, Shapes DEF MarkInv, RemovalMark, Deleting, RemovalHome
<1>17. Quiet
  BY <1>3 DEF Quiet, shared
<1>18. ForkInv'
  BY <1>4, <1>5, <1>6, <1>7, <1>8, <1>9, <1>10, <1>11 DEF ForkInv
<1>19. RowsInv => RowsInv'
  BY <1>12, <1>13 DEF RowsInv
<1>20. MarkInv => MarkInv'
  BY <1>14, <1>15, <1>16 DEF MarkInv
<1> QED
  BY <1>17, <1>18, <1>19, <1>20


(* The staging directory becomes the destination. *)
LEMMA RenameGood ==
    ASSUME ForkInv, NEW d \in Forks, Rename(d)
    PROVE  /\ ForkInv'
           /\ (RowsInv => RowsInv')
           /\ (MarkInv => MarkInv')
           /\ Quiet
<1>1. TypeOK /\ StoreInv /\ RemovalApart
  BY DEF ForkInv
<1>2. /\ \A e \in Forks : BuildSnaps(e) /\ BuildHome(e)
      /\ \A m \in Names : RecordSnaps(m) /\ RemovalHome(m)
      /\ \A v \in Workspaces : HomeAt(v)
  BY DEF ForkInv
<1>3. UNCHANGED << home, mark, snaps, held, rows, head, records, removing, authority,
                   tombstones, copy, lock, ops, acked, cleared, spent, loose, reused>>
  BY DEF Rename, trees, store, forkery, shared, history
<1>f1. /\ build[d].step = "copy" /\ build[d] \in Builds /\ live[d] = None
       /\ DOMAIN build[d].staged = Paths
  BY <1>1, BuildKinds DEF Rename
<1>f2. build' = [build EXCEPT ![d] = [build[d] EXCEPT !.step = IF build[d].atomic THEN "verify" ELSE "capture"]]
  BY <1>1, <1>f1, BuildKinds DEF Rename
<1>f3. /\ build'[d].step = (IF build[d].atomic THEN "verify" ELSE "capture")
       /\ build'[d].base = build[d].base /\ build'[d].atomic = build[d].atomic
  BY <1>1, <1>f1, <1>f2, BuildKinds DEF Builds
<1>f4. build'[d] \in Builds
  BY <1>1, <1>f1, <1>f2, BuildKinds DEF Builds
<1>f5. /\ build' \in [Forks -> {Idle} \cup Builds]
       /\ \A e \in Forks : e # d => build'[e] = build[e]
  BY <1>1, <1>f2, <1>f4, BuildKinds DEF TypeOK
<1>f6. build[d].staged \in Trees
  BY <1>f1 DEF Builds, Staged, Trees
<1>f7. /\ live' = [live EXCEPT ![d] = build[d].staged]
       /\ live' \in [Workspaces -> Trees \cup {None}]
       /\ live'[Source] # None
  BY <1>1, <1>f6, BuildKinds, PlaceFacts DEF TypeOK, Rename
<1>f8. live'[d] # None /\ \A w \in Workspaces : w # d => live'[w] = live[w]
  BY <1>1, <1>f6, <1>f7, BuildKinds, PlaceFacts DEF TypeOK
<1>f9. live[d] = None /\ home[d] = None /\ Forks \subseteq Workspaces
  BY <1>2, <1>f1, PlaceFacts DEF HomeAt
<1>4. TypeOK'
  BY <1>1, <1>3, <1>f5, <1>f7 DEF TypeOK
<1>5. StoreInv'
  BY <1>1, <1>3 DEF StoreInv
<1>6. ASSUME NEW e \in Forks PROVE BuildSnaps(e)'
  BY <1>2, <1>3, <1>6, <1>f1, <1>f3, <1>f5 DEF BuildSnaps, Exact
<1>7. ASSUME NEW m \in Names PROVE RecordSnaps(m)'
  BY <1>2, <1>3, <1>7 DEF RecordSnaps, Exact
<1>8. ASSUME NEW v \in Workspaces PROVE HomeAt(v)'
  BY <1>2, <1>3, <1>8, <1>f1, <1>f8, <1>f9 DEF HomeAt
<1>9. ASSUME NEW e \in Forks PROVE BuildHome(e)'
  BY <1>2, <1>3, <1>9, <1>f1, <1>f3, <1>f5, <1>f8, <1>f9 DEF BuildHome
<1>10. ASSUME NEW m \in Names PROVE RemovalHome(m)'
  BY <1>1, <1>2, <1>3, <1>10, <1>f1, <1>f3, <1>f5, <1>f8, <1>f9, Shapes DEF RemovalHome, Deleting
<1>11. RemovalApart'
  BY <1>1, <1>3 DEF RemovalApart, Deleting
<1>12. ASSUME RowsInv, NEW m \in Names PROVE RecordRows(m)'
  BY <1>2, <1>3, <1>12 DEF RowsInv, RecordRows, Based
<1>13. ASSUME RowsInv, NEW e \in Forks PROVE BuildRows(e)'
  BY <1>2, <1>3, <1>13, <1>f1, <1>f3, <1>f5 DEF RowsInv, BuildRows, Based
<1>14. ASSUME MarkInv, NEW m \in Names PROVE RecordMark(m)'
  BY <1>1, <1>2, <1>3, <1>14, <1>f1, <1>f3, <1>f5, <1>f8, <1>f9, Shapes DEF MarkInv, RecordMark
<1>15. ASSUME MarkInv, NEW e \in Forks PROVE BuildMark(e)'
  BY <1>2, <1>3, <1>15, <1>f1, <1>f3, <1>f5 DEF MarkInv, BuildMark
<1>16. ASSUME MarkInv, NEW m \in Names PROVE RemovalMark(m)'
  BY <1>1, <1>2, <1>3, <1>16, Shapes DEF MarkInv, RemovalMark, Deleting, RemovalHome
<1>17. Quiet
  BY <1>3 DEF Quiet, shared
<1>18. ForkInv'
  BY <1>4, <1>5, <1>6, <1>7, <1>8, <1>9, <1>10, <1>11 DEF ForkInv
<1>19. RowsInv => RowsInv'
  BY <1>12, <1>13 DEF RowsInv
<1>20. MarkInv => MarkInv'
  BY <1>14, <1>15, <1>16 DEF MarkInv
<1> QED
  BY <1>17, <1>18, <1>19, <1>20


(* capture_fork seals the copy as a workspace of its own. *)
LEMMA CaptureForkGood ==
    ASSUME ForkInv, NEW d \in Forks, CaptureFork(d)
    PROVE  /\ ForkInv'
           /\ (RowsInv => RowsInv')
           /\ (MarkInv => MarkInv')
           /\ Quiet
<1>1. TypeOK /\ StoreInv /\ RemovalApart
  BY DEF ForkInv
<1>2. /\ \A e \in Forks : BuildSnaps(e) /\ BuildHome(e)
      /\ \A m \in Names : RecordSnaps(m) /\ RemovalHome(m)
      /\ \A v \in Workspaces : HomeAt(v)
  BY DEF ForkInv
<1>3. UNCHANGED << live, mark, records, removing, authority, tombstones, copy, lock, ops, acked,
                   cleared, spent, loose, reused>>
  BY DEF CaptureFork, Published, trees, store, forkery, shared, history
<1>f1. build[d].step = "capture" /\ build[d] \in Builds
  BY <1>1, BuildKinds DEF CaptureFork
<1>f2. live[d] # None /\ home[d] = None /\ ops[d].step = "idle" /\ d \in Workspaces
  BY <1>2, <1>f1, PlaceFacts DEF BuildHome, HomeAt
<1>f3. live[d] \in Trees /\ Len(snaps) \in Nat
  BY <1>1, <1>f2 DEF TypeOK
<1>f4. /\ snaps' \in Seq(Trees) /\ Len(snaps) \in Nat /\ Len(snaps') = Len(snaps) + 1
       /\ \A i \in 1..Len(snaps) : snaps'[i] = snaps[i]
       /\ held' = held \cup {Len(snaps) + 1} /\ rows' = rows \cup {<<d, Len(snaps) + 1>>}
       /\ held' \in SUBSET Nat /\ rows' \in SUBSET (Int \X Nat)
       /\ head' \in [Workspaces -> Nat \cup {None}]
  BY <1>1, <1>f2, <1>f3, PublishedFacts DEF CaptureFork
<1>f5. build' = [build EXCEPT ![d] = [build[d] EXCEPT !.step = "verify", !.head = Len(snaps) + 1]]
  BY <1>1, BuildKinds DEF CaptureFork
<1>f6. /\ build'[d] \in Builds /\ build'[d].step = "verify" /\ build'[d].head = Len(snaps) + 1
       /\ build'[d].base = build[d].base /\ build'[d].atomic = build[d].atomic
  <2>1. build'[d] = [build[d] EXCEPT !.step = "verify", !.head = Len(snaps) + 1]
    BY <1>1, <1>f5, BuildKinds
  <2>2. Len(snaps) + 1 \in Nat \cup {None}
    BY <1>f3
  <2> QED
    BY <1>f1, <2>1, <2>2 DEF Builds
<1>f7. /\ build' \in [Forks -> {Idle} \cup Builds]
       /\ \A e \in Forks : e # d => build'[e] = build[e]
  BY <1>1, <1>f5, <1>f6, BuildKinds DEF TypeOK
<1>f8. /\ home' = [home EXCEPT ![d] = "own"] /\ home' \in [Workspaces -> {None, "own", "family"}]
       /\ home'[d] = "own" /\ Forks \subseteq Workspaces
       /\ \A v \in Workspaces : v # d => home'[v] = home[v]
  BY <1>1, BuildKinds, PlaceFacts DEF TypeOK, CaptureFork
<1>4. TypeOK'
  BY <1>1, <1>3, <1>f4, <1>f7, <1>f8 DEF TypeOK
<1>5. StoreInv'
  BY <1>1, <1>3, <1>f4, <1>f6 DEF StoreInv
<1>6. ASSUME NEW e \in Forks PROVE BuildSnaps(e)'
  BY <1>2, <1>3, <1>6, <1>f1, <1>f4, <1>f6, <1>f7 DEF BuildSnaps, Exact
<1>7. ASSUME NEW m \in Names PROVE RecordSnaps(m)'
  BY <1>2, <1>3, <1>7, <1>f4, <1>f6 DEF RecordSnaps, Exact
<1>8. ASSUME NEW v \in Workspaces PROVE HomeAt(v)'
  BY <1>2, <1>3, <1>8, <1>f2, <1>f8 DEF HomeAt
<1>9. ASSUME NEW e \in Forks PROVE BuildHome(e)'
  BY <1>2, <1>3, <1>9, <1>f1, <1>f2, <1>f6, <1>f7, <1>f8 DEF BuildHome
<1>10. ASSUME NEW m \in Names PROVE RemovalHome(m)'
  BY <1>1, <1>2, <1>3, <1>10, <1>f1, <1>f2, <1>f6, <1>f7, <1>f8, Shapes DEF RemovalHome, Deleting
<1>11. RemovalApart'
  BY <1>1, <1>3 DEF RemovalApart, Deleting
<1>12. ASSUME RowsInv, NEW m \in Names PROVE RecordRows(m)'
  BY <1>2, <1>3, <1>12, <1>f4 DEF RowsInv, RecordRows, Based
<1>13. ASSUME RowsInv, NEW e \in Forks PROVE BuildRows(e)'
  BY <1>2, <1>3, <1>13, <1>f1, <1>f4, <1>f6, <1>f7 DEF RowsInv, BuildRows, Based
<1>14. ASSUME MarkInv, NEW m \in Names PROVE RecordMark(m)'
  BY <1>1, <1>2, <1>3, <1>14, <1>f1, <1>f2, <1>f6, <1>f7, Shapes DEF MarkInv, RecordMark
<1>15. ASSUME MarkInv, NEW e \in Forks PROVE BuildMark(e)'
  BY <1>2, <1>3, <1>15, <1>f1, <1>f6, <1>f7 DEF MarkInv, BuildMark
<1>16. ASSUME MarkInv, NEW m \in Names PROVE RemovalMark(m)'
  BY <1>1, <1>2, <1>3, <1>16, Shapes DEF MarkInv, RemovalMark, Deleting, RemovalHome
<1>17. Quiet
  BY <1>3 DEF Quiet, shared
<1>18. ForkInv'
  BY <1>4, <1>5, <1>6, <1>7, <1>8, <1>9, <1>10, <1>11 DEF ForkInv
<1>19. RowsInv => RowsInv'
  BY <1>12, <1>13 DEF RowsInv
<1>20. MarkInv => MarkInv'
  BY <1>14, <1>15, <1>16 DEF MarkInv
<1> QED
  BY <1>17, <1>18, <1>19, <1>20


(* What is taken for verified is the base, file by file. *)
LEMMA VerifyGood ==
    ASSUME ForkInv, NEW d \in Forks, Verify(d)
    PROVE  /\ ForkInv'
           /\ (RowsInv => RowsInv')
           /\ (MarkInv => MarkInv')
           /\ Quiet
<1>1. TypeOK /\ StoreInv /\ RemovalApart
  BY DEF ForkInv
<1>2. /\ \A e \in Forks : BuildSnaps(e) /\ BuildHome(e)
      /\ \A m \in Names : RecordSnaps(m) /\ RemovalHome(m)
      /\ \A v \in Workspaces : HomeAt(v)
  BY DEF ForkInv
<1>3. UNCHANGED << live, home, mark, snaps, held, rows, head, records, removing, authority,
                   tombstones, copy, lock, ops, acked, cleared, spent, loose, reused>>
  BY DEF Verify, trees, store, forkery, shared, history
<1>f1. build[d].step = "verify" /\ build[d] \in Builds
  BY <1>1, BuildKinds DEF Verify
<1>f2. PICK b : /\ build' = [build EXCEPT ![d] = b] /\ b \in {Idle} \cup Builds
                /\ \/ b.step = "idle"
                   \/ b.step = "adopt" /\ b.base = build[d].base /\ Exact(b)
  <2>1. CASE IF build[d].atomic THEN AtomicMatch(d, build[d]) ELSE SnapshotsMatch(build[d])
    <3> DEFINE b == [build[d] EXCEPT !.step = "adopt",
                         !.head = IF build[d].atomic THEN build[d].base ELSE build[d].head]
    <3>1. build' = [build EXCEPT ![d] = b]
      BY <1>1, <1>f1, <2>1, BuildKinds DEF Verify
    <3>2. b \in Builds /\ b.step = "adopt" /\ b.base = build[d].base
      BY <1>f1 DEF Builds
    <3>3. b.head = IF build[d].atomic THEN build[d].base ELSE build[d].head
      BY <1>f1 DEF Builds
    <3>4. /\ build[d].base \in 1..Len(snaps)
          /\ ~build[d].atomic => /\ build[d].head \in 1..Len(snaps)
                                 /\ snaps[build[d].head] = snaps[build[d].base]
      BY <1>2, <1>f1, <2>1 DEF BuildSnaps, SnapshotsMatch
    <3>5. Exact(b)
      <4>1. b.base = build[d].base
        BY <3>2
      <4> HIDE DEF b
      <4> QED
        BY <3>3, <3>4, <4>1 DEF Exact
    <3> QED
      BY <3>1, <3>2, <3>5
  <2>2. CASE ~IF build[d].atomic THEN AtomicMatch(d, build[d]) ELSE SnapshotsMatch(build[d])
    <3>1. build' = [build EXCEPT ![d] = Idle]
      BY <2>2 DEF Verify
    <3>2. Idle \in {Idle} \cup Builds /\ Idle.step = "idle"
      BY DEF Idle
    <3> QED
      BY <3>1, <3>2
  <2> QED
    BY <2>1, <2>2
<1>f3. /\ build' \in [Forks -> {Idle} \cup Builds] /\ build'[d] = b
       /\ \A e \in Forks : e # d => build'[e] = build[e]
  BY <1>1, <1>f2, BuildKinds DEF TypeOK
<1>f4. live[d] # None /\ build[d].step # "idle"
  BY <1>2, <1>f1 DEF BuildHome
<1>4. TypeOK'
  BY <1>1, <1>3, <1>f3 DEF TypeOK
<1>5. StoreInv'
  BY <1>1, <1>3 DEF StoreInv
<1>6. ASSUME NEW e \in Forks PROVE BuildSnaps(e)'
  BY <1>2, <1>3, <1>6, <1>f1, <1>f2, <1>f3, <1>f4 DEF BuildSnaps, Exact
<1>7. ASSUME NEW m \in Names PROVE RecordSnaps(m)'
  BY <1>2, <1>3, <1>7 DEF RecordSnaps, Exact
<1>8. ASSUME NEW v \in Workspaces PROVE HomeAt(v)'
  BY <1>2, <1>3, <1>8, <1>f4 DEF HomeAt
<1>9. ASSUME NEW e \in Forks PROVE BuildHome(e)'
  BY <1>2, <1>3, <1>9, <1>f1, <1>f2, <1>f3, <1>f4 DEF BuildHome
<1>10. ASSUME NEW m \in Names PROVE RemovalHome(m)'
  BY <1>1, <1>2, <1>3, <1>10, <1>f1, <1>f2, <1>f3, <1>f4, Shapes DEF RemovalHome, Deleting
<1>11. RemovalApart'
  BY <1>1, <1>3 DEF RemovalApart, Deleting
<1>12. ASSUME RowsInv, NEW m \in Names PROVE RecordRows(m)'
  BY <1>2, <1>3, <1>12 DEF RowsInv, RecordRows, Based
<1>13. ASSUME RowsInv, NEW e \in Forks PROVE BuildRows(e)'
  BY <1>2, <1>3, <1>13, <1>f1, <1>f2, <1>f3, <1>f4 DEF RowsInv, BuildRows, Based
<1>14. ASSUME MarkInv, NEW m \in Names PROVE RecordMark(m)'
  BY <1>1, <1>2, <1>3, <1>14, <1>f1, <1>f2, <1>f3, <1>f4, Shapes DEF MarkInv, RecordMark
<1>15. ASSUME MarkInv, NEW e \in Forks PROVE BuildMark(e)'
  BY <1>2, <1>3, <1>15, <1>f1, <1>f2, <1>f3, <1>f4 DEF MarkInv, BuildMark
<1>16. ASSUME MarkInv, NEW m \in Names PROVE RemovalMark(m)'
  BY <1>1, <1>2, <1>3, <1>16, Shapes DEF MarkInv, RemovalMark, Deleting, RemovalHome
<1>17. Quiet
  BY <1>3 DEF Quiet, shared
<1>18. ForkInv'
  BY <1>4, <1>5, <1>6, <1>7, <1>8, <1>9, <1>10, <1>11 DEF ForkInv
<1>19. RowsInv => RowsInv'
  BY <1>12, <1>13 DEF RowsInv
<1>20. MarkInv => MarkInv'
  BY <1>14, <1>15, <1>16 DEF MarkInv
<1> QED
  BY <1>17, <1>18, <1>19, <1>20


(* A cloned hierarchy starts at the base itself. *)
LEMMA AttachCloneGood ==
    ASSUME ForkInv, NEW d \in Forks, AttachClone(d)
    PROVE  /\ ForkInv'
           /\ (RowsInv => RowsInv')
           /\ (MarkInv => MarkInv')
           /\ Quiet
<1>1. TypeOK /\ StoreInv /\ RemovalApart
  BY DEF ForkInv
<1>2. /\ \A e \in Forks : BuildSnaps(e) /\ BuildHome(e)
      /\ \A m \in Names : RecordSnaps(m) /\ RemovalHome(m)
      /\ \A v \in Workspaces : HomeAt(v)
  BY DEF ForkInv
<1>3. UNCHANGED << live, mark, snaps, held, records, build, removing, authority, tombstones,
                   copy, lock, ops, acked, cleared, spent, loose, reused>>
  BY DEF AttachClone, trees, store, forkery, shared, history
<1>f1. build[d].step = "adopt" /\ build[d] \in Builds
  BY <1>1, BuildKinds DEF AttachClone
<1>f2. live[d] # None /\ home[d] = None /\ ops[d].step = "idle" /\ d \in Workspaces
  BY <1>2, <1>f1, PlaceFacts DEF BuildHome, HomeAt, AttachClone
<1>f3. build[d].base \in 1..Len(snaps) /\ build[d].base \in Nat
  BY <1>2, <1>f1 DEF BuildSnaps, Exact, Builds
<1>f4. rows' = rows \cup {<<d, build[d].base>>}
  BY DEF AttachClone
<1>f5. rows' \in SUBSET (Int \X Nat)
  BY <1>1, <1>f2, <1>f3, <1>f4, PlaceFacts DEF TypeOK
<1>f6. head' \in [Workspaces -> Nat \cup {None}]
  BY <1>1, <1>f2, <1>f3 DEF TypeOK, AttachClone
<1>f7. /\ home' = [home EXCEPT ![d] = "own"] /\ home' \in [Workspaces -> {None, "own", "family"}]
       /\ home'[d] = "own" /\ Forks \subseteq Workspaces
       /\ \A v \in Workspaces : v # d => home'[v] = home[v]
  BY <1>1, BuildKinds, PlaceFacts DEF TypeOK, AttachClone
<1>4. TypeOK'
  BY <1>1, <1>3, <1>f5, <1>f6, <1>f7 DEF TypeOK
<1>5. StoreInv'
  BY <1>1, <1>3, <1>f3, <1>f4, <1>f5 DEF StoreInv
<1>6. ASSUME NEW e \in Forks PROVE BuildSnaps(e)'
  BY <1>2, <1>3, <1>6, <1>f1, <1>f3, <1>f4 DEF BuildSnaps, Exact
<1>7. ASSUME NEW m \in Names PROVE RecordSnaps(m)'
  BY <1>2, <1>3, <1>7, <1>f3 DEF RecordSnaps, Exact
<1>8. ASSUME NEW v \in Workspaces PROVE HomeAt(v)'
  BY <1>2, <1>3, <1>8, <1>f2, <1>f7 DEF HomeAt
<1>9. ASSUME NEW e \in Forks PROVE BuildHome(e)'
  BY <1>2, <1>3, <1>9, <1>f1, <1>f2, <1>f3, <1>f4, <1>f7 DEF BuildHome
<1>10. ASSUME NEW m \in Names PROVE RemovalHome(m)'
  BY <1>1, <1>2, <1>3, <1>10, <1>f1, <1>f2, <1>f3, <1>f4, <1>f7, Shapes DEF RemovalHome, Deleting
<1>11. RemovalApart'
  BY <1>1, <1>3 DEF RemovalApart, Deleting
<1>12. ASSUME RowsInv, NEW m \in Names PROVE RecordRows(m)'
  BY <1>2, <1>3, <1>12, <1>f4, <1>f5 DEF RowsInv, RecordRows, Based
<1>13. ASSUME RowsInv, NEW e \in Forks PROVE BuildRows(e)'
  BY <1>2, <1>3, <1>13, <1>f1, <1>f3, <1>f4, <1>f5 DEF RowsInv, BuildRows, Based
<1>14. ASSUME MarkInv, NEW m \in Names PROVE RecordMark(m)'
  BY <1>1, <1>2, <1>3, <1>14, <1>f1, <1>f2, <1>f3, <1>f4, Shapes DEF MarkInv, RecordMark
<1>15. ASSUME MarkInv, NEW e \in Forks PROVE BuildMark(e)'
  BY <1>2, <1>3, <1>15, <1>f1, <1>f3, <1>f4 DEF MarkInv, BuildMark
<1>16. ASSUME MarkInv, NEW m \in Names PROVE RemovalMark(m)'
  BY <1>1, <1>2, <1>3, <1>16, Shapes DEF MarkInv, RemovalMark, Deleting, RemovalHome
<1>17. Quiet
  BY <1>3 DEF Quiet, shared
<1>18. ForkInv'
  BY <1>4, <1>5, <1>6, <1>7, <1>8, <1>9, <1>10, <1>11 DEF ForkInv
<1>19. RowsInv => RowsInv'
  BY <1>12, <1>13 DEF RowsInv
<1>20. MarkInv => MarkInv'
  BY <1>14, <1>15, <1>16 DEF MarkInv
<1> QED
  BY <1>17, <1>18, <1>19, <1>20


(* The fork joins the family and is marked. *)
LEMMA AdoptFamilyGood ==
    ASSUME ForkInv, NEW d \in Forks, AdoptFamily(d)
    PROVE  /\ ForkInv'
           /\ (RowsInv => RowsInv')
           /\ (MarkInv => MarkInv')
           /\ Quiet
<1>1. TypeOK /\ StoreInv /\ RemovalApart
  BY DEF ForkInv
<1>2. /\ \A e \in Forks : BuildSnaps(e) /\ BuildHome(e)
      /\ \A m \in Names : RecordSnaps(m) /\ RemovalHome(m)
      /\ \A v \in Workspaces : HomeAt(v)
  BY DEF ForkInv
<1>3. UNCHANGED << live, snaps, held, rows, head, records, removing, authority, tombstones,
                   copy, lock, ops, acked, cleared, spent, loose, reused>>
  BY DEF AdoptFamily, trees, store, forkery, shared, history
<1>f1. build[d].step = "adopt" /\ build[d] \in Builds
  BY <1>1, BuildKinds DEF AdoptFamily
<1>f2. build' = [build EXCEPT ![d] = [build[d] EXCEPT !.step = "record"]]
  BY <1>1, <1>f1, BuildKinds DEF AdoptFamily
<1>f3. /\ build'[d].step = "record" /\ build'[d].base = build[d].base
       /\ build'[d].head = build[d].head /\ build'[d].id = build[d].id
  BY <1>1, <1>f1, <1>f2, BuildKinds DEF Builds
<1>f4. build'[d] \in Builds
  BY <1>1, <1>f1, <1>f2, BuildKinds DEF Builds
<1>f5. /\ build' \in [Forks -> {Idle} \cup Builds]
       /\ \A e \in Forks : e # d => build'[e] = build[e]
  BY <1>1, <1>f2, <1>f4, BuildKinds DEF TypeOK
<1>f6. live[d] # None /\ d \in Workspaces
  BY <1>2, <1>f1, PlaceFacts DEF BuildHome
<1>f7. /\ home' = [home EXCEPT ![d] = "family"] /\ home' \in [Workspaces -> {None, "own", "family"}]
       /\ home'[d] = "family" /\ Forks \subseteq Workspaces
       /\ \A v \in Workspaces : v # d => home'[v] = home[v]
  BY <1>1, BuildKinds, PlaceFacts DEF TypeOK, AdoptFamily
<1>f8. /\ mark' = [mark EXCEPT ![d] = build[d].id] /\ mark' \in [Workspaces -> Nat \cup {None}]
       /\ mark'[d] = build[d].id /\ \A v \in Workspaces : v # d => mark'[v] = mark[v]
  BY <1>1, <1>f1, BuildKinds DEF TypeOK, AdoptFamily, Builds
<1>4. TypeOK'
  BY <1>1, <1>3, <1>f5, <1>f7, <1>f8 DEF TypeOK
<1>5. StoreInv'
  BY <1>1, <1>3 DEF StoreInv
<1>6. ASSUME NEW e \in Forks PROVE BuildSnaps(e)'
  BY <1>2, <1>3, <1>6, <1>f1, <1>f3, <1>f5, <1>f8 DEF BuildSnaps, Exact
<1>7. ASSUME NEW m \in Names PROVE RecordSnaps(m)'
  BY <1>2, <1>3, <1>7 DEF RecordSnaps, Exact
<1>8. ASSUME NEW v \in Workspaces PROVE HomeAt(v)'
  BY <1>2, <1>3, <1>8, <1>f6, <1>f7 DEF HomeAt
<1>9. ASSUME NEW e \in Forks PROVE BuildHome(e)'
  BY <1>2, <1>3, <1>9, <1>f1, <1>f3, <1>f5, <1>f6, <1>f7, <1>f8 DEF BuildHome
<1>10. ASSUME NEW m \in Names PROVE RemovalHome(m)'
  BY <1>1, <1>2, <1>3, <1>10, <1>f1, <1>f3, <1>f5, <1>f6, <1>f7, <1>f8, Shapes
     DEF RemovalHome, Deleting
<1>11. RemovalApart'
  BY <1>1, <1>3 DEF RemovalApart, Deleting
<1>12. ASSUME RowsInv, NEW m \in Names PROVE RecordRows(m)'
  BY <1>2, <1>3, <1>12 DEF RowsInv, RecordRows, Based
<1>13. ASSUME RowsInv, NEW e \in Forks PROVE BuildRows(e)'
  BY <1>2, <1>3, <1>13, <1>f1, <1>f3, <1>f5, <1>f8 DEF RowsInv, BuildRows, Based
<1>14. ASSUME MarkInv, NEW m \in Names PROVE RecordMark(m)'
  BY <1>1, <1>2, <1>3, <1>14, <1>f1, <1>f3, <1>f5, <1>f6, <1>f8, Shapes DEF MarkInv, RecordMark
<1>15. ASSUME MarkInv, NEW e \in Forks PROVE BuildMark(e)'
  BY <1>2, <1>3, <1>15, <1>f1, <1>f3, <1>f5, <1>f8 DEF MarkInv, BuildMark
<1>16. ASSUME MarkInv, NEW m \in Names PROVE RemovalMark(m)'
  BY <1>1, <1>2, <1>3, <1>16, <1>f1, <1>f8, Shapes DEF MarkInv, RemovalMark, Deleting, RemovalHome
<1>17. Quiet
  BY <1>3 DEF Quiet, shared
<1>18. ForkInv'
  BY <1>4, <1>5, <1>6, <1>7, <1>8, <1>9, <1>10, <1>11 DEF ForkInv
<1>19. RowsInv => RowsInv'
  BY <1>12, <1>13 DEF RowsInv
<1>20. MarkInv => MarkInv'
  BY <1>14, <1>15, <1>16 DEF MarkInv
<1> QED
  BY <1>17, <1>18, <1>19, <1>20


(* The record is written. *)
LEMMA RecordGood ==
    ASSUME ForkInv, NEW d \in Forks, Record(d)
    PROVE  /\ ForkInv'
           /\ (RowsInv => RowsInv')
           /\ (MarkInv => MarkInv')
           /\ Quiet
<1>1. TypeOK /\ StoreInv /\ RemovalApart
  BY DEF ForkInv
<1>2. /\ \A e \in Forks : BuildSnaps(e) /\ BuildHome(e)
      /\ \A m \in Names : RecordSnaps(m) /\ RemovalHome(m)
      /\ \A v \in Workspaces : HomeAt(v)
  BY DEF ForkInv
<1>3. UNCHANGED << live, home, mark, snaps, held, rows, head, removing, authority, tombstones,
                   copy, lock, ops, acked, cleared, spent, loose, reused>>
  BY DEF Record, trees, store, forkery, shared, history
<1>f1. build[d].step = "record" /\ build[d] \in Builds
  BY <1>1, BuildKinds DEF Record
<1>f2. build' = [build EXCEPT ![d] = Idle]
  BY DEF Record
<1>f3. /\ build'[d].step = "idle" /\ build' \in [Forks -> {Idle} \cup Builds]
       /\ \A e \in Forks : e # d => build'[e] = build[e]
  BY <1>1, <1>f2, BuildKinds DEF TypeOK, Idle
<1>f4. PICK r : /\ r = [dest |-> d, base |-> build[d].base, head |-> build[d].head, id |-> build[d].id]
                /\ records' = [records EXCEPT ![build[d].name] = r]
  BY DEF Record
<1>f5. /\ r \in Records /\ r # None /\ build[d].name \in Names
       /\ r.dest = d /\ r.base = build[d].base /\ r.head = build[d].head /\ r.id = build[d].id
  BY <1>f1, <1>f4, PlaceFacts DEF Builds, Records
<1>f6. /\ records' \in [Names -> Records \cup {None}]
       /\ \A m \in Names : \/ m # build[d].name /\ records'[m] = records[m]
                           \/ m = build[d].name /\ records'[m] = r
  <2>1. records \in [Names -> Records \cup {None}]
    BY <1>1 DEF TypeOK
  <2>2. r \in Records \cup {None} /\ build[d].name \in Names
    BY <1>f5
  <2>3. records' = [records EXCEPT ![build[d].name] = r]
    BY <1>f4
  <2>4. records' \in [Names -> Records \cup {None}]
    BY <2>1, <2>2, <2>3
  <2>5. \A m \in Names : \/ m # build[d].name /\ records'[m] = records[m]
                         \/ m = build[d].name /\ records'[m] = r
    BY <2>1, <2>2, <2>3
  <2> QED
    BY <2>4, <2>5
<1>f7. /\ r.dest = d /\ r.base = build[d].base /\ r.head = build[d].head /\ r.id = build[d].id
       /\ \A m \in Names : records[m] # None => records[m].dest \in Forks
  BY <1>1, <1>f5, Shapes
<1>f8. Exact(build[d])
  BY <1>2, <1>f1 DEF BuildSnaps
<1>4. TypeOK'
  BY <1>1, <1>3, <1>f3, <1>f6 DEF TypeOK
<1>5. StoreInv'
  BY <1>1, <1>3 DEF StoreInv
<1>6. ASSUME NEW e \in Forks PROVE BuildSnaps(e)'
  BY <1>2, <1>3, <1>6, <1>f1, <1>f3, <1>f6, <1>f7 DEF BuildSnaps, Exact
<1>7. ASSUME NEW m \in Names PROVE RecordSnaps(m)'
  BY <1>2, <1>3, <1>7, <1>f8, <1>f6, <1>f7 DEF RecordSnaps, Exact
<1>8. ASSUME NEW v \in Workspaces PROVE HomeAt(v)'
  BY <1>2, <1>3, <1>8 DEF HomeAt
<1>9. ASSUME NEW e \in Forks PROVE BuildHome(e)'
  BY <1>2, <1>3, <1>9, <1>f1, <1>f3, <1>f6, <1>f7 DEF BuildHome
<1>10. ASSUME NEW m \in Names PROVE RemovalHome(m)'
  BY <1>1, <1>2, <1>3, <1>10, <1>f1, <1>f3, <1>f6, <1>f7, Shapes DEF RemovalHome, Deleting
<1>11. RemovalApart'
  BY <1>1, <1>3 DEF RemovalApart, Deleting
<1>12. ASSUME RowsInv, NEW m \in Names PROVE RecordRows(m)'
  BY <1>2, <1>3, <1>12, <1>f1, <1>f6, <1>f7 DEF RowsInv, RecordRows, Based, BuildRows
<1>13. ASSUME RowsInv, NEW e \in Forks PROVE BuildRows(e)'
  BY <1>2, <1>3, <1>13, <1>f1, <1>f3, <1>f6, <1>f7 DEF RowsInv, BuildRows, Based
<1>14. ASSUME MarkInv, NEW m \in Names PROVE RecordMark(m)'
  BY <1>1, <1>2, <1>3, <1>14, <1>f1, <1>f3, <1>f6, <1>f7, Shapes
     DEF MarkInv, RecordMark, BuildMark
<1>15. ASSUME MarkInv, NEW e \in Forks PROVE BuildMark(e)'
  BY <1>2, <1>3, <1>15, <1>f1, <1>f3, <1>f6, <1>f7 DEF MarkInv, BuildMark
<1>16. ASSUME MarkInv, NEW m \in Names PROVE RemovalMark(m)'
  BY <1>1, <1>2, <1>3, <1>16, Shapes DEF MarkInv, RemovalMark, Deleting, RemovalHome
<1>17. Quiet
  BY <1>3 DEF Quiet, shared
<1>18. ForkInv'
  BY <1>4, <1>5, <1>6, <1>7, <1>8, <1>9, <1>10, <1>11 DEF ForkInv
<1>19. RowsInv => RowsInv'
  BY <1>12, <1>13 DEF RowsInv
<1>20. MarkInv => MarkInv'
  BY <1>14, <1>15, <1>16 DEF MarkInv
<1> QED
  BY <1>17, <1>18, <1>19, <1>20


(* What was built is left where it is. *)
LEMMA AbandonForkGood ==
    ASSUME ForkInv, NEW d \in Forks, AbandonFork(d)
    PROVE  /\ ForkInv'
           /\ (RowsInv => RowsInv')
           /\ (MarkInv => MarkInv')
           /\ Quiet
<1>1. TypeOK /\ StoreInv /\ RemovalApart
  BY DEF ForkInv
<1>2. /\ \A e \in Forks : BuildSnaps(e) /\ BuildHome(e)
      /\ \A m \in Names : RecordSnaps(m) /\ RemovalHome(m)
      /\ \A v \in Workspaces : HomeAt(v)
  BY DEF ForkInv
<1>3. UNCHANGED << live, home, mark, snaps, held, rows, head, records, removing, authority,
                   tombstones, copy, lock, ops, acked, cleared, loose, reused>>
  BY DEF AbandonFork, trees, store, forkery, shared, history
<1>f1. build[d].step # "idle"
  BY <1>1, BuildKinds DEF AbandonFork
<1>f2. build' = [build EXCEPT ![d] = Idle]
  BY DEF AbandonFork
<1>f3. /\ build'[d].step = "idle" /\ build' \in [Forks -> {Idle} \cup Builds]
       /\ \A e \in Forks : e # d => build'[e] = build[e]
  BY <1>1, <1>f2, BuildKinds DEF TypeOK, Idle
<1>f4. /\ spent' \in [forks : Nat, edits : Nat, ops : Nat, removals : Nat, faults : Nat]
       /\ spent'.ops = spent.ops
  BY <1>1, SpendFacts DEF AbandonFork
<1>4. TypeOK'
  BY <1>1, <1>3, <1>f3, <1>f4 DEF TypeOK
<1>5. StoreInv'
  BY <1>1, <1>3 DEF StoreInv
<1>6. ASSUME NEW e \in Forks PROVE BuildSnaps(e)'
  BY <1>2, <1>3, <1>6, <1>f1, <1>f3 DEF BuildSnaps, Exact
<1>7. ASSUME NEW m \in Names PROVE RecordSnaps(m)'
  BY <1>2, <1>3, <1>7 DEF RecordSnaps, Exact
<1>8. ASSUME NEW v \in Workspaces PROVE HomeAt(v)'
  BY <1>2, <1>3, <1>8, <1>f4 DEF HomeAt
<1>9. ASSUME NEW e \in Forks PROVE BuildHome(e)'
  BY <1>2, <1>3, <1>9, <1>f1, <1>f3 DEF BuildHome
<1>10. ASSUME NEW m \in Names PROVE RemovalHome(m)'
  BY <1>1, <1>2, <1>3, <1>10, <1>f1, <1>f3, Shapes DEF RemovalHome, Deleting
<1>11. RemovalApart'
  BY <1>1, <1>3 DEF RemovalApart, Deleting
<1>12. ASSUME RowsInv, NEW m \in Names PROVE RecordRows(m)'
  BY <1>2, <1>3, <1>12 DEF RowsInv, RecordRows, Based
<1>13. ASSUME RowsInv, NEW e \in Forks PROVE BuildRows(e)'
  BY <1>2, <1>3, <1>13, <1>f1, <1>f3 DEF RowsInv, BuildRows, Based
<1>14. ASSUME MarkInv, NEW m \in Names PROVE RecordMark(m)'
  BY <1>1, <1>2, <1>3, <1>14, <1>f1, <1>f3, Shapes DEF MarkInv, RecordMark
<1>15. ASSUME MarkInv, NEW e \in Forks PROVE BuildMark(e)'
  BY <1>2, <1>3, <1>15, <1>f1, <1>f3 DEF MarkInv, BuildMark
<1>16. ASSUME MarkInv, NEW m \in Names PROVE RemovalMark(m)'
  BY <1>1, <1>2, <1>3, <1>16, Shapes DEF MarkInv, RemovalMark, Deleting, RemovalHome
<1>17. Quiet
  BY <1>3, <1>f4 DEF Quiet, shared
<1>18. ForkInv'
  BY <1>4, <1>5, <1>6, <1>7, <1>8, <1>9, <1>10, <1>11 DEF ForkInv
<1>19. RowsInv => RowsInv'
  BY <1>12, <1>13 DEF RowsInv
<1>20. MarkInv => MarkInv'
  BY <1>14, <1>15, <1>16 DEF MarkInv
<1> QED
  BY <1>17, <1>18, <1>19, <1>20


(***************************************************************************)
(* Removals and deletions.                                                 *)
(***************************************************************************)

(* The fork is detached before its directory goes. *)
LEMMA ForgetGood ==
    ASSUME ForkInv, NEW n \in Names, Forget(n)
    PROVE  /\ ForkInv'
           /\ (RowsInv => RowsInv')
           /\ (MarkInv => MarkInv')
           /\ Calm
<1>1. TypeOK /\ StoreInv /\ RemovalApart
  BY DEF ForkInv
<1>2. /\ \A e \in Forks : BuildSnaps(e) /\ BuildHome(e)
      /\ \A m \in Names : RecordSnaps(m) /\ RemovalHome(m)
      /\ \A v \in Workspaces : HomeAt(v)
  BY DEF ForkInv
<1>3. UNCHANGED << live, mark, snaps, held, records, build, authority, tombstones, copy, acked,
                   cleared, loose, reused>>
  BY DEF Forget, Gone, trees, store, forkery, shared, history
<1>f1. PICK d \in Forks : /\ d = records[n].dest /\ records[n] # None
                          /\ live[d] # None /\ home[d] # None /\ build[d].step = "idle"
  BY <1>1, Shapes DEF Forget
<1>f2. /\ home' = [home EXCEPT ![d] = None] /\ ops' = [ops EXCEPT ![d] = Idle]
       /\ lock' = (IF lock = d THEN None ELSE lock)
       /\ rows' = {row \in rows : row[1] # d} /\ head' = [head EXCEPT ![d] = None]
       /\ removing' = [removing EXCEPT ![n] = [step |-> "directory", dest |-> d, id |-> records[n].id]]
  BY <1>f1 DEF Forget, Gone
<1>f3. /\ home' \in [Workspaces -> {None, "own", "family"}] /\ home'[d] = None
       /\ \A v \in Workspaces : v # d => home'[v] = home[v]
  BY <1>1, <1>f2, PlaceFacts DEF TypeOK
<1>f4. /\ ops' \in [Workspaces -> {Idle, Refused} \cup Updates \cup Opens \cup Answers]
       /\ ops'[d].step = "idle" /\ \A v \in Workspaces : v # d => ops'[v] = ops[v]
  BY <1>1, <1>f2, PlaceFacts DEF TypeOK, Idle
<1>f5. /\ rows' \in SUBSET (Int \X Nat) /\ rows' \subseteq rows
       /\ \A base : <<Source, base>> \in rows => <<Source, base>> \in rows'
  BY <1>1, <1>f2, PlaceFacts DEF TypeOK
<1>f6. head' \in [Workspaces -> Nat \cup {None}] /\ lock' \in Workspaces \cup {None}
  BY <1>1, <1>f2, PlaceFacts DEF TypeOK
<1>f7. [step |-> "directory", dest |-> d, id |-> records[n].id] \in Removals
  BY <1>1, <1>f1, Shapes DEF Removals, Records
<1>f8. /\ removing' \in [Names -> Removals \cup {None}]
       /\ removing'[n] = [step |-> "directory", dest |-> d, id |-> records[n].id]
       /\ \A m \in Names : m # n => removing'[m] = removing[m]
  BY <1>1, <1>f2, <1>f7 DEF TypeOK
<1>f9. /\ removing'[n].dest = d /\ removing'[n].id = records[n].id
       /\ live[d] # None /\ home[d] # None /\ build[d].step = "idle" /\ d = records[n].dest
  BY <1>f1, <1>f8
<1>f10. /\ spent' \in [forks : Nat, edits : Nat, ops : Nat, removals : Nat, faults : Nat]
       /\ spent'.ops = spent.ops
  BY <1>1, SpendFacts DEF Forget
<1>f11. Forks \subseteq Workspaces /\ ~Deleting(n)
  BY <1>1, Shapes DEF Forget, Deleting
<1>4. TypeOK'
  BY <1>1, <1>3, <1>f3, <1>f4, <1>f5, <1>f6, <1>f8, <1>f10 DEF TypeOK
<1>5. StoreInv'
  BY <1>1, <1>3, <1>f5 DEF StoreInv
<1>6. ASSUME NEW e \in Forks PROVE BuildSnaps(e)'
  BY <1>2, <1>3, <1>6, <1>f9 DEF BuildSnaps, Exact
<1>7. ASSUME NEW m \in Names PROVE RecordSnaps(m)'
  BY <1>2, <1>3, <1>7, <1>f8, <1>f9 DEF RecordSnaps, Exact
<1>8. ASSUME NEW v \in Workspaces PROVE HomeAt(v)'
  BY <1>2, <1>3, <1>8, <1>f3, <1>f4, <1>f9 DEF HomeAt
<1>9. ASSUME NEW e \in Forks PROVE BuildHome(e)'
  BY <1>2, <1>3, <1>9, <1>f11, <1>f3, <1>f9 DEF BuildHome
<1>10. ASSUME NEW m \in Names PROVE RemovalHome(m)'
  BY <1>1, <1>2, <1>3, <1>10, <1>f3, <1>f8, <1>f9, Shapes DEF RemovalHome, Deleting
<1>11. RemovalApart'
  BY <1>1, <1>3, <1>2, Shapes, <1>f8, <1>f9 DEF RemovalApart, Deleting, RemovalHome
<1>12. ASSUME RowsInv, NEW m \in Names PROVE RecordRows(m)'
  BY <1>2, <1>3, <1>12, <1>f5, <1>f8, <1>f9 DEF RowsInv, RecordRows, Based
<1>13. ASSUME RowsInv, NEW e \in Forks PROVE BuildRows(e)'
  BY <1>2, <1>3, <1>13, <1>f5, <1>f9 DEF RowsInv, BuildRows, Based
<1>14. ASSUME MarkInv, NEW m \in Names PROVE RecordMark(m)'
  BY <1>1, <1>2, <1>3, <1>14, <1>f8, <1>f9, Shapes DEF MarkInv, RecordMark
<1>15. ASSUME MarkInv, NEW e \in Forks PROVE BuildMark(e)'
  BY <1>2, <1>3, <1>15, <1>f9 DEF MarkInv, BuildMark
<1>16. ASSUME MarkInv, NEW m \in Names PROVE RemovalMark(m)'
  BY <1>1, <1>2, <1>3, <1>16, <1>f1, <1>f8, <1>f9, Shapes
     DEF MarkInv, RemovalMark, Deleting, RecordMark, RemovalHome
<1>17. Calm
  BY <1>1, <1>3, <1>f1, <1>f2, <1>f4, <1>f10 DEF Calm
<1>18. ForkInv'
  BY <1>4, <1>5, <1>6, <1>7, <1>8, <1>9, <1>10, <1>11 DEF ForkInv
<1>19. RowsInv => RowsInv'
  BY <1>12, <1>13 DEF RowsInv
<1>20. MarkInv => MarkInv'
  BY <1>14, <1>15, <1>16 DEF MarkInv
<1> QED
  BY <1>17, <1>18, <1>19, <1>20


(* The directory of the fork goes, and no other fork is in it. *)
LEMMA RemoveDirectoryGood ==
    ASSUME ForkInv, NEW n \in Names, RemoveDirectory(n)
    PROVE  /\ ForkInv'
           /\ (RowsInv => RowsInv')
           /\ (MarkInv => MarkInv')
           /\ Calm
<1>1. TypeOK /\ StoreInv /\ RemovalApart
  BY DEF ForkInv
<1>2. /\ \A e \in Forks : BuildSnaps(e) /\ BuildHome(e)
      /\ \A m \in Names : RecordSnaps(m) /\ RemovalHome(m)
      /\ \A v \in Workspaces : HomeAt(v)
  BY DEF ForkInv
<1>3. UNCHANGED << home, snaps, held, rows, head, records, build, authority, tombstones, lock,
                   ops, acked, cleared, spent, loose, reused>>
  BY DEF RemoveDirectory, Vanish, trees, store, forkery, shared, history
<1>f1. PICK d \in Forks : d = removing[n].dest /\ Deleting(n)
  BY <1>1, Shapes DEF RemoveDirectory, Deleting
<1>f2. /\ live' = [live EXCEPT ![d] = None] /\ mark' = [mark EXCEPT ![d] = None]
       /\ copy' = [copy EXCEPT ![d] = Nowhere]
       /\ removing' = [removing EXCEPT ![n] = [removing[n] EXCEPT !.step = "record"]]
  BY <1>1, <1>f1 DEF RemoveDirectory, Vanish, Destination, TypeOK
<1>f3. /\ live' \in [Workspaces -> Trees \cup {None}] /\ live'[d] = None /\ live'[Source] # None
       /\ \A v \in Workspaces : v # d => live'[v] = live[v]
  BY <1>1, <1>f2, PlaceFacts DEF TypeOK
<1>f4. /\ mark' \in [Workspaces -> Nat \cup {None}]
       /\ \A v \in Workspaces : v # d => mark'[v] = mark[v]
  BY <1>1, <1>f2, PlaceFacts DEF TypeOK
<1>f5. /\ copy' \in [Workspaces -> [Keys -> Int]] /\ copy'[d] = Nowhere
       /\ \A v \in Workspaces : v # d => copy'[v] = copy[v]
  BY <1>1, <1>f2, PlaceFacts DEF TypeOK, Nowhere
<1>f6. removing[n] \in Removals
  BY <1>1, <1>f1, Shapes DEF Deleting
<1>f7. /\ removing' \in [Names -> Removals \cup {None}] /\ removing'[n].step = "record"
       /\ \A m \in Names : m # n => removing'[m] = removing[m]
  BY <1>1, <1>f2, <1>f6 DEF TypeOK, Removals
<1>f8. home[d] = None /\ build[d].step = "idle" /\ ops[d].step = "idle" /\ live[d] # None
  BY <1>2, <1>f1, PlaceFacts DEF RemovalHome, HomeAt
<1>f9. \A m \in Names : m # n /\ Deleting(m) => removing[m].dest # d
  BY <1>1, <1>f1 DEF RemovalApart
<1>f10. Forks \subseteq Workspaces
  BY PlaceFacts
<1>4. TypeOK'
  BY <1>1, <1>3, <1>f3, <1>f4, <1>f5, <1>f7 DEF TypeOK
<1>5. StoreInv'
  BY <1>1, <1>3 DEF StoreInv
<1>6. ASSUME NEW e \in Forks PROVE BuildSnaps(e)'
  BY <1>2, <1>3, <1>6, <1>f8 DEF BuildSnaps, Exact
<1>7. ASSUME NEW m \in Names PROVE RecordSnaps(m)'
  BY <1>2, <1>3, <1>7 DEF RecordSnaps, Exact
<1>8. ASSUME NEW v \in Workspaces PROVE HomeAt(v)'
  BY <1>2, <1>3, <1>8, <1>f3, <1>f8 DEF HomeAt
<1>9. ASSUME NEW e \in Forks PROVE BuildHome(e)'
  BY <1>2, <1>3, <1>9, <1>f10, <1>f3, <1>f8 DEF BuildHome
<1>10. ASSUME NEW m \in Names PROVE RemovalHome(m)'
  BY <1>1, <1>2, <1>3, <1>10, <1>f3, <1>f7, <1>f8, <1>f9, Shapes DEF RemovalHome, Deleting
<1>11. RemovalApart'
  BY <1>1, <1>3, <1>f7, <1>f9 DEF RemovalApart, Deleting
<1>12. ASSUME RowsInv, NEW m \in Names PROVE RecordRows(m)'
  BY <1>2, <1>3, <1>12 DEF RowsInv, RecordRows, Based
<1>13. ASSUME RowsInv, NEW e \in Forks PROVE BuildRows(e)'
  BY <1>2, <1>3, <1>13, <1>f8 DEF RowsInv, BuildRows, Based
<1>14. ASSUME MarkInv, NEW m \in Names PROVE RecordMark(m)'
  BY <1>1, <1>2, <1>3, <1>14, <1>f3, <1>f4, <1>f8, Shapes DEF MarkInv, RecordMark
<1>15. ASSUME MarkInv, NEW e \in Forks PROVE BuildMark(e)'
  BY <1>2, <1>3, <1>15, <1>f10, <1>f4, <1>f8 DEF MarkInv, BuildMark
<1>16. ASSUME MarkInv, NEW m \in Names PROVE RemovalMark(m)'
  BY <1>1, <1>2, <1>3, <1>16, <1>f4, <1>f7, <1>f9, Shapes
     DEF MarkInv, RemovalMark, Deleting, RemovalHome
<1>17. Calm
  BY <1>1, <1>3, <1>f5, <1>f8 DEF Calm
<1>18. ForkInv'
  BY <1>4, <1>5, <1>6, <1>7, <1>8, <1>9, <1>10, <1>11 DEF ForkInv
<1>19. RowsInv => RowsInv'
  BY <1>12, <1>13 DEF RowsInv
<1>20. MarkInv => MarkInv'
  BY <1>14, <1>15, <1>16 DEF MarkInv
<1> QED
  BY <1>17, <1>18, <1>19, <1>20


(* The record goes. *)
LEMMA RemoveRecordGood ==
    ASSUME ForkInv, NEW n \in Names, RemoveRecord(n)
    PROVE  /\ ForkInv'
           /\ (RowsInv => RowsInv')
           /\ (MarkInv => MarkInv')
           /\ Quiet
<1>1. TypeOK /\ StoreInv /\ RemovalApart
  BY DEF ForkInv
<1>2. /\ \A e \in Forks : BuildSnaps(e) /\ BuildHome(e)
      /\ \A m \in Names : RecordSnaps(m) /\ RemovalHome(m)
      /\ \A v \in Workspaces : HomeAt(v)
  BY DEF ForkInv
<1>3. UNCHANGED << live, home, mark, snaps, held, rows, head, build, authority, tombstones,
                   copy, lock, ops, acked, cleared, loose, reused>>
  BY DEF RemoveRecord, trees, store, forkery, shared, history
<1>f1. records' = [records EXCEPT ![n] = None] /\ removing' = [removing EXCEPT ![n] = None]
  BY DEF RemoveRecord
<1>f2. /\ removing' \in [Names -> Removals \cup {None}] /\ removing'[n] = None
       /\ \A m \in Names : m # n => removing'[m] = removing[m]
  BY <1>1, <1>f1 DEF TypeOK
<1>f3. /\ records' \in [Names -> Records \cup {None}] /\ records'[n] = None
       /\ \A m \in Names : m # n => records'[m] = records[m]
  BY <1>1, <1>f1 DEF TypeOK
<1>f4. /\ spent' \in [forks : Nat, edits : Nat, ops : Nat, removals : Nat, faults : Nat]
       /\ spent'.ops = spent.ops
  <2>1. CASE removing[n] = None
    BY <1>1, <2>1, SpendFacts DEF RemoveRecord
  <2>2. CASE removing[n] # None
    BY <1>1, <2>2 DEF RemoveRecord, TypeOK
  <2> QED
    BY <2>1, <2>2
<1>4. TypeOK'
  BY <1>1, <1>3, <1>f2, <1>f3, <1>f4 DEF TypeOK
<1>5. StoreInv'
  BY <1>1, <1>3 DEF StoreInv
<1>6. ASSUME NEW e \in Forks PROVE BuildSnaps(e)'
  BY <1>2, <1>3, <1>6 DEF BuildSnaps, Exact
<1>7. ASSUME NEW m \in Names PROVE RecordSnaps(m)'
  BY <1>2, <1>3, <1>7, <1>f3 DEF RecordSnaps, Exact
<1>8. ASSUME NEW v \in Workspaces PROVE HomeAt(v)'
  BY <1>2, <1>3, <1>8 DEF HomeAt
<1>9. ASSUME NEW e \in Forks PROVE BuildHome(e)'
  BY <1>2, <1>3, <1>9 DEF BuildHome
<1>10. ASSUME NEW m \in Names PROVE RemovalHome(m)'
  BY <1>1, <1>2, <1>3, <1>10, <1>f2, Shapes DEF RemovalHome, Deleting
<1>11. RemovalApart'
  BY <1>1, <1>3, <1>f2 DEF RemovalApart, Deleting
<1>12. ASSUME RowsInv, NEW m \in Names PROVE RecordRows(m)'
  BY <1>2, <1>3, <1>12, <1>f3 DEF RowsInv, RecordRows, Based
<1>13. ASSUME RowsInv, NEW e \in Forks PROVE BuildRows(e)'
  BY <1>2, <1>3, <1>13 DEF RowsInv, BuildRows, Based
<1>14. ASSUME MarkInv, NEW m \in Names PROVE RecordMark(m)'
  BY <1>1, <1>2, <1>3, <1>14, <1>f3, Shapes DEF MarkInv, RecordMark
<1>15. ASSUME MarkInv, NEW e \in Forks PROVE BuildMark(e)'
  BY <1>2, <1>3, <1>15 DEF MarkInv, BuildMark
<1>16. ASSUME MarkInv, NEW m \in Names PROVE RemovalMark(m)'
  BY <1>1, <1>2, <1>3, <1>16, <1>f2, Shapes DEF MarkInv, RemovalMark, Deleting, RemovalHome
<1>17. Quiet
  BY <1>3, <1>f4 DEF Quiet, shared
<1>18. ForkInv'
  BY <1>4, <1>5, <1>6, <1>7, <1>8, <1>9, <1>10, <1>11 DEF ForkInv
<1>19. RowsInv => RowsInv'
  BY <1>12, <1>13 DEF RowsInv
<1>20. MarkInv => MarkInv'
  BY <1>14, <1>15, <1>16 DEF MarkInv
<1> QED
  BY <1>17, <1>18, <1>19, <1>20


(* A removal is killed. *)
LEMMA AbandonRemovalGood ==
    ASSUME ForkInv, NEW n \in Names, AbandonRemoval(n)
    PROVE  /\ ForkInv'
           /\ (RowsInv => RowsInv')
           /\ (MarkInv => MarkInv')
           /\ Quiet
<1>1. TypeOK /\ StoreInv /\ RemovalApart
  BY DEF ForkInv
<1>2. /\ \A e \in Forks : BuildSnaps(e) /\ BuildHome(e)
      /\ \A m \in Names : RecordSnaps(m) /\ RemovalHome(m)
      /\ \A v \in Workspaces : HomeAt(v)
  BY DEF ForkInv
<1>3. UNCHANGED << live, home, mark, snaps, held, rows, head, records, build, authority,
                   tombstones, copy, lock, ops, acked, cleared, loose, reused>>
  BY DEF AbandonRemoval, trees, store, forkery, shared, history
<1>f1. removing' = [removing EXCEPT ![n] = None]
  BY DEF AbandonRemoval
<1>f2. /\ removing' \in [Names -> Removals \cup {None}] /\ removing'[n] = None
       /\ \A m \in Names : m # n => removing'[m] = removing[m]
  BY <1>1, <1>f1 DEF TypeOK
<1>f3. /\ spent' \in [forks : Nat, edits : Nat, ops : Nat, removals : Nat, faults : Nat]
       /\ spent'.ops = spent.ops
  BY <1>1, SpendFacts DEF AbandonRemoval
<1>4. TypeOK'
  BY <1>1, <1>3, <1>f2, <1>f3 DEF TypeOK
<1>5. StoreInv'
  BY <1>1, <1>3 DEF StoreInv
<1>6. ASSUME NEW e \in Forks PROVE BuildSnaps(e)'
  BY <1>2, <1>3, <1>6 DEF BuildSnaps, Exact
<1>7. ASSUME NEW m \in Names PROVE RecordSnaps(m)'
  BY <1>2, <1>3, <1>7 DEF RecordSnaps, Exact
<1>8. ASSUME NEW v \in Workspaces PROVE HomeAt(v)'
  BY <1>2, <1>3, <1>8 DEF HomeAt
<1>9. ASSUME NEW e \in Forks PROVE BuildHome(e)'
  BY <1>2, <1>3, <1>9 DEF BuildHome
<1>10. ASSUME NEW m \in Names PROVE RemovalHome(m)'
  BY <1>1, <1>2, <1>3, <1>10, <1>f2, Shapes DEF RemovalHome, Deleting
<1>11. RemovalApart'
  BY <1>1, <1>3, <1>f2 DEF RemovalApart, Deleting
<1>12. ASSUME RowsInv, NEW m \in Names PROVE RecordRows(m)'
  BY <1>2, <1>3, <1>12 DEF RowsInv, RecordRows, Based
<1>13. ASSUME RowsInv, NEW e \in Forks PROVE BuildRows(e)'
  BY <1>2, <1>3, <1>13 DEF RowsInv, BuildRows, Based
<1>14. ASSUME MarkInv, NEW m \in Names PROVE RecordMark(m)'
  BY <1>1, <1>2, <1>3, <1>14, Shapes DEF MarkInv, RecordMark
<1>15. ASSUME MarkInv, NEW e \in Forks PROVE BuildMark(e)'
  BY <1>2, <1>3, <1>15 DEF MarkInv, BuildMark
<1>16. ASSUME MarkInv, NEW m \in Names PROVE RemovalMark(m)'
  BY <1>1, <1>2, <1>3, <1>16, <1>f2, Shapes DEF MarkInv, RemovalMark, Deleting, RemovalHome
<1>17. Quiet
  BY <1>3, <1>f3 DEF Quiet, shared
<1>18. ForkInv'
  BY <1>4, <1>5, <1>6, <1>7, <1>8, <1>9, <1>10, <1>11 DEF ForkInv
<1>19. RowsInv => RowsInv'
  BY <1>12, <1>13 DEF RowsInv
<1>20. MarkInv => MarkInv'
  BY <1>14, <1>15, <1>16 DEF MarkInv
<1> QED
  BY <1>17, <1>18, <1>19, <1>20


(* A directory that is deleted by hand leaves its timeline behind. *)
LEMMA DeleteGood ==
    ASSUME ForkInv, NEW d \in Forks, Delete(d)
    PROVE  /\ ForkInv'
           /\ (RowsInv => RowsInv')
           /\ (MarkInv => MarkInv')
           /\ Calm
<1>1. TypeOK /\ StoreInv /\ RemovalApart
  BY DEF ForkInv
<1>2. /\ \A e \in Forks : BuildSnaps(e) /\ BuildHome(e)
      /\ \A m \in Names : RecordSnaps(m) /\ RemovalHome(m)
      /\ \A v \in Workspaces : HomeAt(v)
  BY DEF ForkInv
<1>3. UNCHANGED << snaps, held, records, build, removing, authority, tombstones, acked, cleared,
                   loose, reused>>
  BY DEF Delete, Vanish, Gone, trees, store, forkery, shared, history
<1>f1. /\ live[d] # None /\ build[d].step = "idle"
       /\ \A m \in Names : removing[m] # None => removing[m].dest # d
  BY DEF Delete
<1>f2. /\ live' = [live EXCEPT ![d] = None] /\ mark' = [mark EXCEPT ![d] = None]
       /\ copy' = [copy EXCEPT ![d] = Nowhere] /\ home' = [home EXCEPT ![d] = None]
       /\ ops' = [ops EXCEPT ![d] = Idle] /\ lock' = (IF lock = d THEN None ELSE lock)
       /\ head' = [head EXCEPT ![d] = None]
       /\ rows' = {<<IF row[1] = d THEN -d ELSE row[1], row[2]>> : row \in rows}
  BY DEF Delete, Vanish, Gone
<1>f3. /\ live' \in [Workspaces -> Trees \cup {None}] /\ live'[d] = None /\ live'[Source] # None
       /\ \A v \in Workspaces : v # d => live'[v] = live[v]
  BY <1>1, <1>f2, PlaceFacts DEF TypeOK
<1>f4. /\ mark' \in [Workspaces -> Nat \cup {None}]
       /\ \A v \in Workspaces : v # d => mark'[v] = mark[v]
  BY <1>1, <1>f2, PlaceFacts DEF TypeOK
<1>f5. /\ copy' \in [Workspaces -> [Keys -> Int]] /\ copy'[d] = Nowhere
       /\ \A v \in Workspaces : v # d => copy'[v] = copy[v]
  BY <1>1, <1>f2, PlaceFacts DEF TypeOK, Nowhere
<1>f6. /\ home' \in [Workspaces -> {None, "own", "family"}] /\ home'[d] = None
       /\ \A v \in Workspaces : v # d => home'[v] = home[v]
  BY <1>1, <1>f2, PlaceFacts DEF TypeOK
<1>f7. /\ ops' \in [Workspaces -> {Idle, Refused} \cup Updates \cup Opens \cup Answers]
       /\ ops'[d].step = "idle" /\ \A v \in Workspaces : v # d => ops'[v] = ops[v]
  BY <1>1, <1>f2, PlaceFacts DEF TypeOK, Idle
<1>f8. head' \in [Workspaces -> Nat \cup {None}] /\ lock' \in Workspaces \cup {None}
  BY <1>1, <1>f2, PlaceFacts DEF TypeOK
<1>f9. /\ rows' \in SUBSET (Int \X Nat) /\ \A row \in rows' : \E old \in rows : row[2] = old[2]
       /\ \A base : <<Source, base>> \in rows => <<Source, base>> \in rows'
  <2>1. rows \in SUBSET (Int \X Nat) /\ d \in Int /\ d # Source
    BY <1>1, PlaceFacts DEF TypeOK
  <2>2. rows' \in SUBSET (Int \X Nat)
    BY <1>f2, <2>1
  <2>3. \A row \in rows' : \E old \in rows : row[2] = old[2]
    BY <1>f2, <2>1
  <2>4. ASSUME NEW base, <<Source, base>> \in rows PROVE <<Source, base>> \in rows'
    BY <1>f2, <2>1, <2>4
  <2> QED
    BY <2>2, <2>3, <2>4
<1>f10. /\ spent' \in [forks : Nat, edits : Nat, ops : Nat, removals : Nat, faults : Nat]
       /\ spent'.ops = spent.ops
  BY <1>1, SpendFacts DEF Delete
<1>f11. Forks \subseteq Workspaces
  BY PlaceFacts
<1>4. TypeOK'
  BY <1>1, <1>3, <1>f3, <1>f4, <1>f5, <1>f6, <1>f7, <1>f8, <1>f9, <1>f10 DEF TypeOK
<1>5. StoreInv'
  BY <1>1, <1>3, <1>f9 DEF StoreInv
<1>6. ASSUME NEW e \in Forks PROVE BuildSnaps(e)'
  BY <1>2, <1>3, <1>6, <1>f1 DEF BuildSnaps, Exact
<1>7. ASSUME NEW m \in Names PROVE RecordSnaps(m)'
  BY <1>2, <1>3, <1>7 DEF RecordSnaps, Exact
<1>8. ASSUME NEW v \in Workspaces PROVE HomeAt(v)'
  BY <1>2, <1>3, <1>8, <1>f1, <1>f3, <1>f6, <1>f7 DEF HomeAt
<1>9. ASSUME NEW e \in Forks PROVE BuildHome(e)'
  BY <1>2, <1>3, <1>9, <1>f11, <1>f1, <1>f3, <1>f6 DEF BuildHome
<1>10. ASSUME NEW m \in Names PROVE RemovalHome(m)'
  BY <1>1, <1>2, <1>3, <1>10, <1>f1, <1>f3, <1>f6, Shapes DEF RemovalHome, Deleting
<1>11. RemovalApart'
  BY <1>1, <1>3, <1>f1 DEF RemovalApart, Deleting
<1>12. ASSUME RowsInv, NEW m \in Names PROVE RecordRows(m)'
  BY <1>2, <1>3, <1>12, <1>f9 DEF RowsInv, RecordRows, Based
<1>13. ASSUME RowsInv, NEW e \in Forks PROVE BuildRows(e)'
  BY <1>2, <1>3, <1>13, <1>f1, <1>f9 DEF RowsInv, BuildRows, Based
<1>14. ASSUME MarkInv, NEW m \in Names PROVE RecordMark(m)'
  BY <1>1, <1>2, <1>3, <1>14, <1>f1, <1>f3, <1>f4, Shapes DEF MarkInv, RecordMark
<1>15. ASSUME MarkInv, NEW e \in Forks PROVE BuildMark(e)'
  BY <1>2, <1>3, <1>15, <1>f11, <1>f1, <1>f4 DEF MarkInv, BuildMark
<1>16. ASSUME MarkInv, NEW m \in Names PROVE RemovalMark(m)'
  BY <1>1, <1>2, <1>3, <1>16, <1>f1, <1>f4, Shapes DEF MarkInv, RemovalMark, Deleting, RemovalHome
<1>17. Calm
  BY <1>1, <1>3, <1>f2, <1>f5, <1>f7, <1>f10, PlaceFacts DEF Calm
<1>18. ForkInv'
  BY <1>4, <1>5, <1>6, <1>7, <1>8, <1>9, <1>10, <1>11 DEF ForkInv
<1>19. RowsInv => RowsInv'
  BY <1>12, <1>13 DEF RowsInv
<1>20. MarkInv => MarkInv'
  BY <1>14, <1>15, <1>16 DEF MarkInv
<1> QED
  BY <1>17, <1>18, <1>19, <1>20

(***************************************************************************)
(* The steps of the coordination half.                                     *)
(***************************************************************************)
Updating == {"tombstone", "remove", "propagate"}
Reading == {"tombstones", "read"}
Locking == {"tombstone", "remove", "propagate", "tombstones"}

(* What a coordination command is at. *)
LEMMA OpKinds ==
    ASSUME TypeOK, NEW w \in Workspaces
    PROVE  /\ ops[w].step \in Updating =>
                  /\ ops[w] \in Updates /\ ops[w].key \in Keys /\ ops[w].value \in Nat
                  /\ ops[w].number \in Nat /\ ops[w].todo \subseteq Workspaces
           /\ ops[w].step \in Reading => ops[w] \in Opens /\ ops[w].since \in [Keys -> Nat]
           /\ ops[w].step = "tombstones" =>
                  ops[w] \in [step : {"tombstones"}, since : [Keys -> Nat], todo : SUBSET Keys]
           /\ ops[w].step = "answered" =>
                  /\ ops[w] \in Answers /\ ops[w].since \in [Keys -> Nat]
                  /\ ops[w].got \in [Keys -> Int]
<1>1. ops[w] \in {Idle, Refused} \cup Updates \cup Opens \cup Answers
  BY DEF TypeOK
<1>2. ops[w].step \in Updating => ops[w] \in Updates
  BY <1>1 DEF Updating, Idle, Refused, Opens, Answers
<1>3. ops[w].step \in Reading => ops[w] \in Opens
  BY <1>1 DEF Reading, Idle, Refused, Updates, Answers
<1>4. ops[w].step = "answered" => ops[w] \in Answers
  BY <1>1 DEF Idle, Refused, Updates, Opens
<1>5. ops[w].step = "tombstones" =>
          ops[w] \in [step : {"tombstones"}, since : [Keys -> Nat], todo : SUBSET Keys]
  BY <1>3 DEF Reading, Opens
<1>6. ops[w].step \in Reading => ops[w].since \in [Keys -> Nat]
  BY <1>3 DEF Opens
<1> QED
  BY <1>2, <1>3, <1>4, <1>5, <1>6 DEF Updates, Answers

(* The numbers that are compared. *)
LEMMA CoordTypes ==
    ASSUME TypeOK
    PROVE  /\ \A k \in Keys : authority[k] \in Int /\ acked[k] \in Nat /\ cleared[k] \in Nat
           /\ \A v \in Workspaces : \A k \in Keys : copy[v][k] \in Int
           /\ spent.ops \in Nat /\ tombstones \subseteq Keys
  BY DEF TypeOK

LEMMA SpendOps ==
    ASSUME TypeOK, Spend("ops")
    PROVE  /\ spent' \in [forks : Nat, edits : Nat, ops : Nat, removals : Nat, faults : Nat]
           /\ spent'.ops = spent.ops + 1 /\ spent.ops + 1 \in Nat
<1>1. spent' = [spent EXCEPT !["ops"] = @ + 1]
  BY DEF Spend
<1>2. spent \in [forks : Nat, edits : Nat, ops : Nat, removals : Nat, faults : Nat]
  BY DEF TypeOK
<1> QED
  BY <1>1, <1>2

(* The fork half sees of a coordination command that its workspace is a member. *)
LEMMA ForkFrame ==
    ASSUME ForkInv, TypeOK',
           UNCHANGED <<live, home, mark, snaps, held, rows, head, records, build, removing, loose, reused>>,
           \A v \in Workspaces : ops'[v].step # "idle" => home[v] = "family"
    PROVE  ForkInv' /\ (RowsInv => RowsInv') /\ (MarkInv => MarkInv')
<1>1. StoreInv' /\ RemovalApart'
  BY DEF ForkInv, StoreInv, RemovalApart, Deleting
<1>2. ASSUME NEW d \in Forks PROVE BuildSnaps(d)' /\ BuildHome(d)'
  BY DEF ForkInv, BuildSnaps, BuildHome, Exact
<1>3. ASSUME NEW n \in Names PROVE RecordSnaps(n)' /\ RemovalHome(n)'
  BY DEF ForkInv, RecordSnaps, RemovalHome, Exact, Deleting
<1>4. ASSUME NEW w \in Workspaces PROVE HomeAt(w)'
  BY DEF ForkInv, HomeAt
<1>5. ForkInv'
  BY <1>1, <1>2, <1>3, <1>4 DEF ForkInv
<1>6. RowsInv => RowsInv'
  BY DEF RowsInv, RecordRows, BuildRows, Based
<1>7. MarkInv => MarkInv'
  BY DEF MarkInv, RecordMark, BuildMark, RemovalMark, Deleting
<1> QED
  BY <1>5, <1>6, <1>7

(* A step that leaves the coordination files alone keeps what is known of them,
   also where a workspace goes away with its copy and its command. *)
LEMMA CalmKeeps ==
    ASSUME TypeOK, CoordInv, Calm
    PROVE  CoordInv'
<1>1. UNCHANGED <<authority, tombstones, acked, cleared>> /\ spent'.ops = spent.ops
  BY DEF Calm
<1>2. Grown(authority)' /\ Touched' = Touched
  BY <1>1 DEF CoordInv, Grown, Touched
<1>3. ASSUME NEW k \in Keys PROVE AckAt(k)'
  BY <1>1 DEF CoordInv, AckAt, Fresh, Touched
<1>4. ASSUME NEW w \in Workspaces PROVE Grown(copy[w])' /\ LockAt(w)' /\ UpdateAt(w)' /\ OpenAt(w)'
  <2>1. Grown(copy[w]) /\ LockAt(w) /\ UpdateAt(w) /\ OpenAt(w)
    BY DEF CoordInv
  <2>2. CASE ops'[w] = ops[w] /\ copy'[w] = copy[w] /\ (lock = w => lock' = w)
    <3>1. Grown(copy[w])'
      BY <1>2, <2>1, <2>2 DEF Grown
    <3>2. LockAt(w)'
      BY <2>1, <2>2 DEF LockAt
    <3>3. UpdateAt(w)'
      BY <1>1, <2>1, <2>2 DEF UpdateAt
    <3>4. OpenAt(w)'
      BY <1>1, <2>1, <2>2 DEF OpenAt, Fresh
    <3> QED
      BY <3>1, <3>2, <3>3, <3>4
  <2>3. CASE ops'[w].step = "idle" /\ copy'[w] \in {copy[w], Nowhere}
    <3>1. Grown(copy[w])'
      BY <1>2, <2>1, <2>3 DEF Grown, Nowhere
    <3> QED
      BY <3>1, <2>3 DEF LockAt, UpdateAt, OpenAt
  <2> QED
    BY <2>2, <2>3 DEF Calm
<1> QED
  BY <1>2, <1>3, <1>4 DEF CoordInv

LEMMA QuietIsCalm == Quiet => Calm
  BY DEF Quiet, Calm, shared

(* A file is written where no directory is, below no file. *)
LEMMA WriteAuthorityGood ==
    ASSUME ForkInv, NEW w \in Workspaces, NEW k \in Keys, WriteAuthority(w, k)
    PROVE  /\ ForkInv' /\ (RowsInv => RowsInv') /\ (MarkInv => MarkInv')
           /\ (CoordInv => CoordInv')
<1>1. TypeOK /\ \A v \in Workspaces : HomeAt(v)
  BY DEF ForkInv
<1>2. UNCHANGED << live, home, mark, snaps, held, rows, head, records, build, removing,
                   tombstones, copy, acked, cleared, loose, reused>>
  BY DEF WriteAuthority, Start, trees, store, forkery, history
<1>f1. /\ lock = None /\ lock' = w /\ ops[w].step = "idle" /\ home[w] = "family"
       /\ lock' \in Workspaces \cup {None}
  BY DEF WriteAuthority, Start, Member
<1>f2. /\ spent' \in [forks : Nat, edits : Nat, ops : Nat, removals : Nat, faults : Nat]
       /\ spent'.ops = spent.ops + 1
       /\ spent.ops + 1 \in Nat
  BY <1>1, SpendOps DEF WriteAuthority
<1>f3. PICK op : /\ op = [step |-> "tombstone", key |-> k, value |-> spent.ops + 1, number |-> spent.ops + 1,
                         todo |-> Attached]
                 /\ ops' = [ops EXCEPT ![w] = op]
  BY DEF WriteAuthority
<1>f4. /\ op.step = "tombstone" /\ op.key = k /\ op.value = spent.ops + 1
       /\ op.number = spent.ops + 1 /\ op \in Updates
  BY <1>f2, <1>f3 DEF Updates, Attached
<1>f5. /\ ops' \in [Workspaces -> {Idle, Refused} \cup Updates \cup Opens \cup Answers]
       /\ ops'[w] = op
       /\ \A v \in Workspaces : v # w => ops'[v] = ops[v]
  BY <1>1, <1>f3, <1>f4 DEF TypeOK
<1>f6. authority' = Written(authority, k, spent.ops + 1) /\ SafeParent(authority, k)
  BY DEF WriteAuthority, Writable
<1>f7. /\ authority'[k] = spent.ops + 1 /\ authority' \in [Keys -> Int]
       /\ \A q \in Keys : q # k => authority'[q] = IF IsStrictPrefix(q, k) THEN -1 ELSE authority[q]
       /\ \A q \in Keys : IsStrictPrefix(q, k) => authority[q] <= 0
  <2>1. authority' = [WithParents(authority, k) EXCEPT ![k] = spent.ops + 1]
    BY <1>f6 DEF Written
  <2>2. /\ WithParents(authority, k) \in [Keys -> Int]
        /\ \A q \in Keys : WithParents(authority, k)[q] = IF IsStrictPrefix(q, k) THEN -1 ELSE authority[q]
    BY <1>1 DEF TypeOK, WithParents
  <2> QED
    BY <1>f2, <1>f6, <2>1, <2>2 DEF SafeParent
<1>3. TypeOK'
  BY <1>1, <1>2, <1>f1, <1>f2, <1>f5, <1>f7 DEF TypeOK
<1>4. \A v \in Workspaces : ops'[v].step # "idle" => home[v] = "family"
  BY <1>1, <1>f1, <1>f2, <1>f4, <1>f5, <1>f7 DEF HomeAt
<1>5. ForkInv' /\ (RowsInv => RowsInv') /\ (MarkInv => MarkInv')
  BY <1>2, <1>3, <1>4, ForkFrame
<1>6. ASSUME CoordInv PROVE CoordInv'
  <2>1. /\ Grown(authority) /\ \A q \in Keys : AckAt(q)
        /\ \A v \in Workspaces : Grown(copy[v]) /\ LockAt(v) /\ UpdateAt(v) /\ OpenAt(v)
    BY <1>6 DEF CoordInv
  <2>f1. \A v \in Workspaces : v # w => ops[v].step \notin Locking
    BY <2>1, <1>f1, PlaceFacts DEF LockAt, Locking
  <2>f3. Touched' = Touched \cup {k} /\ ~IsStrictPrefix(k, k)
    BY <1>1, <1>2, <1>f2, <1>f7, CoordTypes, StrictFacts DEF Touched
  <2>3. Grown(authority)'
    BY <1>1, <1>2, <2>1, <1>f1, <1>f2, <1>f4, <1>f5, <1>f7, <2>f1, <2>f3, CoordTypes
       DEF Grown
  <2>4. ASSUME NEW q \in Keys PROVE AckAt(q)'
    BY <1>1, <1>2, <2>1, <2>4, <1>f1, <1>f2, <1>f4, <1>f5, <1>f7, <2>f1, <2>f3, CoordTypes
       DEF AckAt, Fresh
  <2>5. ASSUME NEW v \in Workspaces PROVE Grown(copy[v])'
    BY <1>1, <1>2, <2>1, <2>5, <1>f1, <1>f2, <1>f4, <1>f5, <1>f7, <2>f1, <2>f3, CoordTypes
       DEF Grown
  <2>6. ASSUME NEW v \in Workspaces PROVE LockAt(v)'
    BY <1>1, <1>2, <2>1, <2>6, <1>f1, <1>f2, <1>f4, <1>f5, <1>f7, <2>f1, <2>f3, CoordTypes
       DEF LockAt, Locking
  <2>7. ASSUME NEW v \in Workspaces PROVE UpdateAt(v)'
    BY <1>1, <1>2, <2>1, <2>7, <1>f1, <1>f2, <1>f4, <1>f5, <1>f7, <2>f1, <2>f3, CoordTypes
       DEF UpdateAt, Locking, AckAt
  <2>8. ASSUME NEW v \in Workspaces PROVE OpenAt(v)'
    BY <1>1, <1>2, <2>1, <2>8, <1>f1, <1>f2, <1>f4, <1>f5, <1>f7, <2>f1, <2>f3, CoordTypes
       DEF OpenAt, Fresh
  <2> QED
    BY <2>3, <2>4, <2>5, <2>6, <2>7, <2>8 DEF CoordInv
<1> QED
  BY <1>5, <1>6


(* The key stays one of those that are in use. *)
LEMMA ClearTombstoneGood ==
    ASSUME ForkInv, NEW w \in Workspaces, ClearTombstone(w)
    PROVE  /\ ForkInv' /\ (RowsInv => RowsInv') /\ (MarkInv => MarkInv')
           /\ (CoordInv => CoordInv')
<1>1. TypeOK /\ \A v \in Workspaces : HomeAt(v)
  BY DEF ForkInv
<1>2. UNCHANGED << live, home, mark, snaps, held, rows, head, records, build, removing,
                   authority, copy, lock, acked, cleared, spent, loose, reused>>
  BY DEF ClearTombstone, trees, store, forkery, history
<1>f1. /\ ops[w].step = "tombstone" /\ ops[w] \in Updates /\ ops[w].key \in Keys
       /\ ops[w].value \in Nat
  BY <1>1, OpKinds DEF ClearTombstone, Updating
<1>f2. ops' = [ops EXCEPT ![w] = [ops[w] EXCEPT !.step = "propagate"]]
  BY <1>1 DEF ClearTombstone, TypeOK
<1>f3. /\ ops'[w] \in Updates /\ ops'[w].step = "propagate" /\ ops'[w].key = ops[w].key
       /\ ops'[w].value = ops[w].value /\ ops'[w].number = ops[w].number
  BY <1>1, <1>f1, <1>f2 DEF TypeOK, Updates
<1>f4. /\ ops' \in [Workspaces -> {Idle, Refused} \cup Updates \cup Opens \cup Answers]
       /\ \A v \in Workspaces : v # w => ops'[v] = ops[v]
  BY <1>1, <1>f2, <1>f3 DEF TypeOK
<1>f5. tombstones' = tombstones \ {ops[w].key} /\ tombstones' \in SUBSET Keys
  BY <1>1 DEF ClearTombstone, TypeOK
<1>3. TypeOK'
  BY <1>1, <1>2, <1>f4, <1>f5 DEF TypeOK
<1>4. \A v \in Workspaces : ops'[v].step # "idle" => home[v] = "family"
  BY <1>1, <1>f1, <1>f3, <1>f4, <1>f5 DEF HomeAt
<1>5. ForkInv' /\ (RowsInv => RowsInv') /\ (MarkInv => MarkInv')
  BY <1>2, <1>3, <1>4, ForkFrame
<1>6. ASSUME CoordInv PROVE CoordInv'
  <2>1. /\ Grown(authority) /\ \A q \in Keys : AckAt(q)
        /\ \A v \in Workspaces : Grown(copy[v]) /\ LockAt(v) /\ UpdateAt(v) /\ OpenAt(v)
    BY <1>6 DEF CoordInv
  <2>f1. lock = w /\ ops[w].value > 0 /\ authority[ops[w].key] = ops[w].value
    BY <2>1, <1>f1, CoordTypes, <1>1 DEF LockAt, UpdateAt
  <2>f2. \A v \in Workspaces : v # w => ops[v].step \notin Locking
    BY <2>1, <2>f1, PlaceFacts DEF LockAt, Locking
  <2>f3. Touched' = Touched
    BY <1>1, <1>2, <1>f1, <1>f5, <2>f1, CoordTypes DEF Touched
  <2>3. Grown(authority)'
    BY <1>1, <1>2, <2>1, <1>f1, <1>f3, <1>f4, <1>f5, <2>f1, <2>f2, <2>f3, CoordTypes DEF Grown
  <2>4. ASSUME NEW q \in Keys PROVE AckAt(q)'
    BY <1>1, <1>2, <2>1, <2>4, <1>f1, <1>f3, <1>f4, <1>f5, <2>f1, <2>f2, <2>f3, CoordTypes
       DEF AckAt, Fresh
  <2>5. ASSUME NEW v \in Workspaces PROVE Grown(copy[v])'
    BY <1>1, <1>2, <2>1, <2>5, <1>f1, <1>f3, <1>f4, <1>f5, <2>f1, <2>f2, <2>f3, CoordTypes
       DEF Grown
  <2>6. ASSUME NEW v \in Workspaces PROVE LockAt(v)'
    BY <1>1, <1>2, <2>1, <2>6, <1>f1, <1>f3, <1>f4, <1>f5, <2>f1, <2>f2, <2>f3, CoordTypes
       DEF LockAt
  <2>7. ASSUME NEW v \in Workspaces PROVE UpdateAt(v)'
    BY <1>1, <1>2, <2>1, <2>7, <1>f1, <1>f3, <1>f4, <1>f5, <2>f1, <2>f2, <2>f3, CoordTypes
       DEF UpdateAt, Locking
  <2>8. ASSUME NEW v \in Workspaces PROVE OpenAt(v)'
    <3>1. CASE v = w
      BY <1>f3, <3>1 DEF OpenAt
    <3>2. CASE v # w
      <4>1. ops'[v] = ops[v] /\ OpenAt(v) /\ ops[v].step # "tombstones"
        BY <1>f4, <2>1, <2>8, <2>f2, <3>2 DEF Locking
      <4> QED
        BY <1>2, <4>1 DEF OpenAt, Fresh
    <3> QED
      BY <3>1, <3>2
  <2> QED
    BY <2>3, <2>4, <2>5, <2>6, <2>7, <2>8 DEF CoordInv
<1> QED
  BY <1>5, <1>6


(* A tombstone is of a key that is in use from now on. *)
LEMMA WriteTombstoneGood ==
    ASSUME ForkInv, NEW w \in Workspaces, NEW k \in Keys, WriteTombstone(w, k)
    PROVE  /\ ForkInv' /\ (RowsInv => RowsInv') /\ (MarkInv => MarkInv')
           /\ (CoordInv => CoordInv')
<1>1. TypeOK /\ \A v \in Workspaces : HomeAt(v)
  BY DEF ForkInv
<1>2. UNCHANGED << live, home, mark, snaps, held, rows, head, records, build, removing,
                   authority, copy, acked, loose, reused>>
  BY DEF WriteTombstone, Start, trees, store, forkery, history
<1>f1. /\ lock = None /\ lock' = w /\ ops[w].step = "idle" /\ home[w] = "family"
       /\ lock' \in Workspaces \cup {None}
  BY DEF WriteTombstone, Start, Member
<1>f2. /\ spent' \in [forks : Nat, edits : Nat, ops : Nat, removals : Nat, faults : Nat]
       /\ spent'.ops = spent.ops + 1
       /\ spent.ops + 1 \in Nat
  BY <1>1, SpendOps DEF WriteTombstone
<1>f3. PICK op : /\ op = [step |-> "remove", key |-> k, value |-> 0, number |-> spent.ops + 1,
                         todo |-> Attached]
                 /\ ops' = [ops EXCEPT ![w] = op]
  BY DEF WriteTombstone
<1>f4. /\ op.step = "remove" /\ op.key = k /\ op.value = 0
       /\ op.number = spent.ops + 1 /\ op \in Updates
  BY <1>f2, <1>f3 DEF Updates, Attached
<1>f5. /\ ops' \in [Workspaces -> {Idle, Refused} \cup Updates \cup Opens \cup Answers]
       /\ ops'[w] = op
       /\ \A v \in Workspaces : v # w => ops'[v] = ops[v]
  BY <1>1, <1>f3, <1>f4 DEF TypeOK
<1>f6. tombstones' = tombstones \cup {k} /\ tombstones' \in SUBSET Keys
  BY <1>1 DEF WriteTombstone, TypeOK
<1>f7. /\ cleared'[k] = spent.ops + 1 /\ cleared' \in [Keys -> Nat]
       /\ \A q \in Keys : q # k => cleared'[q] = cleared[q]
  BY <1>1, <1>f2 DEF TypeOK, WriteTombstone
<1>3. TypeOK'
  BY <1>1, <1>2, <1>f1, <1>f2, <1>f5, <1>f6, <1>f7 DEF TypeOK
<1>4. \A v \in Workspaces : ops'[v].step # "idle" => home[v] = "family"
  BY <1>1, <1>f1, <1>f2, <1>f4, <1>f5, <1>f6, <1>f7 DEF HomeAt
<1>5. ForkInv' /\ (RowsInv => RowsInv') /\ (MarkInv => MarkInv')
  BY <1>2, <1>3, <1>4, ForkFrame
<1>6. ASSUME CoordInv PROVE CoordInv'
  <2>1. /\ Grown(authority) /\ \A q \in Keys : AckAt(q)
        /\ \A v \in Workspaces : Grown(copy[v]) /\ LockAt(v) /\ UpdateAt(v) /\ OpenAt(v)
    BY <1>6 DEF CoordInv
  <2>f1. \A v \in Workspaces : v # w => ops[v].step \notin Locking
    BY <2>1, <1>f1, PlaceFacts DEF LockAt, Locking
  <2>f3. Touched' = Touched \cup {k} /\ ~IsStrictPrefix(k, k)
    BY <1>2, <1>f6, StrictFacts DEF Touched
  <2>3. Grown(authority)'
    BY <1>1, <1>2, <2>1, <1>f1, <1>f2, <1>f4, <1>f5, <1>f6, <1>f7, <2>f1, <2>f3, CoordTypes
       DEF Grown
  <2>4. ASSUME NEW q \in Keys PROVE AckAt(q)'
    BY <1>1, <1>2, <2>1, <2>4, <1>f1, <1>f2, <1>f4, <1>f5, <1>f6, <1>f7, <2>f1, <2>f3,
       CoordTypes DEF AckAt, Fresh
  <2>5. ASSUME NEW v \in Workspaces PROVE Grown(copy[v])'
    BY <1>1, <1>2, <2>1, <2>5, <1>f1, <1>f2, <1>f4, <1>f5, <1>f6, <1>f7, <2>f1, <2>f3,
       CoordTypes DEF Grown
  <2>6. ASSUME NEW v \in Workspaces PROVE LockAt(v)'
    BY <1>1, <1>2, <2>1, <2>6, <1>f1, <1>f2, <1>f4, <1>f5, <1>f6, <1>f7, <2>f1, <2>f3,
       CoordTypes DEF LockAt, Locking
  <2>7. ASSUME NEW v \in Workspaces PROVE UpdateAt(v)'
    BY <1>1, <1>2, <2>1, <2>7, <1>f1, <1>f2, <1>f4, <1>f5, <1>f6, <1>f7, <2>f1, <2>f3,
       CoordTypes DEF UpdateAt, Locking, AckAt
  <2>8. ASSUME NEW v \in Workspaces PROVE OpenAt(v)'
    <3>1. CASE v = w
      BY <1>f4, <1>f5, <3>1 DEF OpenAt
    <3>2. CASE v # w
      <4>1. /\ ops'[v] = ops[v] /\ copy'[v] = copy[v] /\ acked' = acked
            /\ ops[v].step \notin Locking /\ OpenAt(v)
        BY <1>2, <1>f5, <2>1, <2>f1, <3>2
      <4>2. \A q \in Keys : cleared[q] \in Nat /\ cleared'[q] \in Nat /\ cleared'[q] >= cleared[q]
        BY <1>1, <1>f2, <1>f7, <2>1, CoordTypes DEF AckAt
      <4>3. ASSUME NEW q \in Keys, NEW value \in Int, NEW since \in Nat, Fresh(value, q, since)
            PROVE  Fresh(value, q, since)'
        BY <4>2, <4>3 DEF Fresh
      <4>4. /\ ops[v].step = "read" => ops[v].since \in [Keys -> Nat]
            /\ ops[v].step = "answered" => /\ ops[v].since \in [Keys -> Nat]
                                            /\ ops[v].got \in [Keys -> Int]
        BY <1>1, OpKinds DEF Reading
      <4>5. \A q \in Keys : copy[v][q] \in Int
        BY <1>1, CoordTypes
      <4>6. ops[v].step = "read" =>
                \A q \in Keys : Fresh(copy[v][q], q, ops[v].since[q])'
        BY <4>1, <4>3, <4>4, <4>5 DEF OpenAt
      <4>7. ops[v].step = "answered" =>
                \A q \in Keys : Fresh(ops[v].got[q], q, ops[v].since[q])'
        BY <4>1, <4>3, <4>4 DEF OpenAt
      <4> QED
        BY <4>1, <4>6, <4>7 DEF OpenAt, Locking
    <3> QED
      BY <3>1, <3>2
  <2> QED
    BY <2>3, <2>4, <2>5, <2>6, <2>7, <2>8 DEF CoordInv
<1> QED
  BY <1>5, <1>6


(* What is removed was removed by a tombstone. *)
LEMMA RemoveAuthorityGood ==
    ASSUME ForkInv, NEW w \in Workspaces, RemoveAuthority(w)
    PROVE  /\ ForkInv' /\ (RowsInv => RowsInv') /\ (MarkInv => MarkInv')
           /\ (CoordInv => CoordInv')
<1>1. TypeOK /\ \A v \in Workspaces : HomeAt(v)
  BY DEF ForkInv
<1>2. UNCHANGED << live, home, mark, snaps, held, rows, head, records, build, removing,
                   tombstones, copy, acked, cleared, spent, loose, reused>>
  BY DEF RemoveAuthority, trees, store, forkery, history
<1>f1. /\ ops[w].step = "remove" /\ ops[w] \in Updates /\ ops[w].key \in Keys
       /\ ops[w].value \in Nat /\ ops[w].number \in Nat
  BY <1>1, OpKinds DEF RemoveAuthority, Updating
<1>f2. PICK op : /\ ops' = [ops EXCEPT ![w] = op] /\ op \in {Idle} \cup Updates
                 /\ \/ op.step = "idle" /\ lock' = None /\ authority' = authority
                    \/ /\ op.step = "propagate" /\ op.key = ops[w].key /\ op.value = ops[w].value
                       /\ op.number = ops[w].number /\ lock' = lock
                       /\ authority' = [authority EXCEPT ![ops[w].key] = 0]
  <2>1. CASE authority[ops[w].key] = -1
    <3>1. ops' = [ops EXCEPT ![w] = Idle] /\ lock' = None /\ authority' = authority
      BY <2>1 DEF RemoveAuthority
    <3>2. Idle \in {Idle} \cup Updates /\ Idle.step = "idle"
      BY DEF Idle
    <3> QED
      BY <3>1, <3>2
  <2>2. CASE authority[ops[w].key] # -1
    <3> DEFINE op == [ops[w] EXCEPT !.step = "propagate"]
    <3>1. ops' = [ops EXCEPT ![w] = op] /\ lock' = lock
          /\ authority' = [authority EXCEPT ![ops[w].key] = 0]
      BY <1>1, <2>2 DEF RemoveAuthority, TypeOK
    <3>2. /\ op \in Updates /\ op.step = "propagate" /\ op.key = ops[w].key
          /\ op.value = ops[w].value /\ op.number = ops[w].number
      BY <1>f1 DEF Updates
    <3> HIDE DEF op
    <3> QED
      BY <3>1, <3>2
  <2> QED
    BY <2>1, <2>2
<1>f3. /\ ops' \in [Workspaces -> {Idle, Refused} \cup Updates \cup Opens \cup Answers]
       /\ ops'[w] = op
       /\ \A v \in Workspaces : v # w => ops'[v] = ops[v]
  BY <1>1, <1>f2 DEF TypeOK
<1>f4. authority' \in [Keys -> Int] /\ lock' \in Workspaces \cup {None}
  <2>1. authority \in [Keys -> Int] /\ lock \in Workspaces \cup {None}
    BY <1>1 DEF TypeOK
  <2>2. authority' = authority \/ authority' = [authority EXCEPT ![ops[w].key] = 0]
    BY <1>f2
  <2> QED
    BY <1>f2, <2>1, <2>2
<1>f5. /\ \A q \in Keys : q # ops[w].key => authority'[q] = authority[q]
       /\ \/ op.step = "idle" /\ lock' = None /\ authority' = authority
          \/ /\ op.step = "propagate" /\ op.key = ops[w].key /\ op.value = ops[w].value
             /\ op.number = ops[w].number /\ lock' = lock /\ authority'[ops[w].key] = 0
  BY <1>1, <1>f1, <1>f2 DEF TypeOK
<1>3. TypeOK'
  BY <1>1, <1>2, <1>f3, <1>f4 DEF TypeOK
<1>4. \A v \in Workspaces : ops'[v].step # "idle" => home[v] = "family"
  BY <1>1, <1>f1, <1>f3, <1>f5 DEF HomeAt
<1>5. ForkInv' /\ (RowsInv => RowsInv') /\ (MarkInv => MarkInv')
  BY <1>2, <1>3, <1>4, ForkFrame
<1>6. ASSUME CoordInv PROVE CoordInv'
  <2>1. /\ Grown(authority) /\ \A q \in Keys : AckAt(q)
        /\ \A v \in Workspaces : Grown(copy[v]) /\ LockAt(v) /\ UpdateAt(v) /\ OpenAt(v)
    BY <1>6 DEF CoordInv
  <2>f1. lock = w /\ UpdateAt(w)
    BY <2>1, <1>f1 DEF LockAt, UpdateAt
  <2>f2. \A v \in Workspaces : v # w => ops[v].step \notin Locking
    BY <2>1, <2>f1, PlaceFacts DEF LockAt, Locking
  <2>f3. /\ ops[w].value = 0 /\ ops[w].key \in tombstones /\ cleared[ops[w].key] = ops[w].number
         /\ acked[ops[w].key] < ops[w].number
    BY <1>f1, <2>f1 DEF UpdateAt
  <2>f4. Touched' = Touched
    BY <1>1, <1>2, <1>f1, <1>f5, <2>f3, CoordTypes DEF Touched
  <2>3. Grown(authority)'
    BY <1>1, <1>2, <2>1, <1>f1, <1>f3, <1>f5, <2>f1, <2>f2, <2>f3, <2>f4, CoordTypes DEF Grown
  <2>4. ASSUME NEW q \in Keys PROVE AckAt(q)'
    BY <1>1, <1>2, <2>1, <2>4, <1>f1, <1>f3, <1>f5, <2>f1, <2>f2, <2>f3, <2>f4, CoordTypes
       DEF AckAt, Fresh
  <2>5. ASSUME NEW v \in Workspaces PROVE Grown(copy[v])'
    BY <1>1, <1>2, <2>1, <2>5, <1>f1, <1>f3, <1>f5, <2>f1, <2>f2, <2>f3, <2>f4, CoordTypes
       DEF Grown
  <2>6. ASSUME NEW v \in Workspaces PROVE LockAt(v)'
    BY <1>1, <1>2, <2>1, <2>6, <1>f1, <1>f3, <1>f5, <2>f1, <2>f2, <2>f3, <2>f4, CoordTypes
       DEF LockAt, Locking
  <2>7. ASSUME NEW v \in Workspaces PROVE UpdateAt(v)'
    BY <1>1, <1>2, <2>1, <2>7, <1>f1, <1>f3, <1>f5, <2>f1, <2>f2, <2>f3, <2>f4, CoordTypes
       DEF UpdateAt, Locking
  <2>8. ASSUME NEW v \in Workspaces PROVE OpenAt(v)'
    BY <1>1, <1>2, <2>1, <2>8, <1>f1, <1>f3, <1>f5, <2>f1, <2>f2, <2>f3, <2>f4, CoordTypes
       DEF OpenAt, Fresh
  <2> QED
    BY <2>3, <2>4, <2>5, <2>6, <2>7, <2>8 DEF CoordInv
<1> QED
  BY <1>5, <1>6


(* A copy that a command reads meanwhile gets something newer than it asked for. *)
LEMMA PropagateGood ==
    ASSUME ForkInv, NEW w \in Workspaces, NEW u \in Workspaces, Propagate(w, u)
    PROVE  /\ ForkInv' /\ (RowsInv => RowsInv') /\ (MarkInv => MarkInv')
           /\ (CoordInv => CoordInv')
<1>1. TypeOK /\ \A v \in Workspaces : HomeAt(v)
  BY DEF ForkInv
<1>2. UNCHANGED << live, home, mark, snaps, held, rows, head, records, build, removing,
                   authority, tombstones, lock, acked, cleared, loose, reused>>
  BY DEF Propagate, trees, store, forkery, history
<1>f1. /\ ops[w].step = "propagate" /\ ops[w] \in Updates /\ ops[w].key \in Keys
       /\ ops[w].value \in Nat /\ ops[w].number \in Nat
  BY <1>1, OpKinds DEF Propagate, Updating
<1>f2. ops' = [ops EXCEPT ![w] = [ops[w] EXCEPT !.todo = ops[w].todo \ {u}]]
  BY <1>1 DEF Propagate, TypeOK
<1>f3. /\ ops'[w] \in Updates /\ ops'[w].step = "propagate" /\ ops'[w].key = ops[w].key
       /\ ops'[w].value = ops[w].value /\ ops'[w].number = ops[w].number
  BY <1>1, <1>f1, <1>f2 DEF TypeOK, Updates
<1>f4. /\ ops' \in [Workspaces -> {Idle, Refused} \cup Updates \cup Opens \cup Answers]
       /\ \A v \in Workspaces : v # w => ops'[v] = ops[v]
  BY <1>1, <1>f2, <1>f3 DEF TypeOK
<1>f5. /\ spent' \in [forks : Nat, edits : Nat, ops : Nat, removals : Nat, faults : Nat]
       /\ spent'.ops = spent.ops
  <2>1. CASE Spend("faults")
    BY <1>1, <2>1, SpendFacts
  <2>2. CASE UNCHANGED spent
    BY <1>1, <2>2 DEF TypeOK
  <2> QED
    BY <2>1, <2>2 DEF Propagate
<1>f6. \/ copy' = copy
       \/ \E tree \in [Keys -> Int] :
              /\ copy' = [copy EXCEPT ![u] = tree] /\ tree[ops[w].key] = ops[w].value
              /\ \A q \in Keys : q # ops[w].key =>
                     tree[q] = IF IsStrictPrefix(q, ops[w].key) THEN -1 ELSE copy[u][q]
              /\ \A q \in Keys : IsStrictPrefix(q, ops[w].key) => copy[u][q] <= 0
  <2>1. CASE copy' = copy
    BY <2>1
  <2>2. CASE /\ Possible(ops[w], copy[u])
             /\ copy' = [copy EXCEPT ![u] = IF ops[w].value > 0
                                            THEN Written(copy[u], ops[w].key, ops[w].value)
                                            ELSE Removed(copy[u], ops[w].key)]
    <3> DEFINE tree == [WithParents(copy[u], ops[w].key) EXCEPT ![ops[w].key] = ops[w].value]
    <3>1. copy' = [copy EXCEPT ![u] = tree] /\ SafeParent(copy[u], ops[w].key)
      <4>1. CASE ops[w].value > 0
        BY <2>2, <4>1 DEF Written, Writable, Possible
      <4>2. CASE ops[w].value = 0
        BY <2>2, <4>2 DEF Removed, Removable, Possible
      <4> QED
        BY <1>f1, <4>1, <4>2
    <3>2. /\ WithParents(copy[u], ops[w].key) \in [Keys -> Int]
          /\ \A q \in Keys : WithParents(copy[u], ops[w].key)[q] =
                                IF IsStrictPrefix(q, ops[w].key) THEN -1 ELSE copy[u][q]
      BY <1>1 DEF TypeOK, WithParents
    <3>3. /\ tree \in [Keys -> Int] /\ tree[ops[w].key] = ops[w].value
          /\ \A q \in Keys : q # ops[w].key =>
                 tree[q] = IF IsStrictPrefix(q, ops[w].key) THEN -1 ELSE copy[u][q]
      BY <1>f1, <3>2
    <3>4. \A q \in Keys : IsStrictPrefix(q, ops[w].key) => copy[u][q] <= 0
      BY <3>1 DEF SafeParent
    <3> HIDE DEF tree
    <3> QED
      BY <3>1, <3>3, <3>4
  <2> QED
    BY <1>1, <2>1, <2>2 DEF Propagate, TypeOK
<1>f7. /\ copy' \in [Workspaces -> [Keys -> Int]]
       /\ \A v \in Workspaces : v # u => copy'[v] = copy[v]
       /\ \/ copy'[u] = copy[u]
          \/ /\ copy'[u][ops[w].key] = ops[w].value
             /\ \A q \in Keys : q # ops[w].key =>
                    copy'[u][q] = IF IsStrictPrefix(q, ops[w].key) THEN -1 ELSE copy[u][q]
             /\ \A q \in Keys : IsStrictPrefix(q, ops[w].key) => copy[u][q] <= 0
  BY <1>1, <1>f6 DEF TypeOK
<1>3. TypeOK'
  BY <1>1, <1>2, <1>f4, <1>f5, <1>f7 DEF TypeOK
<1>4. \A v \in Workspaces : ops'[v].step # "idle" => home[v] = "family"
  BY <1>1, <1>f1, <1>f3, <1>f4, <1>f5, <1>f7 DEF HomeAt
<1>5. ForkInv' /\ (RowsInv => RowsInv') /\ (MarkInv => MarkInv')
  BY <1>2, <1>3, <1>4, ForkFrame
<1>6. ASSUME CoordInv PROVE CoordInv'
  <2>1. /\ Grown(authority) /\ \A q \in Keys : AckAt(q)
        /\ \A v \in Workspaces : Grown(copy[v]) /\ LockAt(v) /\ UpdateAt(v) /\ OpenAt(v)
    BY <1>6 DEF CoordInv
  <2>f1. lock = w /\ UpdateAt(w)
    BY <2>1, <1>f1 DEF LockAt, UpdateAt
  <2>f2. \A v \in Workspaces : v # w => ops[v].step \notin Locking
    BY <2>1, <2>f1, PlaceFacts DEF LockAt, Locking
  <2>f3. /\ ops[w].key \in Touched /\ acked[ops[w].key] < ops[w].number
         /\ ops[w].value > 0 => ops[w].value = ops[w].number
         /\ ops[w].value = 0 => cleared[ops[w].key] = ops[w].number
    BY <1>1, <1>f1, <2>f1, CoordTypes DEF UpdateAt, Touched
  <2>f4. Touched' = Touched
    BY <1>2 DEF Touched
  <2>3. Grown(authority)'
    BY <1>1, <1>2, <2>1, <1>f1, <1>f3, <1>f4, <1>f5, <1>f7, <2>f1, <2>f2, <2>f3, <2>f4, CoordTypes
       DEF Grown
  <2>4. ASSUME NEW q \in Keys PROVE AckAt(q)'
    BY <1>1, <1>2, <2>1, <2>4, <1>f1, <1>f3, <1>f4, <1>f5, <1>f7, <2>f1, <2>f2, <2>f3, <2>f4,
       CoordTypes DEF AckAt, Fresh
  <2>5. ASSUME NEW v \in Workspaces PROVE Grown(copy[v])'
    <3>1. Grown(copy[v]) /\ ops[w].key \in Keys /\ ops[w].value \in Nat
      BY <1>f1, <2>1
    <3>2. CASE copy'[v] = copy[v]
      BY <2>f4, <3>1, <3>2 DEF Grown
    <3>3. CASE /\ copy'[v][ops[w].key] = ops[w].value
               /\ \A q \in Keys : q # ops[w].key =>
                      copy'[v][q] = IF IsStrictPrefix(q, ops[w].key) THEN -1 ELSE copy[v][q]
      BY <2>f3, <2>f4, <3>1, <3>3 DEF Grown
    <3> QED
      BY <1>f7, <3>2, <3>3
  <2>6. ASSUME NEW v \in Workspaces PROVE LockAt(v)'
    BY <1>1, <1>2, <2>1, <2>6, <1>f1, <1>f3, <1>f4, <1>f5, <1>f7, <2>f1, <2>f2, <2>f3, <2>f4,
       CoordTypes DEF LockAt
  <2>7. ASSUME NEW v \in Workspaces PROVE UpdateAt(v)'
    BY <1>1, <1>2, <2>1, <2>7, <1>f1, <1>f3, <1>f4, <1>f5, <1>f7, <2>f1, <2>f2, <2>f3, <2>f4,
       CoordTypes DEF UpdateAt, Locking
  <2>8. ASSUME NEW v \in Workspaces PROVE OpenAt(v)'
    <3>1. CASE v = w
      BY <1>f3, <3>1 DEF OpenAt
    <3>2. CASE v # w
      <4>1. /\ ops'[v] = ops[v] /\ acked' = acked /\ cleared' = cleared
            /\ ops[v].step \notin Locking /\ OpenAt(v)
        BY <1>2, <1>f4, <2>1, <2>f2, <3>2
      <4>2. ASSUME ops[v].step = "read", NEW q \in Keys
            PROVE  Fresh(copy[v][q], q, ops[v].since[q])'
        <5>1. /\ Fresh(copy[v][q], q, ops[v].since[q]) /\ ops[v].since[q] <= acked[q]
              /\ ops[v].since[q] \in Nat
          BY <1>1, <4>1, <4>2, OpKinds DEF OpenAt, Reading
        <5>2. /\ acked[q] \in Nat /\ cleared[q] \in Nat /\ copy[v][q] \in Int
              /\ ops[w].number \in Nat /\ ops[w].value \in Nat
          BY <1>1, <1>f1, CoordTypes
        <5>3. CASE copy'[v][q] = copy[v][q]
          BY <4>1, <5>1, <5>3 DEF Fresh
        <5>4. CASE q = ops[w].key /\ copy'[v][q] = ops[w].value
          BY <2>f3, <4>1, <5>1, <5>2, <5>4 DEF Fresh
        <5>5. CASE copy'[v][q] = -1 /\ copy[v][q] <= 0
          BY <4>1, <5>1, <5>2, <5>5 DEF Fresh
        <5> QED
          BY <1>f7, <5>3, <5>4, <5>5
      <4> QED
        BY <4>1, <4>2 DEF OpenAt, Locking, Fresh
    <3> QED
      BY <3>1, <3>2
  <2> QED
    BY <2>3, <2>4, <2>5, <2>6, <2>7, <2>8 DEF CoordInv
<1> QED
  BY <1>5, <1>6


(* What is acknowledged is the latest of its key. *)
LEMMA AcknowledgeGood ==
    ASSUME ForkInv, NEW w \in Workspaces, Acknowledge(w)
    PROVE  /\ ForkInv' /\ (RowsInv => RowsInv') /\ (MarkInv => MarkInv')
           /\ (CoordInv => CoordInv')
<1>1. TypeOK /\ \A v \in Workspaces : HomeAt(v)
  BY DEF ForkInv
<1>2. UNCHANGED << live, home, mark, snaps, held, rows, head, records, build, removing,
                   authority, tombstones, copy, cleared, spent, loose, reused>>
  BY DEF Acknowledge, trees, store, forkery, history
<1>f1. /\ ops[w].step = "propagate" /\ ops[w] \in Updates /\ ops[w].key \in Keys
       /\ ops[w].value \in Nat /\ ops[w].number \in Nat
  BY <1>1, OpKinds DEF Acknowledge, Updating
<1>f2. ops' = [ops EXCEPT ![w] = Idle] /\ lock' = None
  BY DEF Acknowledge
<1>f3. /\ ops' \in [Workspaces -> {Idle, Refused} \cup Updates \cup Opens \cup Answers]
       /\ ops'[w].step = "idle"
       /\ \A v \in Workspaces : v # w => ops'[v] = ops[v]
  BY <1>1, <1>f2 DEF TypeOK, Idle
<1>f4. lock' = None /\ lock' \in Workspaces \cup {None}
  BY <1>f2
<1>f5. /\ acked' \in [Keys -> Nat] /\ \A q \in Keys : q # ops[w].key => acked'[q] = acked[q]
       /\ acked'[ops[w].key] \in {acked[ops[w].key], ops[w].number}
  BY <1>1, <1>f1 DEF Acknowledge, TypeOK
<1>3. TypeOK'
  BY <1>1, <1>2, <1>f3, <1>f4, <1>f5 DEF TypeOK
<1>4. \A v \in Workspaces : ops'[v].step # "idle" => home[v] = "family"
  BY <1>1, <1>f1, <1>f3, <1>f4, <1>f5 DEF HomeAt
<1>5. ForkInv' /\ (RowsInv => RowsInv') /\ (MarkInv => MarkInv')
  BY <1>2, <1>3, <1>4, ForkFrame
<1>6. ASSUME CoordInv PROVE CoordInv'
  <2>1. /\ Grown(authority) /\ \A q \in Keys : AckAt(q)
        /\ \A v \in Workspaces : Grown(copy[v]) /\ LockAt(v) /\ UpdateAt(v) /\ OpenAt(v)
    BY <1>6 DEF CoordInv
  <2>f1. lock = w /\ UpdateAt(w)
    BY <2>1, <1>f1 DEF LockAt, UpdateAt
  <2>f2. \A v \in Workspaces : v # w => ops[v].step \notin Locking
    BY <2>1, <2>f1, PlaceFacts DEF LockAt, Locking
  <2>f3. /\ ops[w].key \in Touched /\ acked[ops[w].key] < ops[w].number
         /\ ops[w].number <= spent.ops
         /\ ops[w].value > 0 => authority[ops[w].key] = ops[w].number
         /\ ops[w].value = 0 => authority[ops[w].key] <= 0 /\ cleared[ops[w].key] = ops[w].number
    BY <1>1, <1>f1, <2>f1, CoordTypes DEF UpdateAt, Touched
  <2>f4. Touched' = Touched
    BY <1>2 DEF Touched
  <2>3. Grown(authority)'
    BY <1>1, <1>2, <2>1, <1>f1, <1>f3, <1>f4, <1>f5, <2>f1, <2>f2, <2>f3, <2>f4, CoordTypes
       DEF Grown
  <2>4. ASSUME NEW q \in Keys PROVE AckAt(q)'
    BY <1>1, <1>2, <2>1, <2>4, <1>f1, <1>f3, <1>f4, <1>f5, <2>f1, <2>f2, <2>f3, <2>f4, CoordTypes
       DEF AckAt, Fresh
  <2>5. ASSUME NEW v \in Workspaces PROVE Grown(copy[v])'
    BY <1>1, <1>2, <2>1, <2>5, <1>f1, <1>f3, <1>f4, <1>f5, <2>f1, <2>f2, <2>f3, <2>f4, CoordTypes
       DEF Grown
  <2>6. ASSUME NEW v \in Workspaces PROVE LockAt(v)'
    BY <1>1, <1>2, <2>1, <2>6, <1>f1, <1>f3, <1>f4, <1>f5, <2>f1, <2>f2, <2>f3, <2>f4, CoordTypes
       DEF LockAt, Locking
  <2>7. ASSUME NEW v \in Workspaces PROVE UpdateAt(v)'
    BY <1>1, <1>2, <2>1, <2>7, <1>f1, <1>f3, <1>f4, <1>f5, <2>f1, <2>f2, <2>f3, <2>f4, CoordTypes
       DEF UpdateAt, Locking
  <2>8. ASSUME NEW v \in Workspaces PROVE OpenAt(v)'
    <3>1. CASE v = w
      BY <1>f3, <3>1 DEF OpenAt
    <3>2. CASE v # w
      <4>1. /\ ops'[v] = ops[v] /\ copy' = copy /\ tombstones' = tombstones /\ cleared' = cleared
            /\ OpenAt(v)
        BY <1>2, <1>f3, <2>1, <3>2
      <4>2. \A q \in Keys : acked[q] \in Nat /\ acked'[q] \in Nat /\ acked[q] <= acked'[q]
        BY <1>1, <1>f1, <1>f5, <2>f3, CoordTypes
      <4>3. ops[v].step \in {"tombstones", "read", "answered"} => ops[v].since \in [Keys -> Nat]
        BY <1>1, OpKinds DEF Reading
      <4>4. ops[v].step \in {"tombstones", "read", "answered"} =>
                \A q \in Keys : ops[v].since[q] <= acked'[q]
        BY <4>1, <4>2, <4>3 DEF OpenAt
      <4> QED
        BY <4>1, <4>4 DEF OpenAt, Fresh
    <3> QED
      BY <3>1, <3>2
  <2> QED
    BY <2>3, <2>4, <2>5, <2>6, <2>7, <2>8 DEF CoordInv
<1> QED
  BY <1>5, <1>6


(* A command begins to reconcile. *)
LEMMA OpenWorkspaceGood ==
    ASSUME ForkInv, NEW w \in Workspaces, OpenWorkspace(w)
    PROVE  /\ ForkInv' /\ (RowsInv => RowsInv') /\ (MarkInv => MarkInv')
           /\ (CoordInv => CoordInv')
<1>1. TypeOK /\ \A v \in Workspaces : HomeAt(v)
  BY DEF ForkInv
<1>2. UNCHANGED << live, home, mark, snaps, held, rows, head, records, build, removing,
                   authority, tombstones, copy, acked, cleared, spent, loose, reused>>
  BY DEF OpenWorkspace, Start, trees, store, forkery, history
<1>f1. /\ lock = None /\ lock' = w /\ ops[w].step = "idle" /\ home[w] = "family"
       /\ lock' \in Workspaces \cup {None}
  BY DEF OpenWorkspace, Start, Member
<1>f2. PICK op : /\ op = [step |-> "tombstones", since |-> acked, todo |-> tombstones]
                 /\ ops' = [ops EXCEPT ![w] = op]
  BY DEF OpenWorkspace
<1>f3. op.step = "tombstones" /\ op.since = acked /\ op.todo = tombstones /\ op \in Opens
  BY <1>1, <1>f2 DEF Opens, TypeOK
<1>f4. /\ ops' \in [Workspaces -> {Idle, Refused} \cup Updates \cup Opens \cup Answers]
       /\ ops'[w] = op
       /\ \A v \in Workspaces : v # w => ops'[v] = ops[v]
  BY <1>1, <1>f2, <1>f3 DEF TypeOK
<1>3. TypeOK'
  BY <1>1, <1>2, <1>f1, <1>f4 DEF TypeOK
<1>4. \A v \in Workspaces : ops'[v].step # "idle" => home[v] = "family"
  BY <1>1, <1>f1, <1>f3, <1>f4 DEF HomeAt
<1>5. ForkInv' /\ (RowsInv => RowsInv') /\ (MarkInv => MarkInv')
  BY <1>2, <1>3, <1>4, ForkFrame
<1>6. ASSUME CoordInv PROVE CoordInv'
  <2>1. /\ Grown(authority) /\ \A q \in Keys : AckAt(q)
        /\ \A v \in Workspaces : Grown(copy[v]) /\ LockAt(v) /\ UpdateAt(v) /\ OpenAt(v)
    BY <1>6 DEF CoordInv
  <2>f1. \A v \in Workspaces : v # w => ops[v].step \notin Locking
    BY <2>1, <1>f1, PlaceFacts DEF LockAt, Locking
  <2>f2. Touched' = Touched
    BY <1>2 DEF Touched
  <2>3. Grown(authority)'
    BY <1>1, <1>2, <2>1, <1>f1, <1>f3, <1>f4, <2>f1, <2>f2, CoordTypes DEF Grown
  <2>4. ASSUME NEW q \in Keys PROVE AckAt(q)'
    BY <1>1, <1>2, <2>1, <2>4, <1>f1, <1>f3, <1>f4, <2>f1, <2>f2, CoordTypes DEF AckAt, Fresh
  <2>5. ASSUME NEW v \in Workspaces PROVE Grown(copy[v])'
    BY <1>1, <1>2, <2>1, <2>5, <1>f1, <1>f3, <1>f4, <2>f1, <2>f2, CoordTypes DEF Grown
  <2>6. ASSUME NEW v \in Workspaces PROVE LockAt(v)'
    BY <1>1, <1>2, <2>1, <2>6, <1>f1, <1>f3, <1>f4, <2>f1, <2>f2, CoordTypes DEF LockAt, Locking
  <2>7. ASSUME NEW v \in Workspaces PROVE UpdateAt(v)'
    BY <1>1, <1>2, <2>1, <2>7, <1>f1, <1>f3, <1>f4, <2>f1, <2>f2, CoordTypes DEF UpdateAt, Locking
  <2>8. ASSUME NEW v \in Workspaces PROVE OpenAt(v)'
    BY <1>1, <1>2, <2>1, <2>8, <1>f1, <1>f3, <1>f4, <2>f1, <2>f2, CoordTypes DEF OpenAt, Fresh
  <2> QED
    BY <2>3, <2>4, <2>5, <2>6, <2>7, <2>8 DEF CoordInv
<1> QED
  BY <1>5, <1>6


(* The key of a tombstone is gone from the copy, or the open is refused. *)
LEMMA ApplyTombstoneGood ==
    ASSUME ForkInv, NEW w \in Workspaces, NEW k \in Keys, ApplyTombstone(w, k)
    PROVE  /\ ForkInv' /\ (RowsInv => RowsInv') /\ (MarkInv => MarkInv')
           /\ (CoordInv => CoordInv')
<1>1. TypeOK /\ \A v \in Workspaces : HomeAt(v)
  BY DEF ForkInv
<1>2. UNCHANGED << live, home, mark, snaps, held, rows, head, records, build, removing, authority,
                  tombstones, acked, cleared, spent, loose, reused>>
  BY DEF ApplyTombstone, trees, store, forkery, history
<1>f1. /\ ops[w].step = "tombstones" /\ ops[w].since \in [Keys -> Nat] /\ k \in ops[w].todo
       /\ ops[w] \in [step : {"tombstones"}, since : [Keys -> Nat], todo : SUBSET Keys]
  BY <1>1, OpKinds DEF ApplyTombstone, Reading
<1>f2. /\ ops' \in [Workspaces -> {Idle, Refused} \cup Updates \cup Opens \cup Answers]
       /\ copy' \in [Workspaces -> [Keys -> Int]] /\ lock' \in {lock, None}
       /\ \A v \in Workspaces : v # w => ops'[v] = ops[v] /\ copy'[v] = copy[v]
       /\ \/ ops'[w].step = "refused" /\ copy'[w] = copy[w]
          \/ /\ ops'[w].step = "tombstones" /\ ops'[w].since = ops[w].since /\ lock' = lock
             /\ ops'[w].todo = ops[w].todo \ {k} /\ copy'[w][k] = 0
             /\ \A q \in Keys : q # k =>
                    copy'[w][q] = IF IsStrictPrefix(q, k) THEN -1 ELSE copy[w][q]
  <2>1. CASE Removable(copy[w], k)
    <3> DEFINE op == [ops[w] EXCEPT !.todo = ops[w].todo \ {k}]
               tree == Removed(copy[w], k)
    <3>1. ops' = [ops EXCEPT ![w] = op] /\ copy' = [copy EXCEPT ![w] = tree] /\ lock' = lock
      BY <1>1, <2>1 DEF ApplyTombstone, TypeOK
    <3>2. /\ op \in Opens /\ op.step = "tombstones" /\ op.since = ops[w].since
          /\ op.todo = ops[w].todo \ {k}
      BY <1>f1 DEF Opens
    <3>3. /\ WithParents(copy[w], k) \in [Keys -> Int]
          /\ \A q \in Keys : WithParents(copy[w], k)[q] = IF IsStrictPrefix(q, k) THEN -1 ELSE copy[w][q]
      BY <1>1 DEF TypeOK, WithParents
    <3>4. /\ tree \in [Keys -> Int] /\ tree[k] = 0
          /\ \A q \in Keys : q # k => tree[q] = IF IsStrictPrefix(q, k) THEN -1 ELSE copy[w][q]
      BY <3>3 DEF Removed
    <3> HIDE DEF op, tree
    <3>5. /\ ops' \in [Workspaces -> {Idle, Refused} \cup Updates \cup Opens \cup Answers]
          /\ ops'[w] = op /\ \A v \in Workspaces : v # w => ops'[v] = ops[v]
      BY <1>1, <3>1, <3>2 DEF TypeOK
    <3>6. /\ copy' \in [Workspaces -> [Keys -> Int]] /\ copy'[w] = tree
          /\ \A v \in Workspaces : v # w => copy'[v] = copy[v]
      BY <1>1, <3>1, <3>4 DEF TypeOK
    <3> QED
      BY <3>1, <3>2, <3>4, <3>5, <3>6
  <2>2. CASE ~Removable(copy[w], k)
    <3>1. ops' = [ops EXCEPT ![w] = Refused] /\ copy' = copy /\ lock' = None
      BY <2>2 DEF ApplyTombstone, Refused
    <3>2. /\ ops' \in [Workspaces -> {Idle, Refused} \cup Updates \cup Opens \cup Answers]
          /\ ops'[w].step = "refused" /\ \A v \in Workspaces : v # w => ops'[v] = ops[v]
      BY <1>1, <3>1 DEF TypeOK, Refused
    <3> QED
      BY <1>1, <3>1, <3>2 DEF TypeOK
  <2> QED
    BY <2>1, <2>2
<1>f3. \A v \in Workspaces : v # w => ops'[v] = ops[v] /\ copy'[v] = copy[v]
  BY <1>f2
<1>f4. lock' \in Workspaces \cup {None}
  BY <1>1, <1>f2 DEF TypeOK
<1>3. TypeOK'
  BY <1>1, <1>2, <1>f2, <1>f4 DEF TypeOK
<1>4. \A v \in Workspaces : ops'[v].step # "idle" => home[v] = "family"
  BY <1>1, <1>f1, <1>f3 DEF HomeAt
<1>5. ForkInv' /\ (RowsInv => RowsInv') /\ (MarkInv => MarkInv')
  BY <1>2, <1>3, <1>4, ForkFrame
<1>6. ASSUME CoordInv PROVE CoordInv'
  <2>1. /\ Grown(authority) /\ \A q \in Keys : AckAt(q)
        /\ \A v \in Workspaces : Grown(copy[v]) /\ LockAt(v) /\ UpdateAt(v) /\ OpenAt(v)
    BY <1>6 DEF CoordInv
  <2>f1. lock = w /\ OpenAt(w)
    BY <2>1, <1>f1 DEF LockAt
  <2>f2. \A v \in Workspaces : v # w => ops[v].step \notin Locking
    BY <2>1, <2>f1, PlaceFacts DEF LockAt, Locking
  <2>f3. Touched' = Touched
    BY <1>2 DEF Touched
  <2>f4. /\ \A q \in Keys : ops[w].since[q] <= acked[q]
         /\ ops[w].todo \subseteq tombstones
         /\ \A q \in tombstones \ ops[w].todo : copy[w][q] <= 0
    BY <1>f1, <2>f1 DEF OpenAt
  <2>f5. k \in tombstones /\ k \in Touched
    BY <1>f1, <2>f4 DEF Touched
  <2>3. Grown(authority)'
    BY <1>2, <2>1, <2>f3 DEF Grown
  <2>4. ASSUME NEW q \in Keys PROVE AckAt(q)'
    BY <1>2, <2>1, <2>4, <2>f3 DEF AckAt, Fresh
  <2>5. ASSUME NEW v \in Workspaces PROVE Grown(copy[v])'
    <3>1. CASE copy'[v] = copy[v]
      BY <2>1, <2>f3, <3>1 DEF Grown
    <3>2. CASE /\ v = w /\ copy'[w][k] = 0
               /\ \A q \in Keys : q # k =>
                      copy'[w][q] = IF IsStrictPrefix(q, k) THEN -1 ELSE copy[w][q]
      BY <2>1, <2>f3, <2>f5, <3>2 DEF Grown
    <3> QED
      BY <1>f2, <3>1, <3>2
  <2>6. ASSUME NEW v \in Workspaces PROVE LockAt(v)'
    BY <2>1, <2>6, <1>f2, <2>f1, <2>f2 DEF LockAt, Locking
  <2>7. ASSUME NEW v \in Workspaces PROVE UpdateAt(v)'
    BY <1>2, <2>1, <2>7, <1>f2, <2>f2 DEF UpdateAt, Locking
  <2>8. ASSUME NEW v \in Workspaces PROVE OpenAt(v)'
    <3>1. CASE v # w
      BY <1>2, <1>f3, <2>1, <3>1 DEF OpenAt, Fresh
    <3>2. CASE v = w /\ ops'[w].step = "refused"
      BY <3>2 DEF OpenAt
    <3>3. CASE /\ v = w /\ ops'[w].step = "tombstones" /\ ops'[w].since = ops[w].since
               /\ ops'[w].todo = ops[w].todo \ {k} /\ copy'[w][k] = 0
               /\ \A q \in Keys : q # k =>
                      copy'[w][q] = IF IsStrictPrefix(q, k) THEN -1 ELSE copy[w][q]
      <4>1. ASSUME NEW q \in tombstones \ (ops[w].todo \ {k}) PROVE copy'[w][q] <= 0
        <5>1. q \in Keys /\ copy[w][q] \in Int
          BY <1>1, CoordTypes
        <5>2. CASE q = k
          BY <3>3, <5>2
        <5>3. CASE q # k
          BY <2>f4, <3>3, <5>1, <5>3
        <5> QED
          BY <5>2, <5>3
      <4>2. ops[w].todo \ {k} \subseteq tombstones
        BY <2>f4
      <4> QED
        BY <1>2, <2>f4, <3>3, <4>1, <4>2 DEF OpenAt
    <3> QED
      BY <1>f2, <3>1, <3>2, <3>3
  <2> QED
    BY <2>3, <2>4, <2>5, <2>6, <2>7, <2>8 DEF CoordInv
<1> QED
  BY <1>5, <1>6


(* What is copied is what the family has; what is not there is removed. *)
LEMMA CopyFilesGood ==
    ASSUME ForkInv, NEW w \in Workspaces, CopyFiles(w)
    PROVE  /\ ForkInv' /\ (RowsInv => RowsInv') /\ (MarkInv => MarkInv')
           /\ (CoordInv => CoordInv')
<1>1. TypeOK /\ \A v \in Workspaces : HomeAt(v)
  BY DEF ForkInv
<1>2. UNCHANGED << live, home, mark, snaps, held, rows, head, records, build, removing, authority,
                  tombstones, acked, cleared, spent, loose, reused>>
  BY DEF CopyFiles, trees, store, forkery, history
<1>f1. /\ ops[w].step = "tombstones" /\ ops[w].since \in [Keys -> Nat] /\ ops[w].todo = {}
       /\ ops[w] \in [step : {"tombstones"}, since : [Keys -> Nat], todo : SUBSET Keys]
  BY <1>1, OpKinds DEF CopyFiles, Reading
<1>f2. PICK done \in SUBSET Files(authority) :
           /\ copy' = [copy EXCEPT ![w] = WithFiles(copy[w], done)]
           /\ \/ ops' = [ops EXCEPT ![w] = Refused]
              \/ /\ done = Files(authority)
                 /\ ops' = [ops EXCEPT ![w] = [step |-> "read", since |-> ops[w].since]]
  BY <1>1 DEF CopyFiles, Refused, TypeOK
<1>f3. /\ copy' \in [Workspaces -> [Keys -> Int]]
       /\ \A v \in Workspaces : v # w => copy'[v] = copy[v]
       /\ \A q \in Keys : copy'[w][q] = IF q \in done THEN authority[q]
                            ELSE IF \E f \in done : IsStrictPrefix(q, f) THEN -1 ELSE copy[w][q]
  <2> DEFINE tree == WithFiles(copy[w], done)
  <2>1. /\ tree \in [Keys -> Int]
        /\ \A q \in Keys : tree[q] = IF q \in done THEN authority[q]
                             ELSE IF \E f \in done : IsStrictPrefix(q, f) THEN -1 ELSE copy[w][q]
    BY <1>1 DEF WithFiles, TypeOK
  <2>2. copy' = [copy EXCEPT ![w] = tree]
    BY <1>f2
  <2> HIDE DEF tree
  <2> QED
    BY <1>1, <2>1, <2>2 DEF TypeOK
<1>f4. /\ ops' \in [Workspaces -> {Idle, Refused} \cup Updates \cup Opens \cup Answers]
       /\ \A v \in Workspaces : v # w => ops'[v] = ops[v]
       /\ \/ ops'[w].step = "refused"
          \/ /\ ops'[w].step = "read" /\ ops'[w].since = ops[w].since
             /\ done = Files(authority)
  <2>1. CASE ops' = [ops EXCEPT ![w] = Refused]
    BY <1>1, <2>1 DEF TypeOK, Refused
  <2>2. CASE /\ done = Files(authority)
             /\ ops' = [ops EXCEPT ![w] = [step |-> "read", since |-> ops[w].since]]
    <3>1. [step |-> "read", since |-> ops[w].since] \in Opens
      BY <1>f1 DEF Opens
    <3> QED
      BY <1>1, <2>2, <3>1 DEF TypeOK
  <2> QED
    BY <1>f2, <2>1, <2>2
<1>f5. lock' = None /\ lock' \in Workspaces \cup {None}
  BY DEF CopyFiles
<1>3. TypeOK'
  BY <1>1, <1>2, <1>f3, <1>f4, <1>f5 DEF TypeOK
<1>4. \A v \in Workspaces : ops'[v].step # "idle" => home[v] = "family"
  BY <1>1, <1>f1, <1>f4, <1>f5 DEF HomeAt
<1>5. ForkInv' /\ (RowsInv => RowsInv') /\ (MarkInv => MarkInv')
  BY <1>2, <1>3, <1>4, ForkFrame
<1>6. ASSUME CoordInv PROVE CoordInv'
  <2>1. /\ Grown(authority) /\ \A q \in Keys : AckAt(q)
        /\ \A v \in Workspaces : Grown(copy[v]) /\ LockAt(v) /\ UpdateAt(v) /\ OpenAt(v)
    BY <1>6 DEF CoordInv
  <2>f1. lock = w /\ OpenAt(w)
    BY <2>1, <1>f1 DEF LockAt
  <2>f2. \A v \in Workspaces : v # w => ops[v].step \notin Locking
    BY <2>1, <2>f1, PlaceFacts DEF LockAt, Locking
  <2>f3. Touched' = Touched
    BY <1>2 DEF Touched
  <2>f4. done \subseteq Touched /\ \A q \in done : q \in Keys /\ authority[q] > 0
    BY <1>f2 DEF Touched, Files
  <2>3. Grown(authority)'
    BY <1>2, <2>1, <2>f3 DEF Grown
  <2>4. ASSUME NEW q \in Keys PROVE AckAt(q)'
    BY <1>2, <2>1, <2>4, <2>f3 DEF AckAt, Fresh
  <2>5. ASSUME NEW v \in Workspaces PROVE Grown(copy[v])'
    <3>1. CASE v # w
      BY <1>f3, <2>1, <2>f3, <3>1 DEF Grown
    <3>2. CASE v = w
      BY <1>1, <1>f3, <2>1, <2>f3, <2>f4, <3>2, CoordTypes DEF Grown
    <3> QED
      BY <3>1, <3>2
  <2>6. ASSUME NEW v \in Workspaces PROVE LockAt(v)'
    BY <2>1, <2>6, <1>f4, <2>f1, <2>f2 DEF LockAt, Locking
  <2>7. ASSUME NEW v \in Workspaces PROVE UpdateAt(v)'
    BY <1>2, <2>1, <2>7, <1>f4, <2>f2 DEF UpdateAt, Locking
  <2>8. ASSUME NEW v \in Workspaces PROVE OpenAt(v)'
    <3>1. CASE v = w /\ ops'[w].step = "read" /\ ops'[w].since = ops[w].since /\ done = Files(authority)
      <4>1. ASSUME NEW q \in Keys
            PROVE  Fresh(copy[w][q], q, ops[w].since[q])'
        <5>1. /\ ops[w].since[q] <= acked[q] /\ (q \in tombstones => copy[w][q] <= 0)
              /\ ops[w].since[q] \in Nat /\ acked[q] \in Nat /\ cleared[q] \in Nat
              /\ authority[q] \in Int /\ copy[w][q] \in Int
          BY <1>1, <1>f1, <2>f1, CoordTypes DEF OpenAt
        <5>2. Fresh(authority[q], q, acked[q])
          BY <2>1 DEF AckAt
        <5>3. cleared' = cleared /\ ops'[w].since[q] = ops[w].since[q]
          BY <1>2, <3>1
        <5>4. CASE q \in done
          <6>1. copy'[w][q] = authority[q] /\ authority[q] > 0
            BY <1>f3, <2>f4, <5>4
          <6> QED
            BY <5>1, <5>2, <5>3, <6>1 DEF Fresh
        <5>5. CASE q \notin done
          <6>1. copy'[w][q] = -1 \/ copy'[w][q] = copy[w][q]
            BY <1>f3, <5>5
          <6>2. authority[q] <= 0
            BY <3>1, <5>1, <5>5 DEF Files
          <6>3. copy[w][q] <= 0
            BY <2>1, <5>1, <6>2 DEF Grown, Touched
          <6>4. ops[w].since[q] = 0 \/ cleared[q] >= ops[w].since[q]
            BY <5>1, <5>2, <6>2 DEF Fresh
          <6> QED
            BY <5>1, <5>3, <6>1, <6>3, <6>4 DEF Fresh
        <5> QED
          BY <5>4, <5>5
      <4>2. acked' = acked /\ \A q \in Keys : ops[w].since[q] <= acked[q]
        BY <1>2, <1>f1, <2>f1 DEF OpenAt
      <4> QED
        BY <3>1, <4>1, <4>2 DEF OpenAt
    <3>2. CASE v = w /\ ops'[w].step = "refused"
      BY <3>2 DEF OpenAt
    <3>3. CASE v # w
      BY <1>2, <1>f3, <1>f4, <2>1, <3>3 DEF OpenAt, Fresh
    <3> QED
      BY <1>f4, <3>1, <3>2, <3>3
  <2> QED
    BY <2>3, <2>4, <2>5, <2>6, <2>7, <2>8 DEF CoordInv
<1> QED
  BY <1>5, <1>6


(* What is read is as fresh as the copy. *)
LEMMA ReadCopyGood ==
    ASSUME ForkInv, NEW w \in Workspaces, ReadCopy(w)
    PROVE  /\ ForkInv' /\ (RowsInv => RowsInv') /\ (MarkInv => MarkInv')
           /\ (CoordInv => CoordInv')
<1>1. TypeOK /\ \A v \in Workspaces : HomeAt(v)
  BY DEF ForkInv
<1>2. UNCHANGED << live, home, mark, snaps, held, rows, head, records, build, removing,
                   authority, tombstones, copy, acked, cleared, spent, loose, reused>>
  BY DEF ReadCopy, trees, store, forkery, history
<1>f1. ops[w].step = "read" /\ ops[w] \in Opens /\ ops[w].since \in [Keys -> Nat]
  BY <1>1, OpKinds DEF ReadCopy, Reading
<1>f2. PICK op : op = [step |-> "answered", since |-> ops[w].since, got |-> copy[w]] /\ ops' = [ops EXCEPT ![w] = op]
  BY <1>1 DEF ReadCopy, TypeOK
<1>f3. op.step = "answered" /\ op.since = ops[w].since /\ op.got = copy[w] /\ op \in Answers
  BY <1>1, <1>f1, <1>f2 DEF Answers, TypeOK
<1>f4. /\ ops' \in [Workspaces -> {Idle, Refused} \cup Updates \cup Opens \cup Answers]
       /\ ops'[w] = op
       /\ \A v \in Workspaces : v # w => ops'[v] = ops[v]
  BY <1>1, <1>f2, <1>f3 DEF TypeOK
<1>f5. lock' \in Workspaces \cup {None} /\ lock' = (IF lock = w THEN None ELSE lock)
  BY <1>1 DEF ReadCopy, TypeOK
<1>3. TypeOK'
  BY <1>1, <1>2, <1>f4, <1>f5 DEF TypeOK
<1>4. \A v \in Workspaces : ops'[v].step # "idle" => home[v] = "family"
  BY <1>1, <1>f1, <1>f3, <1>f4, <1>f5 DEF HomeAt
<1>5. ForkInv' /\ (RowsInv => RowsInv') /\ (MarkInv => MarkInv')
  BY <1>2, <1>3, <1>4, ForkFrame
<1>6. ASSUME CoordInv PROVE CoordInv'
  <2>1. /\ Grown(authority) /\ \A q \in Keys : AckAt(q)
        /\ \A v \in Workspaces : Grown(copy[v]) /\ LockAt(v) /\ UpdateAt(v) /\ OpenAt(v)
    BY <1>6 DEF CoordInv
  <2>f1. Touched' = Touched
    BY <1>2 DEF Touched
  <2>3. Grown(authority)'
    BY <1>1, <1>2, <2>1, <1>f1, <1>f3, <1>f4, <1>f5, <2>f1, CoordTypes DEF Grown
  <2>4. ASSUME NEW q \in Keys PROVE AckAt(q)'
    BY <1>1, <1>2, <2>1, <2>4, <1>f1, <1>f3, <1>f4, <1>f5, <2>f1, CoordTypes DEF AckAt, Fresh
  <2>5. ASSUME NEW v \in Workspaces PROVE Grown(copy[v])'
    BY <1>1, <1>2, <2>1, <2>5, <1>f1, <1>f3, <1>f4, <1>f5, <2>f1, CoordTypes DEF Grown
  <2>6. ASSUME NEW v \in Workspaces PROVE LockAt(v)'
    BY <1>1, <1>2, <2>1, <2>6, <1>f1, <1>f3, <1>f4, <1>f5, <2>f1, CoordTypes DEF LockAt
  <2>7. ASSUME NEW v \in Workspaces PROVE UpdateAt(v)'
    BY <1>1, <1>2, <2>1, <2>7, <1>f1, <1>f3, <1>f4, <1>f5, <2>f1, CoordTypes DEF UpdateAt
  <2>8. ASSUME NEW v \in Workspaces PROVE OpenAt(v)'
    BY <1>1, <1>2, <2>1, <2>8, <1>f1, <1>f3, <1>f4, <1>f5, <2>f1, CoordTypes DEF OpenAt, Fresh
  <2> QED
    BY <2>3, <2>4, <2>5, <2>6, <2>7, <2>8 DEF CoordInv
<1> QED
  BY <1>5, <1>6


(* A command ends. *)
LEMMA EndCommandGood ==
    ASSUME ForkInv, NEW w \in Workspaces, EndCommand(w)
    PROVE  /\ ForkInv' /\ (RowsInv => RowsInv') /\ (MarkInv => MarkInv')
           /\ Calm
<1>1. TypeOK /\ \A v \in Workspaces : HomeAt(v)
  BY DEF ForkInv
<1>2. UNCHANGED << live, home, mark, snaps, held, rows, head, records, build, removing,
                   authority, tombstones, copy, lock, acked, cleared, spent, loose, reused>>
  BY DEF EndCommand, trees, store, forkery, history
<1>f1. ops[w].step # "idle"
  BY DEF EndCommand
<1>f2. ops' = [ops EXCEPT ![w] = Idle]
  BY DEF EndCommand
<1>f3. /\ ops' \in [Workspaces -> {Idle, Refused} \cup Updates \cup Opens \cup Answers]
       /\ ops'[w].step = "idle"
       /\ \A v \in Workspaces : v # w => ops'[v] = ops[v]
  BY <1>1, <1>f2 DEF TypeOK, Idle
<1>3. TypeOK'
  BY <1>1, <1>2, <1>f3 DEF TypeOK
<1>4. \A v \in Workspaces : ops'[v].step # "idle" => home[v] = "family"
  BY <1>1, <1>f1, <1>f3 DEF HomeAt
<1>5. ForkInv' /\ (RowsInv => RowsInv') /\ (MarkInv => MarkInv')
  BY <1>2, <1>3, <1>4, ForkFrame
<1>6. Calm
  BY <1>2, <1>f3 DEF Calm
<1> QED
  BY <1>5, <1>6


(* A command is killed, and the system lets go of its lock. *)
LEMMA KillCommandGood ==
    ASSUME ForkInv, NEW w \in Workspaces, KillCommand(w)
    PROVE  /\ ForkInv' /\ (RowsInv => RowsInv') /\ (MarkInv => MarkInv')
           /\ Calm
<1>1. TypeOK /\ \A v \in Workspaces : HomeAt(v)
  BY DEF ForkInv
<1>2. UNCHANGED << live, home, mark, snaps, held, rows, head, records, build, removing,
                   authority, tombstones, copy, acked, cleared, loose, reused>>
  BY DEF KillCommand, trees, store, forkery, history
<1>f1. ops[w].step # "idle"
  BY DEF KillCommand
<1>f2. ops' = [ops EXCEPT ![w] = Idle]
  BY DEF KillCommand
<1>f3. /\ ops' \in [Workspaces -> {Idle, Refused} \cup Updates \cup Opens \cup Answers]
       /\ ops'[w].step = "idle"
       /\ \A v \in Workspaces : v # w => ops'[v] = ops[v]
  BY <1>1, <1>f2 DEF TypeOK, Idle
<1>f4. lock' \in Workspaces \cup {None} /\ lock' = (IF lock = w THEN None ELSE lock)
  BY <1>1 DEF KillCommand, TypeOK
<1>f5. /\ spent' \in [forks : Nat, edits : Nat, ops : Nat, removals : Nat, faults : Nat]
       /\ spent'.ops = spent.ops
  BY <1>1, SpendFacts DEF KillCommand
<1>3. TypeOK'
  BY <1>1, <1>2, <1>f3, <1>f4, <1>f5 DEF TypeOK
<1>4. \A v \in Workspaces : ops'[v].step # "idle" => home[v] = "family"
  BY <1>1, <1>f1, <1>f3, <1>f4 DEF HomeAt
<1>5. ForkInv' /\ (RowsInv => RowsInv') /\ (MarkInv => MarkInv')
  BY <1>2, <1>3, <1>4, ForkFrame
<1>6. Calm
  BY <1>2, <1>f3, <1>f4, <1>f5 DEF Calm
<1> QED
  BY <1>5, <1>6

(***************************************************************************)
(* What keeps every workspace one that can be opened.                      *)
(***************************************************************************)

(* What happened stays noted. *)
LEMMA RacesGrow ==
    ASSUME [Next]_vars
    PROVE  races \subseteq races'
<1>1. ASSUME NEW d \in Forks, Forking(d) PROVE races' = races
  BY <1>1 DEF Forking, Prepare, PrepareAt, Begin, Compare, CloneHierarchy, Rename, CaptureFork, Verify,
     AttachClone, AdoptFamily, Record, AbandonFork, CopyFile, history
<1>2. ASSUME NEW n \in Names, Removing(n) PROVE races' = races
  BY <1>2 DEF Removing, Forget, RemoveDirectory, RemoveRecord, AbandonRemoval, history
<1>3. ASSUME NEW w \in Workspaces, Coordinating(w) PROVE races \subseteq races'
  BY <1>3 DEF Coordinating, WriteAuthority, WriteTombstone, ClearTombstone, RemoveAuthority, Acknowledge,
     Propagate, OpenWorkspace, ApplyTombstone, CopyFiles, ReadCopy, EndCommand, KillCommand, history
<1>4. ASSUME NEW d \in Forks, Delete(d) PROVE races' = races
  BY <1>4 DEF Delete, history
<1>5. ASSUME NEW w \in Workspaces, NEW p \in Paths, NEW content \in Contents, Edit(w, p, content)
      PROVE  races' = races
  BY <1>5 DEF Edit
<1>6. Collect \/ UNCHANGED vars => races' = races
  BY DEF Collect, vars
<1> QED
  BY <1>1, <1>2, <1>3, <1>4, <1>5, <1>6 DEF Next

(* A step that changes neither the family's files nor their tombstones keeps
   them apart and few. *)
LEMMA OpenFrame ==
    ASSUME OpenInv, UNCHANGED <<authority, tombstones>>,
           \A v \in Workspaces : ops'[v] = ops[v] \/ ops'[v].step # "refused"
    PROVE  OpenInv'
<1>1. KeysApart' /\ ~TooMany(authority)'
  BY DEF OpenInv, KeysApart, Touched, TooMany, Files
<1>2. \A v \in Workspaces : ops'[v].step # "refused"
  BY DEF OpenInv
<1> QED
  BY <1>1, <1>2 DEF OpenInv

(* So does one of the fork half, or the end of a command. *)
LEMMA CalmOpens ==
    ASSUME OpenInv, Calm
    PROVE  OpenInv'
<1>1. /\ UNCHANGED <<authority, tombstones>>
      /\ \A v \in Workspaces : ops'[v] = ops[v] \/ ops'[v].step = "idle"
  BY DEF Calm
<1> QED
  BY <1>1, OpenFrame

(* A file is written apart from the other keys, and few enough are there. *)
LEMMA WriteAuthorityOpens ==
    ASSUME TypeOK, OpenInv, NEW w \in Workspaces, NEW k \in Keys, WriteAuthority(w, k), races' = {}
    PROVE  OpenInv'
<1>1. ~Nested(k) /\ ~TooMany(authority')
  BY DEF WriteAuthority, When
<1>2. \A q \in Touched : ~IsStrictPrefix(q, k) /\ ~IsStrictPrefix(k, q)
  BY <1>1 DEF Nested, Touched
<1>3. Touched' \subseteq Touched \cup {k}
  <2>1. authority' = [WithParents(authority, k) EXCEPT ![k] = spent.ops + 1] /\ tombstones' = tombstones
    BY DEF WriteAuthority, Written
  <2>2. \A q \in Keys : q # k => authority'[q] = -1 \/ authority'[q] = authority[q]
    BY <2>1 DEF WithParents
  <2> QED
    BY <2>1, <2>2 DEF Touched
<1>4. KeysApart'
  <2>1. ASSUME NEW q \in Touched', NEW t \in Touched' PROVE ~IsStrictPrefix(q, t)
    BY <1>2, <1>3, StrictFacts DEF OpenInv, KeysApart
  <2> QED
    BY <2>1 DEF KeysApart
<1>5. \A v \in Workspaces : ops'[v].step # "refused"
  BY DEF WriteAuthority, OpenInv, TypeOK
<1> QED
  BY <1>1, <1>4, <1>5 DEF OpenInv, TooMany, Files

(* So is a tombstone. *)
LEMMA WriteTombstoneOpens ==
    ASSUME TypeOK, OpenInv, NEW w \in Workspaces, NEW k \in Keys, WriteTombstone(w, k), races' = {}
    PROVE  OpenInv'
<1>1. ~Nested(k)
  BY DEF WriteTombstone, When
<1>2. \A q \in Touched : ~IsStrictPrefix(q, k) /\ ~IsStrictPrefix(k, q)
  BY <1>1 DEF Nested, Touched
<1>3. Touched' \subseteq Touched \cup {k} /\ authority' = authority
  BY DEF WriteTombstone, Touched
<1>4. KeysApart'
  <2>1. ASSUME NEW q \in Touched', NEW t \in Touched' PROVE ~IsStrictPrefix(q, t)
    BY <1>2, <1>3, StrictFacts DEF OpenInv, KeysApart
  <2> QED
    BY <2>1 DEF KeysApart
<1>5. \A v \in Workspaces : ops'[v].step # "refused"
  BY DEF WriteTombstone, OpenInv, TypeOK
<1>6. ~TooMany(authority)'
  BY <1>3 DEF OpenInv, TooMany, Files
<1> QED
  BY <1>4, <1>5, <1>6 DEF OpenInv

(* What is removed leaves fewer keys and files. *)
LEMMA RemovalOpens ==
    ASSUME TypeOK, OpenInv, NEW w \in Workspaces, ClearTombstone(w) \/ RemoveAuthority(w)
    PROVE  OpenInv'
<1>1. \A q \in Keys : /\ authority'[q] > 0 => authority[q] > 0
                      /\ q \in tombstones' => q \in tombstones
  <2>1. CASE ClearTombstone(w)
    BY <2>1 DEF ClearTombstone
  <2>2. CASE RemoveAuthority(w)
    <3>1. authority' = authority \/ authority' = [authority EXCEPT ![ops[w].key] = 0]
      BY <2>2 DEF RemoveAuthority
    <3>2. tombstones' = tombstones /\ authority \in [Keys -> Int]
      BY <2>2 DEF RemoveAuthority, TypeOK
    <3> QED
      BY <3>1, <3>2
  <2> QED
    BY <2>1, <2>2
<1>2. Touched' \subseteq Touched /\ Files(authority') \subseteq Files(authority)
  BY <1>1 DEF Touched, Files
<1>3. KeysApart'
  BY <1>2 DEF OpenInv, KeysApart
<1>4. ~TooMany(authority')
  <2>1. IsFiniteSet(Files(authority)) /\ MaxCoordFiles \in Nat
    <3>1. Files(authority) \subseteq Keys
      BY DEF Files
    <3> QED
      BY <3>1, KeysAssumption, FS_Subset
  <2>2. /\ Cardinality(Files(authority')) <= Cardinality(Files(authority))
        /\ Cardinality(Files(authority)) \in Nat /\ Cardinality(Files(authority')) \in Nat
    BY <1>2, <2>1, FS_Subset, FS_CardinalityType
  <2> QED
    BY <2>1, <2>2 DEF OpenInv, TooMany
<1>5. \A v \in Workspaces : ops'[v].step # "refused"
  <2>1. \A v \in Workspaces : \/ ops'[v] = ops[v] \/ ops'[v].step \in {"idle", "propagate"}
    <3>1. CASE ClearTombstone(w)
      <4>1. ops[w] \in Updates
        BY <3>1, OpKinds DEF ClearTombstone, Updating
      <4> QED
        BY <3>1, <4>1 DEF ClearTombstone, TypeOK, Updates
    <3>2. CASE RemoveAuthority(w)
      <4>1. ops[w] \in Updates
        BY <3>2, OpKinds DEF RemoveAuthority, Updating
      <4> QED
        BY <3>2, <4>1 DEF RemoveAuthority, TypeOK, Updates, Idle
    <3> QED
      BY <3>1, <3>2
  <2> QED
    BY <2>1 DEF OpenInv
<1>6. ~TooMany(authority)'
  BY <1>4 DEF TooMany, Files
<1> QED
  BY <1>3, <1>5, <1>6 DEF OpenInv

(* A key that is in use is neither a directory of a copy nor below a file of it. *)
LEMMA KeyIsFree ==
    ASSUME TypeOK, CoordInv, OpenInv, NEW w \in Workspaces, NEW k \in Touched
    PROVE  SafeParent(copy[w], k) /\ copy[w][k] # -1
<1>1. k \in Keys /\ Grown(copy[w]) /\ KeysApart
  BY DEF Touched, CoordInv, OpenInv
<1>2. ASSUME NEW q \in Keys, IsStrictPrefix(q, k) PROVE copy[w][q] <= 0
  <2>1. q \notin Touched
    BY <1>1, <1>2 DEF KeysApart
  <2> QED
    BY <1>1, <2>1, CoordTypes DEF Grown
<1>3. copy[w][k] # -1
  BY <1>1 DEF Grown, KeysApart
<1> QED
  BY <1>2, <1>3 DEF SafeParent

(* No tombstone is of a directory or below a file, and neither is a file. *)
LEMMA ReconcileOpens ==
    ASSUME TypeOK, CoordInv, OpenInv, NEW w \in Workspaces,
           CopyFiles(w) \/ \E k \in Keys : ApplyTombstone(w, k)
    PROVE  OpenInv'
<1>1. UNCHANGED <<authority, tombstones>>
  BY DEF CopyFiles, ApplyTombstone
<1>2. ASSUME NEW k \in Keys, ApplyTombstone(w, k)
      PROVE  \A v \in Workspaces : ops'[v] = ops[v] \/ ops'[v].step # "refused"
  <2>1. /\ ops[w] \in [step : {"tombstones"}, since : [Keys -> Nat], todo : SUBSET Keys]
        /\ k \in ops[w].todo /\ ops[w].step = "tombstones"
    BY <1>2, OpKinds DEF ApplyTombstone
  <2>2. k \in Touched
    BY <2>1 DEF CoordInv, OpenAt, Touched
  <2>3. Removable(copy[w], k)
    BY <2>2, KeyIsFree DEF Removable
  <2>4. ops' = [ops EXCEPT ![w].todo = @ \ {k}]
    BY <1>2, <2>3 DEF ApplyTombstone
  <2> QED
    BY <2>1, <2>4 DEF TypeOK
<1>3. ASSUME CopyFiles(w)
      PROVE  \A v \in Workspaces : ops'[v] = ops[v] \/ ops'[v].step # "refused"
  <2>1. \A k \in Files(authority) : Writable(copy[w], k)
    <3>1. ASSUME NEW k \in Files(authority) PROVE Writable(copy[w], k)
      <4>1. k \in Touched
        BY DEF Files, Touched
      <4> QED
        BY <4>1, KeyIsFree DEF Writable
    <3> QED
      BY <3>1
  <2>2. ops' = [ops EXCEPT ![w] = [step |-> "read", since |-> ops[w].since]]
    BY <1>3, <2>1 DEF CopyFiles, OpenInv, TypeOK
  <2> QED
    BY <2>2 DEF TypeOK
<1> QED
  BY <1>1, <1>2, <1>3, OpenFrame

(* The other steps of the coordination half. *)
LEMMA OtherOpens ==
    ASSUME TypeOK, OpenInv, NEW w \in Workspaces,
           \/ \E u \in Workspaces : Propagate(w, u)
           \/ Acknowledge(w) \/ OpenWorkspace(w) \/ ReadCopy(w)
    PROVE  OpenInv'
<1>1. UNCHANGED <<authority, tombstones>>
  BY DEF Propagate, Acknowledge, OpenWorkspace, ReadCopy
<1>2. ASSUME NEW u \in Workspaces, Propagate(w, u)
      PROVE  \A v \in Workspaces : ops'[v] = ops[v] \/ ops'[v].step # "refused"
  <2>1. ops[w] \in Updates /\ ops[w].step = "propagate"
    BY <1>2, OpKinds DEF Propagate, Updating
  <2>2. ops' = [ops EXCEPT ![w].todo = @ \ {u}]
    BY <1>2 DEF Propagate
  <2> QED
    BY <2>1, <2>2 DEF Updates, TypeOK
<1>3. ASSUME Acknowledge(w) \/ OpenWorkspace(w) \/ ReadCopy(w)
      PROVE  \A v \in Workspaces : ops'[v] = ops[v] \/ ops'[v].step # "refused"
  BY <1>3 DEF Acknowledge, OpenWorkspace, ReadCopy, Idle, TypeOK
<1> QED
  BY <1>1, <1>2, <1>3, OpenFrame

(***************************************************************************)
(* What is in the trees of forks.                                          *)
(***************************************************************************)

(* Where a step leaves a fork, or a record and what it names, alone, it keeps
   what is known of them. *)
LEMMA TreeKeeps ==
    ASSUME ForkInv, TreeInv, \A i \in 1..Len(snaps) : snaps'[i] = snaps[i]
    PROVE  /\ \A d \in Forks :
                  build'[d] = build[d] /\ live'[d] = live[d] /\ edited'[d] = edited[d] => BuildTree(d)'
           /\ \A n \in Names :
                  /\ records'[n] = records[n] /\ reused \subseteq reused'
                  /\ records[n] # None => /\ live'[records[n].dest] = live[records[n].dest]
                                          /\ edited'[records[n].dest] = edited[records[n].dest]
                  => RecordTree(n)'
<1>1. ASSUME NEW d \in Forks, build'[d] = build[d], live'[d] = live[d], edited'[d] = edited[d]
      PROVE  BuildTree(d)'
  <2>1. BuildTree(d) /\ BuildSnaps(d)
    BY DEF TreeInv, ForkInv
  <2>2. \A i \in 1..Len(snaps) : Same(d, snaps[i]) => Same(d, snaps[i])'
    BY <1>1 DEF Same
  <2> QED
    BY <1>1, <2>1, <2>2 DEF BuildTree, BuildSnaps, Exact, Same
<1>2. ASSUME NEW n \in Names, records'[n] = records[n], reused \subseteq reused',
             records[n] # None => /\ live'[records[n].dest] = live[records[n].dest]
                                  /\ edited'[records[n].dest] = edited[records[n].dest]
      PROVE  RecordTree(n)'
  <2>1. RecordTree(n) /\ RecordSnaps(n)
    BY DEF TreeInv, ForkInv
  <2> QED
    BY <1>2, <2>1 DEF RecordTree, RecordSnaps, Exact, Same
<1> QED
  BY <1>1, <1>2

(* A step that leaves the trees, the snapshots, the fork commands and the records
   alone. *)
LEMMA TreeFrame ==
    ASSUME ForkInv, TreeInv, UNCHANGED <<live, snaps, build, records, edited>>, reused \subseteq reused'
    PROVE  TreeInv'
<1>1. (\A d \in Forks : BuildTree(d)') /\ (\A n \in Names : RecordTree(n)')
  BY TreeKeeps
<1> QED
  BY <1>1 DEF TreeInv

(* A step of one fork command that leaves the trees alone. *)
LEMMA TreeBuild ==
    ASSUME ForkInv, TreeInv, NEW d \in Forks, UNCHANGED <<live, records, edited>>, reused \subseteq reused',
           \A i \in 1..Len(snaps) : snaps'[i] = snaps[i],
           \A e \in Forks : e # d => build'[e] = build[e],
           BuildTree(d)'
    PROVE  TreeInv'
<1>1. (\A e \in Forks : BuildTree(e)') /\ (\A n \in Names : RecordTree(n)')
  BY TreeKeeps
<1> QED
  BY <1>1 DEF TreeInv

(* A file that is edited is noted. *)
LEMMA EditTree ==
    ASSUME ForkInv, TreeInv, NEW w \in Workspaces, NEW p \in Paths, NEW content \in Contents,
           Edit(w, p, content)
    PROVE  TreeInv'
<1>1. TypeOK
  BY DEF ForkInv
<1>2. UNCHANGED <<snaps, build, records, reused>>
  BY DEF Edit, store, forkery
<1>3. live' = [live EXCEPT ![w] = [live[w] EXCEPT ![p] = content]] /\ live[w] # None
  BY DEF Edit
<1>4. /\ edited' \in [Forks -> SUBSET Paths] /\ (w \in Forks => p \in edited'[w])
      /\ \A d \in Forks : edited[d] \subseteq edited'[d]
  BY DEF Edit, TreeInv
<1>5. ASSUME NEW d \in Forks
      PROVE  /\ live'[d] # None <=> live[d] # None
             /\ \A q \in Paths \ edited'[d] : live[d] # None => live'[d][q] = live[d][q]
  <2>1. d \in Workspaces /\ live \in [Workspaces -> Trees \cup {None}]
    BY <1>1, PlaceFacts DEF TypeOK
  <2>2. CASE d # w
    BY <1>3, <2>1, <2>2
  <2>3. CASE d = w
    <3>1. live[d] \in Trees /\ live'[d] = [live[d] EXCEPT ![p] = content] /\ p \in edited'[d]
      BY <1>3, <1>4, <2>1, <2>3
    <3>2. live'[d] \in Trees
      BY <3>1 DEF Trees
    <3> QED
      BY <3>1, <3>2, <1>3, <2>3, PlaceFacts DEF Trees
  <2> QED
    BY <2>2, <2>3
<1>6. ASSUME NEW d \in Forks PROVE BuildTree(d)'
  <2>1. BuildTree(d) /\ BuildHome(d)
    BY DEF TreeInv, ForkInv
  <2>2. ASSUME NEW tree, live[d] # None, Same(d, tree) PROVE Same(d, tree)'
    BY <1>4, <1>5, <2>2 DEF Same
  <2> QED
    BY <1>2, <2>1, <2>2 DEF BuildTree, BuildHome, Same
<1>7. ASSUME NEW n \in Names PROVE RecordTree(n)'
  <2>1. RecordTree(n) /\ (records[n] # None => records[n].dest \in Forks)
    BY <1>1, Shapes DEF TreeInv
  <2> QED
    BY <1>2, <1>4, <1>5, <2>1 DEF RecordTree, Same
<1> QED
  BY <1>4, <1>6, <1>7 DEF TreeInv

(* A fork that begins has no tree yet. *)
LEMMA PrepareTree ==
    ASSUME ForkInv, TreeInv, NEW d \in Forks, NEW name \in Names, Prepare(d, name) \/ PrepareAt(d, name)
    PROVE  TreeInv'
<1>1. TypeOK /\ StoreInv
  BY DEF ForkInv
<1>2. PICK base \in Nat, at \in BOOLEAN : Begin(d, name, base, at)
  <2>1. CASE Prepare(d, name)
    <3>1. Len(snaps) + 1 \in Nat
      BY <1>1 DEF TypeOK
    <3> QED
      BY <2>1, <3>1 DEF Prepare
  <2>2. CASE PrepareAt(d, name)
    <3>1. PICK id \in held : Begin(d, name, id, TRUE)
      BY <2>2 DEF PrepareAt
    <3>2. id \in Nat
      BY <1>1, <3>1 DEF TypeOK
    <3> QED
      BY <3>1, <3>2
  <2> QED
    BY <2>1, <2>2
<1>3. /\ \A e \in Forks : e # d => build'[e] = build[e]
      /\ build'[d].step \in {"compare", "copy"} /\ reused \subseteq reused'
      /\ UNCHANGED <<live, records, edited>>
  BY <1>1, <1>2, BeginFacts DEF Begin
<1>4. \A i \in 1..Len(snaps) : snaps'[i] = snaps[i]
  <2>1. CASE Prepare(d, name)
    <3>1. Published(Source, live[Source]) /\ live[Source] \in Trees /\ Source \in Workspaces
      BY <1>1, <2>1, PlaceFacts DEF Prepare, TypeOK
    <3> QED
      BY <1>1, <3>1, PublishedFacts
  <2>2. CASE PrepareAt(d, name)
    BY <2>2 DEF PrepareAt, store
  <2> QED
    BY <2>1, <2>2
<1>5. BuildTree(d)'
  BY <1>3 DEF BuildTree
<1> QED
  BY <1>3, <1>4, <1>5, TreeBuild

(* While files are copied the destination is not there. *)
LEMMA CopyTree ==
    ASSUME ForkInv, TreeInv, NEW d \in Forks,
           Compare(d) \/ CloneHierarchy(d) \/ AbandonFork(d) \/ \E p \in Paths : CopyFile(d, p)
    PROVE  TreeInv'
<1>1. TypeOK
  BY DEF ForkInv
<1>2. UNCHANGED <<live, records, edited, reused, snaps>>
  BY DEF Compare, CloneHierarchy, AbandonFork, CopyFile, history, trees, store
<1>3. (\A e \in Forks : e # d => build'[e] = build[e]) /\ build'[d].step \in {"copy", "idle"}
  <2>1. CASE Compare(d)
    <3>1. build[d] \in Builds
      BY <1>1, <2>1, BuildKinds DEF Compare
    <3> QED
      BY <1>1, <2>1, <3>1 DEF Compare, TypeOK, Builds
  <2>2. CASE CloneHierarchy(d)
    <3>1. build[d] \in Builds /\ build[d].step = "copy"
      BY <1>1, <2>2, BuildKinds DEF CloneHierarchy
    <3> QED
      BY <1>1, <2>2, <3>1 DEF CloneHierarchy, TypeOK, Builds
  <2>3. CASE AbandonFork(d)
    BY <1>1, <2>3 DEF AbandonFork, TypeOK, Idle
  <2>4. ASSUME NEW p \in Paths, CopyFile(d, p)
        PROVE  (\A e \in Forks : e # d => build'[e] = build[e]) /\ build'[d].step = "copy"
    <3>1. build[d] \in Builds /\ build[d].step = "copy"
      BY <1>1, <2>4, BuildKinds DEF CopyFile
    <3>2. PICK staged : build' = [build EXCEPT ![d].staged = staged]
      BY <2>4 DEF CopyFile
    <3> QED
      BY <1>1, <3>1, <3>2 DEF TypeOK, Builds
  <2> QED
    BY <2>1, <2>2, <2>3, <2>4
<1>4. BuildTree(d)'
  BY <1>3 DEF BuildTree
<1> QED
  BY <1>2, <1>3, <1>4, TreeBuild

(* The destination is put where no record that is current names it. *)
LEMMA RenameTree ==
    ASSUME ForkInv, MarkInv, TreeInv, NEW d \in Forks, Rename(d)
    PROVE  TreeInv'
<1>1. TypeOK
  BY DEF ForkInv
<1>2. UNCHANGED <<records, reused, snaps>>
  BY DEF Rename, store
<1>3. build[d] \in Builds /\ build[d].step = "copy"
  BY <1>1, BuildKinds DEF Rename
<1>4. /\ build'[d].step = IF build[d].atomic THEN "verify" ELSE "capture"
      /\ build'[d].atomic = build[d].atomic
      /\ \A e \in Forks : e # d => build'[e] = build[e]
  BY <1>1, <1>3 DEF Rename, TypeOK, Builds
<1>5. \A e \in Forks : e # d => live'[e] = live[e] /\ edited'[e] = edited[e]
  <2>1. live' = [live EXCEPT ![d] = build[d].staged] /\ edited' = [edited EXCEPT ![d] = {}]
    BY DEF Rename
  <2>2. live \in [Workspaces -> Trees \cup {None}] /\ Forks \subseteq Workspaces
    BY <1>1, PlaceFacts DEF TypeOK
  <2> QED
    BY <2>1, <2>2 DEF TreeInv
<1>6. edited' \in [Forks -> SUBSET Paths]
  BY DEF Rename, TreeInv
<1>7. ASSUME NEW e \in Forks PROVE BuildTree(e)'
  <2>1. CASE e = d
    BY <1>4, <2>1 DEF BuildTree
  <2>2. CASE e # d
    BY <1>2, <1>4, <1>5, <2>2, TreeKeeps
  <2> QED
    BY <2>1, <2>2
<1>8. ASSUME NEW n \in Names PROVE RecordTree(n)'
  <2>1. CASE records[n] # None /\ records[n].dest = d
    BY <1>2, <1>3, <2>1 DEF MarkInv, RecordMark, RecordTree
  <2>2. CASE records[n] # None => records[n].dest # d
    <3>1. records[n] # None => records[n].dest \in Forks
      BY <1>1, Shapes
    <3> QED
      BY <1>2, <1>5, <2>2, <3>1, TreeKeeps
  <2> QED
    BY <2>1, <2>2
<1> QED
  BY <1>6, <1>7, <1>8 DEF TreeInv

(* The snapshot of the copy is of its tree. *)
LEMMA CaptureTree ==
    ASSUME ForkInv, TreeInv, NEW d \in Forks, CaptureFork(d)
    PROVE  TreeInv'
<1>1. TypeOK /\ d \in Workspaces
  BY PlaceFacts DEF ForkInv
<1>2. UNCHANGED <<live, records, edited, reused>>
  BY DEF CaptureFork, history
<1>3. build[d] \in Builds /\ build[d].step = "capture" /\ live[d] \in Trees
  <2>1. BuildHome(d) /\ build[d].step = "capture"
    BY DEF ForkInv, CaptureFork
  <2> QED
    BY <1>1, <2>1, BuildKinds DEF BuildHome, TypeOK
<1>4. Published(d, live[d])
  BY DEF CaptureFork
<1>5. /\ Len(snaps) \in Nat /\ snaps'[Len(snaps) + 1] = live[d]
      /\ \A i \in 1..Len(snaps) : snaps'[i] = snaps[i]
  <2>1. snaps' = Append(snaps, live[d]) /\ snaps \in Seq(Trees)
    BY <1>1, <1>4 DEF Published, TypeOK
  <2> QED
    BY <1>3, <2>1
<1>6. /\ build'[d].step = "verify" /\ build'[d].head = Len(snaps) + 1
      /\ \A e \in Forks : e # d => build'[e] = build[e]
  BY <1>1, <1>3 DEF CaptureFork, TypeOK, Builds
<1>7. Same(d, snaps[build[d].head])'
  BY <1>2, <1>5, <1>6 DEF Same
<1>8. BuildTree(d)'
  BY <1>6, <1>7 DEF BuildTree
<1> QED
  BY <1>2, <1>5, <1>6, <1>8, TreeBuild

(* What is verified is the tree of the base. *)
LEMMA VerifyTree ==
    ASSUME ForkInv, TreeInv, NEW d \in Forks, Verify(d)
    PROVE  TreeInv'
<1>1. TypeOK
  BY DEF ForkInv
<1>2. UNCHANGED <<live, records, edited, reused, snaps>>
  BY DEF Verify, history, trees, store
<1>3. build[d] \in Builds /\ build[d].step = "verify" /\ BuildTree(d)
  BY <1>1, BuildKinds DEF Verify, TreeInv
<1>4. \A e \in Forks : e # d => build'[e] = build[e]
  BY <1>1 DEF Verify, TypeOK
<1>5. CASE IF build[d].atomic THEN AtomicMatch(d, build[d]) ELSE SnapshotsMatch(build[d])
  <2>1. build'[d].step = "adopt" /\ build'[d].base = build[d].base
    BY <1>1, <1>3, <1>5 DEF Verify, TypeOK, Builds
  <2>2. Same(d, snaps[build[d].base])
    <3>1. CASE build[d].atomic
      BY <1>5, <3>1 DEF AtomicMatch, Same
    <3>2. CASE ~build[d].atomic
      BY <1>3, <1>5, <3>2 DEF SnapshotsMatch, BuildTree
    <3> QED
      BY <3>1, <3>2
  <2>3. Same(d, snaps[build[d].base])'
    BY <1>2, <2>1, <2>2 DEF Same
  <2>4. BuildTree(d)'
    BY <2>1, <2>3 DEF BuildTree
  <2> QED
    BY <1>2, <1>4, <2>4, TreeBuild
<1>6. CASE ~(IF build[d].atomic THEN AtomicMatch(d, build[d]) ELSE SnapshotsMatch(build[d]))
  <2>1. build'[d] = Idle
    BY <1>1, <1>6 DEF Verify, TypeOK
  <2>2. BuildTree(d)'
    BY <2>1 DEF BuildTree, Idle
  <2> QED
    BY <1>2, <1>4, <2>2, TreeBuild
<1> QED
  BY <1>5, <1>6

(* The verified fork is adopted, and then registered. *)
LEMMA AdoptTree ==
    ASSUME ForkInv, TreeInv, NEW d \in Forks, AdoptFamily(d)
    PROVE  TreeInv'
<1>1. TypeOK
  BY DEF ForkInv
<1>2. UNCHANGED <<live, records, edited, reused, snaps>>
  BY DEF AdoptFamily, history, store
<1>3. build[d] \in Builds /\ build[d].step = "adopt" /\ BuildTree(d)
  BY <1>1, BuildKinds DEF AdoptFamily, TreeInv
<1>4. /\ build'[d].step = "record" /\ build'[d].base = build[d].base
      /\ \A e \in Forks : e # d => build'[e] = build[e]
  BY <1>1, <1>3 DEF AdoptFamily, TypeOK, Builds
<1>5. Same(d, snaps[build[d].base])'
  BY <1>2, <1>3, <1>4 DEF BuildTree, Same
<1>6. BuildTree(d)'
  BY <1>4, <1>5 DEF BuildTree
<1> QED
  BY <1>2, <1>4, <1>6, TreeBuild

LEMMA RecordedTree ==
    ASSUME ForkInv, TreeInv, NEW d \in Forks, Record(d)
    PROVE  TreeInv'
<1>1. TypeOK
  BY DEF ForkInv
<1>2. UNCHANGED <<live, edited, reused, snaps>>
  BY DEF Record, history, trees, store
<1>3. build[d] \in Builds /\ build[d].step = "record" /\ BuildTree(d) /\ build[d].name \in Names
  BY <1>1, BuildKinds DEF Record, TreeInv, Builds
<1>4. build'[d] = Idle /\ \A e \in Forks : e # d => build'[e] = build[e]
  BY <1>1 DEF Record, TypeOK
<1>5. /\ records'[build[d].name].dest = d /\ records'[build[d].name].base = build[d].base
      /\ \A n \in Names : n # build[d].name => records'[n] = records[n]
  BY <1>1, <1>3 DEF Record, TypeOK
<1>6. ASSUME NEW e \in Forks PROVE BuildTree(e)'
  <2>1. CASE e = d
    BY <1>4, <2>1 DEF BuildTree, Idle
  <2>2. CASE e # d
    BY <1>2, <1>4, <2>2, TreeKeeps
  <2> QED
    BY <2>1, <2>2
<1>7. ASSUME NEW n \in Names PROVE RecordTree(n)'
  <2>1. CASE n = build[d].name
    <3>1. Same(d, snaps[build[d].base])
      BY <1>3 DEF BuildTree
    <3> QED
      BY <1>2, <1>5, <2>1, <3>1 DEF RecordTree, Same
  <2>2. CASE n # build[d].name
    BY <1>2, <1>5, <2>2, TreeKeeps
  <2> QED
    BY <2>1, <2>2
<1> QED
  BY <1>2, <1>6, <1>7 DEF TreeInv

(* Where a directory goes, no fork is being built and nothing is claimed. *)
LEMMA VanishTree ==
    ASSUME ForkInv, TreeInv, NEW d \in Forks, Vanish(d), build[d].step = "idle",
           UNCHANGED <<snaps, build, records, edited, reused>>
    PROVE  TreeInv'
<1>1. TypeOK
  BY DEF ForkInv
<1>2. live'[d] = None /\ \A e \in Forks : e # d => live'[e] = live[e]
  <2>1. live \in [Workspaces -> Trees \cup {None}] /\ Forks \subseteq Workspaces
    BY <1>1, PlaceFacts DEF TypeOK
  <2> QED
    BY <2>1 DEF Vanish
<1>3. ASSUME NEW e \in Forks PROVE BuildTree(e)'
  <2>1. CASE e = d
    BY <2>1 DEF BuildTree
  <2>2. CASE e # d
    BY <1>2, <2>2, TreeKeeps
  <2> QED
    BY <2>1, <2>2
<1>4. ASSUME NEW n \in Names PROVE RecordTree(n)'
  <2>1. CASE records[n] # None /\ records[n].dest = d
    BY <1>2, <2>1 DEF RecordTree
  <2>2. CASE records[n] # None => records[n].dest # d
    <3>1. records[n] # None => records[n].dest \in Forks
      BY <1>1, Shapes
    <3> QED
      BY <1>2, <2>2, <3>1, TreeKeeps
  <2> QED
    BY <2>1, <2>2
<1> QED
  BY <1>3, <1>4 DEF TreeInv

(* A removal takes the directory or the record. *)
LEMMA RemovingTree ==
    ASSUME ForkInv, TreeInv, NEW n \in Names, Removing(n)
    PROVE  TreeInv'
<1>1. TypeOK
  BY DEF ForkInv
<1>2. CASE Forget(n) \/ AbandonRemoval(n)
  <2>1. UNCHANGED <<live, snaps, build, records, edited, reused>>
    BY <1>2 DEF Forget, AbandonRemoval, trees, store, history
  <2> QED
    BY <2>1, TreeFrame
<1>3. CASE RemoveDirectory(n)
  <2>1. PICK d \in Forks : d = removing[n].dest /\ Deleting(n)
    BY <1>1, <1>3, Shapes DEF RemoveDirectory, Deleting
  <2>2. Vanish(d) /\ UNCHANGED <<snaps, build, records, edited, reused>>
    BY <1>3, <2>1 DEF RemoveDirectory, Destination, history
  <2>3. build[d].step = "idle"
    BY <2>1 DEF ForkInv, RemovalHome
  <2> QED
    BY <2>2, <2>3, VanishTree
<1>4. CASE RemoveRecord(n)
  <2>1. UNCHANGED <<live, snaps, build, edited, reused>>
    BY <1>4 DEF RemoveRecord, trees, store, history
  <2>2. records'[n] = None /\ \A m \in Names : m # n => records'[m] = records[m]
    BY <1>1, <1>4 DEF RemoveRecord, TypeOK
  <2>3. ASSUME NEW m \in Names PROVE RecordTree(m)'
    <3>1. CASE m = n
      BY <2>2, <3>1 DEF RecordTree
    <3>2. CASE m # n
      BY <2>1, <2>2, <3>2, TreeKeeps
    <3> QED
      BY <3>1, <3>2
  <2>4. \A d \in Forks : BuildTree(d)'
    BY <2>1, TreeKeeps
  <2> QED
    BY <2>1, <2>3, <2>4 DEF TreeInv
<1> QED
  BY <1>2, <1>3, <1>4 DEF Removing

(* Every step keeps what is known of the trees of forks. *)
LEMMA TreeStep ==
    ASSUME ForkInv, MarkInv, TreeInv, [Next]_vars
    PROVE  TreeInv'
<1>1. ASSUME NEW w \in Workspaces, NEW p \in Paths, NEW content \in Contents, Edit(w, p, content)
      PROVE  TreeInv'
  BY <1>1, EditTree
<1>2. ASSUME NEW d \in Forks, Forking(d) PROVE TreeInv'
  <2>1. ASSUME AttachClone(d) PROVE TreeInv'
    <3>1. UNCHANGED <<live, snaps, build, records, edited, reused>>
      BY <2>1 DEF AttachClone, forkery, history
    <3> QED
      BY <3>1, TreeFrame
  <2> QED
    BY <1>2, <2>1, PrepareTree, CopyTree, RenameTree, CaptureTree, VerifyTree, AdoptTree, RecordedTree
       DEF Forking
<1>3. ASSUME NEW d \in Forks, Delete(d) PROVE TreeInv'
  <2>1. /\ Vanish(d) /\ build[d].step = "idle"
        /\ UNCHANGED <<snaps, build, records, edited, reused>>
    BY <1>3 DEF Delete, forkery, history
  <2> QED
    BY <2>1, VanishTree
<1>4. ASSUME NEW n \in Names, Removing(n) PROVE TreeInv'
  BY <1>4, RemovingTree
<1>5. ASSUME NEW w \in Workspaces, Coordinating(w) PROVE TreeInv'
  <2>1. UNCHANGED <<live, snaps, build, records, edited, reused>>
    BY <1>5 DEF Coordinating, WriteAuthority, WriteTombstone, ClearTombstone, RemoveAuthority,
       Acknowledge, Propagate, OpenWorkspace, ApplyTombstone, CopyFiles, ReadCopy, EndCommand,
       KillCommand, history, trees, store, forkery
  <2> QED
    BY <2>1, TreeFrame
<1>6. ASSUME Collect \/ UNCHANGED vars PROVE TreeInv'
  <2>1. UNCHANGED <<live, snaps, build, records, edited, reused>>
    BY <1>6 DEF Collect, vars, trees, store, forkery
  <2> QED
    BY <2>1, TreeFrame
<1> QED
  BY <1>1, <1>2, <1>3, <1>4, <1>5, <1>6 DEF Next

(***************************************************************************)
(* The initial states and the steps.                                       *)
(***************************************************************************)
LEMMA InitGood == Init => ForkInv /\ RowsInv /\ MarkInv /\ TreeInv /\ CoordInv /\ OpenInv
<1> SUFFICES ASSUME Init PROVE ForkInv /\ RowsInv /\ MarkInv /\ TreeInv /\ CoordInv /\ OpenInv
  OBVIOUS
<1> DEFINE first == CHOOSE tree \in Trees : TRUE
           members == scenario.members
           name == CHOOSE f \in Injection(scenario.members, Names) : TRUE
<1>1. /\ first \in Trees /\ members \subseteq Forks
      /\ live = [w \in Workspaces |-> IF w \in {Source} \cup members THEN first ELSE None]
      /\ home = [w \in Workspaces |-> IF w \in {Source} \cup members THEN "family" ELSE None]
      /\ mark = [w \in Workspaces |-> IF w \in members THEN w ELSE None]
      /\ snaps = <<first>> /\ held = {1} /\ rows = {<<w, 1>> : w \in {Source} \cup members}
      /\ head = [w \in Workspaces |-> IF w \in {Source} \cup members THEN 1 ELSE None]
      /\ records = [n \in Names |->
             IF \E d \in members : name[d] = n
             THEN LET d == CHOOSE x \in members : name[x] = n IN
                  [dest |-> d, base |-> 1, head |-> 1, id |-> d]
             ELSE None]
  <2>1. first \in Trees
    <3>1. PICK c : c \in Contents
      BY ContentsAssumption
    <3>2. [p \in Paths |-> c] \in Trees
      BY <3>1 DEF Trees
    <3> QED
      BY <3>2
  <2>2. members \subseteq Forks
    BY ScenariosAssumption DEF Init
  <2> QED
    BY <2>1, <2>2 DEF Init
<1> HIDE DEF first, members, name
<1>2. /\ build = [d \in Forks |-> Idle] /\ removing = [n \in Names |-> None]
      /\ authority = Nowhere /\ tombstones = {} /\ copy = [w \in Workspaces |-> Nowhere]
      /\ lock = None /\ ops = [w \in Workspaces |-> Idle] /\ acked = Nowhere /\ cleared = Nowhere
      /\ edited = [d \in Forks |-> {}]
      /\ spent = [forks |-> 0, edits |-> 0, ops |-> 0, removals |-> 0, faults |-> 0]
  BY DEF Init
<1>3. \A n \in Names : records[n] # None =>
          /\ records[n].dest \in members /\ records[n].base = 1 /\ records[n].head = 1
          /\ records[n].id = records[n].dest /\ records[n] \in Records
  <2> SUFFICES ASSUME NEW n \in Names, records[n] # None
               PROVE  /\ records[n].dest \in members /\ records[n].base = 1 /\ records[n].head = 1
                      /\ records[n].id = records[n].dest /\ records[n] \in Records
    OBVIOUS
  <2>1. \E d \in members : name[d] = n
    BY <1>1
  <2>2. PICK d : d = CHOOSE x \in members : name[x] = n
    OBVIOUS
  <2>3. d \in members /\ records[n] = [dest |-> d, base |-> 1, head |-> 1, id |-> d]
    BY <1>1, <2>1, <2>2
  <2>4. d \in Forks /\ d \in Nat
    BY <1>1, <2>3, ForksAssumption
  <2> QED
    BY <2>3, <2>4 DEF Records
<1>4. /\ Len(snaps) = 1 /\ snaps \in Seq(Trees) /\ snaps[1] = first
      /\ rows \in SUBSET (Int \X Nat) /\ <<Source, 1>> \in rows /\ \A row \in rows : row[2] = 1
  <2>1. Len(snaps) = 1 /\ snaps \in Seq(Trees) /\ snaps[1] = first
    BY <1>1
  <2>2. \A w \in {Source} \cup members : w \in Int
    BY <1>1, PlaceFacts
  <2> QED
    BY <1>1, <2>1, <2>2
<1>5. TypeOK
  <2>1. /\ live \in [Workspaces -> Trees \cup {None}] /\ live[Source] # None
        /\ home \in [Workspaces -> {None, "own", "family"}]
        /\ mark \in [Workspaces -> Nat \cup {None}]
        /\ head \in [Workspaces -> Nat \cup {None}]
    <3>1. members \subseteq Nat
      BY <1>1, ForksAssumption
    <3> QED
      BY <1>1, <3>1, PlaceFacts
  <2>2. records \in [Names -> Records \cup {None}]
    BY <1>1, <1>3
  <2>3. authority \in [Keys -> Int] /\ acked \in [Keys -> Nat] /\ cleared \in [Keys -> Nat]
        /\ copy \in [Workspaces -> [Keys -> Int]]
    BY <1>2 DEF Nowhere
  <2>4. /\ build \in [Forks -> {Idle} \cup Builds] /\ removing \in [Names -> Removals \cup {None}]
        /\ ops \in [Workspaces -> {Idle, Refused} \cup Updates \cup Opens \cup Answers]
        /\ spent \in [forks : Nat, edits : Nat, ops : Nat, removals : Nat, faults : Nat]
    BY <1>2
  <2>5. held \in SUBSET Nat
    BY <1>1
  <2> QED
    BY <1>2, <1>4, <2>1, <2>2, <2>3, <2>4, <2>5 DEF TypeOK
<1>6. /\ \A d \in Forks : build[d].step = "idle"
      /\ \A n \in Names : removing[n] = None
      /\ \A w \in Workspaces : ops[w].step = "idle"
  BY <1>2 DEF Idle
<1>7. ForkInv
  <2>1. StoreInv /\ RemovalApart
    BY <1>1, <1>4, <1>6 DEF StoreInv, RemovalApart, Deleting
  <2>2. \A d \in Forks : BuildSnaps(d) /\ BuildHome(d)
    BY <1>6 DEF BuildSnaps, BuildHome
  <2>3. \A n \in Names : RecordSnaps(n) /\ RemovalHome(n)
    BY <1>3, <1>4, <1>6 DEF RecordSnaps, RemovalHome, Exact, Deleting
  <2>4. \A w \in Workspaces : HomeAt(w)
    BY <1>1, <1>6, PlaceFacts DEF HomeAt
  <2> QED
    BY <1>5, <2>1, <2>2, <2>3, <2>4 DEF ForkInv
<1>8. RowsInv
  BY <1>1, <1>3, <1>4, <1>6 DEF RowsInv, RecordRows, BuildRows, Based
<1>9. MarkInv
  <2>1. ASSUME NEW n \in Names PROVE RecordMark(n) /\ RemovalMark(n)
    <3>1. RemovalMark(n)
      BY <1>6 DEF RemovalMark, Deleting
    <3>2. RecordMark(n)
      <4>1. SUFFICES ASSUME records[n] # None
                     PROVE  /\ build[records[n].dest].step = "idle"
                            /\ mark[records[n].dest] = records[n].id
        BY DEF RecordMark
      <4>2. /\ records[n].dest \in members /\ records[n].dest \in Forks
            /\ records[n].dest \in Workspaces
        BY <1>1, <1>3, <4>1, PlaceFacts
      <4> QED
        BY <1>1, <1>3, <1>6, <4>1, <4>2
    <3> QED
      BY <3>1, <3>2
  <2> QED
    BY <1>6, <2>1 DEF MarkInv, BuildMark
<1>10. CoordInv
  <2>1. /\ \A k \in Keys : authority[k] = 0 /\ acked[k] = 0 /\ cleared[k] = 0
        /\ \A w \in Workspaces : \A k \in Keys : copy[w][k] = 0
        /\ spent.ops = 0
    BY <1>2 DEF Nowhere
  <2>2. Touched = {}
    BY <1>2, <2>1 DEF Touched
  <2>3. Grown(authority) /\ \A k \in Keys : AckAt(k)
    BY <2>1, <2>2 DEF Grown, AckAt, Fresh
  <2>4. \A w \in Workspaces : Grown(copy[w]) /\ LockAt(w) /\ UpdateAt(w) /\ OpenAt(w)
    BY <1>6, <2>1, <2>2 DEF Grown, LockAt, UpdateAt, OpenAt
  <2> QED
    BY <2>3, <2>4 DEF CoordInv
<1>11. OpenInv
  <2>1. Touched = {} /\ Files(authority) = {}
    BY <1>2 DEF Touched, Files, Nowhere
  <2>2. ~TooMany(authority)
    BY <2>1, KeysAssumption, FS_EmptySet DEF TooMany
  <2> QED
    BY <1>6, <2>1, <2>2 DEF OpenInv, KeysApart
<1>12. TreeInv
  <2>1. ASSUME NEW n \in Names PROVE RecordTree(n)
    <3>1. SUFFICES ASSUME records[n] # None
                   PROVE  live[records[n].dest] = snaps[records[n].base]
      BY DEF RecordTree, Same
    <3>2. records[n].dest \in members /\ records[n].dest \in Workspaces /\ records[n].base = 1
      BY <1>1, <1>3, <3>1, PlaceFacts
    <3> QED
      BY <1>1, <1>4, <3>2
  <2>2. \A d \in Forks : BuildTree(d)
    BY <1>6 DEF BuildTree
  <2>3. edited \in [Forks -> SUBSET Paths]
    BY <1>2
  <2> QED
    BY <2>1, <2>2, <2>3 DEF TreeInv
<1> QED
  BY <1>7, <1>8, <1>9, <1>10, <1>11, <1>12

(* Every step keeps the invariants. *)
LEMMA StepGood ==
    ASSUME ForkInv, [Next]_vars
    PROVE  /\ ForkInv' /\ (RowsInv => RowsInv')
           /\ (MarkInv => MarkInv')
           /\ (CoordInv => CoordInv')
           /\ (CoordInv /\ OpenInv /\ races' = {} => OpenInv')
<1> DEFINE Goal == /\ ForkInv' /\ (RowsInv => RowsInv')
                   /\ (MarkInv => MarkInv')
                   /\ (CoordInv => CoordInv')
                   /\ (CoordInv /\ OpenInv /\ races' = {} => OpenInv')
<1>t. TypeOK
  BY DEF ForkInv
<1>c. /\ Calm /\ CoordInv => CoordInv'
      /\ Calm /\ OpenInv => OpenInv'
  BY <1>t, CalmKeeps, CalmOpens
<1>q. Quiet => Calm
  BY QuietIsCalm
<1>1. ASSUME NEW w \in Workspaces, NEW p \in Paths, NEW content \in Contents, Edit(w, p, content)
      PROVE  Goal
  BY <1>1, <1>c, <1>q, EditGood
<1>2. ASSUME NEW d \in Forks, NEW name \in Names, Prepare(d, name) \/ PrepareAt(d, name)
      PROVE  Goal
  BY <1>2, <1>c, <1>q, PrepareGood, PrepareAtGood
<1>3. ASSUME NEW d \in Forks, NEW p \in Paths, CopyFile(d, p)
      PROVE  Goal
  BY <1>3, <1>c, <1>q, CopyFileGood
<1>4. ASSUME NEW d \in Forks, Compare(d) \/ CloneHierarchy(d) \/ Rename(d) \/ CaptureFork(d) \/ Verify(d)
      PROVE  Goal
  BY <1>4, <1>c, <1>q, CompareGood, CloneHierarchyGood, RenameGood, CaptureForkGood, VerifyGood
<1>5. ASSUME NEW d \in Forks, AttachClone(d) \/ AdoptFamily(d) \/ Record(d) \/ AbandonFork(d)
      PROVE  Goal
  BY <1>5, <1>c, <1>q, AttachCloneGood, AdoptFamilyGood, RecordGood, AbandonForkGood
<1>6. ASSUME NEW d \in Forks, Delete(d)
      PROVE  Goal
  BY <1>6, <1>c, DeleteGood
<1>7. ASSUME NEW n \in Names, Removing(n)
      PROVE  Goal
  BY <1>7, <1>c, <1>q, ForgetGood, RemoveDirectoryGood, RemoveRecordGood, AbandonRemovalGood
  DEF Removing
<1>8. ASSUME NEW w \in Workspaces, NEW k \in Keys, WriteAuthority(w, k) \/ WriteTombstone(w, k)
      PROVE  Goal
  BY <1>8, <1>t, WriteAuthorityGood, WriteTombstoneGood, WriteAuthorityOpens, WriteTombstoneOpens
<1>9. ASSUME NEW w \in Workspaces, NEW u \in Workspaces, Propagate(w, u)
      PROVE  Goal
  BY <1>9, <1>t, PropagateGood, OtherOpens
<1>10. ASSUME NEW w \in Workspaces, ClearTombstone(w) \/ RemoveAuthority(w) \/ Acknowledge(w)
       PROVE  Goal
  BY <1>10, <1>t, ClearTombstoneGood, RemoveAuthorityGood, AcknowledgeGood, RemovalOpens, OtherOpens
<1>11. ASSUME NEW w \in Workspaces,
              OpenWorkspace(w) \/ CopyFiles(w) \/ ReadCopy(w) \/ \E k \in Keys : ApplyTombstone(w, k)
       PROVE  Goal
  BY <1>11, <1>t, OpenWorkspaceGood, ApplyTombstoneGood, CopyFilesGood, ReadCopyGood, ReconcileOpens,
     OtherOpens
<1>12. ASSUME NEW w \in Workspaces, EndCommand(w) \/ KillCommand(w)
       PROVE  Goal
  BY <1>12, <1>c, EndCommandGood, KillCommandGood
<1>13. ASSUME Collect PROVE Goal
  BY <1>13, <1>c, <1>q, CollectGood
<1>14. ASSUME UNCHANGED vars PROVE Goal
  <2>1. TypeOK' /\ Quiet
    BY <1>t, <1>14 DEF TypeOK, Quiet, shared, vars
  <2>2. \A v \in Workspaces : ops'[v].step # "idle" => home[v] = "family"
    BY <1>14 DEF vars, ForkInv, HomeAt
  <2>3. UNCHANGED <<live, home, mark, snaps, held, rows, head, records, build, removing, loose, reused>>
    BY <1>14 DEF vars
  <2> QED
    BY <1>c, <1>q, <2>1, <2>2, <2>3, ForkFrame
<1> HIDE DEF Goal
<1>15. ASSUME Next PROVE Goal
  <2>1. ASSUME NEW d \in Forks, Forking(d) PROVE Goal
    BY <1>2, <1>3, <1>4, <1>5, <2>1 DEF Forking
  <2>2. ASSUME NEW w \in Workspaces, Coordinating(w) PROVE Goal
    BY <1>8, <1>9, <1>10, <1>11, <1>12, <2>2 DEF Coordinating
  <2> QED
    BY <1>1, <1>6, <1>7, <1>13, <1>15, <2>1, <2>2 DEF Next
<1>16. Goal
  BY <1>14, <1>15
<1> QED
  BY <1>16 DEF Goal

(* Only the removal of a fork takes its directory while its removal goes on. *)
LEMMA RemovalTakes ==
    ASSUME ForkInv, MarkInv, [Next]_vars, NEW n \in Names, NEW d \in Forks,
           removing[n] # None, removing[n].step = "directory", removing'[n] # removing[n],
           live[d] # None, live'[d] = None
    PROVE  mark[d] = removing[n].id \/ d \in reused
<1>1. \E m \in Names : Removing(m)
  <2>1. ASSUME removing' = removing PROVE FALSE
    BY <2>1
  <2>2. ASSUME NEW e \in Forks, Forking(e) PROVE removing' = removing
    BY <2>2 DEF Forking, Prepare, PrepareAt, Begin, Compare, CloneHierarchy, Rename, CaptureFork, Verify,
       AttachClone, AdoptFamily, Record, AbandonFork, CopyFile, forkery
  <2>3. ASSUME NEW w \in Workspaces, Coordinating(w) PROVE removing' = removing
    BY <2>3 DEF Coordinating, WriteAuthority, WriteTombstone, ClearTombstone, RemoveAuthority, Acknowledge,
       Propagate, OpenWorkspace, ApplyTombstone, CopyFiles, ReadCopy, EndCommand, KillCommand, forkery
  <2>4. ASSUME NEW e \in Forks, Delete(e) PROVE removing' = removing
    BY <2>4 DEF Delete, forkery
  <2>5. ASSUME NEW w \in Workspaces, NEW p \in Paths, NEW content \in Contents, Edit(w, p, content)
        PROVE  removing' = removing
    BY <2>5 DEF Edit, forkery
  <2>6. Collect \/ UNCHANGED vars => removing' = removing
    BY DEF Collect, forkery, vars
  <2> QED
    BY <2>1, <2>2, <2>3, <2>4, <2>5, <2>6 DEF Next
<1>2. PICK m \in Names : Removing(m)
  BY <1>1
<1>3. RemoveDirectory(m)
  <2>1. Forget(m) \/ RemoveRecord(m) \/ AbandonRemoval(m) => live' = live
    BY DEF Forget, RemoveRecord, AbandonRemoval, trees
  <2> QED
    BY <1>2, <2>1 DEF Removing
<1>4. TypeOK
  BY DEF ForkInv
<1>5. m = n
  BY <1>3, <1>4 DEF RemoveDirectory, TypeOK
<1>6. d = removing[n].dest
  <2>1. live' = [live EXCEPT ![removing[n].dest] = None]
    BY <1>3, <1>5 DEF RemoveDirectory, Vanish, Destination
  <2>2. live \in [Workspaces -> Trees \cup {None}] /\ d \in Workspaces
    BY <1>4, PlaceFacts DEF TypeOK
  <2> QED
    BY <2>1, <2>2
<1> QED
  BY <1>6 DEF MarkInv, RemovalMark, Deleting

(***************************************************************************)
(* The theorems.                                                           *)
(***************************************************************************)
(* The family keeps its invariant in every race: types, snapshots, directories
   and who is at work in them. *)
THEOREM FamilyInvariant == Spec => []ForkInv
<1>1. Init => ForkInv
  BY InitGood
<1>2. ForkInv /\ [Next]_vars => ForkInv'
  BY StepGood
<1> QED
  BY <1>1, <1>2, PTL DEF Spec

(* The files of a registered fork are those of its base, but for the ones edited
   in the fork itself, whatever was edited while files were copied, cloned or
   restored; only a record whose destination was forked to again may speak of
   another tree (materialize_fork, snapshots_match_fork, verify_atomic_fork). *)
THEOREM ForkIsExact == Spec => []ForkedExactly
<1>1. Init => ForkInv /\ MarkInv /\ TreeInv
  BY InitGood
<1>2. ForkInv /\ MarkInv /\ TreeInv /\ [Next]_vars => (ForkInv /\ MarkInv /\ TreeInv)'
  BY StepGood, TreeStep
<1>3. TreeInv => ForkedExactly
  BY DEF TreeInv, RecordTree, Same, ForkedExactly
<1> QED
  BY <1>1, <1>2, <1>3, PTL DEF Spec

(* No collection and no removal of a fork takes the base of a registered fork,
   unless retention thinned it out of the source's timeline while it was a base,
   or the fork was made of a snapshot that was never in that timeline. *)
THEOREM BaseIsHeld == Spec => []BaseHeld
<1>1. Init => ForkInv /\ RowsInv
  BY InitGood
<1>2. ForkInv /\ RowsInv /\ [Next]_vars => (ForkInv /\ RowsInv)'
  BY StepGood
<1>3. RowsInv => BaseHeld
  BY DEF RowsInv, RecordRows, Based, BaseHeld
<1> QED
  BY <1>1, <1>2, <1>3, PTL DEF Spec

(* remove_fork deletes the directory of the fork it was asked to remove and no
   other, although names are used again and commands race, but for destinations
   that were forked to while an old record named them. *)
THEOREM RemovalIsItsOwn == Spec => OwnRemoval
<1>1. Init => ForkInv /\ MarkInv
  BY InitGood
<1>2. ForkInv /\ MarkInv /\ [Next]_vars => (ForkInv /\ MarkInv)'
  BY StepGood
<1>3. ForkInv /\ MarkInv /\ [Next]_vars =>
          [\A n \in Names, d \in Forks :
              /\ removing[n] # None /\ removing[n].step = "directory"
              /\ removing'[n] # removing[n] /\ live[d] # None /\ live'[d] = None
              => mark[d] = removing[n].id \/ d \in reused]_vars
  BY RemovalTakes
<1> QED
  BY <1>1, <1>2, <1>3, PTL DEF Spec, OwnRemoval

(* What a command reads of a coordination file is what the last write or removal
   acknowledged before it began left, or something later, whatever keys lie above
   others and whatever commands were killed or refused (write, remove,
   reconcile). *)
THEOREM ReadsAreCoordinated == Spec => []Coordinated
<1>1. Init => ForkInv /\ CoordInv
  BY InitGood
<1>2. ForkInv /\ CoordInv /\ [Next]_vars => (ForkInv /\ CoordInv)'
  BY StepGood
<1>3. CoordInv => Coordinated
  BY DEF CoordInv, OpenAt, Fresh, Coordinated
<1> QED
  BY <1>1, <1>2, <1>3, PTL DEF Spec

(* No sequence of writes and removals, with commands killed in between, makes a
   workspace one that cannot be opened, before a key above or below another is
   written or removed or there are more files than are read. *)
THEOREM EveryWorkspaceOpens == Spec => []Openable
<1> DEFINE Opening == races = {} => OpenInv
<1>1. Init => ForkInv /\ CoordInv /\ Opening
  BY InitGood
<1>2. ForkInv /\ CoordInv /\ Opening /\ [Next]_vars => (ForkInv /\ CoordInv /\ Opening)'
  BY StepGood, RacesGrow
<1>3. Opening => Openable
  BY DEF OpenInv, Openable
<1> QED
  BY <1>1, <1>2, <1>3, PTL DEF Spec
=============================================================================
