--------------------------- MODULE ExchangeProofs ---------------------------
(***************************************************************************)
(* What is proved of the exchange for any devices, objects, limits and     *)
(* bounds: a head that was announced can be taken from the store between   *)
(* the devices alone, and a head in a device's timeline is complete in its *)
(* store.                                                                  *)
(*                                                                         *)
(* Both rest on what the two recursive functions of the module compute:    *)
(* that Pack puts every object that it is given into a frame, and that a   *)
(* walk which misses nothing has seen all that is below its head.  These   *)
(* are proved by induction along the order of Objects.                     *)
(***************************************************************************)
EXTENDS Exchange, SequenceTheorems, WellFoundedInduction, TLAPS

(***************************************************************************)
(* The inductive invariant.                                                *)
(***************************************************************************)
Exports == [step : {"frames", "recorded"}, head : Heads, frames : Seq(SUBSET Names),
            written : Nat, sent : Nat]
Refusals == [step : {"refused"}, head : Heads]
Requests == [step : {"want", "list", "rewind", "adopt"}, head : Heads]
Fetches == [step : {"fetch"}, head : Heads, want : SUBSET Names]
Imports == [step : {"pass", "commit", "delete", "settle", "want", "rewind", "adopt"}, head : Heads,
            listed : SUBSET Names, reported : SUBSET Names, stored : SUBSET Names, had : SUBSET Names]
Jobs == {Idle} \cup Exports \cup Refusals \cup Requests \cup Fetches \cup Imports

TypeOK ==
    /\ scenario \in Scenarios
    /\ disk \in [Devices -> SUBSET Names] /\ refs \in [Devices -> SUBSET Heads]
    /\ tree \in [Devices -> Heads \cup {None}]
    /\ ledger \in [Devices -> SUBSET Names] /\ outbox \in [Devices -> SUBSET SUBSET Names]
    /\ inbox \in [Devices -> SUBSET Names] /\ torn \in [Devices -> SUBSET Names]
    /\ remote \in SUBSET Names /\ served \in SUBSET Heads
    /\ job \in [Devices -> Jobs] /\ spent \in [faults : Nat, collections : Nat]

\* What a device takes for published, and what came into its inbox, was uploaded.
LedgerInv(d) == ledger[d] \subseteq remote /\ inbox[d] \subseteq remote

\* A frame that an export counts as sent is in the store between the devices,
\* and so is what it did not put into a frame.
ExportInv(d) == job[d].step \in {"frames", "recorded"} =>
    /\ job[d].sent <= Len(job[d].frames)
    /\ \A i \in 1..job[d].sent : job[d].frames[i] \subseteq remote
    /\ \A o \in Below(job[d].head) :
           o \in remote \/ \E i \in 1..Len(job[d].frames) : o \in job[d].frames[i]

\* An import is of an announced head; it wants what is below it, it stores
\* what it had listed in the inbox, and of what it reported missing it stored
\* all that it had.
TakingSteps == {"want", "fetch", "list", "pass", "commit", "delete", "settle", "rewind", "adopt"}
ImportSteps == {"pass", "commit", "delete", "settle"}

ImportInv(d) ==
    /\ job[d].step \in TakingSteps => job[d].head \in served
    /\ job[d].step = "fetch" => job[d].want \subseteq Below(job[d].head)
    /\ job[d].step \in ImportSteps =>
           job[d].stored \subseteq job[d].listed /\ job[d].listed \subseteq remote
    /\ job[d].step \in {"pass", "commit"} =>
           job[d].reported \cap job[d].listed \subseteq job[d].stored

\* When the passes have ended, nothing that they listed is missing below the
\* head, and what an import stored the store had when it committed.
PassedInv(d) ==
    /\ job[d].step = "commit" =>
           Missing(job[d].head, disk[d] \cup job[d].stored) \cap job[d].listed = {}
    /\ job[d].step \in {"delete", "settle"} =>
           Missing(job[d].head, job[d].had) \cap job[d].listed = {} /\ job[d].stored \subseteq job[d].had
\* A partial import does not settle.
SettleInv(d) == job[d].step = "settle" => scenario.mode # "partial"

\* The head that is about to be adopted is complete unless it is gone.
AdoptInv(d) == job[d].step = "adopt" /\ job[d].head \in disk[d] =>
    Below(job[d].head) \subseteq disk[d]

\* Every head in a timeline is complete in the device's store, whatever was
\* collected between the check of an import and its adoption (materialize).
Timeline(d) == \A h \in refs[d] : Below(h) \subseteq disk[d]
TimelineComplete == \A d \in Devices : Timeline(d)

Device(d) == /\ LedgerInv(d) /\ ExportInv(d) /\ ImportInv(d) /\ PassedInv(d) /\ SettleInv(d)
             /\ AdoptInv(d) /\ Timeline(d)

IInv == TypeOK /\ HeadServed /\ \A d \in Devices : Device(d)

(***************************************************************************)
(* Induction over an initial segment of the naturals, with a set in place  *)
(* of a predicate.                                                         *)
(***************************************************************************)
LEMMA Induction ==
    ASSUME NEW S, NEW L \in Nat, 0 \in S, \A n \in 0..L : n < L /\ n \in S => n + 1 \in S
    PROVE  \A n \in 0..L : n \in S
<1> DEFINE R == {ss \in Nat \X Nat : ss[1] < ss[2]}
           T == {n \in 0..L : n \notin S}
<1>1. IsWellFoundedOn(R, Nat)
  BY NatLessThanWellFounded DEF OpToRel
<1>2. \A x, y \in Nat : <<x, y>> \in R <=> x < y
  OBVIOUS
<1>3. T \in SUBSET Nat
  OBVIOUS
<1> HIDE DEF R
<1>4. SUFFICES ASSUME T # {} PROVE FALSE
  OBVIOUS
<1>5. PICK x \in T : \A y \in T : ~(<<y, x>> \in R)
  <2> HIDE DEF T
  <2> QED
    BY <1>1, <1>3, <1>4, WFMin, Zenon
<1>6. x \in Nat /\ x # 0 /\ x - 1 \in 0..L /\ x - 1 < L
  BY <1>5
<1>7. x - 1 \notin T
  <2>1. <<x - 1, x>> \in R
    BY <1>2, <1>6
  <2> QED
    BY <1>5, <2>1
<1> QED
  BY <1>5, <1>6, <1>7

(***************************************************************************)
(* The walk.                                                               *)
(***************************************************************************)
LEMMA ObjectFacts ==
    /\ Len(Objects) \in Nat /\ DOMAIN Objects = 1..Len(Objects)
    /\ \A n \in 1..Len(Objects) : Objects[n] \in Names
    /\ \A o \in Names : \E n \in 1..Len(Objects) : Objects[n] = o
    /\ \A o \in Names : Children[o] \subseteq Names /\ Children[o] \cap Heads = {}
    /\ Heads \subseteq Names
<1>1. Objects \in Seq(Names) /\ Children \in [Names -> SUBSET (Names \ Heads)]
  BY ObjectsAssumption
<1>2. Len(Objects) \in Nat /\ DOMAIN Objects = 1..Len(Objects)
  BY <1>1
<1>3. Names = {Objects[n] : n \in DOMAIN Objects}
  BY DEF Names, Range
<1>4. Heads \subseteq Names
  BY DEF Heads
<1> QED
  BY <1>1, <1>2, <1>3, <1>4

\* What a step of the walk comes to, and the steps up to the n-th.
Opened(seen, held) == seen \cup UNION {Children[o] : o \in seen \cap held}
Walked(head, held, n, walk) ==
    /\ walk \in [0..n -> SUBSET Names] /\ walk[0] = {head}
    /\ \A i \in 0..n : i # 0 => walk[i] = Opened(walk[i - 1], held)

LEMMA OpenedNames ==
    ASSUME NEW seen \in SUBSET Names, NEW held PROVE Opened(seen, held) \in SUBSET Names
  BY ObjectFacts DEF Opened

(* The walk is defined: it can be taken to any step. *)
LEMMA WalkExists ==
    ASSUME NEW head \in Names, NEW held
    PROVE  \E walk : Walked(head, held, Len(Objects), walk)
<1> DEFINE S == {n \in Nat : \E walk : Walked(head, held, n, walk)}
           L == Len(Objects)
<1>1. 0 \in S
  <2> DEFINE w == [i \in 0..0 |-> {head}]
  <2>1. Walked(head, held, 0, w)
    BY DEF Walked
  <2> QED
    BY <2>1
<1>2. ASSUME NEW n \in 0..L, n < L, n \in S PROVE n + 1 \in S
  <2>1. PICK v : Walked(head, held, n, v)
    BY <1>2
  <2> DEFINE w == [i \in 0..(n + 1) |-> IF i = n + 1 THEN Opened(v[n], held) ELSE v[i]]
  <2>2. n \in Nat /\ v[n] \in SUBSET Names
    BY <2>1, ObjectFacts DEF Walked
  <2>3. Opened(v[n], held) \in SUBSET Names
    BY <2>2, OpenedNames
  <2>4. w \in [0..(n + 1) -> SUBSET Names] /\ w[0] = {head}
    BY <2>1, <2>2, <2>3 DEF Walked
  <2>5. ASSUME NEW i \in 0..(n + 1), i # 0 PROVE w[i] = Opened(w[i - 1], held)
    <3>1. i - 1 \in 0..n /\ w[i - 1] = v[i - 1]
      BY <2>2, <2>5
    <3>2. CASE i = n + 1
      BY <2>2, <3>1, <3>2
    <3>3. CASE i # n + 1
      BY <2>1, <2>2, <2>5, <3>1, <3>3 DEF Walked
    <3> QED
      BY <3>2, <3>3
  <2>6. Walked(head, held, n + 1, w)
    BY <2>4, <2>5 DEF Walked
  <2> QED
    BY <2>2, <2>6
<1>3. L \in Nat
  BY ObjectFacts
<1> HIDE DEF S
<1>4. \A n \in 0..L : n \in S
  BY <1>1, <1>2, <1>3, Induction
<1>5. L \in S
  BY <1>3, <1>4
<1> QED
  BY <1>5 DEF S

(* Walk is the last of those steps. *)
LEMMA WalkIs ==
    ASSUME NEW head \in Names, NEW held
    PROVE  \E walk : Walked(head, held, Len(Objects), walk) /\ Walk(head, held) = walk[Len(Objects)]
<1> DEFINE L == Len(Objects)
           F(v) == [n \in 0..L |-> IF n = 0 THEN {head} ELSE
                       LET seen == v[n - 1] IN seen \cup UNION {Children[o] : o \in seen \cap held}]
           f == CHOOSE v : v = F(v)
<1>1. PICK w : Walked(head, held, L, w)
  BY WalkExists
<1>2. w = F(w)
  BY <1>1, ObjectFacts DEF Walked, Opened
<1>3. f = F(f)
  BY <1>2
<1>4. Walk(head, held) = f[L]
  BY DEF Walk
<1>5. L \in Nat
  BY ObjectFacts
<1> HIDE DEF f
<1>6. DOMAIN f = 0..L /\ f[0] = {head} /\ \A i \in 0..L : i # 0 => f[i] = Opened(f[i - 1], held)
  BY <1>3, <1>5 DEF Opened
<1> DEFINE S == {n \in 0..L : f[n] \in SUBSET Names}
<1>7. 0 \in S
  BY <1>5, <1>6
<1>8. ASSUME NEW n \in 0..L, n < L, n \in S PROVE n + 1 \in S
  <2>1. n + 1 \in 0..L /\ (n + 1) - 1 = n /\ n + 1 # 0
    BY <1>5, <1>8
  <2>2. f[n + 1] = Opened(f[n], held)
    BY <1>6, <2>1
  <2> QED
    BY <1>8, <2>1, <2>2, OpenedNames
<1>9. \A n \in 0..L : n \in S
  <2> HIDE DEF S
  <2> QED
    BY <1>5, <1>7, <1>8, Induction
<1>10. f \in [0..L -> SUBSET Names]
  BY <1>3, <1>9
<1>11. Walked(head, held, L, f)
  BY <1>6, <1>10 DEF Walked
<1> QED
  BY <1>4, <1>11

(* The steps of a walk grow, and stay in any set that has the head and is
   closed under what the walk opens. *)
LEMMA WalkGrows ==
    ASSUME NEW head \in Names, NEW held, NEW walk, Walked(head, held, Len(Objects), walk)
    PROVE  \A n \in 0..Len(Objects) : head \in walk[n] /\ walk[n] \subseteq walk[Len(Objects)]
<1> DEFINE L == Len(Objects)
<1>1. L \in Nat
  BY ObjectFacts
<1>2. \A n \in 0..L : n < L => walk[n] \subseteq walk[n + 1]
  BY <1>1 DEF Walked, Opened
<1> DEFINE S == {n \in 0..L : head \in walk[n]}
           D == {n \in 0..L : walk[L - n] \subseteq walk[L]}
<1>3. 0 \in S /\ \A n \in 0..L : n < L /\ n \in S => n + 1 \in S
  BY <1>1, <1>2 DEF Walked
<1>4. 0 \in D
  BY <1>1
<1>5. ASSUME NEW n \in 0..L, n < L, n \in D PROVE n + 1 \in D
  <2>1. L - (n + 1) \in 0..L /\ L - (n + 1) < L /\ (L - (n + 1)) + 1 = L - n /\ n + 1 \in 0..L
    BY <1>1, <1>5
  <2> QED
    BY <1>2, <1>5, <2>1
<1>6. \A n \in 0..L : n \in S
  <2> HIDE DEF S
  <2> QED
    BY <1>1, <1>3, Induction
<1>7. \A n \in 0..L : n \in D
  <2> HIDE DEF D
  <2> QED
    BY <1>1, <1>4, <1>5, Induction
<1>8. \A n \in 0..L : L - n \in 0..L /\ L - (L - n) = n
  BY <1>1
<1> QED
  BY <1>6, <1>7, <1>8

LEMMA WalkWithin ==
    ASSUME NEW head \in Names, NEW held, NEW walk, Walked(head, held, Len(Objects), walk),
           NEW C, head \in C, \A o \in C \cap held : Children[o] \subseteq C
    PROVE  walk[Len(Objects)] \subseteq C
<1> DEFINE L == Len(Objects)
           S == {n \in 0..L : walk[n] \subseteq C}
<1>1. L \in Nat
  BY ObjectFacts
<1>2. 0 \in S
  BY <1>1 DEF Walked
<1>3. ASSUME NEW n \in 0..L, n < L, n \in S PROVE n + 1 \in S
  <2>1. n + 1 \in 0..L /\ (n + 1) - 1 = n /\ n + 1 # 0
    BY <1>1, <1>3
  <2>2. walk[n + 1] = Opened(walk[n], held)
    BY <2>1 DEF Walked
  <2> QED
    BY <1>3, <2>1, <2>2 DEF Opened
<1>4. \A n \in 0..L : n \in S
  <2> HIDE DEF S
  <2> QED
    BY <1>1, <1>2, <1>3, Induction
<1> QED
  BY <1>1, <1>4

(* A walk that misses nothing is closed under the children of what it saw. *)
LEMMA WalkClosed ==
    ASSUME NEW head \in Names, NEW held, NEW walk, Walked(head, held, Len(Objects), walk),
           walk[Len(Objects)] \subseteq held, NEW other, Walked(head, Names, Len(Objects), other)
    PROVE  other[Len(Objects)] \subseteq walk[Len(Objects)]
<1> DEFINE L == Len(Objects)
           S == {n \in 0..L : other[n] \subseteq walk[n]}
<1>1. L \in Nat
  BY ObjectFacts
<1>2. 0 \in S
  <2>1. other[0] = {head} /\ walk[0] = {head}
    BY DEF Walked
  <2> QED
    BY <1>1, <2>1
<1>3. ASSUME NEW n \in 0..L, n < L, n \in S PROVE n + 1 \in S
  <2>1. n + 1 \in 0..L /\ (n + 1) - 1 = n /\ n + 1 # 0
    BY <1>1, <1>3
  <2>2. walk[n + 1] = Opened(walk[n], held) /\ other[n + 1] = Opened(other[n], Names)
    BY <2>1 DEF Walked
  <2>3. walk[n] \subseteq held /\ other[n] \subseteq walk[n] /\ walk[n] \subseteq Names
    BY <1>3, WalkGrows DEF Walked
  <2> QED
    BY <2>1, <2>2, <2>3 DEF Opened
<1>4. \A n \in 0..L : n \in S
  <2> HIDE DEF S
  <2> QED
    BY <1>1, <1>2, <1>3, Induction
<1> QED
  BY <1>1, <1>4

(* What is below a head: itself and nothing that is not an object, and no
   other head. *)
LEMMA BelowFacts ==
    ASSUME NEW h \in Heads
    PROVE  Below(h) \in SUBSET Names /\ h \in Below(h) /\ Below(h) \cap Heads = {h}
<1>1. h \in Names
  BY ObjectFacts
<1>2. Below(h) = Walk(h, Names)
  BY DEF Below, Reachable
<1>3. PICK walk : Walked(h, Names, Len(Objects), walk) /\ Walk(h, Names) = walk[Len(Objects)]
  BY <1>1, WalkIs
<1>4. Len(Objects) \in 0..Len(Objects)
  BY ObjectFacts
<1>5. walk[Len(Objects)] \in SUBSET Names /\ h \in walk[Len(Objects)]
  BY <1>1, <1>3, <1>4, WalkGrows DEF Walked
<1> DEFINE C == {h} \cup (Names \ Heads)
<1>6. h \in C /\ \A o \in C \cap Names : Children[o] \subseteq C
  BY ObjectFacts
<1>7. walk[Len(Objects)] \subseteq C
  <2> HIDE DEF C
  <2> QED
    BY <1>1, <1>3, <1>6, WalkWithin
<1> QED
  BY <1>2, <1>3, <1>5, <1>7

(* A walk sees only what is below its head, and when it misses nothing, all
   of that is there. *)
LEMMA MissingFacts ==
    ASSUME NEW h \in Heads, NEW held \in SUBSET Names
    PROVE  /\ Walk(h, held) \subseteq Below(h) /\ Missing(h, held) \subseteq Below(h) \ held
           /\ Missing(h, held) = {} => Below(h) \subseteq held
<1>1. h \in Names
  BY ObjectFacts
<1>2. Below(h) = Walk(h, Names)
  BY DEF Below, Reachable
<1>3. PICK walk : Walked(h, held, Len(Objects), walk) /\ Walk(h, held) = walk[Len(Objects)]
  BY <1>1, WalkIs
<1>4. PICK all : Walked(h, Names, Len(Objects), all) /\ Walk(h, Names) = all[Len(Objects)]
  BY <1>1, WalkIs
<1> DEFINE L == Len(Objects)
           S == {n \in 0..L : walk[n] \subseteq all[n]}
<1>5. L \in Nat
  BY ObjectFacts
<1>6. 0 \in S
  BY <1>3, <1>4, <1>5 DEF Walked
<1>7. ASSUME NEW n \in 0..L, n < L, n \in S PROVE n + 1 \in S
  <2>1. n + 1 \in 0..L /\ (n + 1) - 1 = n /\ n + 1 # 0
    BY <1>5, <1>7
  <2>2. walk[n + 1] = Opened(walk[n], held) /\ all[n + 1] = Opened(all[n], Names)
    BY <1>3, <1>4, <2>1 DEF Walked
  <2> QED
    BY <1>7, <2>1, <2>2 DEF Opened
<1>8. \A n \in 0..L : n \in S
  <2> HIDE DEF S
  <2> QED
    BY <1>5, <1>6, <1>7, Induction
<1>9. Walk(h, held) \subseteq Below(h)
  BY <1>2, <1>3, <1>4, <1>5, <1>8
<1>10. ASSUME Missing(h, held) = {} PROVE Below(h) \subseteq held
  <2>1. walk[Len(Objects)] \subseteq held
    BY <1>3, <1>10 DEF Missing
  <2>2. all[Len(Objects)] \subseteq walk[Len(Objects)]
    BY <1>1, <1>3, <1>4, <2>1, WalkClosed
  <2> QED
    BY <1>2, <1>4, <2>1, <2>2
<1> QED
  BY <1>9, <1>10 DEF Missing

(***************************************************************************)
(* The packing of an export.                                               *)
(***************************************************************************)
Frames == Seq(SUBSET Names)
InFrames(o, frames) == \E i \in 1..Len(frames) : o \in frames[i]

\* What becomes of the frames with one more object, and the frames after the
\* first n.
Put(frames, o, objects) ==
    IF o \notin objects THEN frames
    ELSE IF frames # <<>> /\ Fits(frames[Len(frames)], o)
         THEN [frames EXCEPT ![Len(frames)] = @ \cup {o}]
         ELSE Append(frames, {o})
Packed(objects, n, pack) ==
    /\ pack \in [0..n -> Frames] /\ pack[0] = <<>>
    /\ \A i \in 0..n : i # 0 => pack[i] = Put(pack[i - 1], Objects[i], objects)

LEMMA PutFacts ==
    ASSUME NEW frames \in Frames, NEW o \in Names, NEW objects
    PROVE  /\ Put(frames, o, objects) \in Frames
           /\ \A x : InFrames(x, frames) => InFrames(x, Put(frames, o, objects))
           /\ o \in objects => InFrames(o, Put(frames, o, objects))
<1> DEFINE last == Len(frames)
           grown == [frames EXCEPT ![last] = @ \cup {o}]
           more == Append(frames, {o})
<1>1. frames \in Seq(SUBSET Names) /\ last \in Nat /\ DOMAIN frames = 1..last
  BY DEF Frames
<1>2. CASE o \notin objects
  BY <1>2 DEF Put
<1>3. CASE o \in objects /\ frames # <<>> /\ Fits(frames[Len(frames)], o)
  <2>1. Put(frames, o, objects) = grown
    BY <1>3 DEF Put
  <2>2. last \in 1..last
    BY <1>1, <1>3
  <2>3. frames[last] \cup {o} \in SUBSET Names
    BY <1>1, <2>2
  <2>4. /\ DOMAIN grown = 1..last
        /\ \A i \in 1..last : grown[i] = IF i = last THEN frames[last] \cup {o} ELSE frames[i]
    BY <1>1, <2>2
  <2>5. grown \in Seq(SUBSET Names) /\ Len(grown) = last
    BY <1>1, <2>2, <2>3, ExceptSeq
  <2> HIDE DEF grown
  <2>6. \A x : InFrames(x, frames) => InFrames(x, grown)
    BY <2>4, <2>5 DEF InFrames
  <2>7. InFrames(o, grown)
    BY <2>2, <2>4, <2>5 DEF InFrames
  <2> QED
    BY <2>1, <2>5, <2>6, <2>7 DEF Frames
<1>4. CASE o \in objects /\ ~(frames # <<>> /\ Fits(frames[Len(frames)], o))
  <2>1. Put(frames, o, objects) = more
    BY <1>4 DEF Put
  <2>2. more \in Seq(SUBSET Names) /\ Len(more) = last + 1 /\ more[last + 1] = {o}
    BY <1>1
  <2>3. \A i \in 1..last : more[i] = frames[i]
    BY <1>1
  <2>4. \A x : InFrames(x, frames) => InFrames(x, more)
    BY <1>1, <2>2, <2>3 DEF InFrames
  <2>5. InFrames(o, more)
    BY <1>1, <2>2 DEF InFrames
  <2> QED
    BY <2>1, <2>2, <2>4, <2>5 DEF Frames
<1> QED
  BY <1>2, <1>3, <1>4

(* The packing is defined. *)
LEMMA PackExists ==
    ASSUME NEW objects
    PROVE  \E pack : Packed(objects, Len(Objects), pack)
<1> DEFINE L == Len(Objects)
           S == {n \in 0..L : \E pack : Packed(objects, n, pack)}
<1>1. L \in Nat
  BY ObjectFacts
<1>2. 0 \in S
  <2> DEFINE w == [i \in 0..0 |-> <<>>]
  <2>1. <<>> \in Frames
    BY DEF Frames
  <2>2. Packed(objects, 0, w)
    BY <2>1 DEF Packed
  <2> QED
    BY <1>1, <2>2
<1>3. ASSUME NEW n \in 0..L, n < L, n \in S PROVE n + 1 \in S
  <2>1. PICK v : Packed(objects, n, v)
    BY <1>3
  <2>2. n \in Nat /\ n + 1 \in 0..L /\ v[n] \in Frames /\ Objects[n + 1] \in Names
    BY <1>1, <1>3, <2>1, ObjectFacts DEF Packed
  <2> DEFINE put == Put(v[n], Objects[n + 1], objects)
             w == [i \in 0..(n + 1) |-> IF i = n + 1 THEN put ELSE v[i]]
  <2>3. put \in Frames
    BY <2>2, PutFacts
  <2>4. w \in [0..(n + 1) -> Frames] /\ w[0] = <<>>
    <3> HIDE DEF put
    <3> QED
      BY <2>1, <2>2, <2>3 DEF Packed
  <2>5. ASSUME NEW i \in 0..(n + 1), i # 0 PROVE w[i] = Put(w[i - 1], Objects[i], objects)
    <3>1. i - 1 \in 0..n /\ w[i - 1] = v[i - 1]
      BY <2>2, <2>5
    <3>2. CASE i = n + 1
      BY <2>2, <3>1, <3>2
    <3>3. CASE i # n + 1
      BY <2>1, <2>2, <2>5, <3>1, <3>3 DEF Packed
    <3> QED
      BY <3>2, <3>3
  <2> HIDE DEF w
  <2>6. Packed(objects, n + 1, w)
    BY <2>4, <2>5 DEF Packed
  <2> QED
    BY <2>2, <2>6
<1> HIDE DEF S
<1>4. \A n \in 0..L : n \in S
  BY <1>1, <1>2, <1>3, Induction
<1>5. L \in S
  BY <1>1, <1>4
<1> QED
  BY <1>5 DEF S

(* Every object that is to be packed is in one of the frames. *)
LEMMA PackFacts ==
    ASSUME NEW objects \in SUBSET Names
    PROVE  /\ Pack(objects) \in Frames
           /\ \A o \in objects : InFrames(o, Pack(objects))
<1> DEFINE L == Len(Objects)
           F(v) == [n \in 0..L |-> IF n = 0 THEN <<>> ELSE
                       LET frames == v[n - 1] o == Objects[n] IN
                       IF o \notin objects THEN frames
                       ELSE IF frames # <<>> /\ Fits(frames[Len(frames)], o)
                            THEN [frames EXCEPT ![Len(frames)] = @ \cup {o}]
                            ELSE Append(frames, {o})]
           f == CHOOSE v : v = F(v)
<1>1. PICK w : Packed(objects, L, w)
  BY PackExists
<1>2. L \in Nat
  BY ObjectFacts
<1>3. w = F(w)
  BY <1>1, <1>2 DEF Packed, Put
<1>4. f = F(f)
  BY <1>3
<1>5. Pack(objects) = f[L]
  BY DEF Pack
<1> HIDE DEF f
<1>6. f[0] = <<>> /\ \A i \in 0..L : i # 0 => f[i] = Put(f[i - 1], Objects[i], objects)
  <2>1. f = [n \in 0..L |-> IF n = 0 THEN <<>> ELSE Put(f[n - 1], Objects[n], objects)]
    BY <1>4 DEF Put
  <2>2. \A i \in 0..L : f[i] = IF i = 0 THEN <<>> ELSE Put(f[i - 1], Objects[i], objects)
    BY <2>1
  <2> QED
    BY <1>2, <2>2
<1> HIDE DEF F
<1> DEFINE Covers(n) == \A i \in 1..n : Objects[i] \in objects => InFrames(Objects[i], f[n])
           S == {n \in 0..L : f[n] \in Frames /\ Covers(n)}
<1>7. 0 \in S
  <2>1. <<>> \in Frames
    BY DEF Frames
  <2> QED
    BY <1>2, <1>6, <2>1
<1>8. ASSUME NEW n \in 0..L, n < L, n \in S PROVE n + 1 \in S
  <2>1. n \in Nat /\ n + 1 \in 0..L /\ (n + 1) - 1 = n /\ n + 1 # 0 /\ Objects[n + 1] \in Names
    BY <1>2, <1>8, ObjectFacts
  <2>2. f[n + 1] = Put(f[n], Objects[n + 1], objects)
    BY <1>6, <2>1
  <2>3. f[n] \in Frames /\ Covers(n)
    BY <1>8
  <2>4. /\ f[n + 1] \in Frames
        /\ \A x : InFrames(x, f[n]) => InFrames(x, f[n + 1])
        /\ Objects[n + 1] \in objects => InFrames(Objects[n + 1], f[n + 1])
    BY <2>1, <2>2, <2>3, PutFacts
  <2>5. Covers(n + 1)
    <3>1. \A i \in 1..(n + 1) : i \in 1..n \/ i = n + 1
      BY <2>1
    <3> QED
      BY <2>3, <2>4, <3>1
  <2> QED
    BY <2>1, <2>4, <2>5
<1>9. \A n \in 0..L : n \in S
  <2> HIDE DEF S
  <2> QED
    BY <1>2, <1>7, <1>8, Induction
<1>10. f[L] \in Frames /\ Covers(L)
  BY <1>2, <1>9
<1>11. \A o \in objects : \E n \in 1..L : Objects[n] = o
  BY ObjectFacts
<1> QED
  BY <1>5, <1>10, <1>11

(***************************************************************************)
(* One lemma per action.  A step of a device changes what is the device's  *)
(* alone, and only adds to what is shared.                                 *)
(***************************************************************************)
LEMMA JobKinds ==
    ASSUME TypeOK, NEW d \in Devices
    PROVE  /\ job[d] \in Jobs /\ DOMAIN job = Devices
           /\ job[d].step \in {"frames", "recorded"} => job[d] \in Exports
           /\ job[d].step = "refused" => job[d] \in Refusals
           /\ job[d].step = "fetch" => job[d] \in Fetches
           /\ job[d].step \in ImportSteps => job[d] \in Imports
           /\ job[d].step = "list" => job[d] \in Requests
           /\ job[d].step \in {"want", "rewind", "adopt"} => job[d] \in Requests \cup Imports
           /\ job[d] # Idle => job[d].step # "idle"
           /\ job[d].step \in TakingSteps => job[d].head \in Heads
  BY DEF TypeOK, Jobs, Exports, Refusals, Fetches, Imports, Requests, Idle, ImportSteps, TakingSteps

(* The parts of the state that are a device's own. *)
Own(e) == <<disk[e], refs[e], ledger[e], inbox[e], job[e]>>

Stepped(d) ==
    /\ \A e \in Devices : e # d => Own(e)' = Own(e)
    /\ remote \subseteq remote' /\ served \subseteq served'
    /\ scenario' = scenario /\ spent.collections <= spent'.collections

(* The other devices keep what they have. *)
LEMMA OthersKeep ==
    ASSUME TypeOK, TypeOK', NEW d \in Devices, Stepped(d), NEW e \in Devices, e # d, Device(e)
    PROVE  Device(e)'
<1>1. /\ disk'[e] = disk[e] /\ refs'[e] = refs[e] /\ ledger'[e] = ledger[e]
      /\ inbox'[e] = inbox[e] /\ job'[e] = job[e]
      /\ remote \subseteq remote' /\ served \subseteq served' /\ scenario' = scenario
  BY DEF Stepped, Own
<1>3. LedgerInv(e)'
  BY <1>1 DEF Device, LedgerInv
<1>4. ExportInv(e)'
  BY <1>1 DEF Device, ExportInv
<1>5. ImportInv(e)'
  BY <1>1 DEF Device, ImportInv
<1>6. PassedInv(e)'
  BY <1>1 DEF Device, PassedInv
<1>7. SettleInv(e)' /\ AdoptInv(e)' /\ Timeline(e)'
  BY <1>1 DEF Device, SettleInv, AdoptInv, Timeline
<1> QED
  BY <1>3, <1>4, <1>5, <1>6, <1>7 DEF Device

LEMMA StepGood ==
    ASSUME IInv, NEW d \in Devices, TypeOK', Stepped(d), HeadServed', Device(d)'
    PROVE  IInv'
<1>1. \A e \in Devices : e # d => Device(e)'
  BY OthersKeep DEF IInv
<1> QED
  BY <1>1 DEF IInv


(* A new snapshot comes with all that is below it. *)
LEMMA SealGood ==
    ASSUME IInv, NEW d \in Devices, NEW h \in Heads, Seal(d, h)
    PROVE  IInv'
<1>1. TypeOK /\ HeadServed /\ Device(d)
  BY DEF IInv
<1>2. /\ job[d] \in Jobs /\ DOMAIN job = Devices /\ d \in DOMAIN job
      /\ d \in DOMAIN disk /\ d \in DOMAIN inbox /\ d \in DOMAIN ledger /\ d \in DOMAIN refs
  BY <1>1, JobKinds DEF TypeOK
<1>3. UNCHANGED <<scenario, ledger, outbox, inbox, torn, remote, served, job, spent>>
  BY DEF Seal
<1>f1. job[d].step = "idle" /\ h \in Below(h) /\ Below(h) \in SUBSET Names
  BY BelowFacts DEF Seal, Idle
<1>f2. /\ disk' = [disk EXCEPT ![d] = @ \cup Below(h)]
       /\ refs' = [refs EXCEPT ![d] = @ \cup {h}] /\ tree' = [tree EXCEPT ![d] = h]
  BY DEF Seal
<1>f3. disk'[d] = disk[d] \cup Below(h) /\ refs'[d] = refs[d] \cup {h}
  BY <1>2, <1>f2
<1>4. TypeOK'
  BY <1>1, <1>2, <1>3, <1>f1, <1>f2, <1>f3 DEF TypeOK
<1>5. Stepped(d)
  BY <1>1, <1>2, <1>3, <1>f2 DEF Stepped, Own, TypeOK
<1>6. HeadServed'
  BY <1>1, <1>3, <1>5 DEF HeadServed, Stepped
<1>7. LedgerInv(d)'
  BY <1>1, <1>3 DEF Device, LedgerInv
<1>8. ExportInv(d)'
  BY <1>1, <1>3, <1>f1 DEF Device, ExportInv
<1>9. ImportInv(d)'
  BY <1>1, <1>3, <1>f1 DEF Device, ImportInv, ImportSteps, TakingSteps
<1>10. PassedInv(d)'
  BY <1>1, <1>3, <1>f1, <1>f2, <1>f3 DEF Device, PassedInv, ImportSteps, TakingSteps
<1>11. SettleInv(d)'
  BY <1>1, <1>3, <1>f1 DEF Device, SettleInv
<1>12. AdoptInv(d)'
  BY <1>1, <1>3, <1>f1, <1>f2, <1>f3 DEF Device, AdoptInv
<1>13. Timeline(d)'
  BY <1>1, <1>3, <1>f2, <1>f3 DEF Device, Timeline
<1>14. Device(d)'
  BY <1>7, <1>8, <1>9, <1>10, <1>11, <1>12, <1>13 DEF Device
<1> QED
  BY <1>4, <1>5, <1>6, <1>14, StepGood


(* What a timeline refers to stays.  A head that is about to be adopted is either in
   the timeline or gone, since no other snapshot names it. *)
LEMMA CollectGood ==
    ASSUME IInv, NEW d \in Devices, Collect(d)
    PROVE  IInv'
<1>1. TypeOK /\ HeadServed /\ Device(d)
  BY DEF IInv
<1>2. /\ job[d] \in Jobs /\ DOMAIN job = Devices /\ d \in DOMAIN job
      /\ d \in DOMAIN disk /\ d \in DOMAIN inbox /\ d \in DOMAIN ledger /\ d \in DOMAIN refs
  BY <1>1, JobKinds DEF TypeOK
<1>3. UNCHANGED <<scenario, refs, tree, ledger, outbox, inbox, torn, remote, served, job>>
  BY DEF Collect
<1>f1. disk' = [disk EXCEPT ![d] = UNION {Below(h) : h \in refs[d]}]
  BY DEF Collect
<1>f2. disk'[d] = UNION {Below(h) : h \in refs[d]}
  BY <1>2, <1>f1
<1>f3. refs[d] \in SUBSET Heads /\ \A h \in refs[d] : Below(h) \in SUBSET Names
  BY <1>1, BelowFacts DEF TypeOK
<1>f4. disk'[d] \in SUBSET Names
  BY <1>f2, <1>f3
<1>f5. spent' = [spent EXCEPT !.collections = @ + 1] /\ job[d].step \notin {"pass", "commit"}
  BY DEF Collect, Spend
<1>f6. /\ spent' \in [faults : Nat, collections : Nat] /\ spent.collections <= spent'.collections
       /\ spent'.collections # 0
  BY <1>1, <1>f5 DEF TypeOK
<1>4. TypeOK'
  BY <1>1, <1>2, <1>3, <1>f1, <1>f2, <1>f3, <1>f4, <1>f5, <1>f6 DEF TypeOK
<1>5. Stepped(d)
  BY <1>1, <1>2, <1>3, <1>f1, <1>f5, <1>f6 DEF Stepped, Own, TypeOK
<1>6. HeadServed'
  BY <1>1, <1>3, <1>5 DEF HeadServed, Stepped
<1>7. LedgerInv(d)'
  BY <1>1, <1>3 DEF Device, LedgerInv
<1>8. ExportInv(d)'
  BY <1>1, <1>3, <1>f5 DEF Device, ExportInv
<1>9. ImportInv(d)'
  BY <1>1, <1>3, <1>f5 DEF Device, ImportInv, ImportSteps, TakingSteps
<1>10. PassedInv(d)'
  BY <1>1, <1>3, <1>f2, <1>f5, <1>f6 DEF Device, PassedInv, ImportSteps
<1>11. SettleInv(d)'
  BY <1>1, <1>3, <1>f5 DEF Device, SettleInv
<1>12. AdoptInv(d)'
  <2>1. ASSUME job[d].step = "adopt", job[d].head \in disk'[d]
        PROVE  Below(job[d].head) \subseteq disk'[d]
    <3>1. PICK h \in refs[d] : job[d].head \in Below(h)
      BY <1>f2, <2>1
    <3>2. job[d].head \in Heads /\ h \in Heads
      BY <1>1, <1>f3, <2>1, JobKinds DEF TakingSteps
    <3>3. job[d].head = h
      BY <3>1, <3>2, BelowFacts
    <3> QED
      BY <1>f2, <3>1, <3>3
  <2> QED
    BY <1>3, <2>1 DEF AdoptInv
<1>13. Timeline(d)'
  BY <1>3, <1>f2 DEF Timeline
<1>14. Device(d)'
  BY <1>7, <1>8, <1>9, <1>10, <1>11, <1>12, <1>13 DEF Device
<1> QED
  BY <1>4, <1>5, <1>6, <1>14, StepGood


(* What an export does not pack was recorded as published. *)
LEMMA ExportGood ==
    ASSUME IInv, NEW d \in Devices, NEW h \in Heads, Export(d, h)
    PROVE  IInv'
<1>1. TypeOK /\ HeadServed /\ Device(d)
  BY DEF IInv
<1>2. /\ job[d] \in Jobs /\ DOMAIN job = Devices /\ d \in DOMAIN job
      /\ d \in DOMAIN disk /\ d \in DOMAIN inbox /\ d \in DOMAIN ledger /\ d \in DOMAIN refs
  BY <1>1, JobKinds DEF TypeOK
<1>3. UNCHANGED <<scenario, disk, refs, tree, ledger, outbox, inbox, torn, remote, served, spent>>
  BY DEF Export
<1>f1. LET j == [step |-> "frames", head |-> h, frames |-> Pack(Unsent(d, h)),
                written |-> 0, sent |-> 0] IN
       job' = [job EXCEPT ![d] = j] /\ job'[d] = j
  BY <1>2 DEF Export
<1>f2. Unsent(d, h) \in SUBSET Names /\ Unsent(d, h) = Below(h) \ ledger[d]
  BY BelowFacts DEF Unsent
<1>f3. /\ Pack(Unsent(d, h)) \in Seq(SUBSET Names)
       /\ \A o \in Unsent(d, h) : InFrames(o, Pack(Unsent(d, h)))
  BY <1>f2, PackFacts DEF Frames
<1>f4. /\ job'[d].step = "frames" /\ job'[d].head = h /\ job'[d].frames = Pack(Unsent(d, h))
       /\ job'[d].sent = 0 /\ job'[d].written = 0
  BY <1>f1
<1>f5. job'[d] \in Exports
  BY <1>f1, <1>f3 DEF Exports
<1>f6. job' \in [Devices -> Jobs] /\ \A e \in Devices : e # d => job'[e] = job[e]
  BY <1>1, <1>f1, <1>f5 DEF TypeOK, Jobs
<1>4. TypeOK'
  BY <1>1, <1>2, <1>3, <1>f1, <1>f6 DEF TypeOK
<1>5. Stepped(d)
  BY <1>1, <1>2, <1>3, <1>f1, <1>f6 DEF Stepped, Own, TypeOK
<1>6. HeadServed'
  BY <1>1, <1>3, <1>5 DEF HeadServed, Stepped
<1>7. LedgerInv(d)'
  BY <1>1, <1>3 DEF Device, LedgerInv
<1>8. ExportInv(d)'
  <2>1. 0 <= Len(Pack(Unsent(d, h))) /\ 1..0 = {}
    BY <1>f3
  <2>2. \A o \in Below(h) : o \in remote \/ InFrames(o, Pack(Unsent(d, h)))
    BY <1>1, <1>f2, <1>f3 DEF Device, LedgerInv
  <2> QED
    BY <1>3, <1>f4, <2>1, <2>2 DEF ExportInv, InFrames
<1>9. ImportInv(d)'
  BY <1>1, <1>3, <1>f1, <1>f4, <1>f5 DEF Device, ImportInv, ImportSteps, TakingSteps
<1>10. PassedInv(d)'
  BY <1>1, <1>3, <1>f1, <1>f4, <1>f5 DEF Device, PassedInv, ImportSteps, TakingSteps
<1>11. SettleInv(d)'
  BY <1>1, <1>3, <1>f1, <1>f4, <1>f5 DEF Device, SettleInv
<1>12. AdoptInv(d)'
  BY <1>1, <1>3, <1>f1, <1>f2, <1>f4, <1>f5 DEF Device, AdoptInv
<1>13. Timeline(d)'
  BY <1>1, <1>3 DEF Device, Timeline
<1>14. Device(d)'
  BY <1>7, <1>8, <1>9, <1>10, <1>11, <1>12, <1>13 DEF Device
<1> QED
  BY <1>4, <1>5, <1>6, <1>14, StepGood


(* A frame is written to the outbox. *)
LEMMA WriteFrameWritten ==
    ASSUME IInv, NEW d \in Devices, WriteFrame(d), ~TooLarge(job[d].frames[job[d].written + 1])
    PROVE  IInv'
<1>1. TypeOK /\ HeadServed /\ Device(d)
  BY DEF IInv
<1>2. /\ job[d] \in Jobs /\ DOMAIN job = Devices /\ d \in DOMAIN job
      /\ d \in DOMAIN disk /\ d \in DOMAIN inbox /\ d \in DOMAIN ledger /\ d \in DOMAIN refs
  BY <1>1, JobKinds DEF TypeOK
<1>3. UNCHANGED <<scenario, disk, refs, tree, ledger, inbox, torn, remote, served, spent>>
  BY DEF WriteFrame
<1>f1. job[d].step = "frames" /\ job[d] \in Exports /\ job[d].written < Len(job[d].frames)
  BY <1>1, JobKinds DEF WriteFrame, ImportSteps, TakingSteps
<1>f2. job' = [job EXCEPT ![d] = [job[d] EXCEPT !.written = @ + 1]]
  BY <1>2 DEF WriteFrame
<1>f3. /\ job'[d].step = "frames" /\ job'[d].head = job[d].head /\ job'[d].frames = job[d].frames
       /\ job'[d].sent = job[d].sent
  BY <1>2, <1>f1, <1>f2
<1>f4. job'[d] \in Exports
  BY <1>2, <1>f1, <1>f2 DEF Exports
<1>f5. job' \in [Devices -> Jobs] /\ \A e \in Devices : e # d => job'[e] = job[e]
  BY <1>1, <1>2, <1>f2, <1>f4 DEF TypeOK, Jobs
<1>f6. outbox' = [outbox EXCEPT ![d] = @ \cup {job[d].frames[job[d].written + 1]}]
  BY DEF WriteFrame
<1>f7. job[d].frames[job[d].written + 1] \in SUBSET Names
  BY <1>f1 DEF Exports
<1>f8. outbox' \in [Devices -> SUBSET SUBSET Names]
  BY <1>1, <1>f6, <1>f7 DEF TypeOK
<1>4. TypeOK'
  BY <1>1, <1>2, <1>3, <1>f2, <1>f5, <1>f6, <1>f8 DEF TypeOK
<1>5. Stepped(d)
  BY <1>1, <1>2, <1>3, <1>f2, <1>f5, <1>f6 DEF Stepped, Own, TypeOK
<1>6. HeadServed'
  BY <1>1, <1>3, <1>5 DEF HeadServed, Stepped
<1>7. LedgerInv(d)'
  BY <1>1, <1>3 DEF Device, LedgerInv
<1>8. ExportInv(d)'
  BY <1>1, <1>3, <1>f1, <1>f3, <1>f4 DEF Device, ExportInv
<1>9. ImportInv(d)'
  BY <1>1, <1>3, <1>f1, <1>f3, <1>f4 DEF Device, ImportInv, ImportSteps, TakingSteps
<1>10. PassedInv(d)'
  BY <1>1, <1>3, <1>f1, <1>f3, <1>f4 DEF Device, PassedInv, ImportSteps, TakingSteps
<1>11. SettleInv(d)'
  BY <1>1, <1>3, <1>f1, <1>f3, <1>f4 DEF Device, SettleInv
<1>12. AdoptInv(d)'
  BY <1>1, <1>3, <1>f1, <1>f3, <1>f4 DEF Device, AdoptInv
<1>13. Timeline(d)'
  BY <1>1, <1>3 DEF Device, Timeline
<1>14. Device(d)'
  BY <1>7, <1>8, <1>9, <1>10, <1>11, <1>12, <1>13 DEF Device
<1> QED
  BY <1>4, <1>5, <1>6, <1>14, StepGood


(* A frame whose header is too large ends the command. *)
LEMMA WriteFrameRefused ==
    ASSUME IInv, NEW d \in Devices, WriteFrame(d), TooLarge(job[d].frames[job[d].written + 1])
    PROVE  IInv'
<1>1. TypeOK /\ HeadServed /\ Device(d)
  BY DEF IInv
<1>2. /\ job[d] \in Jobs /\ DOMAIN job = Devices /\ d \in DOMAIN job
      /\ d \in DOMAIN disk /\ d \in DOMAIN inbox /\ d \in DOMAIN ledger /\ d \in DOMAIN refs
  BY <1>1, JobKinds DEF TypeOK
<1>3. UNCHANGED <<scenario, disk, refs, tree, ledger, outbox, inbox, torn, remote, served, spent>>
  BY DEF WriteFrame
<1>f1. job[d].step = "frames" /\ job[d] \in Exports
  BY <1>1, JobKinds DEF WriteFrame, ImportSteps, TakingSteps
<1>f2. job' = [job EXCEPT ![d] = [step |-> "refused", head |-> job[d].head]]
  BY <1>2 DEF WriteFrame
<1>f3. job'[d].step = "refused"
  BY <1>2, <1>f1, <1>f2
<1>f4. job'[d] \in Refusals
  BY <1>2, <1>f1, <1>f2 DEF Refusals, Exports
<1>f5. job' \in [Devices -> Jobs] /\ \A e \in Devices : e # d => job'[e] = job[e]
  BY <1>1, <1>2, <1>f2, <1>f4 DEF TypeOK, Jobs
<1>4. TypeOK'
  BY <1>1, <1>2, <1>3, <1>f2, <1>f5 DEF TypeOK
<1>5. Stepped(d)
  BY <1>1, <1>2, <1>3, <1>f2, <1>f5 DEF Stepped, Own, TypeOK
<1>6. HeadServed'
  BY <1>1, <1>3, <1>5 DEF HeadServed, Stepped
<1>7. LedgerInv(d)'
  BY <1>1, <1>3 DEF Device, LedgerInv
<1>8. ExportInv(d)'
  BY <1>1, <1>3, <1>f1, <1>f3, <1>f4 DEF Device, ExportInv
<1>9. ImportInv(d)'
  BY <1>1, <1>3, <1>f1, <1>f3, <1>f4 DEF Device, ImportInv, ImportSteps, TakingSteps
<1>10. PassedInv(d)'
  BY <1>1, <1>3, <1>f1, <1>f3, <1>f4 DEF Device, PassedInv, ImportSteps, TakingSteps
<1>11. SettleInv(d)'
  BY <1>1, <1>3, <1>f1, <1>f3, <1>f4 DEF Device, SettleInv
<1>12. AdoptInv(d)'
  BY <1>1, <1>3, <1>f1, <1>f3, <1>f4 DEF Device, AdoptInv
<1>13. Timeline(d)'
  BY <1>1, <1>3 DEF Device, Timeline
<1>14. Device(d)'
  BY <1>7, <1>8, <1>9, <1>10, <1>11, <1>12, <1>13 DEF Device
<1> QED
  BY <1>4, <1>5, <1>6, <1>14, StepGood


(* An uploaded frame is in the store. *)
LEMMA UploadGood ==
    ASSUME IInv, NEW d \in Devices, Upload(d)
    PROVE  IInv'
<1>1. TypeOK /\ HeadServed /\ Device(d)
  BY DEF IInv
<1>2. /\ job[d] \in Jobs /\ DOMAIN job = Devices /\ d \in DOMAIN job
      /\ d \in DOMAIN disk /\ d \in DOMAIN inbox /\ d \in DOMAIN ledger /\ d \in DOMAIN refs
  BY <1>1, JobKinds DEF TypeOK
<1>3. UNCHANGED <<scenario, disk, refs, tree, ledger, outbox, inbox, torn, served, spent>>
  BY DEF Upload
<1>f1. job[d].step = "frames" /\ job[d] \in Exports /\ job[d].sent < Len(job[d].frames)
  BY <1>1, JobKinds DEF Upload, ImportSteps, TakingSteps
<1>f2. job' = [job EXCEPT ![d] = [job[d] EXCEPT !.sent = @ + 1]]
  BY <1>2 DEF Upload
<1>f3. /\ job'[d].step = "frames" /\ job'[d].head = job[d].head /\ job'[d].frames = job[d].frames
       /\ job'[d].sent = job[d].sent + 1
  BY <1>2, <1>f1, <1>f2
<1>f4. job'[d] \in Exports
  BY <1>2, <1>f1, <1>f2 DEF Exports
<1>f5. job' \in [Devices -> Jobs] /\ \A e \in Devices : e # d => job'[e] = job[e]
  BY <1>1, <1>2, <1>f2, <1>f4 DEF TypeOK, Jobs
<1>f6. remote' = remote \cup job[d].frames[job[d].sent + 1]
  BY DEF Upload
<1>f7. /\ job[d].sent \in Nat /\ Len(job[d].frames) \in Nat
       /\ job[d].frames[job[d].sent + 1] \in SUBSET Names
  BY <1>f1 DEF Exports
<1>f8. remote' \in SUBSET Names
  BY <1>1, <1>f6, <1>f7 DEF TypeOK
<1>4. TypeOK'
  BY <1>1, <1>2, <1>3, <1>f2, <1>f5, <1>f6, <1>f8 DEF TypeOK
<1>5. Stepped(d)
  BY <1>1, <1>2, <1>3, <1>f2, <1>f5, <1>f6, <1>f8 DEF Stepped, Own, TypeOK
<1>6. HeadServed'
  BY <1>1, <1>3, <1>5 DEF HeadServed, Stepped
<1>7. LedgerInv(d)'
  BY <1>1, <1>3, <1>f6, <1>f8 DEF Device, LedgerInv
<1>8. ExportInv(d)'
  <2>1. job'[d].sent <= Len(job'[d].frames)
    BY <1>f1, <1>f3, <1>f7
  <2>2. \A i \in 1..job'[d].sent : i \in 1..job[d].sent \/ i = job[d].sent + 1
    BY <1>f3, <1>f7
  <2>3. \A i \in 1..job'[d].sent : job'[d].frames[i] \subseteq remote'
    BY <1>1, <1>f1, <1>f3, <1>f6, <2>2 DEF Device, ExportInv
  <2> QED
    BY <1>1, <1>f1, <1>f3, <1>f6, <2>1, <2>3 DEF Device, ExportInv
<1>9. ImportInv(d)'
  BY <1>1, <1>3, <1>f1, <1>f3, <1>f4, <1>f6, <1>f8 DEF Device, ImportInv, ImportSteps, TakingSteps
<1>10. PassedInv(d)'
  BY <1>1, <1>3, <1>f1, <1>f3, <1>f4 DEF Device, PassedInv, ImportSteps, TakingSteps
<1>11. SettleInv(d)'
  BY <1>1, <1>3, <1>f1, <1>f3, <1>f4 DEF Device, SettleInv
<1>12. AdoptInv(d)'
  BY <1>1, <1>3, <1>f1, <1>f3, <1>f4 DEF Device, AdoptInv
<1>13. Timeline(d)'
  BY <1>1, <1>3 DEF Device, Timeline
<1>14. Device(d)'
  BY <1>7, <1>8, <1>9, <1>10, <1>11, <1>12, <1>13 DEF Device
<1> QED
  BY <1>4, <1>5, <1>6, <1>14, StepGood


(* What is recorded as published was uploaded. *)
LEMMA RecordPublishedGood ==
    ASSUME IInv, NEW d \in Devices, RecordPublished(d)
    PROVE  IInv'
<1>1. TypeOK /\ HeadServed /\ Device(d)
  BY DEF IInv
<1>2. /\ job[d] \in Jobs /\ DOMAIN job = Devices /\ d \in DOMAIN job
      /\ d \in DOMAIN disk /\ d \in DOMAIN inbox /\ d \in DOMAIN ledger /\ d \in DOMAIN refs
  BY <1>1, JobKinds DEF TypeOK
<1>3. UNCHANGED <<scenario, disk, refs, tree, outbox, inbox, torn, remote, served, spent>>
  BY DEF RecordPublished
<1>f1. job[d].step = "frames" /\ job[d] \in Exports
  BY <1>1, JobKinds DEF RecordPublished, ImportSteps, TakingSteps
<1>f2. job' = [job EXCEPT ![d] = [job[d] EXCEPT !.step = "recorded"]]
  BY <1>2 DEF RecordPublished
<1>f3. /\ job'[d].step = "recorded" /\ job'[d].head = job[d].head
       /\ job'[d].frames = job[d].frames /\ job'[d].sent = job[d].sent
  BY <1>2, <1>f1, <1>f2
<1>f4. job'[d] \in Exports
  BY <1>2, <1>f1, <1>f2 DEF Exports
<1>f5. job' \in [Devices -> Jobs] /\ \A e \in Devices : e # d => job'[e] = job[e]
  BY <1>1, <1>2, <1>f2, <1>f4 DEF TypeOK, Jobs
<1>f6. ledger' = [ledger EXCEPT ![d] = @ \cup UNION Published(d)]
  BY DEF RecordPublished
<1>f7. \A frame \in Published(d) : frame \subseteq remote
  BY <1>1, <1>f1 DEF Published, Device, ExportInv
<1>f8. UNION Published(d) \subseteq remote /\ remote \subseteq Names
  BY <1>1, <1>f7 DEF TypeOK
<1>f9. ledger' \in [Devices -> SUBSET Names] /\ ledger'[d] = ledger[d] \cup UNION Published(d)
  BY <1>1, <1>f6, <1>f8 DEF TypeOK
<1>4. TypeOK'
  BY <1>1, <1>2, <1>3, <1>f2, <1>f5, <1>f6, <1>f9 DEF TypeOK
<1>5. Stepped(d)
  BY <1>1, <1>2, <1>3, <1>f2, <1>f5, <1>f6 DEF Stepped, Own, TypeOK
<1>6. HeadServed'
  BY <1>1, <1>3, <1>5 DEF HeadServed, Stepped
<1>7. LedgerInv(d)'
  BY <1>1, <1>2, <1>3, <1>f1, <1>f2, <1>f3, <1>f4, <1>f5, <1>f6, <1>f7, <1>f8, <1>f9
     DEF Device, LedgerInv
<1>8. ExportInv(d)'
  BY <1>1, <1>3, <1>f1, <1>f3, <1>f4 DEF Device, ExportInv
<1>9. ImportInv(d)'
  BY <1>1, <1>3, <1>f1, <1>f3, <1>f4 DEF Device, ImportInv, ImportSteps, TakingSteps
<1>10. PassedInv(d)'
  BY <1>1, <1>3, <1>f1, <1>f3, <1>f4 DEF Device, PassedInv, ImportSteps, TakingSteps
<1>11. SettleInv(d)'
  BY <1>1, <1>3, <1>f1, <1>f3, <1>f4 DEF Device, SettleInv
<1>12. AdoptInv(d)'
  BY <1>1, <1>3, <1>f1, <1>f3, <1>f4 DEF Device, AdoptInv
<1>13. Timeline(d)'
  BY <1>1, <1>3 DEF Device, Timeline
<1>14. Device(d)'
  BY <1>7, <1>8, <1>9, <1>10, <1>11, <1>12, <1>13 DEF Device
<1> QED
  BY <1>4, <1>5, <1>6, <1>14, StepGood


(* The outbox is of no account for what the store holds. *)
LEMMA DeleteFramesGood ==
    ASSUME IInv, NEW d \in Devices, DeleteFrames(d)
    PROVE  IInv'
<1>1. TypeOK /\ HeadServed /\ Device(d)
  BY DEF IInv
<1>2. /\ job[d] \in Jobs /\ DOMAIN job = Devices /\ d \in DOMAIN job
      /\ d \in DOMAIN disk /\ d \in DOMAIN inbox /\ d \in DOMAIN ledger /\ d \in DOMAIN refs
  BY <1>1, JobKinds DEF TypeOK
<1>3. UNCHANGED <<scenario, disk, refs, tree, ledger, inbox, torn, remote, served, spent>>
  BY DEF DeleteFrames
<1>f1. job[d].step = "recorded" /\ job[d] \in Exports
  BY <1>1, JobKinds DEF DeleteFrames, ImportSteps, TakingSteps
<1>f2. job' = [job EXCEPT ![d] = [job[d] EXCEPT !.step = "frames"]]
  BY <1>2 DEF DeleteFrames
<1>f3. /\ job'[d].step = "frames" /\ job'[d].head = job[d].head /\ job'[d].frames = job[d].frames
       /\ job'[d].sent = job[d].sent
  BY <1>2, <1>f1, <1>f2
<1>f4. job'[d] \in Exports
  BY <1>2, <1>f1, <1>f2 DEF Exports
<1>f5. job' \in [Devices -> Jobs] /\ \A e \in Devices : e # d => job'[e] = job[e]
  BY <1>1, <1>2, <1>f2, <1>f4 DEF TypeOK, Jobs
<1>f6. outbox' \in [Devices -> SUBSET SUBSET Names]
  BY <1>1 DEF TypeOK, DeleteFrames
<1>4. TypeOK'
  BY <1>1, <1>2, <1>3, <1>f2, <1>f5, <1>f6 DEF TypeOK
<1>5. Stepped(d)
  BY <1>1, <1>2, <1>3, <1>f2, <1>f5 DEF Stepped, Own, TypeOK
<1>6. HeadServed'
  BY <1>1, <1>3, <1>5 DEF HeadServed, Stepped
<1>7. LedgerInv(d)'
  BY <1>1, <1>3 DEF Device, LedgerInv
<1>8. ExportInv(d)'
  BY <1>1, <1>3, <1>f1, <1>f3, <1>f4 DEF Device, ExportInv
<1>9. ImportInv(d)'
  BY <1>1, <1>3, <1>f1, <1>f3, <1>f4 DEF Device, ImportInv, ImportSteps, TakingSteps
<1>10. PassedInv(d)'
  BY <1>1, <1>3, <1>f1, <1>f3, <1>f4 DEF Device, PassedInv, ImportSteps, TakingSteps
<1>11. SettleInv(d)'
  BY <1>1, <1>3, <1>f1, <1>f3, <1>f4 DEF Device, SettleInv
<1>12. AdoptInv(d)'
  BY <1>1, <1>3, <1>f1, <1>f3, <1>f4 DEF Device, AdoptInv
<1>13. Timeline(d)'
  BY <1>1, <1>3 DEF Device, Timeline
<1>14. Device(d)'
  BY <1>7, <1>8, <1>9, <1>10, <1>11, <1>12, <1>13 DEF Device
<1> QED
  BY <1>4, <1>5, <1>6, <1>14, StepGood


(* A head is announced when its last frame was sent. *)
LEMMA AnnounceGood ==
    ASSUME IInv, NEW d \in Devices, Announce(d)
    PROVE  IInv'
<1>1. TypeOK /\ HeadServed /\ Device(d)
  BY DEF IInv
<1>2. /\ job[d] \in Jobs /\ DOMAIN job = Devices /\ d \in DOMAIN job
      /\ d \in DOMAIN disk /\ d \in DOMAIN inbox /\ d \in DOMAIN ledger /\ d \in DOMAIN refs
  BY <1>1, JobKinds DEF TypeOK
<1>3. UNCHANGED <<scenario, disk, refs, tree, ledger, outbox, inbox, torn, remote, spent>>
  BY DEF Announce
<1>f1. job[d].step \in {"frames", "refused"} /\ job[d] \in Exports \cup Refusals
  BY <1>1, JobKinds DEF Announce, ImportSteps, TakingSteps
<1>f2. job' = [job EXCEPT ![d] = Idle]
  BY <1>2 DEF Announce
<1>f3. job'[d].step = "idle"
  BY <1>2, <1>f1, <1>f2 DEF Idle
<1>f4. job'[d] \in Jobs
  BY <1>2, <1>f1, <1>f2 DEF Jobs, Idle
<1>f5. job' \in [Devices -> Jobs] /\ \A e \in Devices : e # d => job'[e] = job[e]
  BY <1>1, <1>2, <1>f2, <1>f4 DEF TypeOK, Jobs
<1>f6. served' = IF job[d].step = "frames" THEN served \cup {job[d].head} ELSE served
  BY DEF Announce
<1>f7. job[d].head \in Heads
  BY <1>f1 DEF Exports, Refusals
<1>f8. served' \in SUBSET Heads /\ served \subseteq served'
  BY <1>1, <1>f6, <1>f7 DEF TypeOK
<1>f9. job[d].step = "frames" => job[d].sent = Len(job[d].frames)
  BY DEF Announce
<1>f10. job[d].step = "frames" => Below(job[d].head) \subseteq remote
  BY <1>1, <1>f9 DEF Device, ExportInv
<1>4. TypeOK'
  BY <1>1, <1>2, <1>3, <1>f2, <1>f5, <1>f6, <1>f8 DEF TypeOK
<1>5. Stepped(d)
  BY <1>1, <1>2, <1>3, <1>f2, <1>f5, <1>f6, <1>f8 DEF Stepped, Own, TypeOK
<1>6. HeadServed'
  BY <1>1, <1>3, <1>f6, <1>f10 DEF HeadServed
<1>7. LedgerInv(d)'
  BY <1>1, <1>3 DEF Device, LedgerInv
<1>8. ExportInv(d)'
  BY <1>1, <1>3, <1>f1, <1>f3, <1>f4, <1>f6, <1>f9, <1>f10 DEF Device, ExportInv
<1>9. ImportInv(d)'
  BY <1>1, <1>3, <1>f1, <1>f3, <1>f4, <1>f6, <1>f8, <1>f9, <1>f10
     DEF Device, ImportInv, ImportSteps, TakingSteps
<1>10. PassedInv(d)'
  BY <1>1, <1>3, <1>f1, <1>f3, <1>f4, <1>f6, <1>f9, <1>f10
     DEF Device, PassedInv, ImportSteps, TakingSteps
<1>11. SettleInv(d)'
  BY <1>1, <1>3, <1>f1, <1>f3, <1>f4, <1>f6, <1>f9, <1>f10 DEF Device, SettleInv
<1>12. AdoptInv(d)'
  BY <1>1, <1>3, <1>f1, <1>f3, <1>f4, <1>f6, <1>f9, <1>f10 DEF Device, AdoptInv
<1>13. Timeline(d)'
  BY <1>1, <1>3 DEF Device, Timeline
<1>14. Device(d)'
  BY <1>7, <1>8, <1>9, <1>10, <1>11, <1>12, <1>13 DEF Device
<1> QED
  BY <1>4, <1>5, <1>6, <1>14, StepGood


(* An import is of a head that was announced. *)
LEMMA BeginTakeGood ==
    ASSUME IInv, NEW d \in Devices, NEW h \in Heads, BeginTake(d, h)
    PROVE  IInv'
<1>1. TypeOK /\ HeadServed /\ Device(d)
  BY DEF IInv
<1>2. /\ job[d] \in Jobs /\ DOMAIN job = Devices /\ d \in DOMAIN job
      /\ d \in DOMAIN disk /\ d \in DOMAIN inbox /\ d \in DOMAIN ledger /\ d \in DOMAIN refs
  BY <1>1, JobKinds DEF TypeOK
<1>3. UNCHANGED <<scenario, disk, refs, tree, ledger, outbox, inbox, torn, remote, served, spent>>
  BY DEF BeginTake
<1>f1. job' = [job EXCEPT ![d] = [step |-> "want", head |-> h]] /\ h \in served
  BY DEF BeginTake
<1>f2. job'[d] = [step |-> "want", head |-> h]
  BY <1>2, <1>f1
<1>f3. job'[d].step = "want" /\ job'[d].head = h /\ job'[d] \in Requests
  BY <1>f2 DEF Requests
<1>f4. job' \in [Devices -> Jobs] /\ \A e \in Devices : e # d => job'[e] = job[e]
  BY <1>1, <1>2, <1>f1, <1>f2, <1>f3 DEF TypeOK, Jobs
<1>4. TypeOK'
  BY <1>1, <1>2, <1>3, <1>f1, <1>f4 DEF TypeOK
<1>5. Stepped(d)
  BY <1>1, <1>2, <1>3, <1>f1, <1>f4 DEF Stepped, Own, TypeOK
<1>6. HeadServed'
  BY <1>1, <1>3, <1>5 DEF HeadServed, Stepped
<1>7. LedgerInv(d)'
  BY <1>1, <1>3 DEF Device, LedgerInv
<1>8. ExportInv(d)'
  BY <1>1, <1>3, <1>f2, <1>f3 DEF Device, ExportInv
<1>9. ImportInv(d)'
  BY <1>1, <1>2, <1>3, <1>f1, <1>f2, <1>f3, <1>f4 DEF Device, ImportInv, ImportSteps, TakingSteps
<1>10. PassedInv(d)'
  BY <1>1, <1>3, <1>f2, <1>f3 DEF Device, PassedInv, ImportSteps, TakingSteps
<1>11. SettleInv(d)'
  BY <1>1, <1>3, <1>f2, <1>f3 DEF Device, SettleInv
<1>12. AdoptInv(d)'
  BY <1>1, <1>3, <1>f2, <1>f3 DEF Device, AdoptInv
<1>13. Timeline(d)'
  BY <1>1, <1>3 DEF Device, Timeline
<1>14. Device(d)'
  BY <1>7, <1>8, <1>9, <1>10, <1>11, <1>12, <1>13 DEF Device
<1> QED
  BY <1>4, <1>5, <1>6, <1>14, StepGood


(* A want that is empty ends the import. *)
LEMMA WantNothing ==
    ASSUME IInv, NEW d \in Devices, Want(d), Missing(job[d].head, disk[d]) = {}
    PROVE  IInv'
<1>1. TypeOK /\ HeadServed /\ Device(d)
  BY DEF IInv
<1>2. /\ job[d] \in Jobs /\ DOMAIN job = Devices /\ d \in DOMAIN job
      /\ d \in DOMAIN disk /\ d \in DOMAIN inbox /\ d \in DOMAIN ledger /\ d \in DOMAIN refs
  BY <1>1, JobKinds DEF TypeOK
<1>3. UNCHANGED <<scenario, disk, refs, tree, ledger, outbox, inbox, torn, remote, served, spent>>
  BY DEF Want
<1>f1. job[d].step = "want" /\ job[d] \in Requests \cup Imports
  BY <1>1, JobKinds DEF Want, ImportSteps, TakingSteps
<1>f2. job' = [job EXCEPT ![d] = [job[d] EXCEPT !.step = "rewind"]]
  BY <1>2 DEF Want
<1>f3. job'[d].step = "rewind" /\ job'[d].head = job[d].head
  BY <1>2, <1>f1, <1>f2
<1>f4. job'[d] \in Requests \cup Imports
  BY <1>2, <1>f1, <1>f2 DEF Requests, Imports
<1>f5. job' \in [Devices -> Jobs] /\ \A e \in Devices : e # d => job'[e] = job[e]
  BY <1>1, <1>2, <1>f2, <1>f4 DEF TypeOK, Jobs
<1>4. TypeOK'
  BY <1>1, <1>2, <1>3, <1>f2, <1>f5 DEF TypeOK
<1>5. Stepped(d)
  BY <1>1, <1>2, <1>3, <1>f2, <1>f5 DEF Stepped, Own, TypeOK
<1>6. HeadServed'
  BY <1>1, <1>3, <1>5 DEF HeadServed, Stepped
<1>7. LedgerInv(d)'
  BY <1>1, <1>3 DEF Device, LedgerInv
<1>8. ExportInv(d)'
  BY <1>1, <1>3, <1>f1, <1>f3, <1>f4 DEF Device, ExportInv
<1>9. ImportInv(d)'
  BY <1>1, <1>3, <1>f1, <1>f3, <1>f4 DEF Device, ImportInv, ImportSteps, TakingSteps
<1>10. PassedInv(d)'
  BY <1>1, <1>3, <1>f1, <1>f3, <1>f4 DEF Device, PassedInv, ImportSteps, TakingSteps
<1>11. SettleInv(d)'
  BY <1>1, <1>3, <1>f1, <1>f3, <1>f4 DEF Device, SettleInv
<1>12. AdoptInv(d)'
  BY <1>1, <1>3, <1>f1, <1>f3, <1>f4 DEF Device, AdoptInv
<1>13. Timeline(d)'
  BY <1>1, <1>3 DEF Device, Timeline
<1>14. Device(d)'
  BY <1>7, <1>8, <1>9, <1>10, <1>11, <1>12, <1>13 DEF Device
<1> QED
  BY <1>4, <1>5, <1>6, <1>14, StepGood


(* What is wanted is below the head. *)
LEMMA WantSomething ==
    ASSUME IInv, NEW d \in Devices, NEW want \in SUBSET Missing(job[d].head, disk[d]), Want(d),
           job' = [job EXCEPT ![d] = [step |-> "fetch", head |-> job[d].head, want |-> want]]
    PROVE  IInv'
<1>1. TypeOK /\ HeadServed /\ Device(d)
  BY DEF IInv
<1>2. /\ job[d] \in Jobs /\ DOMAIN job = Devices /\ d \in DOMAIN job
      /\ d \in DOMAIN disk /\ d \in DOMAIN inbox /\ d \in DOMAIN ledger /\ d \in DOMAIN refs
  BY <1>1, JobKinds DEF TypeOK
<1>3. UNCHANGED <<scenario, disk, refs, tree, ledger, outbox, inbox, torn, remote, served, spent>>
  BY DEF Want
<1>f1. job[d].step = "want" /\ job[d].head \in Heads /\ disk[d] \in SUBSET Names
  BY <1>1, JobKinds DEF Want, TakingSteps, TypeOK
<1>f2. job'[d] = [step |-> "fetch", head |-> job[d].head, want |-> want]
  BY <1>2
<1>f3. want \subseteq Below(job[d].head) /\ want \in SUBSET Names
  BY <1>f1, MissingFacts, BelowFacts
<1>f4. /\ job'[d].step = "fetch" /\ job'[d].head = job[d].head /\ job'[d].want = want
       /\ job'[d] \in Fetches
  BY <1>f1, <1>f2, <1>f3 DEF Fetches
<1>f5. job' \in [Devices -> Jobs] /\ \A e \in Devices : e # d => job'[e] = job[e]
  BY <1>1, <1>2, <1>f2, <1>f4 DEF TypeOK, Jobs
<1>4. TypeOK'
  BY <1>1, <1>2, <1>3, <1>f5 DEF TypeOK
<1>5. Stepped(d)
  BY <1>1, <1>2, <1>3, <1>f5 DEF Stepped, Own, TypeOK
<1>6. HeadServed'
  BY <1>1, <1>3, <1>5 DEF HeadServed, Stepped
<1>7. LedgerInv(d)'
  BY <1>1, <1>3 DEF Device, LedgerInv
<1>8. ExportInv(d)'
  BY <1>1, <1>3, <1>f1, <1>f2, <1>f4 DEF Device, ExportInv
<1>9. ImportInv(d)'
  BY <1>1, <1>2, <1>3, <1>f1, <1>f2, <1>f3, <1>f4, <1>f5
     DEF Device, ImportInv, ImportSteps, TakingSteps
<1>10. PassedInv(d)'
  BY <1>1, <1>3, <1>f1, <1>f2, <1>f4 DEF Device, PassedInv, ImportSteps, TakingSteps
<1>11. SettleInv(d)'
  BY <1>1, <1>3, <1>f1, <1>f2, <1>f4 DEF Device, SettleInv
<1>12. AdoptInv(d)'
  BY <1>1, <1>3, <1>f1, <1>f2, <1>f3, <1>f4 DEF Device, AdoptInv
<1>13. Timeline(d)'
  BY <1>1, <1>3 DEF Device, Timeline
<1>14. Device(d)'
  BY <1>7, <1>8, <1>9, <1>10, <1>11, <1>12, <1>13 DEF Device
<1> QED
  BY <1>4, <1>5, <1>6, <1>14, StepGood


(* What is put into the inbox is in the store. *)
LEMMA FetchGood ==
    ASSUME IInv, NEW d \in Devices, NEW files, Fetch(d),
           inbox' = [inbox EXCEPT ![d] = @ \cup files],
           files \subseteq job[d].want \cup remote,
           \/ torn' = [torn EXCEPT ![d] = @ \ files] /\ UNCHANGED spent
           \/ \E o \in files : torn' = [torn EXCEPT ![d] = (@ \ files) \cup {o}] /\ Spend("faults")
    PROVE  IInv'
<1>1. TypeOK /\ HeadServed /\ Device(d)
  BY DEF IInv
<1>2. /\ job[d] \in Jobs /\ DOMAIN job = Devices /\ d \in DOMAIN job
      /\ d \in DOMAIN disk /\ d \in DOMAIN inbox /\ d \in DOMAIN ledger /\ d \in DOMAIN refs
  BY <1>1, JobKinds DEF TypeOK
<1>3. UNCHANGED <<scenario, disk, refs, tree, ledger, outbox, remote, served>>
  BY DEF Fetch
<1>f1. job[d].step = "fetch" /\ job[d] \in Fetches /\ job[d].head \in Heads
  BY <1>1, JobKinds DEF Fetch, ImportSteps, TakingSteps
<1>f2. job' = [job EXCEPT ![d] = [step |-> "list", head |-> job[d].head]]
  BY <1>2 DEF Fetch
<1>f3. job'[d].step = "list" /\ job'[d].head = job[d].head
  BY <1>2, <1>f1, <1>f2
<1>f4. job'[d] \in Requests
  BY <1>2, <1>f1, <1>f2 DEF Requests
<1>f5. job' \in [Devices -> Jobs] /\ \A e \in Devices : e # d => job'[e] = job[e]
  BY <1>1, <1>2, <1>f2, <1>f4 DEF TypeOK, Jobs
<1>f6. inbox'[d] = inbox[d] \cup files
  BY <1>2
<1>f7. /\ Below(job[d].head) \subseteq remote /\ job[d].want \subseteq remote
       /\ remote \in SUBSET Names
  BY <1>1, <1>f1 DEF Device, ImportInv, TakingSteps, HeadServed, TypeOK
<1>f8. files \subseteq remote
  BY <1>f7
<1>f9. inbox' \in [Devices -> SUBSET Names] /\ \A e \in Devices : e # d => inbox'[e] = inbox[e]
  BY <1>1, <1>2, <1>f7, <1>f8 DEF TypeOK
<1>f10. torn' \in [Devices -> SUBSET Names]
  BY <1>1, <1>f7, <1>f8 DEF TypeOK
<1>f11. spent' \in [faults : Nat, collections : Nat] /\ spent'.collections = spent.collections
  BY <1>1 DEF TypeOK, Spend
<1>f12. spent.collections \in Nat
  BY <1>1 DEF TypeOK
<1>4. TypeOK'
  BY <1>1, <1>2, <1>3, <1>f2, <1>f5, <1>f9, <1>f10, <1>f11 DEF TypeOK
<1>5. Stepped(d)
  BY <1>1, <1>2, <1>3, <1>f2, <1>f5, <1>f9, <1>f11, <1>f12 DEF Stepped, Own, TypeOK
<1>6. HeadServed'
  BY <1>1, <1>3, <1>5 DEF HeadServed, Stepped
<1>7. LedgerInv(d)'
  BY <1>1, <1>2, <1>3, <1>f1, <1>f2, <1>f3, <1>f4, <1>f5, <1>f6, <1>f7, <1>f8, <1>f9, <1>f10,
     <1>f11, <1>f12 DEF Device, LedgerInv
<1>8. ExportInv(d)'
  BY <1>1, <1>3, <1>f1, <1>f3, <1>f4 DEF Device, ExportInv
<1>9. ImportInv(d)'
  BY <1>1, <1>3, <1>f1, <1>f3, <1>f4 DEF Device, ImportInv, ImportSteps, TakingSteps
<1>10. PassedInv(d)'
  BY <1>1, <1>2, <1>3, <1>f1, <1>f2, <1>f3, <1>f4, <1>f5, <1>f6, <1>f7, <1>f8, <1>f9, <1>f10,
     <1>f11, <1>f12 DEF Device, PassedInv, ImportSteps, TakingSteps
<1>11. SettleInv(d)'
  BY <1>1, <1>3, <1>f1, <1>f3, <1>f4 DEF Device, SettleInv
<1>12. AdoptInv(d)'
  BY <1>1, <1>3, <1>f1, <1>f3, <1>f4, <1>f7 DEF Device, AdoptInv
<1>13. Timeline(d)'
  BY <1>1, <1>3 DEF Device, Timeline
<1>14. Device(d)'
  BY <1>7, <1>8, <1>9, <1>10, <1>11, <1>12, <1>13 DEF Device
<1> QED
  BY <1>4, <1>5, <1>6, <1>14, StepGood


(* A file that comes late is in the store too. *)
LEMMA FetchMoreGood ==
    ASSUME IInv, NEW d \in Devices, FetchMore(d)
    PROVE  IInv'
<1>1. TypeOK /\ HeadServed /\ Device(d)
  BY DEF IInv
<1>2. /\ job[d] \in Jobs /\ DOMAIN job = Devices /\ d \in DOMAIN job
      /\ d \in DOMAIN disk /\ d \in DOMAIN inbox /\ d \in DOMAIN ledger /\ d \in DOMAIN refs
  BY <1>1, JobKinds DEF TypeOK
<1>3. UNCHANGED <<scenario, disk, refs, tree, ledger, outbox, torn, remote, served, job, spent>>
  BY DEF FetchMore
<1>f1. PICK o \in remote : inbox' = [inbox EXCEPT ![d] = @ \cup {o}]
  BY DEF FetchMore
<1>f2. remote \in SUBSET Names /\ inbox'[d] = inbox[d] \cup {o}
  BY <1>1, <1>2, <1>f1 DEF TypeOK
<1>f3. inbox' \in [Devices -> SUBSET Names]
  BY <1>1, <1>f1, <1>f2 DEF TypeOK
<1>f4. job[d].step \in {"list", "pass", "commit", "delete", "settle"}
  BY DEF FetchMore
<1>4. TypeOK'
  BY <1>1, <1>2, <1>3, <1>f1, <1>f3 DEF TypeOK
<1>5. Stepped(d)
  BY <1>1, <1>2, <1>3, <1>f1 DEF Stepped, Own, TypeOK
<1>6. HeadServed'
  BY <1>1, <1>3, <1>5 DEF HeadServed, Stepped
<1>7. LedgerInv(d)'
  BY <1>1, <1>3, <1>f1, <1>f2, <1>f3 DEF Device, LedgerInv
<1>8. ExportInv(d)'
  BY <1>1, <1>3, <1>f4 DEF Device, ExportInv
<1>9. ImportInv(d)'
  BY <1>1, <1>3, <1>f4 DEF Device, ImportInv, ImportSteps, TakingSteps
<1>10. PassedInv(d)'
  BY <1>1, <1>3, <1>f1, <1>f2, <1>f3, <1>f4 DEF Device, PassedInv, ImportSteps, TakingSteps
<1>11. SettleInv(d)'
  BY <1>1, <1>3, <1>f4 DEF Device, SettleInv
<1>12. AdoptInv(d)'
  BY <1>1, <1>3, <1>f4 DEF Device, AdoptInv
<1>13. Timeline(d)'
  BY <1>1, <1>3 DEF Device, Timeline
<1>14. Device(d)'
  BY <1>7, <1>8, <1>9, <1>10, <1>11, <1>12, <1>13 DEF Device
<1> QED
  BY <1>4, <1>5, <1>6, <1>14, StepGood


(* An import lists what is in the inbox. *)
LEMMA ListInboxGood ==
    ASSUME IInv, NEW d \in Devices, ListInbox(d)
    PROVE  IInv'
<1>1. TypeOK /\ HeadServed /\ Device(d)
  BY DEF IInv
<1>2. /\ job[d] \in Jobs /\ DOMAIN job = Devices /\ d \in DOMAIN job
      /\ d \in DOMAIN disk /\ d \in DOMAIN inbox /\ d \in DOMAIN ledger /\ d \in DOMAIN refs
  BY <1>1, JobKinds DEF TypeOK
<1>3. UNCHANGED <<scenario, disk, refs, tree, ledger, outbox, inbox, torn, remote, served, spent>>
  BY DEF ListInbox
<1>f1. job[d].step = "list" /\ job[d].head \in Heads /\ inbox[d] \in SUBSET Names
  BY <1>1, JobKinds DEF ListInbox, TakingSteps, TypeOK
<1>f2. job' = [job EXCEPT ![d] = [step |-> "pass", head |-> job[d].head, listed |-> inbox[d],
                                     reported |-> {}, stored |-> {}, had |-> {}]]
  BY <1>2 DEF ListInbox
<1>f3. /\ job'[d].step = "pass" /\ job'[d].head = job[d].head /\ job'[d].listed = inbox[d]
       /\ job'[d].reported = {} /\ job'[d].stored = {}
  BY <1>2, <1>f1, <1>f2
<1>f4. job'[d] \in Imports
  BY <1>2, <1>f1, <1>f2 DEF Imports
<1>f5. job' \in [Devices -> Jobs] /\ \A e \in Devices : e # d => job'[e] = job[e]
  BY <1>1, <1>2, <1>f2, <1>f4 DEF TypeOK, Jobs
<1>4. TypeOK'
  BY <1>1, <1>2, <1>3, <1>f2, <1>f5 DEF TypeOK
<1>5. Stepped(d)
  BY <1>1, <1>2, <1>3, <1>f2, <1>f5 DEF Stepped, Own, TypeOK
<1>6. HeadServed'
  BY <1>1, <1>3, <1>5 DEF HeadServed, Stepped
<1>7. LedgerInv(d)'
  BY <1>1, <1>3 DEF Device, LedgerInv
<1>8. ExportInv(d)'
  BY <1>1, <1>3, <1>f1, <1>f3, <1>f4 DEF Device, ExportInv
<1>9. ImportInv(d)'
  BY <1>1, <1>3, <1>f1, <1>f3 DEF Device, LedgerInv, ImportInv, ImportSteps, TakingSteps
<1>10. PassedInv(d)'
  BY <1>1, <1>3, <1>f1, <1>f3, <1>f4 DEF Device, PassedInv, ImportSteps, TakingSteps
<1>11. SettleInv(d)'
  BY <1>1, <1>3, <1>f1, <1>f3, <1>f4 DEF Device, SettleInv
<1>12. AdoptInv(d)'
  BY <1>1, <1>3, <1>f1, <1>f3, <1>f4 DEF Device, AdoptInv
<1>13. Timeline(d)'
  BY <1>1, <1>3 DEF Device, Timeline
<1>14. Device(d)'
  BY <1>7, <1>8, <1>9, <1>10, <1>11, <1>12, <1>13 DEF Device
<1> QED
  BY <1>4, <1>5, <1>6, <1>14, StepGood


(* A damaged file ends an import; the file is thrown away. *)
LEMMA PassDamaged ==
    ASSUME IInv, NEW d \in Devices, NEW wanted, NEW taken, Pass(d),
           wanted = Missing(job[d].head, disk[d] \cup job[d].stored) \ job[d].reported,
           taken = wanted \cap job[d].listed, Damaged(d, taken) # {}
    PROVE  IInv'
<1>1. TypeOK /\ HeadServed /\ Device(d)
  BY DEF IInv
<1>2. /\ job[d] \in Jobs /\ DOMAIN job = Devices /\ d \in DOMAIN job
      /\ d \in DOMAIN disk /\ d \in DOMAIN inbox /\ d \in DOMAIN ledger /\ d \in DOMAIN refs
  BY <1>1, JobKinds DEF TypeOK
<1>3. UNCHANGED <<scenario, disk, refs, tree, ledger, outbox, remote, served, spent>>
  BY DEF Pass
<1>f1. /\ job' = [job EXCEPT ![d] = Idle] /\ inbox' = [inbox EXCEPT ![d] = @ \ torn[d]]
       /\ torn' = [torn EXCEPT ![d] = {}]
  BY DEF Pass
<1>f2. job'[d] = Idle /\ job'[d].step = "idle"
  BY <1>2, <1>f1 DEF Idle
<1>f3. job' \in [Devices -> Jobs] /\ \A e \in Devices : e # d => job'[e] = job[e]
  BY <1>1, <1>2, <1>f1, <1>f2 DEF TypeOK, Jobs
<1>f4. /\ inbox'[d] \subseteq inbox[d] /\ inbox' \in [Devices -> SUBSET Names]
       /\ torn' \in [Devices -> SUBSET Names]
  BY <1>1, <1>2, <1>f1 DEF TypeOK
<1>4. TypeOK'
  BY <1>1, <1>2, <1>3, <1>f1, <1>f3, <1>f4 DEF TypeOK
<1>5. Stepped(d)
  BY <1>1, <1>2, <1>3, <1>f1, <1>f3 DEF Stepped, Own, TypeOK
<1>6. HeadServed'
  BY <1>1, <1>3, <1>5 DEF HeadServed, Stepped
<1>7. LedgerInv(d)'
  BY <1>1, <1>3, <1>f4 DEF Device, LedgerInv
<1>8. ExportInv(d)'
  BY <1>1, <1>3, <1>f2 DEF Device, ExportInv
<1>9. ImportInv(d)'
  BY <1>1, <1>3, <1>f2 DEF Device, ImportInv, ImportSteps, TakingSteps
<1>10. PassedInv(d)'
  BY <1>1, <1>3, <1>f2, <1>f4 DEF Device, PassedInv, ImportSteps, TakingSteps
<1>11. SettleInv(d)'
  BY <1>1, <1>3, <1>f2 DEF Device, SettleInv
<1>12. AdoptInv(d)'
  BY <1>1, <1>3, <1>f2 DEF Device, AdoptInv
<1>13. Timeline(d)'
  BY <1>1, <1>3 DEF Device, Timeline
<1>14. Device(d)'
  BY <1>7, <1>8, <1>9, <1>10, <1>11, <1>12, <1>13 DEF Device
<1> QED
  BY <1>4, <1>5, <1>6, <1>14, StepGood


(* A pass stores what it finds missing and has, and the last one leaves nothing
   that was listed missing. *)
LEMMA PassStored ==
    ASSUME IInv, NEW d \in Devices, NEW wanted, NEW taken, Pass(d),
           wanted = Missing(job[d].head, disk[d] \cup job[d].stored) \ job[d].reported,
           taken = wanted \cap job[d].listed, Damaged(d, taken) = {}
    PROVE  IInv'
<1>1. TypeOK /\ HeadServed /\ Device(d)
  BY DEF IInv
<1>2. /\ job[d] \in Jobs /\ DOMAIN job = Devices /\ d \in DOMAIN job
      /\ d \in DOMAIN disk /\ d \in DOMAIN inbox /\ d \in DOMAIN ledger /\ d \in DOMAIN refs
  BY <1>1, JobKinds DEF TypeOK
<1>3. UNCHANGED <<scenario, disk, refs, tree, outbox, inbox, torn, remote, served, spent>>
  BY DEF Pass
<1>f1. /\ job[d].step = "pass" /\ job[d].head \in Heads /\ job[d] \in Imports
  BY <1>1, JobKinds DEF Pass, ImportSteps, TakingSteps
<1>f2. job' = [job EXCEPT ![d] = [job[d] EXCEPT !.step = IF taken = {} THEN "commit" ELSE @,
                                  !.reported = @ \cup wanted, !.stored = @ \cup taken]]
  BY <1>2 DEF Pass
<1>f3. /\ job'[d].step = (IF taken = {} THEN "commit" ELSE "pass") /\ job'[d].head = job[d].head
       /\ job'[d].listed = job[d].listed /\ job'[d].reported = job[d].reported \cup wanted
       /\ job'[d].stored = job[d].stored \cup taken
  BY <1>2, <1>f1, <1>f2 DEF Imports
<1>f4. /\ job[d].stored \in SUBSET Names /\ job[d].listed \in SUBSET Names
       /\ job[d].reported \in SUBSET Names /\ disk[d] \in SUBSET Names
  BY <1>1, <1>f1 DEF TypeOK, Imports
<1>f5. /\ Missing(job[d].head, disk[d] \cup job[d].stored)
              \subseteq Below(job[d].head) \ (disk[d] \cup job[d].stored)
       /\ Missing(job[d].head, disk[d] \cup job[d].stored) = {}
              => Below(job[d].head) \subseteq disk[d] \cup job[d].stored
  BY <1>f1, <1>f4, MissingFacts
<1>f6. wanted \in SUBSET Names /\ taken \in SUBSET Names
  BY <1>f1, <1>f4, <1>f5, BelowFacts
<1>f7. job'[d] \in Imports
  BY <1>2, <1>f1, <1>f2, <1>f4, <1>f6 DEF Imports
<1>f8. job' \in [Devices -> Jobs] /\ \A e \in Devices : e # d => job'[e] = job[e]
  BY <1>1, <1>2, <1>f2, <1>f7 DEF TypeOK, Jobs
<1>f9. ledger' = [ledger EXCEPT ![d] = @ \cup taken]
  BY DEF Pass
<1>f10. ledger' \in [Devices -> SUBSET Names] /\ ledger'[d] = ledger[d] \cup taken
  BY <1>1, <1>2, <1>f6, <1>f9 DEF TypeOK
<1>4. TypeOK'
  BY <1>1, <1>2, <1>3, <1>f2, <1>f8, <1>f9, <1>f10 DEF TypeOK
<1>5. Stepped(d)
  BY <1>1, <1>2, <1>3, <1>f2, <1>f8, <1>f9 DEF Stepped, Own, TypeOK
<1>6. HeadServed'
  BY <1>1, <1>3, <1>5 DEF HeadServed, Stepped
<1>7. LedgerInv(d)'
  BY <1>1, <1>3, <1>f1, <1>f10 DEF Device, LedgerInv, ImportInv, ImportSteps
<1>8. ExportInv(d)'
  BY <1>1, <1>3, <1>f1, <1>f3, <1>f7 DEF Device, ExportInv
<1>9. ImportInv(d)'
  BY <1>1, <1>3, <1>f1, <1>f3, <1>f6, <1>f7, <1>f9, <1>f10
     DEF Device, ImportInv, ImportSteps, TakingSteps
<1>10. PassedInv(d)'
  <2>1. job[d].reported \cap job[d].listed \subseteq job[d].stored
    BY <1>1, <1>f1 DEF Device, ImportInv
  <2>2. ASSUME taken = {}
        PROVE  Missing(job[d].head, disk[d] \cup job[d].stored) \cap job[d].listed = {}
    BY <1>f5, <2>1, <2>2
  <2>3. ASSUME taken = {} PROVE job'[d].stored = job[d].stored
    BY <1>f3, <2>3
  <2> QED
    BY <1>3, <1>f3, <2>2, <2>3 DEF PassedInv
<1>11. SettleInv(d)'
  BY <1>1, <1>3, <1>f1, <1>f3, <1>f7 DEF Device, SettleInv
<1>12. AdoptInv(d)'
  BY <1>1, <1>3, <1>f1, <1>f3, <1>f5, <1>f7 DEF Device, AdoptInv
<1>13. Timeline(d)'
  BY <1>1, <1>3 DEF Device, Timeline
<1>14. Device(d)'
  BY <1>7, <1>8, <1>9, <1>10, <1>11, <1>12, <1>13 DEF Device
<1> QED
  BY <1>4, <1>5, <1>6, <1>14, StepGood


(* The commit puts what was stored into the store. *)
LEMMA CommitGood ==
    ASSUME IInv, NEW d \in Devices, Commit(d)
    PROVE  IInv'
<1>1. TypeOK /\ HeadServed /\ Device(d)
  BY DEF IInv
<1>2. /\ job[d] \in Jobs /\ DOMAIN job = Devices /\ d \in DOMAIN job
      /\ d \in DOMAIN disk /\ d \in DOMAIN inbox /\ d \in DOMAIN ledger /\ d \in DOMAIN refs
  BY <1>1, JobKinds DEF TypeOK
<1>3. UNCHANGED <<scenario, refs, tree, ledger, outbox, inbox, torn, remote, served, spent>>
  BY DEF Commit
<1>f1. job[d].step = "commit" /\ job[d] \in Imports /\ job[d].head \in Heads
  BY <1>1, JobKinds DEF Commit, ImportSteps, TakingSteps
<1>f2. job' = [job EXCEPT ![d] = [job[d] EXCEPT !.step = "delete", !.had = disk[d] \cup job[d].stored]]
  BY <1>2 DEF Commit
<1>f3. /\ job'[d].step = "delete" /\ job'[d].head = job[d].head /\ job'[d].listed = job[d].listed
       /\ job'[d].stored = job[d].stored /\ job'[d].had = disk[d] \cup job[d].stored
  BY <1>2, <1>f1, <1>f2 DEF Imports
<1>f4. job'[d] \in Imports
  <2>1. disk[d] \cup job[d].stored \in SUBSET Names
    BY <1>1, <1>f1 DEF TypeOK, Imports
  <2> QED
    BY <1>2, <1>f1, <1>f2, <2>1 DEF Imports
<1>f5. job' \in [Devices -> Jobs] /\ \A e \in Devices : e # d => job'[e] = job[e]
  BY <1>1, <1>2, <1>f2, <1>f4 DEF TypeOK, Jobs
<1>f6. disk' = [disk EXCEPT ![d] = @ \cup job[d].stored]
  BY DEF Commit
<1>f7. disk' \in [Devices -> SUBSET Names] /\ disk'[d] = disk[d] \cup job[d].stored
  BY <1>1, <1>2, <1>f1, <1>f6 DEF TypeOK, Imports
<1>4. TypeOK'
  BY <1>1, <1>2, <1>3, <1>f2, <1>f5, <1>f6, <1>f7 DEF TypeOK
<1>5. Stepped(d)
  BY <1>1, <1>2, <1>3, <1>f2, <1>f5, <1>f6 DEF Stepped, Own, TypeOK
<1>6. HeadServed'
  BY <1>1, <1>3, <1>5 DEF HeadServed, Stepped
<1>7. LedgerInv(d)'
  BY <1>1, <1>3 DEF Device, LedgerInv
<1>8. ExportInv(d)'
  BY <1>1, <1>3, <1>f1, <1>f3, <1>f4 DEF Device, ExportInv
<1>9. ImportInv(d)'
  BY <1>1, <1>3, <1>f1, <1>f3, <1>f4 DEF Device, ImportInv, ImportSteps, TakingSteps
<1>10. PassedInv(d)'
  BY <1>1, <1>3, <1>f1, <1>f3, <1>f4, <1>f6, <1>f7 DEF Device, PassedInv, ImportSteps, TakingSteps
<1>11. SettleInv(d)'
  BY <1>1, <1>3, <1>f1, <1>f3, <1>f4 DEF Device, SettleInv
<1>12. AdoptInv(d)'
  BY <1>1, <1>3, <1>f1, <1>f3, <1>f4, <1>f6, <1>f7 DEF Device, AdoptInv
<1>13. Timeline(d)'
  BY <1>1, <1>3, <1>f6, <1>f7 DEF Device, Timeline
<1>14. Device(d)'
  BY <1>7, <1>8, <1>9, <1>10, <1>11, <1>12, <1>13 DEF Device
<1> QED
  BY <1>4, <1>5, <1>6, <1>14, StepGood


(* The files of what was stored are deleted. *)
LEMMA DeleteStoredGood ==
    ASSUME IInv, NEW d \in Devices, DeleteStored(d)
    PROVE  IInv'
<1>1. TypeOK /\ HeadServed /\ Device(d)
  BY DEF IInv
<1>2. /\ job[d] \in Jobs /\ DOMAIN job = Devices /\ d \in DOMAIN job
      /\ d \in DOMAIN disk /\ d \in DOMAIN inbox /\ d \in DOMAIN ledger /\ d \in DOMAIN refs
  BY <1>1, JobKinds DEF TypeOK
<1>3. UNCHANGED <<scenario, disk, refs, tree, ledger, outbox, remote, served, spent>>
  BY DEF DeleteStored
<1>f1. job[d].step = "delete" /\ job[d] \in Imports /\ job[d].head \in Heads
  BY <1>1, JobKinds DEF DeleteStored, ImportSteps, TakingSteps
<1>f2. job' = [job EXCEPT ![d] = [job[d] EXCEPT !.step =
                                     IF scenario.mode = "partial" THEN "want" ELSE "settle"]]
  BY <1>2 DEF DeleteStored
<1>f3. /\ job'[d].step = (IF scenario.mode = "partial" THEN "want" ELSE "settle")
       /\ job'[d].head = job[d].head /\ job'[d].listed = job[d].listed
       /\ job'[d].stored = job[d].stored /\ job'[d].had = job[d].had
  BY <1>2, <1>f1, <1>f2 DEF Imports
<1>f4. job'[d] \in Imports
  BY <1>2, <1>f1, <1>f2 DEF Imports
<1>f5. job' \in [Devices -> Jobs] /\ \A e \in Devices : e # d => job'[e] = job[e]
  BY <1>1, <1>2, <1>f2, <1>f4 DEF TypeOK, Jobs
<1>f6. /\ inbox' = [inbox EXCEPT ![d] = @ \ StoredFiles(d)]
       /\ torn' = [torn EXCEPT ![d] = @ \ StoredFiles(d)]
  BY DEF DeleteStored
<1>f7. /\ inbox'[d] \subseteq inbox[d] /\ inbox' \in [Devices -> SUBSET Names]
       /\ torn' \in [Devices -> SUBSET Names]
  BY <1>1, <1>2, <1>f6 DEF TypeOK
<1>4. TypeOK'
  BY <1>1, <1>2, <1>3, <1>f2, <1>f5, <1>f6, <1>f7 DEF TypeOK
<1>5. Stepped(d)
  BY <1>1, <1>2, <1>3, <1>f2, <1>f5, <1>f6 DEF Stepped, Own, TypeOK
<1>6. HeadServed'
  BY <1>1, <1>3, <1>5 DEF HeadServed, Stepped
<1>7. LedgerInv(d)'
  BY <1>1, <1>3, <1>f6, <1>f7 DEF Device, LedgerInv
<1>8. ExportInv(d)'
  BY <1>1, <1>3, <1>f1, <1>f3, <1>f4 DEF Device, ExportInv
<1>9. ImportInv(d)'
  BY <1>1, <1>3, <1>f1, <1>f3, <1>f4 DEF Device, ImportInv, ImportSteps, TakingSteps
<1>10. PassedInv(d)'
  BY <1>1, <1>3, <1>f1, <1>f3, <1>f4, <1>f6, <1>f7 DEF Device, PassedInv, ImportSteps, TakingSteps
<1>11. SettleInv(d)'
  BY <1>1, <1>3, <1>f1, <1>f3, <1>f4 DEF Device, SettleInv
<1>12. AdoptInv(d)'
  BY <1>1, <1>3, <1>f1, <1>f3, <1>f4 DEF Device, AdoptInv
<1>13. Timeline(d)'
  BY <1>1, <1>3 DEF Device, Timeline
<1>14. Device(d)'
  BY <1>7, <1>8, <1>9, <1>10, <1>11, <1>12, <1>13 DEF Device
<1> QED
  BY <1>4, <1>5, <1>6, <1>14, StepGood


(* What is left over goes away, or stays. *)
LEMMA SettleLeftoversGood ==
    ASSUME IInv, NEW d \in Devices, SettleLeftovers(d)
    PROVE  IInv'
<1>1. TypeOK /\ HeadServed /\ Device(d)
  BY DEF IInv
<1>2. /\ job[d] \in Jobs /\ DOMAIN job = Devices /\ d \in DOMAIN job
      /\ d \in DOMAIN disk /\ d \in DOMAIN inbox /\ d \in DOMAIN ledger /\ d \in DOMAIN refs
  BY <1>1, JobKinds DEF TypeOK
<1>3. UNCHANGED <<scenario, disk, refs, tree, ledger, outbox, remote, served, spent>>
  BY DEF SettleLeftovers
<1>f1. job[d].step = "settle" /\ job[d] \in Imports /\ job[d].head \in Heads
  BY <1>1, JobKinds DEF SettleLeftovers, ImportSteps, TakingSteps
<1>f2. job' = [job EXCEPT ![d] = [job[d] EXCEPT !.step = "want"]]
  BY <1>2 DEF SettleLeftovers
<1>f3. job'[d].step = "want" /\ job'[d].head = job[d].head
  BY <1>2, <1>f1, <1>f2
<1>f4. job'[d] \in Imports
  BY <1>2, <1>f1, <1>f2 DEF Imports
<1>f5. job' \in [Devices -> Jobs] /\ \A e \in Devices : e # d => job'[e] = job[e]
  BY <1>1, <1>2, <1>f2, <1>f4 DEF TypeOK, Jobs
<1>f6. \/ UNCHANGED <<inbox, torn>>
       \/ inbox' = [inbox EXCEPT ![d] = {}] /\ torn' = [torn EXCEPT ![d] = {}]
  BY DEF SettleLeftovers
<1>f7. /\ inbox'[d] \subseteq inbox[d] /\ inbox' \in [Devices -> SUBSET Names]
       /\ torn' \in [Devices -> SUBSET Names]
  BY <1>1, <1>2, <1>f6 DEF TypeOK
<1>f8. \A e \in Devices : e # d => inbox'[e] = inbox[e]
  BY <1>1, <1>2, <1>f6 DEF TypeOK
<1>4. TypeOK'
  BY <1>1, <1>2, <1>3, <1>f2, <1>f5, <1>f6, <1>f7 DEF TypeOK
<1>5. Stepped(d)
  BY <1>1, <1>2, <1>3, <1>f2, <1>f5, <1>f6, <1>f8 DEF Stepped, Own, TypeOK
<1>6. HeadServed'
  BY <1>1, <1>3, <1>5 DEF HeadServed, Stepped
<1>7. LedgerInv(d)'
  BY <1>1, <1>3, <1>f6, <1>f7, <1>f8 DEF Device, LedgerInv
<1>8. ExportInv(d)'
  BY <1>1, <1>3, <1>f1, <1>f3, <1>f4 DEF Device, ExportInv
<1>9. ImportInv(d)'
  BY <1>1, <1>3, <1>f1, <1>f3, <1>f4 DEF Device, ImportInv, ImportSteps, TakingSteps
<1>10. PassedInv(d)'
  BY <1>1, <1>3, <1>f1, <1>f3, <1>f4, <1>f6, <1>f7, <1>f8
     DEF Device, PassedInv, ImportSteps, TakingSteps
<1>11. SettleInv(d)'
  BY <1>1, <1>3, <1>f1, <1>f3, <1>f4 DEF Device, SettleInv
<1>12. AdoptInv(d)'
  BY <1>1, <1>3, <1>f1, <1>f3, <1>f4 DEF Device, AdoptInv
<1>13. Timeline(d)'
  BY <1>1, <1>3 DEF Device, Timeline
<1>14. Device(d)'
  BY <1>7, <1>8, <1>9, <1>10, <1>11, <1>12, <1>13 DEF Device
<1> QED
  BY <1>4, <1>5, <1>6, <1>14, StepGood


(* Only a head that is complete is rewound to. *)
LEMMA RewindComplete ==
    ASSUME IInv, NEW d \in Devices, Rewind(d), Missing(job[d].head, disk[d]) = {}
    PROVE  IInv'
<1>1. TypeOK /\ HeadServed /\ Device(d)
  BY DEF IInv
<1>2. /\ job[d] \in Jobs /\ DOMAIN job = Devices /\ d \in DOMAIN job
      /\ d \in DOMAIN disk /\ d \in DOMAIN inbox /\ d \in DOMAIN ledger /\ d \in DOMAIN refs
  BY <1>1, JobKinds DEF TypeOK
<1>3. UNCHANGED <<scenario, disk, refs, ledger, outbox, inbox, torn, remote, served, spent>>
  BY DEF Rewind
<1>f1. job[d].step = "rewind" /\ job[d] \in Requests \cup Imports /\ job[d].head \in Heads
  BY <1>1, JobKinds DEF Rewind, ImportSteps, TakingSteps
<1>f2. job' = [job EXCEPT ![d] = [job[d] EXCEPT !.step = "adopt"]]
  BY <1>2 DEF Rewind
<1>f3. job'[d].step = "adopt" /\ job'[d].head = job[d].head
  BY <1>2, <1>f1, <1>f2
<1>f4. job'[d] \in Requests \cup Imports
  BY <1>2, <1>f1, <1>f2 DEF Requests, Imports
<1>f5. job' \in [Devices -> Jobs] /\ \A e \in Devices : e # d => job'[e] = job[e]
  BY <1>1, <1>2, <1>f2, <1>f4 DEF TypeOK, Jobs
<1>f6. tree' \in [Devices -> Heads \cup {None}]
  BY <1>1, <1>f1 DEF TypeOK, Rewind
<1>f7. Below(job[d].head) \subseteq disk[d]
  BY <1>1, <1>f1, MissingFacts DEF TypeOK
<1>4. TypeOK'
  BY <1>1, <1>2, <1>3, <1>f2, <1>f5, <1>f6 DEF TypeOK
<1>5. Stepped(d)
  BY <1>1, <1>2, <1>3, <1>f2, <1>f5 DEF Stepped, Own, TypeOK
<1>6. HeadServed'
  BY <1>1, <1>3, <1>5 DEF HeadServed, Stepped
<1>7. LedgerInv(d)'
  BY <1>1, <1>3 DEF Device, LedgerInv
<1>8. ExportInv(d)'
  BY <1>1, <1>3, <1>f1, <1>f3, <1>f4 DEF Device, ExportInv
<1>9. ImportInv(d)'
  BY <1>1, <1>3, <1>f1, <1>f3, <1>f4 DEF Device, ImportInv, ImportSteps, TakingSteps
<1>10. PassedInv(d)'
  BY <1>1, <1>3, <1>f1, <1>f3, <1>f4 DEF Device, PassedInv, ImportSteps, TakingSteps
<1>11. SettleInv(d)'
  BY <1>1, <1>3, <1>f1, <1>f3, <1>f4 DEF Device, SettleInv
<1>12. AdoptInv(d)'
  BY <1>1, <1>3, <1>f1, <1>f3, <1>f4, <1>f7 DEF Device, AdoptInv
<1>13. Timeline(d)'
  BY <1>1, <1>3 DEF Device, Timeline
<1>14. Device(d)'
  BY <1>7, <1>8, <1>9, <1>10, <1>11, <1>12, <1>13 DEF Device
<1> QED
  BY <1>4, <1>5, <1>6, <1>14, StepGood


(* A head that is not ends the command. *)
LEMMA RewindRefused ==
    ASSUME IInv, NEW d \in Devices, Rewind(d), Missing(job[d].head, disk[d]) # {}
    PROVE  IInv'
<1>1. TypeOK /\ HeadServed /\ Device(d)
  BY DEF IInv
<1>2. /\ job[d] \in Jobs /\ DOMAIN job = Devices /\ d \in DOMAIN job
      /\ d \in DOMAIN disk /\ d \in DOMAIN inbox /\ d \in DOMAIN ledger /\ d \in DOMAIN refs
  BY <1>1, JobKinds DEF TypeOK
<1>3. UNCHANGED <<scenario, disk, refs, tree, ledger, outbox, inbox, torn, remote, served, spent>>
  BY DEF Rewind
<1>f1. job[d].step = "rewind"
  BY <1>1, JobKinds DEF Rewind, ImportSteps, TakingSteps
<1>f2. job' = [job EXCEPT ![d] = Idle]
  BY <1>2 DEF Rewind
<1>f3. job'[d].step = "idle"
  BY <1>2, <1>f1, <1>f2 DEF Idle
<1>f4. job'[d] \in Jobs
  BY <1>2, <1>f1, <1>f2 DEF Jobs, Idle
<1>f5. job' \in [Devices -> Jobs] /\ \A e \in Devices : e # d => job'[e] = job[e]
  BY <1>1, <1>2, <1>f2, <1>f4 DEF TypeOK, Jobs
<1>4. TypeOK'
  BY <1>1, <1>2, <1>3, <1>f2, <1>f5 DEF TypeOK
<1>5. Stepped(d)
  BY <1>1, <1>2, <1>3, <1>f2, <1>f5 DEF Stepped, Own, TypeOK
<1>6. HeadServed'
  BY <1>1, <1>3, <1>5 DEF HeadServed, Stepped
<1>7. LedgerInv(d)'
  BY <1>1, <1>3 DEF Device, LedgerInv
<1>8. ExportInv(d)'
  BY <1>1, <1>3, <1>f1, <1>f3, <1>f4 DEF Device, ExportInv
<1>9. ImportInv(d)'
  BY <1>1, <1>3, <1>f1, <1>f3, <1>f4 DEF Device, ImportInv, ImportSteps, TakingSteps
<1>10. PassedInv(d)'
  BY <1>1, <1>3, <1>f1, <1>f3, <1>f4 DEF Device, PassedInv, ImportSteps, TakingSteps
<1>11. SettleInv(d)'
  BY <1>1, <1>3, <1>f1, <1>f3, <1>f4 DEF Device, SettleInv
<1>12. AdoptInv(d)'
  BY <1>1, <1>3, <1>f1, <1>f3, <1>f4 DEF Device, AdoptInv
<1>13. Timeline(d)'
  BY <1>1, <1>3 DEF Device, Timeline
<1>14. Device(d)'
  BY <1>7, <1>8, <1>9, <1>10, <1>11, <1>12, <1>13 DEF Device
<1> QED
  BY <1>4, <1>5, <1>6, <1>14, StepGood


(* A head is adopted when it is there, and then it is complete. *)
LEMMA AdoptHeadGood ==
    ASSUME IInv, NEW d \in Devices, AdoptHead(d)
    PROVE  IInv'
<1>1. TypeOK /\ HeadServed /\ Device(d)
  BY DEF IInv
<1>2. /\ job[d] \in Jobs /\ DOMAIN job = Devices /\ d \in DOMAIN job
      /\ d \in DOMAIN disk /\ d \in DOMAIN inbox /\ d \in DOMAIN ledger /\ d \in DOMAIN refs
  BY <1>1, JobKinds DEF TypeOK
<1>3. UNCHANGED <<scenario, disk, tree, ledger, outbox, inbox, torn, remote, served, spent>>
  BY DEF AdoptHead
<1>f1. job[d].step = "adopt" /\ job[d].head \in Heads
  BY <1>1, JobKinds DEF AdoptHead, ImportSteps, TakingSteps
<1>f2. job' = [job EXCEPT ![d] = Idle]
  BY <1>2 DEF AdoptHead
<1>f3. job'[d].step = "idle"
  BY <1>2, <1>f1, <1>f2 DEF Idle
<1>f4. job'[d] \in Jobs
  BY <1>2, <1>f1, <1>f2 DEF Jobs, Idle
<1>f5. job' \in [Devices -> Jobs] /\ \A e \in Devices : e # d => job'[e] = job[e]
  BY <1>1, <1>2, <1>f2, <1>f4 DEF TypeOK, Jobs
<1>f6. refs' = IF job[d].head \in disk[d] THEN [refs EXCEPT ![d] = @ \cup {job[d].head}] ELSE refs
  BY DEF AdoptHead
<1>f7. /\ refs' \in [Devices -> SUBSET Heads] /\ \A e \in Devices : e # d => refs'[e] = refs[e]
       /\ \A h \in refs'[d] : h \in refs[d] \/ (h = job[d].head /\ job[d].head \in disk[d])
  BY <1>1, <1>2, <1>f1, <1>f6 DEF TypeOK
<1>4. TypeOK'
  BY <1>1, <1>2, <1>3, <1>f2, <1>f5, <1>f6, <1>f7 DEF TypeOK
<1>5. Stepped(d)
  BY <1>1, <1>2, <1>3, <1>f2, <1>f5, <1>f6, <1>f7 DEF Stepped, Own, TypeOK
<1>6. HeadServed'
  BY <1>1, <1>3, <1>5 DEF HeadServed, Stepped
<1>7. LedgerInv(d)'
  BY <1>1, <1>3 DEF Device, LedgerInv
<1>8. ExportInv(d)'
  BY <1>1, <1>3, <1>f1, <1>f3, <1>f4 DEF Device, ExportInv
<1>9. ImportInv(d)'
  BY <1>1, <1>3, <1>f1, <1>f3, <1>f4 DEF Device, ImportInv, ImportSteps, TakingSteps
<1>10. PassedInv(d)'
  BY <1>1, <1>3, <1>f1, <1>f3, <1>f4 DEF Device, PassedInv, ImportSteps, TakingSteps
<1>11. SettleInv(d)'
  BY <1>1, <1>3, <1>f1, <1>f3, <1>f4 DEF Device, SettleInv
<1>12. AdoptInv(d)'
  BY <1>1, <1>3, <1>f1, <1>f3, <1>f4 DEF Device, AdoptInv
<1>13. Timeline(d)'
  BY <1>1, <1>3, <1>f1, <1>f7 DEF Device, Timeline, AdoptInv
<1>14. Device(d)'
  BY <1>7, <1>8, <1>9, <1>10, <1>11, <1>12, <1>13 DEF Device
<1> QED
  BY <1>4, <1>5, <1>6, <1>14, StepGood


(* A command that is killed leaves the files and the stores as they are. *)
LEMMA CrashGood ==
    ASSUME IInv, NEW d \in Devices, Crash(d)
    PROVE  IInv'
<1>1. TypeOK /\ HeadServed /\ Device(d)
  BY DEF IInv
<1>2. /\ job[d] \in Jobs /\ DOMAIN job = Devices /\ d \in DOMAIN job
      /\ d \in DOMAIN disk /\ d \in DOMAIN inbox /\ d \in DOMAIN ledger /\ d \in DOMAIN refs
  BY <1>1, JobKinds DEF TypeOK
<1>3. UNCHANGED <<scenario, disk, refs, tree, ledger, inbox, torn, remote, served>>
  BY DEF Crash
<1>f1. job[d] # Idle
  BY DEF Crash
<1>f2. job' = [job EXCEPT ![d] = Idle]
  BY <1>2 DEF Crash
<1>f3. job'[d].step = "idle"
  BY <1>2, <1>f1, <1>f2 DEF Idle
<1>f4. job'[d] \in Jobs
  BY <1>2, <1>f1, <1>f2 DEF Jobs, Idle
<1>f5. job' \in [Devices -> Jobs] /\ \A e \in Devices : e # d => job'[e] = job[e]
  BY <1>1, <1>2, <1>f2, <1>f4 DEF TypeOK, Jobs
<1>f6. \E kept \in {{}, outbox[d]} : outbox' = [outbox EXCEPT ![d] = kept]
  BY DEF Crash
<1>f7. outbox' \in [Devices -> SUBSET SUBSET Names]
  BY <1>1, <1>f6 DEF TypeOK
<1>f8. spent' = [spent EXCEPT !["faults"] = @ + 1]
  BY DEF Crash, Spend
<1>f9. spent' \in [faults : Nat, collections : Nat] /\ spent'.collections = spent.collections
  BY <1>1, <1>f8 DEF TypeOK
<1>f10. spent.collections \in Nat
  BY <1>1 DEF TypeOK
<1>4. TypeOK'
  BY <1>1, <1>2, <1>3, <1>f2, <1>f5, <1>f6, <1>f7, <1>f8, <1>f9 DEF TypeOK
<1>5. Stepped(d)
  BY <1>1, <1>2, <1>3, <1>f2, <1>f5, <1>f6, <1>f8, <1>f9, <1>f10 DEF Stepped, Own, TypeOK
<1>6. HeadServed'
  BY <1>1, <1>3, <1>5 DEF HeadServed, Stepped
<1>7. LedgerInv(d)'
  BY <1>1, <1>3 DEF Device, LedgerInv
<1>8. ExportInv(d)'
  BY <1>1, <1>3, <1>f3, <1>f4 DEF Device, ExportInv
<1>9. ImportInv(d)'
  BY <1>1, <1>3, <1>f3, <1>f4 DEF Device, ImportInv, ImportSteps, TakingSteps
<1>10. PassedInv(d)'
  BY <1>1, <1>3, <1>f3, <1>f4, <1>f8, <1>f9 DEF Device, PassedInv, ImportSteps, TakingSteps
<1>11. SettleInv(d)'
  BY <1>1, <1>3, <1>f3, <1>f4 DEF Device, SettleInv
<1>12. AdoptInv(d)'
  BY <1>1, <1>3, <1>f3, <1>f4 DEF Device, AdoptInv
<1>13. Timeline(d)'
  BY <1>1, <1>3 DEF Device, Timeline
<1>14. Device(d)'
  BY <1>7, <1>8, <1>9, <1>10, <1>11, <1>12, <1>13 DEF Device
<1> QED
  BY <1>4, <1>5, <1>6, <1>14, StepGood

(* A want is of what is missing. *)
LEMMA WantGood ==
    ASSUME IInv, NEW d \in Devices, Want(d)
    PROVE  IInv'
<1>1. CASE Missing(job[d].head, disk[d]) = {}
  BY <1>1, WantNothing
<1>2. CASE Missing(job[d].head, disk[d]) # {}
  <2> DEFINE missing == Missing(job[d].head, disk[d])
  <2>1. PICK want \in kSubset(Min({WantLimit, Cardinality(missing)}), missing) :
            job' = [job EXCEPT ![d] = [step |-> "fetch", head |-> @.head, want |-> want]]
    BY <1>2 DEF Want
  <2>2. want \in SUBSET missing
    BY <2>1 DEF kSubset
  <2>3. job' = [job EXCEPT ![d] = [step |-> "fetch", head |-> job[d].head, want |-> want]]
    BY <2>1
  <2> QED
    BY <2>2, <2>3, WantSomething
<1> QED
  BY <1>1, <1>2

(* A fetch brings what was wanted or uploaded, in each of the three modes. *)
LEMMA FetchModes ==
    ASSUME IInv, NEW d \in Devices, Fetch(d)
    PROVE  IInv'
<1>1. scenario.mode \in {"strict", "primed", "partial"}
  BY ScenariosAssumption DEF IInv, TypeOK
<1>2. PICK files \in Delivered(d) :
          /\ inbox' = [inbox EXCEPT ![d] = @ \cup files]
          /\ \/ torn' = [torn EXCEPT ![d] = @ \ files] /\ UNCHANGED spent
             \/ \E o \in files :
                    torn' = [torn EXCEPT ![d] = (@ \ files) \cup {o}] /\ Spend("faults")
  BY DEF Fetch
<1>3. files \subseteq job[d].want \cup remote
  BY <1>1, <1>2 DEF Delivered
<1> QED
  BY <1>2, <1>3, FetchGood

(* Every step keeps the invariant. *)
LEMMA NextGood ==
    ASSUME IInv, [Next]_vars
    PROVE  IInv'
<1>1. CASE UNCHANGED vars
  BY <1>1 DEF vars, IInv, TypeOK, HeadServed, Device, LedgerInv, ExportInv, ImportInv, PassedInv,
              SettleInv, AdoptInv, Timeline
<1>2. ASSUME NEW d \in Devices, Exporting(d) PROVE IInv'
  <2>1. CASE WriteFrame(d)
    BY <2>1, WriteFrameWritten, WriteFrameRefused
  <2>2. CASE Announce(d)
    BY <2>2, AnnounceGood
  <2> QED
    BY <1>2, <2>1, <2>2, UploadGood, RecordPublishedGood, DeleteFramesGood DEF Exporting
<1>3. ASSUME NEW d \in Devices, Taking(d) PROVE IInv'
  <2>1. CASE Pass(d)
    <3> DEFINE wanted == Missing(job[d].head, disk[d] \cup job[d].stored) \ job[d].reported
               taken == wanted \cap job[d].listed
    <3>1. CASE Damaged(d, taken) # {}
      BY <2>1, <3>1, PassDamaged
    <3>2. CASE Damaged(d, taken) = {}
      BY <2>1, <3>2, PassStored
    <3> QED
      BY <3>1, <3>2
  <2>2. CASE Rewind(d)
    BY <2>2, RewindComplete, RewindRefused
  <2> QED
    BY <1>3, <2>1, <2>2, WantGood, FetchModes, ListInboxGood, CommitGood, DeleteStoredGood,
       SettleLeftoversGood, AdoptHeadGood DEF Taking
<1>4. ASSUME NEW d \in Devices, NEW h \in Heads, Seal(d, h) \/ Export(d, h) \/ BeginTake(d, h)
      PROVE  IInv'
  BY <1>4, SealGood, ExportGood, BeginTakeGood
<1> QED
  BY <1>1, <1>2, <1>3, <1>4, FetchMoreGood, CollectGood, CrashGood DEF Next

(* Nothing was published, and the first snapshots are whole. *)
LEMMA InitGood ==
    ASSUME Init
    PROVE  IInv
<1> DEFINE first == {h \in Heads : Parent[h] = None}
<1>1. /\ refs = [d \in Devices |-> {h \in first : Author[h] = d}]
      /\ disk = [d \in Devices |-> UNION {Below(h) : h \in refs[d]}]
      /\ tree = [d \in Devices |-> IF refs[d] = {} THEN None ELSE CHOOSE h \in refs[d] : TRUE]
  BY DEF Init
<1>2. \A d \in Devices : refs[d] \in SUBSET Heads /\ disk[d] = UNION {Below(h) : h \in refs[d]}
  BY <1>1
<1>3. \A d \in Devices : disk[d] \in SUBSET Names
  BY <1>2, BelowFacts
<1>4. tree \in [Devices -> Heads \cup {None}]
  <2>1. \A d \in Devices : refs[d] # {} => (CHOOSE h \in refs[d] : TRUE) \in refs[d]
    OBVIOUS
  <2> QED
    BY <1>1, <1>2, <2>1
<1>5. \A d \in Devices : job[d] = Idle /\ job[d].step = "idle" /\ ledger[d] = {} /\ inbox[d] = {}
  BY DEF Init, Idle
<1>6. TypeOK
  <2>1. disk \in [Devices -> SUBSET Names] /\ refs \in [Devices -> SUBSET Heads]
    BY <1>1, <1>2, <1>3
  <2>2. job \in [Devices -> Jobs] /\ spent \in [faults : Nat, collections : Nat]
    BY DEF Init, Jobs
  <2> QED
    BY <1>4, <2>1, <2>2 DEF Init, TypeOK
<1>7. HeadServed
  BY DEF Init, HeadServed
<1>8. ASSUME NEW d \in Devices PROVE Device(d)
  BY <1>2, <1>5 DEF Device, LedgerInv, ExportInv, ImportInv, ImportSteps, TakingSteps, PassedInv,
                    SettleInv, AdoptInv, Timeline
<1> QED
  BY <1>6, <1>7, <1>8 DEF IInv

(***************************************************************************)
(* The theorems.                                                           *)
(***************************************************************************)
(* The exchange keeps its invariant: types, ledgers and inboxes that hold only
   what was uploaded, exports that lose no object, imports of announced heads. *)
THEOREM ExchangeInvariant == Spec => []IInv
<1>1. Init => IInv
  BY InitGood
<1>2. IInv /\ [Next]_vars => IInv'
  BY NextGood
<1> QED
  BY <1>1, <1>2, PTL DEF Spec

(* A head that was announced can be taken from the store alone: whatever was
   killed, collected, torn or refused, its closure was uploaded (export,
   published). *)
THEOREM AnnouncedIsServed == Spec => []HeadServed
<1>1. IInv => HeadServed
  BY DEF IInv
<1> QED
  BY <1>1, ExchangeInvariant, PTL

(* A head in the timeline of a device is complete in its store, though a
   collection may come between the walk that found it complete and its adoption
   (materialize). *)
THEOREM AdoptedIsComplete == Spec => []TimelineComplete
<1>1. IInv => TimelineComplete
  BY DEF IInv, Device, TimelineComplete
<1> QED
  BY <1>1, ExchangeInvariant, PTL

(* A file leaves the inbox only when its object was taken, is damaged or is
   not of the head, or when no pass could have stored it. *)
LEMMA LeavesTaken ==
    ASSUME IInv, [Next]_vars, NEW d \in Devices, NEW o \in inbox[d] \ inbox'[d]
    PROVE  \/ o \in disk'[d] \/ o \in torn[d] \/ o \notin Below(job[d].head)
           \/ job[d].step \in {"delete", "settle"} /\ o \in job[d].had
           \/ o \in Cleared(d)
<1> DEFINE Goal == \/ o \in disk'[d] \/ o \in torn[d] \/ o \notin Below(job[d].head)
                   \/ job[d].step \in {"delete", "settle"} /\ o \in job[d].had
                   \/ o \in Cleared(d)
<1>1. TypeOK /\ Device(d) /\ d \in DOMAIN inbox
  BY DEF IInv, TypeOK
<1>2. inbox' # inbox
  OBVIOUS
<1>3. ASSUME NEW e \in Devices, Pass(e) PROVE Goal
  <2>1. inbox' = [inbox EXCEPT ![e] = @ \ torn[e]]
    BY <1>2, <1>3 DEF Pass
  <2>2. e = d
    BY <1>1, <2>1
  <2> QED
    BY <1>1, <2>1, <2>2
<1>4. ASSUME NEW e \in Devices, DeleteStored(e) PROVE Goal
  <2>1. inbox' = [inbox EXCEPT ![e] = @ \ StoredFiles(e)] /\ job[e].step = "delete"
    BY <1>4 DEF DeleteStored
  <2>2. e = d
    BY <1>1, <2>1
  <2>3. o \in job[d].stored /\ job[d].stored \subseteq job[d].had
    BY <1>1, <2>1, <2>2 DEF StoredFiles, Device, PassedInv
  <2> QED
    BY <2>1, <2>2, <2>3
<1>5. ASSUME NEW e \in Devices, SettleLeftovers(e) PROVE Goal
  <2>1. /\ inbox' = [inbox EXCEPT ![e] = {}] /\ job[e].step = "settle" /\ disk' = disk
        /\ scenario.mode = "strict" => inbox[e] \subseteq Walk(job[e].head, disk[e]) \cap disk[e]
    BY <1>2, <1>5 DEF SettleLeftovers
  <2>2. e = d
    BY <1>1, <2>1
  <2>3. scenario.mode \in {"strict", "primed"}
    BY <1>1, <2>1, <2>2, ScenariosAssumption DEF TypeOK, Device, SettleInv
  <2>4. CASE scenario.mode = "strict"
    BY <2>1, <2>2, <2>4
  <2>5. CASE scenario.mode = "primed"
    <3>1. Missing(job[d].head, job[d].had) \cap job[d].listed = {}
      BY <1>1, <2>1, <2>2 DEF Device, PassedInv
    <3>2. CASE o \in job[d].listed \cap Walk(job[d].head, job[d].had)
      BY <2>1, <2>2, <3>1, <3>2 DEF Missing
    <3>3. CASE o \notin job[d].listed \cap Walk(job[d].head, job[d].had)
      BY <2>1, <2>2, <2>5, <3>3 DEF Cleared
    <3> QED
      BY <3>2, <3>3
  <2> QED
    BY <2>3, <2>4, <2>5
<1>6. ASSUME NEW e \in Devices, Fetch(e) \/ FetchMore(e) PROVE Goal
  <2>1. \E files : inbox' = [inbox EXCEPT ![e] = @ \cup files]
    BY <1>6 DEF Fetch, FetchMore
  <2> QED
    BY <1>1, <2>1
<1>7. ASSUME UNCHANGED vars PROVE Goal
  BY <1>2, <1>7 DEF vars
<1>8. ASSUME NEW e \in Devices, Exporting(e) PROVE Goal
  BY <1>2, <1>8 DEF Exporting, WriteFrame, Upload, RecordPublished, DeleteFrames, Announce
<1>9. ASSUME NEW e \in Devices, Collect(e) \/ Crash(e) PROVE Goal
  BY <1>2, <1>9 DEF Collect, Crash
<1>10. ASSUME NEW e \in Devices, NEW h \in Heads, Seal(e, h) \/ Export(e, h) \/ BeginTake(e, h)
       PROVE  Goal
  BY <1>2, <1>10 DEF Seal, Export, BeginTake
<1>11. ASSUME NEW e \in Devices, Want(e) \/ ListInbox(e) \/ Commit(e) \/ Rewind(e) \/ AdoptHead(e)
       PROVE  Goal
  BY <1>2, <1>11 DEF Want, ListInbox, Commit, Rewind, AdoptHead
<1> HIDE DEF Goal
<1>12. ASSUME NEW e \in Devices, Taking(e) PROVE Goal
  BY <1>3, <1>4, <1>5, <1>6, <1>11, <1>12 DEF Taking
<1>13. ASSUME Next PROVE Goal
  <2>1. PICK e \in Devices :
            \/ Exporting(e) \/ Taking(e) \/ FetchMore(e) \/ Collect(e) \/ Crash(e)
            \/ \E h \in Heads : Seal(e, h) \/ Export(e, h) \/ BeginTake(e, h)
    BY <1>13 DEF Next
  <2> QED
    BY <1>6, <1>8, <1>9, <1>10, <1>12, <2>1
<1>14. Goal
  BY <1>7, <1>13
<1> QED
  BY <1>14 DEF Goal

(* No file of the head that is taken is lost on its way from the inbox to the
   store: a strict or partial import deletes none before its object is stored,
   and a primed one, whatever part of the store it was given, none that its
   passes came to (Import::run, settle_leftovers). *)
THEOREM NothingTakenIsLost == Spec => TakenKept
<1> DEFINE Step == \A d \in Devices : \A o \in inbox[d] \ inbox'[d] :
        \/ o \in disk'[d] \/ o \in torn[d] \/ o \notin Below(job[d].head)
        \/ job[d].step \in {"delete", "settle"} /\ o \in job[d].had
        \/ o \in Cleared(d)
<1>1. IInv /\ [Next]_vars => [Step]_vars
  BY LeavesTaken
<1>2. TakenKept <=> [][Step]_vars
  BY DEF TakenKept
<1> HIDE DEF Step
<1> QED
  BY <1>1, <1>2, ExchangeInvariant, PTL DEF Spec
=============================================================================
