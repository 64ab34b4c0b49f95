-------------------------- MODULE RetentionProofs --------------------------
(***************************************************************************)
(* Theorems about Retention, for any windows, bucket widths, clock and     *)
(* number of snapshots, dated in any order: retention.log can always be    *)
(* read back, and what the policy promises to keep is kept.                *)
(***************************************************************************)
EXTENDS Retention, WellFoundedInduction, TLAPS

-----------------------------------------------------------------------------
(* The inductive invariant *)

(* What the policy promises to keep, pins aside. *)
Due(n) ==
    \/ n = Len(log)
    \/ Age(n, now) <= AllWindow
    \/ Age(n, now) <= HourlyWindow /\ NewestWithin(n, Hour)
    \/ Age(n, now) <= DailyWindow /\ NewestWithin(n, Day)
    \/ NewestWithin(n, Week)

(* It is retained without the help of a pin, so that it stays when it is
   unpinned. *)
Listed(s, n) == n > s.through \/ RetainsInRanges(s, n)
DueKept == \A n \in Published : Due(n) => n \in stored /\ Listed(state, n)

PinsStored == state.pins \subseteq stored

IInv == /\ TypeOK /\ StateReadable /\ state.through <= Len(log)
        /\ PinsStored /\ DueKept

-----------------------------------------------------------------------------
(* Dates *)

(* What \div and % mean. *)
LEMMA Quotient ==
    ASSUME NEW a \in Nat, NEW w \in Nat \ {0}
    PROVE  /\ a \div w \in Nat /\ a % w \in 0..(w - 1)
           /\ a = w * (a \div w) + (a % w)
  OBVIOUS

LEMMA QuotientIs ==
    ASSUME NEW w \in Nat \ {0}, NEW s \in Nat, NEW r \in 0..(w - 1)
    PROVE  (w * s + r) \div w = s
  OBVIOUS

(* Two dates of one stretch are in one stretch of any wider width. *)
LEMMA WiderStretch ==
    ASSUME NEW a \in Nat, NEW b \in Nat, NEW w \in Nat \ {0}, NEW v \in Nat \ {0},
           v % w = 0, a \div w = b \div w
    PROVE  a \div v = b \div v
<1>1. PICK k \in Nat : v = w * k
  <2>1. v \div w \in Nat /\ v = w * (v \div w)
    OBVIOUS
  <2> QED
    BY <2>1, Zenon
<1>2. k # 0
  BY <1>1
<1>3. PICK q \in Nat : q = a \div w
  BY Quotient
<1>4. PICK s \in Nat, t \in 0..(k - 1) : q = k * s + t
  <2>1. q \div k \in Nat /\ q % k \in 0..(k - 1) /\ q = k * (q \div k) + (q % k)
    BY <1>2, Quotient
  <2> QED
    BY <2>1, Zenon
<1>5. ASSUME NEW c \in Nat, c \div w = q
      PROVE  c \div v = s
  <2>1. PICK r \in 0..(w - 1) : c = w * q + r
    BY <1>5, Quotient
  <2>2. w * q = v * s + w * t
    <3>1. w * q = w * (k * s) + w * t
      BY <1>4
    <3>2. w * (k * s) = (w * k) * s
      OBVIOUS
    <3> QED
      BY <1>1, <3>1, <3>2
  <2>3. w * t + r \in 0..(v - 1)
    <3>1. w * t <= w * (k - 1)
      BY <1>2
    <3>2. w * (k - 1) = v - w
      BY <1>1
    <3>3. w * t \in Nat
      OBVIOUS
    <3> QED
      BY <3>1, <3>2, <3>3
  <2>4. c = v * s + (w * t + r)
    <3>1. w * t \in Nat /\ v * s \in Nat
      OBVIOUS
    <3> QED
      BY <2>1, <2>2, <3>1
  <2> QED
    BY <2>3, <2>4, QuotientIs
<1> QED
  BY <1>3, <1>5

-----------------------------------------------------------------------------
(* The ranges of a set of sequence numbers *)

(* A set of natural numbers with a member has a least one. *)
LEMMA LeastNumber ==
    ASSUME NEW T, T \subseteq Nat, T # {}
    PROVE  \E x \in T : \A y \in T : x <= y
<1> DEFINE R == OpToRel(<, Nat)
<1>1. IsWellFoundedOn(R, Nat)
  BY NatLessThanWellFounded
<1>2. \A x, y \in Nat : y < x => <<y, x>> \in R
  BY DEF OpToRel
<1> HIDE DEF R
<1>3. PICK x \in T : \A y \in T : ~(<<y, x>> \in R)
  BY <1>1, WFMin, Zenon
<1>4. \A y \in T : x \in Nat /\ y \in Nat /\ ~(y < x)
  BY <1>2, <1>3, Zenon
<1>5. \A y \in T : x <= y
  BY <1>4
<1> QED
  BY <1>5

(* Each number that is kept lies in a maximal run, and nothing else does. *)
LEMMA RangesCover ==
    ASSUME NEW keep, keep \subseteq Sequence, NEW n \in Sequence
    PROVE  n \in keep <=> \E r \in Ranges(keep) : r.first <= n /\ n <= r.last
<1> USE RetentionConstants DEF Sequence
<1>1. ASSUME NEW r \in Ranges(keep), r.first <= n, n <= r.last
      PROVE  n \in keep
  BY <1>1 DEF Ranges, SequenceRange
<1>2. ASSUME n \in keep
      PROVE  \E r \in Ranges(keep) : r.first <= n /\ n <= r.last
  <2> DEFINE Firsts == {k \in 1..n : k..n \subseteq keep}
             Ends == {k \in Nat : k > n /\ k \notin keep}
  <2>1. PICK first \in Firsts : \A k \in Firsts : first <= k
    <3>1. n \in Firsts /\ Firsts \subseteq Nat
      BY <1>2
    <3> HIDE DEF Firsts
    <3> QED
      BY <3>1, LeastNumber
  <2>2. PICK end \in Ends : \A k \in Ends : end <= k
    <3>1. MaxSnapshots + 1 \in Ends /\ Ends \subseteq Nat
      OBVIOUS
    <3> HIDE DEF Ends
    <3> QED
      BY <3>1, LeastNumber
  <2>3. first \in 1..n /\ first..n \subseteq keep
    BY <2>1
  <2>4. first - 1 \notin keep
    <3> SUFFICES ASSUME first - 1 \in keep PROVE FALSE
      OBVIOUS
    <3>1. first - 1 \in 1..n
      BY <2>3
    <3>2. (first - 1)..n \subseteq keep
      BY <2>3, <3>1
    <3> QED
      BY <2>1, <2>3, <3>1, <3>2
  <2>5. end \in Nat /\ end > n /\ end \notin keep /\ (n + 1)..(end - 1) \subseteq keep
    <3>1. end \in Nat /\ end > n /\ end \notin keep
      BY <2>2
    <3>2. ASSUME NEW k \in (n + 1)..(end - 1) PROVE k \in keep
      BY <2>2, <3>1, <3>2
    <3> QED
      BY <3>1, <3>2
  <2>6. end - 1 \in Sequence
    BY <1>2, <2>5
  <2> DEFINE r == [first |-> first, last |-> end - 1]
  <2>7. first..(end - 1) \subseteq keep
    BY <2>3, <2>5
  <2>8. r \in Ranges(keep)
    BY <2>3, <2>4, <2>5, <2>6, <2>7 DEF Ranges, SequenceRange
  <2>9. r.first <= n /\ n <= r.last
    BY <2>3, <2>5
  <2> QED
    BY <2>8, <2>9
<1> QED
  BY <1>1, <1>2

(* Two maximal runs are the same or apart. *)
LEMMA RangesApart ==
    ASSUME NEW keep, NEW r \in Ranges(keep), NEW q \in Ranges(keep)
    PROVE  r = q \/ r.last < q.first \/ q.last < r.first
<1> SUFFICES ASSUME q.first <= r.last, r.first <= q.last
             PROVE  r = q
  BY RetentionConstants DEF Ranges, SequenceRange, Sequence
<1>1. /\ r.first \in Nat /\ r.last \in Nat /\ q.first \in Nat /\ q.last \in Nat
      /\ r = [first |-> r.first, last |-> r.last] /\ q = [first |-> q.first, last |-> q.last]
      /\ r.first <= r.last /\ q.first <= q.last
      /\ r.first..r.last \subseteq keep /\ q.first..q.last \subseteq keep
      /\ r.first - 1 \notin keep /\ r.last + 1 \notin keep
      /\ q.first - 1 \notin keep /\ q.last + 1 \notin keep
  BY RetentionConstants DEF Ranges, SequenceRange, Sequence
<1>2. r.first = q.first
  <2>1. CASE r.first < q.first
    BY <1>1, <2>1
  <2>2. CASE q.first < r.first
    BY <1>1, <2>2
  <2> QED
    BY <1>1, <2>1, <2>2
<1>3. r.last = q.last
  <2>1. CASE r.last < q.last
    BY <1>1, <2>1
  <2>2. CASE q.last < r.last
    BY <1>1, <2>2
  <2> QED
    BY <1>1, <2>1, <2>2
<1> QED
  BY <1>1, <1>2, <1>3

-----------------------------------------------------------------------------
(* A plan *)

LEMMA PublishedFacts ==
    ASSUME TypeOK
    PROVE  /\ Len(log) \in 0..MaxSnapshots /\ Published \subseteq Sequence
           /\ \A n \in Published : n \in Nat /\ log[n] \in Nat
           /\ now \in Nat /\ state.pins \subseteq Sequence /\ state.through \in Nat
  BY RetentionConstants DEF TypeOK, Published, Sequence, RetentionState

(* Who is the newest of a stretch is the newest of the narrower ones in it. *)
LEMMA NewestOfNarrower ==
    ASSUME TypeOK, NEW n \in Published, NEW w \in Nat \ {0}, NEW v \in Nat \ {0},
           v % w = 0, NewestWithin(n, v)
    PROVE  NewestWithin(n, w)
<1> SUFFICES ASSUME NEW m \in Published \ {n}, log[m] \div w = log[n] \div w
             PROVE  log[m] < log[n] \/ (log[m] = log[n] /\ m < n)
  BY DEF NewestWithin
<1>1. log[m] \in Nat /\ log[n] \in Nat
  BY PublishedFacts
<1>2. log[m] \div v = log[n] \div v
  BY <1>1, WiderStretch
<1> QED
  BY <1>2 DEF NewestWithin

(* It is not older than any snapshot of its bucket. *)
LEMMA NewestOfItsBucket ==
    ASSUME TypeOK, NEW n \in Published,
           \/ Age(n, now) <= HourlyWindow /\ NewestWithin(n, Hour)
           \/ Age(n, now) <= DailyWindow /\ NewestWithin(n, Day)
           \/ NewestWithin(n, Week),
           NEW m \in Published, Bucket(m, now) = Bucket(n, now)
    PROVE  ~Newer(m, n)
<1>1. NewestWithin(n, Week) => NewestWithin(n, Day)
  BY RetentionConstants, NewestOfNarrower
<1>2. NewestWithin(n, Day) => NewestWithin(n, Hour)
  BY RetentionConstants, NewestOfNarrower
<1>3. ASSUME NEW width, NewestWithin(n, width), log[m] \div width = log[n] \div width
      PROVE  ~Newer(m, n)
  BY <1>3, PublishedFacts DEF NewestWithin, Newer
<1>4. CASE Age(n, now) <= HourlyWindow
  <2>1. log[m] \div Hour = log[n] \div Hour
    BY <1>4 DEF Bucket
  <2> QED
    BY <1>1, <1>2, <1>3, <2>1
<1>5. CASE ~(Age(n, now) <= HourlyWindow) /\ Age(n, now) <= DailyWindow
  <2>1. log[m] \div Day = log[n] \div Day
    BY <1>5 DEF Bucket
  <2> QED
    BY <1>1, <1>3, <1>5, <2>1
<1>6. CASE ~(Age(n, now) <= HourlyWindow) /\ ~(Age(n, now) <= DailyWindow)
  <2>1. log[m] \div Week = log[n] \div Week
    BY <1>6 DEF Bucket
  <2> QED
    BY <1>3, <1>6, <2>1
<1> QED
  BY <1>4, <1>5, <1>6

(* plan_state keeps what is due. *)
LEMMA DueIsPlanned ==
    ASSUME TypeOK, NEW n \in Published, Due(n)
    PROVE  n \in Keep(now, state.pins)
<1>1. CASE n = Len(log)
  BY <1>1 DEF Keep, HeadRecord
<1>2. CASE n \in Recent(now) \cup state.pins
  BY <1>2 DEF Keep
<1>3. CASE n # Len(log) /\ n \notin Recent(now) \cup state.pins
  <2>1. \/ Age(n, now) <= HourlyWindow /\ NewestWithin(n, Hour)
        \/ Age(n, now) <= DailyWindow /\ NewestWithin(n, Day)
        \/ NewestWithin(n, Week)
    BY <1>3 DEF Due, Recent
  <2>2. n \in NewestOfBucket(now, state.pins)
    BY <1>3, <2>1, NewestOfItsBucket DEF NewestOfBucket
  <2> QED
    BY <2>2 DEF Keep
<1> QED
  BY <1>1, <1>2, <1>3

(* The plan is a valid state of the log, and retains what it keeps. *)
LEMMA PlanFacts ==
    ASSUME TypeOK, state.pins \subseteq Published
    PROVE  LET s == Planned(now, state.pins)
           IN  /\ s \in RetentionState /\ ValidState(s)
               /\ s.through = Len(log) /\ s.pins = state.pins
               /\ \A n \in Keep(now, state.pins) : RetainsInRanges(s, n)
<1> DEFINE keep == Keep(now, state.pins)
           s == Planned(now, state.pins)
<1>1. keep \subseteq Published
  BY DEF Keep, Recent, NewestOfBucket, HeadRecord
<1>2. keep \subseteq Sequence /\ Len(log) \in 0..MaxSnapshots
  BY <1>1, PublishedFacts
<1>3. s.through = Len(log) /\ s.retained = Ranges(keep) /\ s.pins = state.pins
  BY DEF Planned
<1>4. s \in RetentionState
  BY <1>2, PublishedFacts DEF Planned, RetentionState, Ranges
<1> HIDE DEF keep, s
<1>5. \A n \in keep : RetainsInRanges(s, n)
  BY <1>2, <1>3, RangesCover DEF RetainsInRanges
<1>6. \A r \in Ranges(keep) : r.first <= r.last /\ r.last <= Len(log)
  <2> SUFFICES ASSUME NEW r \in Ranges(keep) PROVE r.first <= r.last /\ r.last <= Len(log)
    OBVIOUS
  <2>1. r.first <= r.last /\ r.last \in keep
    BY RetentionConstants DEF Ranges, SequenceRange, Sequence
  <2>2. r.last \in 1..Len(log)
    BY <1>1, <2>1, Zenon DEF Published
  <2> QED
    BY <1>2, <2>1, <2>2, RetentionConstants
<1>7. ValidState(s)
  BY <1>3, <1>6, RangesApart DEF ValidState
<1> QED
  BY <1>3, <1>4, <1>5, <1>7 DEF keep, s

-----------------------------------------------------------------------------
(* The steps *)

LEMMA InitGood == Init => IInv
  BY RetentionConstants DEF Init, IInv, TypeOK, RetentionState, StateReadable, ValidState,
     PinsStored, DueKept, Published, Sequence, SequenceRange

(* An append leaves no frame behind a torn one. *)
LEMMA AppendFacts ==
    ASSUME TypeOK, tail # "buried", NEW s, AppendState(s)
    PROVE  state' = s /\ tail' = "clean"
  BY DEF TypeOK, AppendState, TailRead

(* As time passes, less is due. *)
LEMMA TickGood ==
    ASSUME IInv, Tick
    PROVE  IInv'
<1> USE DEF IInv
<1>1. now \in Nat /\ now' = now + 1 /\ now' \in 0..MaxTime
      /\ log' = log /\ state' = state /\ tail' = tail /\ stored' = stored
  BY PublishedFacts, RetentionConstants DEF Tick, TypeOK
<1>2. TypeOK' /\ StateReadable' /\ (state.through <= Len(log))' /\ PinsStored'
  BY <1>1 DEF TypeOK, Published, StateReadable, ValidState, PinsStored
<1>3. ASSUME NEW n \in Published, Due(n)' PROVE Due(n)
  <2>1. \A W \in Nat : Age(n, now') <= W => Age(n, now) <= W
    BY <1>1, PublishedFacts DEF Age
  <2>2. Age(n, now)' = Age(n, now')
    BY <1>1 DEF Age
  <2>3. \A w : NewestWithin(n, w)' <=> NewestWithin(n, w)
    BY <1>1 DEF NewestWithin, Published
  <2> QED
    BY <1>1, <1>3, <2>1, <2>2, <2>3, RetentionConstants DEF Due
<1>4. DueKept'
  BY <1>1, <1>3 DEF DueKept, Published, Listed, RetainsInRanges
<1> QED
  BY <1>2, <1>4

(* A new snapshot is stored and lies past the plan; none of the others becomes
   due by it. *)
LEMMA PublishGood ==
    ASSUME IInv, NEW time \in 0..(now + MaxSkew), Publish(time)
    PROVE  IInv'
<1> USE DEF IInv
<1>1. /\ log' = Append(log, time) /\ stored' = stored \cup {Len(log')}
      /\ Len(log) < MaxSnapshots /\ now' = now /\ state' = state /\ tail' = tail
  BY DEF Publish
<1>2. /\ Len(log') = Len(log) + 1 /\ Len(log) \in Nat
      /\ \A n \in Published : log'[n] = log[n]
      /\ Published' = Published \cup {Len(log')} /\ Len(log') \notin Published
      /\ log' \in Seq(0..(MaxTime + MaxSkew))
  BY <1>1, RetentionConstants DEF TypeOK, Published
<1>3. TypeOK' /\ StateReadable' /\ (state.through <= Len(log))' /\ PinsStored'
  <2>1. state.through <= Len(log')
    BY <1>2, PublishedFacts
  <2> QED
    BY <1>1, <1>2, <2>1, RetentionConstants
    DEF TypeOK, StateReadable, ValidState, PinsStored
<1>4. ASSUME NEW n \in Published, Due(n)' PROVE Due(n)
  <2>1. Age(n, now)' = Age(n, now)
    BY <1>1, <1>2 DEF Age
  <2>2. \A w : NewestWithin(n, w)' => NewestWithin(n, w)
    BY <1>2 DEF NewestWithin
  <2>3. n # Len(log')
    BY <1>2
  <2> QED
    BY <1>4, <2>1, <2>2, <2>3 DEF Due
<1>5. Len(log') > state.through
  BY <1>2, PublishedFacts
<1>6. DueKept'
  BY <1>1, <1>2, <1>4, <1>5 DEF DueKept, Listed, RetainsInRanges
<1> QED
  BY <1>3, <1>6

(* A pin changes nothing but the pins. *)
LEMMA PinnedGood ==
    ASSUME IInv, NEW pins, pins \subseteq stored, AppendState([state EXCEPT !.pins = pins]),
           UNCHANGED <<now, log, stored>>
    PROVE  IInv'
<1> USE DEF IInv
<1>1. /\ state' = [state EXCEPT !.pins = pins] /\ tail' = "clean"
      /\ now' = now /\ log' = log /\ stored' = stored
  BY AppendFacts DEF StateReadable
<1>2. state'.through = state.through /\ state'.retained = state.retained /\ state'.pins = pins
  BY <1>1 DEF TypeOK, RetentionState
<1>3. pins \subseteq Sequence
  BY PublishedFacts DEF TypeOK
<1>4. TypeOK'
  BY <1>1, <1>3 DEF TypeOK, RetentionState, Published
<1>5. StateReadable' /\ (state.through <= Len(log))' /\ PinsStored'
  BY <1>1, <1>2 DEF StateReadable, ValidState, PinsStored
<1>6. DueKept'
  BY <1>1, <1>2 DEF DueKept, Published, Due, Age, NewestWithin, Listed, RetainsInRanges
<1> QED
  BY <1>4, <1>5, <1>6

(* A plan lists what is due; whether or not the collection goes on to drop the
   rest, that is stored. *)
LEMMA PlannedGood ==
    ASSUME IInv, Apply, now' = now, log' = log, stored' \in {stored, RetainedBy(state')}
    PROVE  IInv'
<1> USE DEF IInv
<1> DEFINE s == Planned(now, state.pins)
<1>1. state' = s /\ tail' = "clean" /\ Published' = Published
  BY AppendFacts DEF Apply, StateReadable, Published
<1>2. state.pins \subseteq Published
  BY DEF PinsStored, TypeOK
<1>3. /\ s \in RetentionState /\ ValidState(s) /\ s.through = Len(log) /\ s.pins = state.pins
      /\ \A n \in Keep(now, state.pins) : RetainsInRanges(s, n)
  BY <1>2, PlanFacts
<1> HIDE DEF s
<1>4. \A n \in Published : Due(n)' => Due(n)
  BY <1>1 DEF Due, Age, NewestWithin
<1>5. \A n \in Published : Due(n) => RetainsInRanges(s, n)
  BY <1>3, DueIsPlanned
<1>6. \A n \in Published : RetainsInRanges(s, n) \/ n \in state.pins => n \in RetainedBy(s)
  BY <1>3 DEF RetainedBy, Retains
<1>7. RetainedBy(state') \subseteq Published
  BY DEF RetainedBy
<1>8. TypeOK'
  BY <1>1, <1>3, <1>7 DEF TypeOK
<1>9. StateReadable' /\ (state.through <= Len(log))'
  BY <1>1, <1>3, PublishedFacts DEF StateReadable, ValidState
<1>10. PinsStored'
  BY <1>1, <1>2, <1>3, <1>6 DEF PinsStored
<1>11. DueKept'
  <2> SUFFICES ASSUME NEW n \in Published, Due(n)
               PROVE  n \in stored' /\ RetainsInRanges(s, n)
    BY <1>1, <1>4 DEF DueKept, Listed, RetainsInRanges
  <2> QED
    BY <1>1, <1>5, <1>6 DEF DueKept
<1> QED
  BY <1>8, <1>9, <1>10, <1>11

(* An append that is killed, or a read, changes the end of the log only. *)
LEMMA TailGood ==
    ASSUME IInv, tail' \in {"clean", "torn"}, UNCHANGED <<now, log, state, stored>>
    PROVE  IInv'
  BY DEF IInv, TypeOK, Published, StateReadable, ValidState, PinsStored, DueKept, Due, Age,
     NewestWithin, Listed, RetainsInRanges

LEMMA StepGood == IInv /\ [Next]_vars => IInv'
<1> SUFFICES ASSUME IInv, [Next]_vars PROVE IInv'
  OBVIOUS
<1>1. CASE Tick
  BY <1>1, TickGood
<1>2. ASSUME NEW time \in 0..(now + MaxSkew), Publish(time) PROVE IInv'
  BY <1>2, PublishGood
<1>3. ASSUME NEW n \in Published, Pin(n) PROVE IInv'
  <2>1. state.pins \cup {n} \subseteq stored
    BY <1>3 DEF Pin, IInv, PinsStored
  <2> QED
    BY <1>3, <2>1, PinnedGood DEF Pin
<1>4. ASSUME NEW n \in Published, Unpin(n) PROVE IInv'
  <2>1. state.pins \ {n} \subseteq stored
    BY DEF IInv, PinsStored
  <2> QED
    BY <1>4, <2>1, PinnedGood DEF Unpin
<1>5. CASE Collect \/ CollectFails
  BY <1>5, PlannedGood DEF Collect, CollectFails
<1>6. CASE AppendKilled \/ ReadState
  <2>1. tail' \in {"clean", "torn"}
    BY <1>6 DEF IInv, TypeOK, StateReadable, AppendKilled, ReadState, TailRead
  <2> QED
    BY <1>6, <2>1, TailGood DEF AppendKilled, ReadState
<1>7. CASE UNCHANGED vars
  <2>1. tail' \in {"clean", "torn"}
    BY <1>7 DEF IInv, TypeOK, StateReadable, vars
  <2> QED
    BY <1>7, <2>1, TailGood DEF vars
<1> QED
  BY <1>1, <1>2, <1>3, <1>4, <1>5, <1>6, <1>7 DEF Next

-----------------------------------------------------------------------------
(* The theorems *)

LEMMA RetentionInvariant == Spec => []IInv
  BY InitGood, StepGood, PTL DEF Spec

(* Whatever was pinned, planned and killed in the middle of an append, the
   latest state of retention.log is found and passes validate_state
   (read_latest, compress_sequences). *)
THEOREM StateIsReadable == Spec => []StateReadable
<1>1. IInv => StateReadable
  BY DEF IInv
<1> QED
  BY <1>1, RetentionInvariant, PTL

(* Whatever plans were made before, completed or not, and in whatever order
   older dates arrived, what the policy promises is stored and listed
   (plan_state, RetentionLog::apply). *)
THEOREM PromiseIsKept == Spec => []PromisedKept
<1>1. IInv => PromisedKept
  BY DEF IInv, PromisedKept, DueKept, Due, Listed, PinsStored, Retains
<1> QED
  BY <1>1, RetentionInvariant, PTL
=============================================================================
