------------------------- MODULE RetentionTimeline -------------------------
(***************************************************************************)
(* What the timeline reads of the retention state: the number of retained  *)
(* snapshots and the most recent of them, computed from the ranges and the *)
(* pins without a look at the snapshots.                                   *)
(***************************************************************************)
EXTENDS Retention, FiniteSetsExt, SequencesExt

(* retained_count *)
RetainedCount(s, head) ==
    MapThenSumSet(LAMBDA r : r.last - r.first + 1, s.retained)
    + (IF head > s.through THEN head - s.through ELSE 0)
    + Cardinality({n \in s.pins : n <= s.through /\ ~RetainsInRanges(s, n)})

(* The intervals recent_sequences puts on its heap. *)
Intervals(s, head) ==
    (IF head > s.through THEN {<<head, s.through + 1>>} ELSE {})
    \cup {<<Min({r.last, head}), r.first>> : r \in s.retained}
    \cup {<<n, n>> : n \in {m \in s.pins : m <= head}}

(* The largest pair, as a max-heap of pairs pops it. *)
Top(heap) ==
    CHOOSE i \in heap : \A j \in heap : i[1] > j[1] \/ (i[1] = j[1] /\ i[2] >= j[2])

(* Mutant: a number that two intervals hold is listed twice. *)
RECURSIVE PoppedTwice(_, _, _)
PoppedTwice(heap, limit, result) ==
    IF Len(result) >= limit \/ heap = {} THEN result
    ELSE LET top == Top(heap)
             rest == heap \ {top}
         IN  IF top[1] < top[2] THEN PoppedTwice(rest, limit, result)
             ELSE PoppedTwice(IF top[1] > top[2] THEN rest \cup {<<top[1] - 1, top[2]>>} ELSE rest,
                              limit, Append(result, top[1]))

(* The loop of recent_sequences: the top interval gives its upper end, unless
   the last one given was the same, and goes back one shorter.  Equal intervals
   can be one element of the heap: the second would give nothing. *)
RECURSIVE Popped(_, _, _)
Popped(heap, limit, result) ==
    IF Len(result) >= limit \/ heap = {} THEN result
    ELSE LET top == Top(heap)
             rest == heap \ {top}
             again == result # << >> /\ Last(result) = top[1]
         IN  IF top[1] < top[2] THEN Popped(rest, limit, result)
             ELSE Popped(IF top[1] > top[2] THEN rest \cup {<<top[1] - 1, top[2]>>} ELSE rest,
                         limit, IF again THEN result ELSE Append(result, top[1]))

RecentSequences(s, head, limit) ==
    IF limit = 0 \/ head = 0 THEN << >> ELSE Popped(Intervals(s, head), limit, << >>)

-----------------------------------------------------------------------------
(* The count shown for a timeline is the number of snapshots it retains, also
   for pins set after the last plan, or left in a range when taken off. *)
CountExact == RetainedCount(state, Len(log)) = Cardinality(RetainedBy(state))

(* For every limit the timeline lists the most recently published retained
   snapshots, newest first and each once. *)
RecentExact ==
    LET all == SetToSortSeq(RetainedBy(state), LAMBDA a, b : a > b)
    IN  \A limit \in 0..(MaxSnapshots + 1) :
            RecentSequences(state, Len(log), limit) = SubSeq(all, 1, Min({limit, Len(all)}))

(* The timeline, computed from ranges and pins alone, is that of the snapshots
   the state retains: RefLog::retained_count and recent_sequences. *)
TimelineExact == CountExact /\ RecentExact
=============================================================================
