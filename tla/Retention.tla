----------------------------- MODULE Retention -----------------------------
(***************************************************************************)
(* The retention policy of one timeline: retention.rs, with the part of    *)
(* gc.rs that acts on its plans.                                           *)
(*                                                                         *)
(* Every collection computes anew which published snapshots to keep: all   *)
(* of the last day, the newest of every hour for a week, of every day for  *)
(* ninety days and of every week after that, and the head and the pins.    *)
(* The plan is appended to retention.log, and the snapshots that are not   *)
(* in it lose their objects.  A process that is killed inside an append    *)
(* leaves a torn frame, which the next reader cuts.  The state's           *)
(* evaluated_at is left out: nothing reads it.                             *)
(***************************************************************************)
EXTENDS Integers, Sequences, FiniteSets

CONSTANTS
    Hour, Day, Week,    \* the bucket widths, in clock units
    AllWindow,          \* ALL_SNAPSHOTS_WINDOW
    HourlyWindow,       \* HOURLY_WINDOW
    DailyWindow,        \* DAILY_WINDOW
    MaxSnapshots,       \* bound: snapshots published
    MaxTime,            \* bound: the clock
    MaxSkew             \* bound: how far ahead an imported snapshot is dated

ASSUME RetentionConstants ==
    /\ Hour \in Nat \ {0} /\ Day \in Nat \ {0} /\ Week \in Nat \ {0}
    /\ Day % Hour = 0 /\ Week % Day = 0
    /\ AllWindow \in Nat /\ HourlyWindow \in Nat /\ DailyWindow \in Nat
    /\ AllWindow <= HourlyWindow /\ HourlyWindow <= DailyWindow
    /\ MaxSnapshots \in Nat /\ MaxTime \in Nat /\ MaxSkew \in Nat

VARIABLES
    now,    \* the clock
    log,    \* sealed_at of the published snapshots, by sequence number
    state,  \* the latest state of retention.log
    tail,   \* its end: "clean", "torn", or "buried": a frame behind a torn one
    stored  \* sequence numbers of the snapshots whose objects are stored

vars == <<now, log, state, tail, stored>>

Sequence == 1..MaxSnapshots
Published == 1..Len(log)

(* RetentionState.  The retained sequence numbers are kept as ranges. *)
SequenceRange == [first : Sequence, last : Sequence]
RetentionState == [through : 0..MaxSnapshots, retained : SUBSET SequenceRange,
                   pins : SUBSET Sequence]

TypeOK ==
    /\ now \in 0..MaxTime
    /\ log \in Seq(0..(MaxTime + MaxSkew)) /\ Len(log) <= MaxSnapshots
    /\ state \in RetentionState /\ tail \in {"clean", "torn", "buried"}
    /\ stored \subseteq Published

Init ==
    /\ now = 0
    /\ log = << >>
    /\ state = [through |-> 0, retained |-> {}, pins |-> {}]
    /\ tail = "clean"
    /\ stored = {}

-----------------------------------------------------------------------------
RetainsInRanges(s, n) == \E r \in s.retained : r.first <= n /\ n <= r.last
Retains(s, n) == n > s.through \/ RetainsInRanges(s, n) \/ n \in s.pins

(* validate_state: what read_latest demands of every state in the log. *)
ValidState(s) ==
    /\ \A r \in s.retained : r.first <= r.last /\ r.last <= s.through
    /\ \A r, q \in s.retained : r = q \/ r.last < q.first \/ q.last < r.first

-----------------------------------------------------------------------------
(* plan_state *)

Age(n, time) == time - log[n]

(* The bucket of a snapshot depends on its age. *)
Bucket(n, time) ==
    IF Age(n, time) <= HourlyWindow THEN <<"hour", log[n] \div Hour>>
    ELSE IF Age(n, time) <= DailyWindow THEN <<"day", log[n] \div Day>>
    ELSE <<"week", log[n] \div Week>>

(* Mutant: the last published counts as the newest. *)
LaterPublished(m, n) == m > n

(* m is newer than n: by sealed_at, then by sequence number. *)
Newer(m, n) == log[m] > log[n] \/ (log[m] = log[n] /\ m > n)

(* A snapshot sealed in the future has a negative age: it is recent. *)
Recent(time) == {n \in Published : Age(n, time) <= AllWindow}

NewestOfBucket(time, pins) ==
    LET aged == Published \ (Recent(time) \cup pins)
    IN  {n \in aged : \A m \in aged :
            Bucket(m, time) = Bucket(n, time) => ~Newer(m, n)}

HeadRecord == {n \in Published : n = Len(log)}

Keep(time, pins) == Recent(time) \cup NewestOfBucket(time, pins) \cup pins \cup HeadRecord

(* compress_sequences: the maximal runs of consecutive numbers. *)
Ranges(keep) ==
    {r \in SequenceRange :
        /\ r.first <= r.last /\ r.first .. r.last \subseteq keep
        /\ r.first - 1 \notin keep /\ r.last + 1 \notin keep}

Planned(time, pins) ==
    [through |-> Len(log), retained |-> Ranges(Keep(time, pins)), pins |-> pins]

-----------------------------------------------------------------------------
Tick ==
    /\ now < MaxTime
    /\ now' = now + 1
    /\ UNCHANGED <<log, state, tail, stored>>

(* A capture is sealed now; a snapshot that is pulled or imported keeps the
   time another machine gave it. *)
Publish(time) ==
    /\ Len(log) < MaxSnapshots
    /\ log' = Append(log, time)
    /\ stored' = stored \cup {Len(log')}
    /\ UNCHANGED <<now, state, tail>>

(* Mutant: a torn frame is passed over and stays. *)
TailKept(t) == t

(* read_frame and read_latest: a frame that ends too early is cut from the log;
   one that is behind it would not have been read. *)
TailRead(t) == IF t = "torn" THEN "clean" ELSE t

(* append_state, after read_latest under the same hold of retention.lock. *)
AppendState(s) ==
    /\ state' = s
    /\ tail' = IF TailRead(tail) = "clean" THEN "clean" ELSE "buried"

(* The process is killed between the writes of a frame: of a pin or a plan. *)
AppendKilled ==
    /\ Published # {} /\ tail = "clean"
    /\ tail' = "torn"
    /\ UNCHANGED <<now, log, state, stored>>

(* RetentionLog::state, for the timeline, the counts and the plan of a dry run *)
ReadState ==
    /\ tail' = TailRead(tail) /\ tail' # tail
    /\ UNCHANGED <<now, log, state, stored>>

Pin(n) ==
    /\ n \in stored \ state.pins
    /\ AppendState([state EXCEPT !.pins = @ \cup {n}])
    /\ UNCHANGED <<now, log, stored>>

Unpin(n) ==
    /\ n \in state.pins
    /\ AppendState([state EXCEPT !.pins = @ \ {n}])
    /\ UNCHANGED <<now, log, stored>>

(* apply: the new plan is on record before the first object is read. *)
Apply == AppendState(Planned(now, state.pins))

RetainedBy(s) == {n \in Published : Retains(s, n)}

Collect ==
    /\ Apply
    /\ RetainedBy(state') \subseteq stored
    /\ stored' = RetainedBy(state')
    /\ UNCHANGED <<now, log>>

(* The collection ends after the plan: it is killed, or a snapshot it means to
   keep has no objects. *)
CollectFails ==
    /\ Apply
    /\ UNCHANGED <<now, log, stored>>

Next ==
    \/ Tick
    \/ \E time \in 0..(now + MaxSkew) : Publish(time)
    \/ \E n \in Published : Pin(n) \/ Unpin(n)
    \/ Collect \/ CollectFails \/ AppendKilled \/ ReadState

Spec == Init /\ [][Next]_vars

-----------------------------------------------------------------------------
(* Properties *)

(* What apply, pin and unpin append to retention.log is found again and passes
   validate_state, whatever appends were killed before: read_latest never
   refuses the log, and with it the store's timeline, nor loses a frame. *)
StateReadable == ValidState(state) /\ tail # "buried"

(* n is the newest of all that were ever published with a date in the same
   stretch of the given width. *)
NewestWithin(n, width) ==
    \A m \in Published \ {n} : log[m] \div width = log[n] \div width =>
        log[m] < log[n] \/ (log[m] = log[n] /\ m < n)

(* The policy's promise, whatever collections ran before and in whatever order
   snapshots with older dates arrived: the objects of the head and of the pins
   are stored, those of all snapshots of the last day, of the newest of each
   hour of the last week, of the newest of each day of the last ninety days,
   and of the newest of each week. *)
PromisedKept ==
    \A n \in Published :
        \/ n = Len(log) \/ n \in state.pins
        \/ Age(n, now) <= AllWindow
        \/ Age(n, now) <= HourlyWindow /\ NewestWithin(n, Hour)
        \/ Age(n, now) <= DailyWindow /\ NewestWithin(n, Day)
        \/ NewestWithin(n, Week)
        => n \in stored /\ Retains(state, n)

(* Every snapshot the timeline lists has its objects, so that it can be graded
   ("every snapshot knows whether it's byte-exact or partial") and the next
   collection can mark it. *)
RetainedStored == RetainedBy(state) \subseteq stored
=============================================================================
