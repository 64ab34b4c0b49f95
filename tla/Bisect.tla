------------------------------- MODULE Bisect -------------------------------
(* `furrow bisect`: the search for the snapshot at which a command begins to
   fail, in repository.rs. A scratch copy of the workspace is moved from one
   snapshot to the next by the difference of the two, and the command runs in a
   copy of the scratch that is thrown away. Captures and collections of other
   processes go on meanwhile.

   One file of the workspace decides what the command says; a rule of
   .furrowpolicy can exclude it from captures. *)
EXTENDS Integers, Sequences, FiniteSets, SequencesExt

CONSTANTS
    Contents,       \* of the file
    Absent,         \* no file
    MaxSnapshots    \* bound: snapshots sealed

VARIABLES
    file, rule,     \* the file in the workspace, and whether it is excluded
    failing,        \* contents with which the command fails
    timeline,       \* the snapshots that were sealed
    retained,       \* the positions of those that are kept
    search          \* the running command

vars == <<file, rule, failing, timeline, retained, search>>

NoSearch == [at |-> "none"]

Init ==
    /\ file \in Contents /\ rule = FALSE
    /\ failing \in SUBSET Contents
    /\ timeline = << >> /\ retained = {}
    /\ search = NoSearch

-----------------------------------------------------------------------------
(* The rest of the system *)

(* The person writes the file, or changes .furrowpolicy. *)
Edit ==
    /\ file' \in Contents /\ rule' \in BOOLEAN
    /\ UNCHANGED <<failing, timeline, retained, search>>

(* A snapshot records the rules it was taken under. *)
Taken == [file |-> IF rule THEN Absent ELSE file, rule |-> rule]

Sealed ==
    /\ Len(timeline) < MaxSnapshots
    /\ timeline' = Append(timeline, Taken)
    /\ retained' = retained \cup {Len(timeline) + 1}

Seal == Sealed /\ UNCHANGED <<file, rule, failing, search>>

(* A collection thins the timeline; the head stays. *)
Collect(n) ==
    /\ n \in retained /\ n # Len(timeline)
    /\ retained' = retained \ {n}
    /\ UNCHANGED <<file, rule, failing, timeline, search>>

-----------------------------------------------------------------------------
(* The command *)

(* The retained snapshots, oldest first; the last is the one bisect has just
   sealed. *)
Candidates == SetToSortSeq(retained', LAMBDA a, b : a < b)

(* Without --good and --bad the first and the last candidate *)
Bounds(c, good, bad) == good \in 1..Len(c) /\ bad \in 1..Len(c) /\ good < bad

(* The boundary is sealed and the workspace copied; snapshots_match_fork has
   seen that the file, unless excluded, did not change in between. *)
Begin(good, bad) ==
    /\ search.at \in {"none", "done"}
    /\ Sealed
    /\ Bounds(Candidates, good, bad)
    /\ search' = [at |-> "good", candidates |-> Candidates, good |-> good, bad |-> bad,
                  current |-> Len(timeline'), scratch |-> file]
    /\ UNCHANGED <<file, rule, failing>>

(* from_rules of both snapshots *)
Protected(from, to) == timeline[from].rule \/ timeline[to].rule

(* apply_snapshot_transition_at: what differs between the two snapshots is
   written, except what the rules of either exclude. *)
Transition(from, to, scratch) ==
    IF timeline[from].file = timeline[to].file \/ Protected(from, to) THEN scratch
    ELSE timeline[to].file

Passes(content) == content \notin failing

(* ensure_bisect_check. A candidate is never asked for twice; one that a
   collection has taken in the meantime cannot be read. *)
Check(n) ==
    LET to == search.candidates[n]
        scratch == Transition(search.current, to, search.scratch)
    IN  [moved |-> [search EXCEPT !.current = to, !.scratch = scratch],
         result |-> IF {search.current, to} \subseteq retained
                    THEN (IF Passes(scratch) THEN "passes" ELSE "fails")
                    ELSE "error"]

CheckGood ==
    /\ search.at = "good"
    /\ LET r == Check(search.good) IN
        search' = IF r.result = "passes" THEN [r.moved EXCEPT !.at = "bad"] ELSE NoSearch
    /\ UNCHANGED <<file, rule, failing, timeline, retained>>

CheckBad ==
    /\ search.at = "bad"
    /\ LET r == Check(search.bad) IN
        search' = IF r.result = "fails" THEN [r.moved EXCEPT !.at = "loop"] ELSE NoSearch
    /\ UNCHANGED <<file, rule, failing, timeline, retained>>

Middle == search.good + (search.bad - search.good) \div 2

CheckMiddle ==
    /\ search.at = "loop" /\ search.bad - search.good > 1
    /\ LET r == Check(Middle) IN
        search' = CASE r.result = "passes" -> [r.moved EXCEPT !.good = Middle]
                    [] r.result = "fails"  -> [r.moved EXCEPT !.bad = Middle]
                    [] r.result = "error"  -> NoSearch
    /\ UNCHANGED <<file, rule, failing, timeline, retained>>

Outcome == [at |-> "done", good |-> search.candidates[search.good],
            bad |-> search.candidates[search.bad]]

(* The search ends, and the scratch is forgotten and removed. *)
Report ==
    /\ search.at = "loop" /\ search.bad - search.good <= 1
    /\ search' = Outcome
    /\ UNCHANGED <<file, rule, failing, timeline, retained>>

Next ==
    \/ Edit \/ Seal \/ \E n \in retained : Collect(n)
    \/ \E good, bad \in 1..MaxSnapshots : Begin(good, bad)
    \/ CheckGood \/ CheckBad \/ CheckMiddle \/ Report

Spec == Init /\ [][Next]_vars

-----------------------------------------------------------------------------
(* README.md:112: bisect "finds the breaking moment even when the culprit was an
   `.env` edit". With the file as the two reported snapshots recorded it, the
   command passes in the good one and fails in the first bad one (bisect_search).
   A snapshot that excludes the file says nothing of it. *)
BreakingMoment ==
    search.at = "done" =>
        /\ ~timeline[search.good].rule => Passes(timeline[search.good].file)
        /\ ~timeline[search.bad].rule => ~Passes(timeline[search.bad].file)
=============================================================================
