------------------------------ MODULE MCFamily ------------------------------
(* Instances of Family for TLC. *)
EXTENDS Family
Key == {<<"a">>, <<"a", "b">>, <<"c">>}
Scenario(m, f, e, o, r, x) ==
    [members |-> m, forks |-> f, edits |-> e, ops |-> o, removals |-> r, faults |-> x]
\* Siblings that coordinate; a fork that is built while the source is edited;
\* two at a time, then one of them removed; one that joins while a sibling writes;
\* forks that are removed.
All == {Scenario({1}, 0, 0, 3, 0, 1), Scenario({}, 1, 2, 0, 0, 1), Scenario({}, 2, 1, 0, 0, 0),
        Scenario({}, 1, 0, 2, 1, 0), Scenario({}, 1, 0, 1, 1, 1), Scenario({1}, 1, 1, 0, 2, 1),
        Scenario({}, 2, 0, 0, 1, 0), Scenario({1, 2}, 0, 0, 2, 0, 1)}
=============================================================================
