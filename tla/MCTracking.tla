----------------------------- MODULE MCTracking -----------------------------
(* Two files, of which the second set of rules excludes one.                *)
EXTENDS Tracking

Served == [running |-> {"daemon"}, edits |-> 2, seals |-> 2, pulls |-> 0, faults |-> 1]
Watched == [running |-> {"watch"}, edits |-> 2, seals |-> 1, pulls |-> 0, faults |-> 1]
Pulling == [running |-> {"watch"}, edits |-> 2, seals |-> 0, pulls |-> 1, faults |-> 0]

MCScenarios == {Served, [Served EXCEPT !.edits = 1, !.seals = 1, !.faults = 2],
                [Served EXCEPT !.edits = 1, !.seals = 3, !.faults = 0],
                Watched, Pulling, [Pulling EXCEPT !.edits = 1, !.faults = 1]}
PullingOnly == {Pulling}
=============================================================================
