-------------------------- MODULE MCPackGeneration --------------------------
(* Small instances of PackGeneration for TLC. *)
EXTENDS PackGeneration, TLC

Symmetry == Permutations(Procs)

\* Two processes around one collection; two collections with a kill and a power
\* loss between any two steps.
MCScenarios ==
    {[procs |-> 2, captures |-> 3, collections |-> 1, days |-> 1, kills |-> 0, losses |-> 0],
     [procs |-> 1, captures |-> 2, collections |-> 2, days |-> 1, kills |-> 1, losses |-> 1]}

\* One process, one collection: for the counterexample of one race.
OneCollection ==
    {[procs |-> 1, captures |-> 3, collections |-> 1, days |-> 1, kills |-> 0, losses |-> 1]}

OnlySwap == races \subseteq {"swap"}
OnlyCached == races \subseteq {"cached"}
=============================================================================
