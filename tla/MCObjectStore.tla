--------------------------- MODULE MCObjectStore ---------------------------
(* Small instances of ObjectStore for TLC. *)
EXTENDS ObjectStore, TLC

Symmetry == Permutations(Procs) \cup Permutations(Blobs)

(* Bound of the run: processes overlap until the first fault and through it;
   from then on one process at a time has the store open. *)
OneAtATimeAfterFault ==
    kills + losses + tears > 0 =>
        \A p, q \in Procs : proc[p].at # "closed" /\ proc[q].at # "closed" => p = q

(* For the configurations that show what one race leads to. *)
OnlyKill == races \subseteq {"kill"}
OnlyPublish == races \subseteq {"publish"}
OnlyCount == races \subseteq {"count"}
=============================================================================
