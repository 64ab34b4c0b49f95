------------------------------- MODULE MCSync -------------------------------
(* Small instances of Sync for TLC. *)
EXTENDS Sync

\* Machines and paths can be renamed in a whole behaviour: the first edit is that
\* of path 1 on a given machine.
First == CHOOSE m \in Machines : TRUE
FirstEdit == past = <<>> /\ past' # past => tree'[First][1] # tree[First][1]
=============================================================================
