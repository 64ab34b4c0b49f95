----------------------------- MODULE MCExchange -----------------------------
(***************************************************************************)
(* Two devices: one has the snapshot s1, the other takes it, edits a file  *)
(* and publishes s2, which shares a blob and a chunk with s1.              *)
(***************************************************************************)
EXTENDS Exchange

MCObjects == <<"s1", "s2", "t1", "t2", "b1", "b2", "c1">>
MCKind == [o \in Range(MCObjects) |-> CASE o \in {"s1", "s2"} -> "snapshot"
    [] o \in {"t1", "t2"} -> "tree" [] o \in {"b1", "b2"} -> "blob" [] o = "c1" -> "chunk"]
MCChildren == [o \in Range(MCObjects) |-> CASE o = "s1" -> {"t1"} [] o = "s2" -> {"t2"}
    [] o = "t1" -> {"b1"} [] o = "t2" -> {"b1", "b2"} [] o \in {"b1", "b2"} -> {"c1"} [] o = "c1" -> {}]
MCSize == [o \in Range(MCObjects) |-> 1]
MCParent == [h \in {"s1", "s2"} |-> IF h = "s2" THEN "s1" ELSE "none"]
MCAuthor == [h \in {"s1", "s2"} |-> IF h = "s2" THEN 2 ELSE 1]
MCScenarios == {[mode |-> "strict", faults |-> 1, collections |-> 1],
                [mode |-> "primed", faults |-> 1, collections |-> 0],
                [mode |-> "primed", faults |-> 0, collections |-> 1],
                [mode |-> "partial", faults |-> 1, collections |-> 1]}
=============================================================================
