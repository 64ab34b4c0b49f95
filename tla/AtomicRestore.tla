--------------------------- MODULE AtomicRestore ---------------------------
(* What a rewind or a merge promises to the person who works in the tree: it
   happens at once or not at all, and it overwrites nothing that is not in a
   sealed snapshot ("every rewind seals the current state first, so rewinding
   is itself rewindable", README.md:92), except what the person wrote into it
   while it ran and it could not save. Restore implements it. *)
EXTENDS Naturals

CONSTANTS
    Paths,      \* the files of the workspace
    Contents    \* what a file can hold, its absence included

VARIABLES
    tree,       \* what the person sees, path by path
    sealed,     \* the trees that are in a snapshot
    op,         \* the restore in progress, or NoOp
    exposed,    \* paths with contents that a restore may fail to save
    edits,      \* how often the person has written
    void        \* a restore began over an interrupted one: nothing is promised

vars == <<tree, sealed, op, exposed, edits, void>>

NoOp == [active |-> FALSE]

Trees == [Paths -> Contents]

Sealed(q, c) == \E t \in sealed : t[q] = c

Init ==
    /\ tree \in Trees
    /\ tree \in sealed /\ sealed \subseteq Trees
    /\ op = NoOp
    /\ exposed = {} /\ edits = 0 /\ void = FALSE

Begin ==
    /\ op = NoOp
    /\ op' \in [active : {TRUE}, sel : SUBSET Paths, target : Trees, dirty : {{}}]
    /\ UNCHANGED <<tree, sealed, exposed, edits, void>>

(* The person may write at any time, also while a restore runs. *)
Edit(q, c) ==
    /\ tree' = [tree EXCEPT ![q] = c]
    /\ op' = IF op = NoOp THEN NoOp ELSE [op EXCEPT !.dirty = @ \cup {q}]
    /\ \/ exposed' = exposed \ {q}
       \/ op # NoOp /\ exposed' = exposed \cup {q}
    /\ edits' = edits + 1
    /\ UNCHANGED <<sealed, void>>

Seal ==
    /\ sealed \subseteq sealed' /\ sealed' \subseteq Trees
    /\ UNCHANGED <<tree, op, exposed, edits, void>>

(* An interruption exposes what was written into the restore. *)
Interrupt ==
    /\ op # NoOp
    /\ exposed \subseteq exposed' /\ exposed' \subseteq exposed \cup op.dirty
    /\ UNCHANGED <<tree, sealed, op, edits, void>>

(* All selected paths change together, except those the person has written
   since the restore began; what is overwritten is in a snapshot. *)
Commit ==
    /\ op # NoOp
    /\ \E s \in SUBSET op.sel :
        /\ \A q \in (op.sel \ op.dirty) \ s : tree[q] = op.target[q]
        /\ \A q \in s : Sealed(q, tree[q])
        /\ tree' = [q \in Paths |-> IF q \in s THEN op.target[q] ELSE tree[q]]
    /\ op' = NoOp
    /\ UNCHANGED <<sealed, exposed, edits, void>>

(* What has been written into the restore since it began, and is exposed or in a
   snapshot, may go. *)
Expendable(q) == q \in op.dirty /\ (q \in exposed \/ Sealed(q, tree[q]))

(* A restore that gives up takes back what the person wrote into it, which
   must be in a snapshot (the rescue) or exposed, and nothing else. *)
Undo(q) ==
    /\ op # NoOp /\ Expendable(q)
    /\ \E c \in Contents : Sealed(q, c) /\ tree' = [tree EXCEPT ![q] = c]
    /\ UNCHANGED <<sealed, op, exposed, edits, void>>

Abort ==
    /\ op # NoOp
    /\ op' = NoOp
    /\ UNCHANGED <<tree, sealed, exposed, edits, void>>

Next ==
    \/ Begin \/ Seal \/ Commit \/ Abort \/ Interrupt
    \/ \E q \in Paths : Undo(q) \/ \E c \in Contents : Edit(q, c)
    \/ void'

Spec == Init /\ [][Next]_vars
=============================================================================
