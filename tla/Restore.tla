------------------------------ MODULE Restore ------------------------------
(* Rewinds and merges of one workspace by several processes: repository.rs.
   The person edits the tree at any time; a process can be killed and the
   power can fail at any time. A path stands for a file; directories, modes
   and hard links are part of its content. *)
EXTENDS Integers, FiniteSets, TLC

CONSTANTS
    None,           \* no process, no tree, no intent
    Procs,          \* processes that have the workspace open
    NumPaths,
    MaxContent,     \* 0 is the absence of a file, Torn what a power loss can leave
    Selections,     \* the paths a rewind can be asked for
    MaxEdits, MaxRestores, MaxFaults

Paths == 1..NumPaths
Torn == -1
Contents == Torn..MaxContent

ASSUME ConstantsAssumption ==
    /\ NumPaths \in Nat /\ MaxContent \in Nat \ {0}
    /\ MaxEdits \in Nat /\ MaxRestores \in Nat /\ MaxFaults \in Nat
    /\ Selections \subseteq SUBSET Paths
    /\ None \notin Procs

VARIABLES
    tree,           \* the working tree
    fork,           \* the tree of a fork of it
    base,           \* the snapshot the fork was made from
    sealed,         \* trees of the published snapshots
    intent,         \* restore.intent: the snapshot to go back to, the paths
    lock,           \* holder of mutation.lock
    proc,           \* what each process is doing
    volatile,       \* paths whose replacement has not been flushed
    op,             \* history: the restore since its plan
    exposed,        \* history: paths the person wrote when nothing would look again
    overwritten,    \* history: a restore began over the intent of another
    edits, forkEdits, restores, faults

vars == <<tree, fork, base, sealed, intent, lock, proc, volatile, op, exposed, overwritten,
          edits, forkEdits, restores, faults>>
history == <<exposed, overwritten>>
bounds == <<edits, forkEdits, restores, faults>>

Trees == [Paths -> Contents]
Intents == [pre : Trees, sel : SUBSET Paths]
NoOp == [active |-> FALSE]

ASSUME NoneAssumption == None \notin Trees \cup Intents

Idle == [at |-> "idle", kind |-> None, pre |-> None, plan |-> {}, todo |-> {}]
Closed == [Idle EXCEPT !.at = "closed"]

Sealed(q, c) == \E t \in sealed : t[q] = c

Init ==
    /\ tree = [q \in Paths |-> 1]
    /\ \E earlier \in [Paths -> 0..1] : sealed = {earlier, tree}
    /\ fork = tree /\ base = tree
    /\ intent = None /\ lock = None /\ op = NoOp /\ volatile = {}
    /\ exposed = {} /\ overwritten = FALSE
    /\ proc = [p \in Procs |-> Closed]
    /\ edits = 0 /\ forkEdits = 0 /\ restores = 0 /\ faults = 0

-----------------------------------------------------------------------------
(* The person *)

(* What a restore is about to overwrite without looking at it again. *)
Unwatched(q) ==
    /\ lock # None
    /\ proc[lock].at \in {"armed", "apply", "undo", "rollback"}
    /\ q \in proc[lock].todo

(* What the next open will overwrite: an interrupted restore, or a rollback
   that will not have converged. *)
Abandoned(q) ==
    /\ intent # None /\ q \in intent.sel
    /\ \/ lock = None
       \/ proc[lock].kind = "rewind" /\ proc[lock].at \in {"rollback", "converge"}

(* The person may write at any time.  What is written between the last look at a
   file and its replacement, or so that the recovery of a crash finds it, is
   exposed: nothing holds it but the file. *)
Edit(q, c) ==
    /\ edits + forkEdits < MaxEdits /\ c # tree[q]
    /\ tree' = [tree EXCEPT ![q] = c]
    /\ op' = IF op = NoOp THEN NoOp
             ELSE [op EXCEPT !.dirty = @ \cup {q}, !.own = @ \ {q}]
    /\ exposed' = IF Unwatched(q) \/ Abandoned(q) THEN exposed \cup {q} ELSE exposed \ {q}
    /\ volatile' = volatile \ {q}
    /\ edits' = edits + 1
    /\ UNCHANGED <<fork, base, sealed, intent, lock, proc, overwritten, forkEdits, restores,
                   faults>>

ForkEdit(q, c) ==
    /\ edits + forkEdits < MaxEdits /\ c # fork[q]
    /\ fork' = [fork EXCEPT ![q] = c]
    /\ forkEdits' = forkEdits + 1
    /\ UNCHANGED <<tree, base, sealed, intent, lock, proc, op, volatile, edits, restores, faults, history>>

-----------------------------------------------------------------------------
(* Opening: recover_interrupted_rewind *)

Differing(t, sel) == {q \in sel : tree[q] # t[q]}

Open(p) ==
    /\ proc[p].at = "closed"
    /\ proc' = [proc EXCEPT ![p] = IF intent = None THEN Idle
                                   ELSE [Idle EXCEPT !.at = "opening"]]
    /\ UNCHANGED <<tree, fork, base, sealed, intent, lock, op, volatile, bounds, history>>

(* The intent was seen before the lock was taken; when it has gone since, the
   open ends with an error. *)
OpenFails(p) ==
    /\ proc[p].at = "opening" /\ lock = None
    /\ intent = None
    /\ proc' = [proc EXCEPT ![p] = Closed]
    /\ UNCHANGED <<tree, fork, base, sealed, intent, lock, op, volatile, bounds, history>>

Recover(p) ==
    /\ proc[p].at = "opening" /\ lock = None
    /\ intent # None
    /\ lock' = p
    /\ proc' = [proc EXCEPT ![p] =
            [at |-> "rollback", kind |-> "recover", pre |-> intent.pre,
             plan |-> Differing(intent.pre, intent.sel),
             todo |-> Differing(intent.pre, intent.sel)]]
    /\ UNCHANGED <<tree, fork, base, sealed, intent, op, volatile, bounds, history>>

(* Another command seals whatever is in the tree: seals and restores share the
   maintenance lock. *)
SealTree(p) ==
    /\ proc[p].at = "idle" /\ tree \notin sealed
    /\ sealed' = sealed \cup {tree}
    /\ UNCHANGED <<tree, fork, base, intent, lock, proc, op, volatile, bounds, history>>

-----------------------------------------------------------------------------
(* Steps of a rewind and of a merge up to the first change of the tree *)

At(p, where) == [proc EXCEPT ![p].at = where]

(* The lock file is closed, the command returns. *)
Return(p) ==
    /\ lock' = None
    /\ proc' = [proc EXCEPT ![p] = Idle]

NewOp(sel, target) ==
    [active |-> TRUE, sel |-> sel, target |-> target, dirty |-> {}, own |-> {}]

(* plan_rewind. When this process was open already, nothing looks at the intent
   that a process left which was killed or could not roll back: it will be
   written over. *)
RewindBegin(p, sel, target) ==
    /\ proc[p].at = "idle" /\ lock = None
    /\ restores < MaxRestores
    /\ lock' = p
    /\ overwritten' = (overwritten \/ intent # None)
    /\ op' = NewOp(sel, target)
    /\ proc' = [proc EXCEPT ![p] = [Idle EXCEPT !.at = "planned", !.kind = "rewind",
                                                !.plan = Differing(target, sel)]]
    /\ restores' = restores + 1
    /\ UNCHANGED <<tree, fork, base, sealed, intent, exposed, edits, forkEdits, faults, volatile>>

RewindSeal(p) ==
    /\ proc[p].at = "planned"
    /\ sealed' = sealed \cup {tree}
    /\ proc' = [proc EXCEPT ![p].at = "sealed", ![p].pre = tree]
    /\ UNCHANGED <<tree, fork, base, intent, lock, op, volatile, bounds, history>>

(* verify_plan_state: the planned paths are as they were sealed. *)
RewindVerify(p) ==
    /\ proc[p].at = "sealed" /\ proc[p].kind = "rewind"
    /\ \A q \in proc[p].plan : tree[q] = proc[p].pre[q]
    /\ proc' = [proc EXCEPT ![p].at = "armed", ![p].todo = proc[p].plan]
    /\ UNCHANGED <<tree, fork, base, sealed, intent, lock, op, volatile, bounds, history>>

(* "rewind cancelled before mutation; concurrent changes remain untouched" *)
RewindCancel(p) ==
    /\ proc[p].at = "sealed" /\ proc[p].kind = "rewind"
    /\ \E q \in proc[p].plan : tree[q] # proc[p].pre[q]
    /\ Return(p)
    /\ op' = NoOp
    /\ UNCHANGED <<tree, fork, base, sealed, intent, volatile, bounds, history>>

(* merge seals both sides, ours and theirs. *)
MergeBegin(p) ==
    /\ proc[p].at = "idle" /\ lock = None
    /\ restores < MaxRestores
    /\ lock' = p
    /\ overwritten' = (overwritten \/ intent # None)
    /\ sealed' = sealed \cup {tree, fork}
    /\ proc' = [proc EXCEPT ![p] = [Idle EXCEPT !.at = "merging", !.kind = "merge",
                                                !.pre = tree]]
    /\ restores' = restores + 1
    /\ UNCHANGED <<tree, fork, base, intent, op, exposed, edits, forkEdits, faults, volatile>>

(* Module Merge has the planner; without directories it comes to this. *)
Taken(ours) == {q \in Paths : ours[q] = base[q] /\ fork[q] # base[q]}
Conflicting(ours) ==
    {q \in Paths : ours[q] # base[q] /\ fork[q] # base[q] /\ ours[q] # fork[q]}

MergePlan(p) ==
    /\ proc[p].at = "merging"
    /\ LET ours == proc[p].pre IN
        /\ fork \in sealed /\ Conflicting(ours) = {}
        /\ op' = NewOp(Taken(ours),
                       [q \in Paths |-> IF q \in Taken(ours) THEN fork[q] ELSE ours[q]])
        /\ proc' = [proc EXCEPT ![p].at = "sealed", ![p].plan = Taken(ours)]
    /\ UNCHANGED <<tree, fork, base, sealed, intent, lock, volatile, bounds, history>>

MergeConflict(p) ==
    /\ proc[p].at = "merging" /\ Conflicting(proc[p].pre) # {}
    /\ Return(p)
    /\ UNCHANGED <<tree, fork, base, sealed, intent, op, volatile, bounds, history>>

(* The check has passed in a scratch copy, and the tree is still ours. *)
MergeVerify(p) ==
    /\ proc[p].at = "sealed" /\ proc[p].kind = "merge"
    /\ tree = proc[p].pre
    /\ proc' = [proc EXCEPT ![p].at = "armed", ![p].todo = proc[p].plan]
    /\ UNCHANGED <<tree, fork, base, sealed, intent, lock, op, volatile, bounds, history>>

(* The check fails, or the tree changed while it ran. *)
MergeCancel(p) ==
    /\ proc[p].at = "sealed" /\ proc[p].kind = "merge"
    /\ Return(p)
    /\ op' = NoOp
    /\ UNCHANGED <<tree, fork, base, sealed, intent, volatile, bounds, history>>

-----------------------------------------------------------------------------
(* Changing the tree: apply_plan_at *)

(* write_restore_intent, flushed with its directory *)
Arm(p) ==
    /\ proc[p].at = "armed"
    /\ intent' = [pre |-> proc[p].pre,
                  sel |-> IF proc[p].kind = "rewind" THEN op.sel ELSE Paths]
    /\ proc' = At(p, "apply")
    /\ UNCHANGED <<tree, fork, base, sealed, lock, op, volatile, bounds, history>>

(* Files are written in the order of their names, then what is not in the
   target is removed. *)
NextPath(todo, target) ==
    LET files == {q \in todo : target[q] # 0}
    IN  CHOOSE q \in todo :
            /\ files # {} => q \in files
            /\ \A r \in (IF files # {} THEN files ELSE todo) : q <= r

(* Write: a temporary file renamed over the old one, not flushed *)
Replace(p, q, c) ==
    /\ tree' = [tree EXCEPT ![q] = c]
    /\ op' = [op EXCEPT !.own = @ \cup {q}]
    /\ volatile' = volatile \cup {q}
    /\ proc' = [proc EXCEPT ![p].todo = @ \ {q}]

Write(p) ==
    /\ proc[p].at = "apply" /\ proc[p].todo # {}
    /\ LET q == NextPath(proc[p].todo, op.target) IN Replace(p, q, op.target[q])
    /\ UNCHANGED <<fork, base, sealed, intent, lock, bounds, history>>

(* An object cannot be read or a file not written. *)
WriteFails(p) ==
    /\ proc[p].at = "apply" /\ proc[p].todo # {}
    /\ proc' = At(p, "failed")
    /\ UNCHANGED <<tree, fork, base, sealed, intent, lock, op, volatile, bounds, history>>

(* Mutant: the writes are not made durable. *)
AppliedUnflushed(p) ==
    /\ proc[p].at = "apply" /\ proc[p].todo = {}
    /\ proc' = At(p, "applied")
    /\ UNCHANGED <<tree, fork, base, sealed, intent, lock, op, volatile, bounds, history>>

(* make_durable *)
Applied(p) ==
    /\ proc[p].at = "apply" /\ proc[p].todo = {}
    /\ volatile' = {}
    /\ proc' = At(p, "applied")
    /\ UNCHANGED <<tree, fork, base, sealed, intent, lock, op, bounds, history>>

RewindCheck(p) ==
    /\ proc[p].at = "applied" /\ proc[p].kind = "rewind"
    /\ proc' = At(p, IF \A q \in proc[p].plan : tree[q] = op.target[q]
                     THEN "done" ELSE "failed")
    /\ UNCHANGED <<tree, fork, base, sealed, intent, lock, op, volatile, bounds, history>>

(* The merged tree is sealed with both parents, or that fails. *)
MergeSeal(p) ==
    /\ proc[p].at = "applied" /\ proc[p].kind = "merge"
    /\ sealed' = sealed \cup {tree}
    /\ proc' = At(p, "done")
    /\ UNCHANGED <<tree, fork, base, intent, lock, op, volatile, bounds, history>>

MergeSealFails(p) ==
    /\ proc[p].at = "applied" /\ proc[p].kind = "merge"
    /\ proc' = At(p, "failed")
    /\ UNCHANGED <<tree, fork, base, sealed, intent, lock, op, volatile, bounds, history>>

(* clear_restore_intent, unlock *)
Finish(p) ==
    /\ proc[p].at = "done"
    /\ intent' = None /\ op' = NoOp
    /\ Return(p)
    /\ UNCHANGED <<tree, fork, base, sealed, volatile, bounds, history>>

-----------------------------------------------------------------------------
(* Going back *)

(* Mutant: no rescue. *)
NoRescue(p) ==
    /\ proc[p].at = "failed" /\ proc[p].kind = "rewind"
    /\ proc' = [proc EXCEPT ![p].at = "undo", ![p].todo = op.sel]
    /\ UNCHANGED <<tree, fork, base, sealed, intent, lock, op, volatile, bounds, history>>

Rescue(p) ==
    /\ proc[p].at = "failed" /\ proc[p].kind = "rewind"
    /\ sealed' = sealed \cup {tree}
    /\ proc' = [proc EXCEPT ![p].at = "undo", ![p].todo = op.sel]
    /\ UNCHANGED <<tree, fork, base, intent, lock, op, volatile, bounds, history>>

(* What the person wrote into the restore and no snapshot holds. *)
Unsaved == {q \in op.dirty : ~Sealed(q, tree[q])}

(* A merge that fails seals nothing more, and neither does a rewind whose rescue
   fails. *)
RescueFails(p) ==
    /\ proc[p].at = "failed"
    /\ exposed' = exposed \cup Unsaved
    /\ proc' = [proc EXCEPT ![p].at = "undo",
                            ![p].todo = IF proc[p].kind = "rewind" THEN op.sel ELSE Paths]
    /\ UNCHANGED <<tree, fork, base, sealed, intent, lock, op, volatile, overwritten, bounds>>

UndoPlan(p) ==
    /\ proc[p].at = "undo"
    /\ LET plan == Differing(proc[p].pre, proc[p].todo) IN
        proc' = [proc EXCEPT ![p].at = "rollback", ![p].plan = plan, ![p].todo = plan]
    /\ UNCHANGED <<tree, fork, base, sealed, intent, lock, op, volatile, bounds, history>>

UndoWrite(p) ==
    /\ proc[p].at = "rollback" /\ proc[p].todo # {}
    /\ LET q == NextPath(proc[p].todo, proc[p].pre) IN Replace(p, q, proc[p].pre[q])
    /\ UNCHANGED <<fork, base, sealed, intent, lock, bounds, history>>

UndoFlush(p) ==
    /\ proc[p].at = "rollback" /\ proc[p].todo = {}
    /\ volatile' = {}
    /\ proc' = At(p, "converge")
    /\ UNCHANGED <<tree, fork, base, sealed, intent, lock, op, bounds, history>>

Converged(p) ==
    proc[p].kind = "rewind" => \A q \in proc[p].plan : tree[q] = proc[p].pre[q]

UndoDone(p) ==
    /\ proc[p].at = "converge" /\ Converged(p)
    /\ intent' = None /\ op' = NoOp
    /\ Return(p)
    /\ UNCHANGED <<tree, fork, base, sealed, volatile, bounds, history>>

(* "rewind rollback did not converge": the intent stays for the next open. *)
UndoDiverged(p) ==
    /\ proc[p].at = "converge" /\ ~Converged(p)
    /\ Return(p)
    /\ UNCHANGED <<tree, fork, base, sealed, intent, op, volatile, bounds, history>>

-----------------------------------------------------------------------------
(* Faults *)

Interrupted == IF intent = None THEN NoOp ELSE op

(* A restore that is interrupted leaves it to the next open, which goes back
   without a rescue. *)
Interrupt ==
    exposed' = IF intent # None /\ op # NoOp THEN exposed \cup Unsaved ELSE exposed

(* "rollback also failed": the intent stays, and an open that was recovering
   fails. *)
UndoFails(p) ==
    /\ faults < MaxFaults
    /\ Interrupt
    /\ proc[p].at = "rollback" /\ proc[p].todo # {}
    /\ lock' = None
    /\ proc' = [proc EXCEPT ![p] = IF proc[p].kind = "recover" THEN Closed ELSE Idle]
    /\ faults' = faults + 1
    /\ UNCHANGED <<tree, fork, base, sealed, intent, op, volatile, overwritten, edits, forkEdits,
                   restores>>

Kill(p) ==
    /\ faults < MaxFaults
    /\ proc[p].at # "closed"
    /\ IF lock = p THEN Interrupt ELSE UNCHANGED exposed
    /\ lock' = IF lock = p THEN None ELSE lock
    /\ op' = IF lock = p THEN Interrupted ELSE op
    /\ proc' = [proc EXCEPT ![p] = Closed]
    /\ faults' = faults + 1
    /\ UNCHANGED <<tree, fork, base, sealed, intent, overwritten, edits, forkEdits, restores,
                   volatile>>

(* A file that was renamed into place and not flushed is old, new or torn. *)
PowerLoss ==
    /\ faults < MaxFaults
    /\ Interrupt
    /\ \E t \in Trees :
        /\ \A q \in Paths :
            \/ t[q] = tree[q]
            \/ q \in volatile /\ (t[q] = Torn \/ Sealed(q, t[q]))
        /\ tree' = t
    /\ volatile' = {}
    /\ lock' = None /\ op' = Interrupted
    /\ proc' = [p \in Procs |-> Closed]
    /\ faults' = faults + 1
    /\ UNCHANGED <<fork, base, sealed, intent, overwritten, edits, forkEdits, restores>>

-----------------------------------------------------------------------------
Rewind(p) ==
    \/ \E s \in Selections, t \in sealed : RewindBegin(p, s, t)
    \/ RewindSeal(p) \/ RewindVerify(p) \/ RewindCancel(p) \/ RewindCheck(p)

Merge(p) ==
    \/ MergeBegin(p) \/ MergePlan(p) \/ MergeConflict(p) \/ MergeVerify(p)
    \/ MergeCancel(p) \/ MergeSeal(p) \/ MergeSealFails(p)

Apply(p) == Arm(p) \/ Write(p) \/ WriteFails(p) \/ Applied(p) \/ Finish(p)

RollBack(p) ==
    \/ Rescue(p) \/ RescueFails(p) \/ UndoPlan(p) \/ UndoWrite(p) \/ UndoFlush(p)
    \/ UndoDone(p) \/ UndoDiverged(p) \/ UndoFails(p)

Next ==
    \/ \E q \in Paths, c \in 0..MaxContent : Edit(q, c) \/ ForkEdit(q, c)
    \/ \E p \in Procs :
        \/ Open(p) \/ OpenFails(p) \/ Recover(p) \/ SealTree(p)
        \/ Rewind(p) \/ Merge(p) \/ Apply(p) \/ RollBack(p) \/ Kill(p)
    \/ PowerLoss

Spec == Init /\ [][Next]_vars

-----------------------------------------------------------------------------
(* Properties *)

Records == [at : {"closed", "idle", "opening", "planned", "merging", "sealed", "armed",
                  "apply", "applied", "done", "failed", "undo", "rollback", "converge"},
            kind : {None, "rewind", "merge", "recover"},
            pre : Trees \cup {None}, plan : SUBSET Paths, todo : SUBSET Paths]

(* The types of the state, and that nothing but a holder of mutation.lock is
   between a plan and its end. *)
TypeOK ==
    /\ tree \in Trees /\ fork \in Trees /\ base \in Trees
    /\ sealed \in SUBSET Trees
    /\ intent = None \/ intent \in Intents
    /\ lock \in Procs \cup {None}
    /\ proc \in [Procs -> Records]
    /\ \/ op = NoOp
       \/ op \in [active : {TRUE}, sel : SUBSET Paths, target : Trees,
                  dirty : SUBSET Paths, own : SUBSET Paths]
    /\ volatile \subseteq Paths
    /\ exposed \subseteq Paths /\ overwritten \in BOOLEAN
    /\ edits \in 0..MaxEdits /\ forkEdits \in 0..MaxEdits
    /\ restores \in 0..MaxRestores /\ faults \in 0..MaxFaults
    /\ \A p \in Procs : proc[p].at \notin {"closed", "idle", "opening"} <=> lock = p

(* What the person sees: the state before a restore that is not complete. *)
SeenTree ==
    [q \in Paths |-> IF op # NoOp /\ intent # None /\ q \in op.own
                     THEN intent.pre[q] ELSE tree[q]]

SeenOp ==
    IF op = NoOp THEN NoOp
    ELSE [active |-> TRUE, sel |-> op.sel, target |-> op.target, dirty |-> op.dirty]

Promise == INSTANCE AtomicRestore WITH tree <- SeenTree, op <- SeenOp, void <- overwritten

(* Rewinds and merges happen at once or not at all, across kills, power losses
   and rollbacks, and the only contents they overwrite that no snapshot holds are
   those the person wrote while the restore ran and nothing would look again;
   until a restore begins over the intent of an interrupted one. *)
Atomic == Promise!Spec

(* Once restore.intent is gone, after a restore, a rollback or a recovery that
   a power loss followed, no file is torn: durability.rs:5, "a crash before
   this call leaves the restore intent to roll back and a crash after it leaves
   every file on disk". It fails only after the intent of an interrupted restore
   was written over. *)
NothingTorn == ~overwritten /\ intent = None => \A q \in Paths : tree[q] # Torn

=============================================================================
