--------------------------- MODULE RestoreProofs ---------------------------
(***************************************************************************)
(* Theorems about Restore, for any number of processes, files, edits,      *)
(* restores, kills and power losses: once restore.intent is gone no file   *)
(* is torn, and rewinds and merges happen at once or not at all, until one *)
(* of them begins over the intent of another.                              *)
(***************************************************************************)
EXTENDS Restore, WellFoundedInduction, TLAPS

-----------------------------------------------------------------------------
(* The inductive invariant *)

Untorn(t) == \A q \in Paths : t[q] # Torn

Waiting(p) == proc[p].at \in {"closed", "idle", "opening"}
Before(p) == proc[p].at \in {"planned", "merging", "sealed", "armed"}
During(p) == proc[p].at \in {"apply", "applied", "done", "failed", "undo", "rollback", "converge"}

(* Where a restore is decides whether the intent is on disk, and the intent
   says what the restore goes back to. *)
PhaseInv ==
    \A p \in Procs :
        /\ Before(p) => intent = None
        /\ During(p) => intent # None /\ proc[p].pre = intent.pre
        /\ Before(p) /\ proc[p].at # "merging" => op # NoOp
        /\ proc[p].at = "merging" => op = NoOp /\ proc[p].kind = "merge"
        /\ proc[p].at \in {"merging", "sealed", "armed"} => proc[p].pre \in sealed
        /\ proc[p].kind = "recover" => Waiting(p) \/ proc[p].at \in {"rollback", "converge"}
        /\ proc[p].at \in {"planned", "sealed", "armed"} =>
                proc[p].plan \subseteq op.sel
        /\ proc[p].at = "armed" => proc[p].todo = proc[p].plan
        /\ During(p) => proc[p].plan \subseteq intent.sel /\ proc[p].todo \subseteq intent.sel
        /\ During(p) /\ proc[p].kind = "rewind" => intent.sel = op.sel
        /\ During(p) /\ proc[p].kind \notin {"rewind", "recover"} => intent.sel = Paths
        /\ proc[p].at \in {"applied", "done", "converge"} => proc[p].todo = {} /\ volatile = {}

(* The intent stays until what it protects is flushed, and what is not flushed
   was written by the restore it belongs to. *)
IntentInv ==
    /\ intent = None => volatile = {} /\ (op # NoOp => op.own = {})
    /\ intent # None => /\ op # NoOp /\ intent.pre \in sealed
                        /\ volatile \subseteq op.own /\ op.own \subseteq intent.sel
    /\ lock = None /\ intent = None => op = NoOp

(* A torn file is in the intent's paths, and nothing but its recovery can see it. *)
TornInv ==
    /\ \A t \in sealed : Untorn(t)
    /\ Untorn(fork) /\ Untorn(base)
    /\ op # NoOp => Untorn(op.target)
    /\ \A q \in Paths : tree[q] = Torn =>
        /\ intent # None /\ q \in intent.sel
        /\ \A p \in Procs :
            \/ proc[p].at \in {"closed", "opening"}
            \/ proc[p].at = "rollback" /\ proc[p].kind = "recover" /\ q \in proc[p].todo

BaseInv == TypeOK /\ PhaseInv /\ IntentInv /\ TornInv

(* A path can be put back to pre without losing what no snapshot holds and was
   not written while nothing would look at it again. *)
Safe(q, pre) ==
    \/ q \in op.own
    \/ tree[q] = pre[q]
    \/ q \in op.dirty /\ (q \in exposed \/ Sealed(q, tree[q]))

(* Every change since the intent was written is the restore's or the person's. *)
OwnedInv ==
    /\ intent # None => \A q \in Paths : q \in op.own \/ q \in op.dirty \/ tree[q] = intent.pre[q]
    /\ \A p \in Procs :
        proc[p].at = "armed" \/ (proc[p].at = "sealed" /\ proc[p].kind = "rewind") =>
            \A q \in Paths : q \in op.dirty \/ tree[q] = proc[p].pre[q]

(* What is overwritten next, by the restore, its rollback or the recovery of an
   interrupted one, is in a snapshot or exposed. *)
SafeInv ==
    /\ \A p \in Procs :
        /\ proc[p].at \in {"armed", "apply", "undo", "rollback"} =>
            \A q \in proc[p].todo : Safe(q, proc[p].pre)
        /\ proc[p].at \in {"rollback", "converge"} /\ proc[p].kind = "rewind" =>
            \A q \in intent.sel : Safe(q, intent.pre)
    /\ lock = None /\ intent # None => \A q \in intent.sel : Safe(q, intent.pre)

(* What the restore has changed so far is what it promised, and a rollback puts
   back all of it. *)
ProgressInv ==
    \A p \in Procs :
        /\ proc[p].at \in {"planned", "sealed", "armed", "apply", "applied", "done"} =>
            \A q \in op.sel : q \in proc[p].plan \/ q \in op.dirty \/ tree[q] = op.target[q]
        /\ proc[p].at \in {"apply", "applied", "done"} =>
            /\ proc[p].plan \subseteq proc[p].todo \cup op.own \cup op.dirty
            /\ proc[p].plan \subseteq op.sel /\ proc[p].todo \subseteq proc[p].plan
            /\ op.own \subseteq op.sel
            /\ \A q \in op.own : tree[q] = op.target[q]
        /\ proc[p].at = "undo" => proc[p].todo = intent.sel
        /\ proc[p].at \in {"rollback", "converge"} =>
            \A q \in op.own : q \in proc[p].todo \/ tree[q] = intent.pre[q]

AtomInv == BaseInv /\ OwnedInv /\ SafeInv /\ ProgressInv

-----------------------------------------------------------------------------
(* Types, component by component, and what a step changes of a process *)

Shapes ==
    /\ \A p \in Procs :
        /\ proc[p].plan \subseteq Paths /\ proc[p].todo \subseteq Paths
        /\ Waiting(p) \/ Before(p) \/ During(p)
        /\ Waiting(p) <=> lock # p
    /\ lock \in Procs \cup {None} /\ None \notin Procs
    /\ DOMAIN tree = Paths /\ DOMAIN proc = Procs
    /\ op # NoOp => op.sel \subseteq Paths /\ op.dirty \subseteq Paths /\ op.own \subseteq Paths
    /\ intent # None => intent.sel \subseteq Paths

Operations == [active : {TRUE}, sel : SUBSET Paths, target : Trees,
               dirty : SUBSET Paths, own : SUBSET Paths]

Turned(p, at, kind, pre, plan, todo) ==
    /\ proc' \in [Procs -> Records]
    /\ \A q \in Procs : q # p => proc'[q] = proc[q]
    /\ proc'[p].at = at /\ proc'[p].kind = kind /\ proc'[p].pre = pre
    /\ proc'[p].plan = plan /\ proc'[p].todo = todo

(* A step keeps the invariant, and with it the stronger one, and is a step, or
   none, of AtomicRestore. *)
Good ==
    /\ BaseInv'
    /\ AtomInv => AtomInv' /\ [Promise!Next]_(Promise!vars)

(* The type invariant types every component. *)
LEMMA TypeShapes == TypeOK => Shapes
<1> HAVE TypeOK
<1>1. \A p \in Procs : proc[p] \in Records
  BY DEF TypeOK
<1>2. \A p \in Procs : /\ proc[p].plan \subseteq Paths /\ proc[p].todo \subseteq Paths
                       /\ Waiting(p) \/ Before(p) \/ During(p)
  BY <1>1 DEF Records, Waiting, Before, During
<1>3. op # NoOp => op.sel \subseteq Paths /\ op.dirty \subseteq Paths /\ op.own \subseteq Paths
  BY DEF TypeOK
<1>4. intent # None => intent.sel \subseteq Paths
  BY DEF TypeOK, Intents
<1> QED
  BY <1>2, <1>3, <1>4, ConstantsAssumption DEF TypeOK, Shapes, Trees, Waiting

(* A set of naturals that is not empty has a least element. *)
LEMMA LeastOf ==
    ASSUME NEW T \in SUBSET Nat, T # {}
    PROVE  \E x \in T : \A y \in T : x <= y
<1> DEFINE R == {ss \in Nat \X Nat : ss[1] < ss[2]}
<1>1. IsWellFoundedOn(R, Nat)
  BY NatLessThanWellFounded DEF OpToRel
<1>2. \A x, y \in Nat : <<x, y>> \in R <=> x < y
  OBVIOUS
<1> HIDE DEF R
<1>3. PICK x \in T : \A y \in T : ~(<<y, x>> \in R)
  BY <1>1, WFMin, Zenon
<1>4. \A y \in T : y \in Nat /\ x \in Nat /\ ~(y < x)
  BY <1>2, <1>3, Zenon
<1>5. \A y \in T : x <= y
  BY <1>4
<1> QED
  BY <1>5

(* The path written next is one that is left to write. *)
LEMMA NextPathIn ==
    ASSUME NEW todo \in SUBSET Paths, todo # {}, NEW target
    PROVE  NextPath(todo, target) \in todo
<1> DEFINE files == {q \in todo : target[q] # 0}
           T == IF files # {} THEN files ELSE todo
<1>1. todo \subseteq Nat
  BY ConstantsAssumption DEF Paths
<1>2. T \in SUBSET Nat /\ T # {} /\ T \subseteq todo
  BY <1>1
<1>3. PICK x \in T : \A y \in T : x <= y
  BY <1>2, LeastOf
<1>4. \E q \in todo : /\ files # {} => q \in files
                      /\ \A r \in (IF files # {} THEN files ELSE todo) : q <= r
  BY <1>2, <1>3
<1> QED
  BY <1>4 DEF NextPath

(* What a step makes of the restore in progress. *)
Became(sel, target, dirty, own) ==
    /\ op' # NoOp /\ op' \in Operations
    /\ op'.sel = sel /\ op'.target = target /\ op'.dirty = dirty /\ op'.own = own

(* A restore begins with its selection and target. *)
LEMMA NewOpBecomes ==
    ASSUME NEW sel \in SUBSET Paths, NEW target \in Trees, op' = NewOp(sel, target)
    PROVE  Became(sel, target, {}, {})
<1>1. op'.active = TRUE /\ NoOp.active = FALSE
  BY DEF NewOp, NoOp
<1> QED
  BY <1>1 DEF Became, NewOp, Operations

(* An operation that is not NoOp is one of Operations, and stays different from
   NoOp when its paths are noted. *)
LEMMA OpChanges ==
    ASSUME TypeOK, op # NoOp, NEW dirty \in SUBSET Paths, NEW own \in SUBSET Paths,
           op' = [op EXCEPT !.dirty = dirty, !.own = own]
    PROVE  Became(op.sel, op.target, dirty, own)
<1>1. op \in Operations
  BY DEF TypeOK, Operations
<1>2. op' \in Operations
  BY <1>1 DEF Operations
<1>3. op'.active = TRUE /\ NoOp.active = FALSE
  BY <1>2 DEF Operations, NoOp
<1> QED
  BY <1>1, <1>2, <1>3 DEF Became, Operations

(* Taking back a path that is safe takes back nothing that no snapshot holds:
   the person sees no change, or what was written into the restore undone. *)
LEMMA ReplaceSeen ==
    ASSUME BaseInv, NEW q \in Paths, NEW c, intent # None, Safe(q, intent.pre),
           tree' = [tree EXCEPT ![q] = c],
           Became(op.sel, op.target, op.dirty, op.own \cup {q}),
           UNCHANGED <<sealed, intent, exposed, overwritten, edits>>
    PROVE  [Promise!Next]_(Promise!vars)
<1>1. op # NoOp /\ intent.pre \in sealed /\ intent.pre \in Trees
  BY DEF BaseInv, IntentInv, TypeOK, Intents
<1>2. SeenTree' = [SeenTree EXCEPT ![q] = intent.pre[q]]
  BY <1>1 DEF SeenTree, Became, BaseInv, TypeOK, Trees
<1>3. UNCHANGED SeenOp
  BY <1>1 DEF SeenOp, Became
<1>4. SeenTree[q] = IF q \in op.own THEN intent.pre[q] ELSE tree[q]
  BY <1>1 DEF SeenTree
<1>5. CASE q \in op.own \/ tree[q] = intent.pre[q]
  <2>1. SeenTree[q] = intent.pre[q] /\ DOMAIN SeenTree = Paths
    BY <1>4, <1>5 DEF SeenTree
  <2>2. UNCHANGED SeenTree
    BY <1>2, <2>1 DEF SeenTree
  <2> QED
    BY <1>3, <2>2 DEF Promise!vars
<1>6. CASE q \notin op.own /\ q \in op.dirty /\ (q \in exposed \/ Sealed(q, tree[q]))
  <2>1. SeenOp # NoOp /\ SeenOp.dirty = op.dirty
    BY <1>1 DEF SeenOp, NoOp
  <2>2. intent.pre[q] \in Contents /\ Promise!Sealed(q, intent.pre[q])
    BY <1>1 DEF Trees, Promise!Sealed
  <2>3. Promise!Expendable(q)
    BY <1>4, <1>6, <2>1 DEF Sealed, Promise!Sealed, Promise!Expendable
  <2>4. Promise!Undo(q)
    BY <1>2, <1>3, <1>6, <2>1, <2>2, <2>3 DEF Promise!Undo, Promise!NoOp, NoOp
  <2> QED
    BY <2>4 DEF Promise!Next
<1> QED
  BY <1>5, <1>6 DEF Safe

(* Giving up a restore that has changed nothing, or has put everything back. *)
LEMMA AbortSeen ==
    ASSUME op' = NoOp, UNCHANGED <<sealed, exposed, overwritten, edits>>, DOMAIN tree = Paths,
           SeenTree' = SeenTree
    PROVE  [Promise!Next]_(Promise!vars)
<1>1. CASE op = NoOp
  BY <1>1 DEF SeenOp, Promise!vars
<1>2. CASE op # NoOp
  <2>1. SeenOp # NoOp /\ SeenOp' = NoOp
    BY <1>2 DEF SeenOp, NoOp
  <2> QED
    BY <2>1 DEF Promise!Next, Promise!Abort, Promise!NoOp, NoOp
<1> QED
  BY <1>1, <1>2

(* An interruption exposes what was written into the restore. *)
LEMMA InterruptSeen ==
    ASSUME op # NoOp, UNCHANGED <<sealed, op, overwritten, edits>>, SeenTree' = SeenTree,
           exposed' = exposed \cup Unsaved
    PROVE  [Promise!Next]_(Promise!vars)
<1>1. SeenOp # NoOp /\ SeenOp.dirty = op.dirty /\ SeenOp' = SeenOp
  BY DEF SeenOp, NoOp
<1>2. exposed \subseteq exposed' /\ exposed' \subseteq exposed \cup op.dirty
  BY DEF Unsaved
<1> QED
  BY <1>1, <1>2 DEF Promise!Next, Promise!Interrupt, Promise!NoOp, NoOp

-----------------------------------------------------------------------------
(* Every action is good *)
(* An edit is the person's, and what it overwrites was too. *)
LEMMA EditGood ==
    ASSUME BaseInv, ~overwritten', NEW q \in Paths, NEW c \in 0..MaxContent, Edit(q, c)
    PROVE  Good
<1>1. Shapes
  BY TypeShapes DEF BaseInv
<1>2. /\ UNCHANGED <<fork, base, sealed, intent, lock, proc, forkEdits, restores, faults, overwritten>>
      /\ tree' = [tree EXCEPT ![q] = c] /\ volatile' = volatile \ {q}
      /\ edits + forkEdits < MaxEdits /\ edits' = edits + 1
      /\ exposed' = IF Unwatched(q) \/ Abandoned(q) THEN exposed \cup {q} ELSE exposed \ {q}
  BY DEF Edit, history, bounds, Return
<1>3. op = NoOp => op' = NoOp
  BY DEF Edit
<1>4. op # NoOp => Became(op.sel, op.target, op.dirty \cup {q}, op.own \ {q})
  BY <1>1, OpChanges DEF Edit, Shapes, BaseInv
<1>5. c # Torn /\ c \in Contents
  BY ConstantsAssumption DEF Torn, Contents
<1>6. TypeOK'
  <2>1. tree' \in Trees
    BY <1>1, <1>2, <1>3, <1>4, <1>5 DEF BaseInv, TypeOK, Trees
  <2>2. edits' \in 0..MaxEdits
    BY <1>2, ConstantsAssumption DEF BaseInv, TypeOK
  <2>3. exposed' \subseteq Paths
    BY <1>2 DEF BaseInv, TypeOK
  <2> QED
    BY <1>1, <1>2, <1>3, <1>4, <1>5, <2>1, <2>2, <2>3 DEF BaseInv, TypeOK, Became, Operations
<1>7. PhaseInv'
  BY <1>1, <1>2, <1>3, <1>4, <1>5 DEF BaseInv, Shapes, PhaseInv, Waiting, Before, During, Became
<1>8. IntentInv'
  BY <1>1, <1>2, <1>3, <1>4, <1>5 DEF BaseInv, Shapes, IntentInv, Became
<1>9. TornInv'
  BY <1>1, <1>2, <1>3, <1>4, <1>5 DEF BaseInv, Shapes, TornInv, Untorn, Became
<1>10. BaseInv'
  BY <1>6, <1>7, <1>8, <1>9 DEF BaseInv
<1>11. ASSUME AtomInv
      PROVE  AtomInv' /\ [Promise!Next]_(Promise!vars)
  <2>1. OwnedInv'
    BY <1>11, <1>1, <1>2, <1>3, <1>4, <1>5 DEF AtomInv, BaseInv, Shapes, OwnedInv, Became,
        PhaseInv, IntentInv, Before, During
  <2>2. SafeInv'
    <3>1. SUFFICES ASSUME op # NoOp
                 PROVE  SafeInv'
      BY <1>1, <1>2, <1>3, <1>4, <1>5, <1>11 DEF AtomInv, BaseInv, SafeInv, PhaseInv,
          IntentInv, Before, During
    <3>2. ASSUME NEW x \in Paths, NEW pre, x # q, Safe(x, pre)
          PROVE  Safe(x, pre)'
      BY <1>1, <1>2, <1>3, <1>4, <1>5, <3>1, <3>2 DEF Safe, Sealed, Became, Shapes
    <3>3. ASSUME NEW pre, q \in exposed'
          PROVE  Safe(q, pre)'
      BY <1>1, <1>2, <1>3, <1>4, <1>5, <3>1, <3>3 DEF Safe, Sealed, Became, Shapes
    <3>4. ASSUME NEW p \in Procs, NEW x \in proc[p].todo,
                 proc[p].at \in {"armed", "apply", "undo", "rollback"}
          PROVE  Safe(x, proc[p].pre)'
      <4>1. x = q => q \in exposed'
        BY <1>1, <1>2, <1>3, <1>4, <1>5, <1>11, <3>4 DEF Unwatched, Shapes, Waiting
      <4> QED
        BY <1>1, <1>2, <1>3, <1>4, <1>5, <1>11, <3>2, <3>3, <3>4, <4>1 DEF AtomInv, SafeInv,
            Shapes
    <3>5. ASSUME NEW x \in intent.sel, intent # None,
                 \/ lock = None
                 \/ \E p \in Procs :
                        proc[p].at \in {"rollback", "converge"} /\ proc[p].kind = "rewind"
          PROVE  Safe(x, intent.pre)'
      <4>1. x = q => q \in exposed'
        BY <1>1, <1>2, <1>3, <1>4, <1>5, <1>11, <3>5 DEF Abandoned, Shapes, Waiting
      <4> QED
        BY <1>1, <1>2, <1>3, <1>4, <1>5, <1>11, <3>2, <3>3, <3>5, <4>1 DEF AtomInv, SafeInv,
            Shapes
    <3> QED
      BY <1>1, <1>2, <1>3, <1>4, <1>5, <3>4, <3>5 DEF SafeInv, BaseInv, PhaseInv, During
  <2>3. ProgressInv'
    BY <1>11, <1>1, <1>2, <1>3, <1>4, <1>5 DEF AtomInv, BaseInv, Shapes, ProgressInv, Became,
        PhaseInv, IntentInv, Before, During
  <2>4. [Promise!Next]_(Promise!vars)
    <3> DEFINE seen == [SeenTree EXCEPT ![q] = c]
    <3>1. SeenTree' = seen
      BY <1>1, <1>2, <1>3, <1>4, <1>5 DEF SeenTree, Became, Shapes
    <3>2. SeenOp' = IF SeenOp = NoOp THEN NoOp ELSE [SeenOp EXCEPT !.dirty = @ \cup {q}]
      BY <1>1, <1>2, <1>3, <1>4, <1>5 DEF SeenOp, Became, NoOp
    <3>3. exposed' = exposed \ {q} \/ (SeenOp # NoOp /\ exposed' = exposed \cup {q})
      <4>1. Unwatched(q) \/ Abandoned(q) => op # NoOp
        BY <1>1 DEF Unwatched, Abandoned, Shapes, BaseInv, PhaseInv, IntentInv, Waiting,
           Before, During
      <4> QED
        BY <1>2, <4>1 DEF SeenOp, NoOp
    <3> QED
      BY <1>2, <1>5, <3>1, <3>2, <3>3 DEF Promise!Next, Promise!Edit, Promise!NoOp, NoOp
  <2> QED
    BY <1>10, <2>1, <2>2, <2>3, <2>4 DEF AtomInv
<1> QED
  BY <1>10, <1>11 DEF Good

(* An edit in the fork. *)
LEMMA ForkEditGood ==
    ASSUME BaseInv, ~overwritten', NEW q \in Paths, NEW c \in 0..MaxContent,
           ForkEdit(q, c)
    PROVE  Good
<1>1. Shapes
  BY TypeShapes DEF BaseInv
<1>2. /\ UNCHANGED <<tree, base, sealed, intent, lock, proc, volatile, op, edits, restores,
       faults, exposed, overwritten>>
      /\ fork' = [fork EXCEPT ![q] = c]
      /\ edits + forkEdits < MaxEdits /\ forkEdits' = forkEdits + 1
  BY DEF ForkEdit, history, bounds, Return
<1>3. c # Torn /\ c \in Contents
  BY ConstantsAssumption DEF Torn, Contents
<1>4. TypeOK'
  <2>1. fork' \in Trees
    BY <1>1, <1>2, <1>3 DEF BaseInv, TypeOK, Trees
  <2>2. forkEdits' \in 0..MaxEdits
    BY <1>2, ConstantsAssumption DEF BaseInv, TypeOK
  <2> QED
    BY <1>1, <1>2, <1>3, <2>1, <2>2 DEF BaseInv, TypeOK
<1>5. PhaseInv'
  BY <1>1, <1>2, <1>3 DEF BaseInv, PhaseInv, Waiting, Before, During
<1>6. IntentInv'
  BY <1>1, <1>2, <1>3 DEF BaseInv, IntentInv
<1>7. TornInv'
  BY <1>1, <1>2, <1>3 DEF BaseInv, Shapes, TornInv, Untorn, TypeOK, Trees
<1>8. BaseInv'
  BY <1>4, <1>5, <1>6, <1>7 DEF BaseInv
<1>9. ASSUME AtomInv
      PROVE  AtomInv' /\ [Promise!Next]_(Promise!vars)
  <2>1. OwnedInv'
    BY <1>9, <1>1, <1>2, <1>3 DEF AtomInv, BaseInv, OwnedInv
  <2>2. SafeInv'
    BY <1>9, <1>1, <1>2, <1>3 DEF AtomInv, BaseInv, SafeInv, Safe, Sealed
  <2>3. ProgressInv'
    BY <1>9, <1>1, <1>2, <1>3 DEF AtomInv, BaseInv, ProgressInv
  <2>4. [Promise!Next]_(Promise!vars)
    BY <1>2 DEF Promise!vars, SeenTree, SeenOp
  <2> QED
    BY <1>8, <2>1, <2>2, <2>3, <2>4 DEF AtomInv
<1> QED
  BY <1>8, <1>9 DEF Good

(* A process that opens the workspace finds an intent, or no torn file. *)
LEMMA OpenGood ==
    ASSUME BaseInv, ~overwritten', NEW p \in Procs, Open(p)
    PROVE  Good
<1>1. Shapes
  BY TypeShapes DEF BaseInv
<1>2. Turned(p, IF intent = None THEN "idle" ELSE "opening", None, None, {}, {})
  BY DEF Open, At, Return, Idle, Closed, BaseInv, TypeOK, Turned, Records
<1>3. /\ UNCHANGED <<tree, fork, base, sealed, intent, lock, volatile, op, edits, forkEdits,
       restores, faults, exposed, overwritten>>
      /\ proc[p].at = "closed"
  BY DEF Open, history, bounds, Return
<1>4. TypeOK'
  BY <1>1, <1>2, <1>3 DEF BaseInv, TypeOK, Turned, Shapes, Waiting
<1>5. PhaseInv'
  BY <1>1, <1>2, <1>3 DEF BaseInv, Shapes, Turned, PhaseInv, Waiting, Before, During
<1>6. IntentInv'
  BY <1>1, <1>2, <1>3 DEF BaseInv, IntentInv
<1>7. TornInv'
  BY <1>1, <1>2, <1>3 DEF BaseInv, Shapes, Turned, TornInv, Untorn, Waiting, Before, During
<1>8. BaseInv'
  BY <1>4, <1>5, <1>6, <1>7 DEF BaseInv
<1>9. ASSUME AtomInv
      PROVE  AtomInv' /\ [Promise!Next]_(Promise!vars)
  <2>1. OwnedInv'
    BY <1>9, <1>1, <1>2, <1>3 DEF AtomInv, BaseInv, Shapes, Turned, OwnedInv, Waiting, Before,
        During
  <2>2. SafeInv'
    BY <1>9, <1>1, <1>2, <1>3 DEF AtomInv, BaseInv, Shapes, Turned, SafeInv, Safe, Sealed,
        Waiting, Before, During
  <2>3. ProgressInv'
    BY <1>9, <1>1, <1>2, <1>3 DEF AtomInv, BaseInv, Shapes, Turned, ProgressInv, Waiting,
        Before, During
  <2>4. [Promise!Next]_(Promise!vars)
    BY <1>3 DEF Promise!vars, SeenTree, SeenOp
  <2> QED
    BY <1>8, <2>1, <2>2, <2>3, <2>4 DEF AtomInv
<1> QED
  BY <1>8, <1>9 DEF Good

(* An open that fails leaves the process closed. *)
LEMMA OpenFailsGood ==
    ASSUME BaseInv, ~overwritten', NEW p \in Procs, OpenFails(p)
    PROVE  Good
<1>1. Shapes
  BY TypeShapes DEF BaseInv
<1>2. Turned(p, "closed", None, None, {}, {})
  BY DEF OpenFails, At, Return, Idle, Closed, BaseInv, TypeOK, Turned, Records
<1>3. /\ UNCHANGED <<tree, fork, base, sealed, intent, lock, volatile, op, edits, forkEdits,
       restores, faults, exposed, overwritten>>
      /\ proc[p].at = "opening" /\ intent = None
  BY DEF OpenFails, history, bounds, Return
<1>4. TypeOK'
  BY <1>1, <1>2, <1>3 DEF BaseInv, TypeOK, Turned, Shapes, Waiting
<1>5. PhaseInv'
  BY <1>1, <1>2, <1>3 DEF BaseInv, Shapes, Turned, PhaseInv, Waiting, Before, During
<1>6. IntentInv'
  BY <1>1, <1>2, <1>3 DEF BaseInv, IntentInv
<1>7. TornInv'
  BY <1>1, <1>2, <1>3 DEF BaseInv, Shapes, Turned, TornInv, Untorn, Waiting, Before, During
<1>8. BaseInv'
  BY <1>4, <1>5, <1>6, <1>7 DEF BaseInv
<1>9. ASSUME AtomInv
      PROVE  AtomInv' /\ [Promise!Next]_(Promise!vars)
  <2>1. OwnedInv'
    BY <1>9, <1>1, <1>2, <1>3 DEF AtomInv, BaseInv, Shapes, Turned, OwnedInv, Waiting, Before,
        During
  <2>2. SafeInv'
    BY <1>9, <1>1, <1>2, <1>3 DEF AtomInv, BaseInv, Shapes, Turned, SafeInv, Safe, Sealed,
        Waiting, Before, During
  <2>3. ProgressInv'
    BY <1>9, <1>1, <1>2, <1>3 DEF AtomInv, BaseInv, Shapes, Turned, ProgressInv, Waiting,
        Before, During
  <2>4. [Promise!Next]_(Promise!vars)
    BY <1>3 DEF Promise!vars, SeenTree, SeenOp
  <2> QED
    BY <1>8, <2>1, <2>2, <2>3, <2>4 DEF AtomInv
<1> QED
  BY <1>8, <1>9 DEF Good

(* The recovery puts back every path of the intent that differs. *)
LEMMA RecoverGood ==
    ASSUME BaseInv, ~overwritten', NEW p \in Procs, Recover(p)
    PROVE  Good
<1>1. Shapes
  BY TypeShapes DEF BaseInv
<1>2. Turned(p, "rollback", "recover", intent.pre, Differing(intent.pre, intent.sel),
             Differing(intent.pre, intent.sel))
  <2>1. intent.pre \in Trees /\ Differing(intent.pre, intent.sel) \subseteq Paths
    BY <1>1 DEF Recover, BaseInv, TypeOK, Intents, Differing, Shapes
  <2> QED
    BY <2>1 DEF Recover, BaseInv, TypeOK, Turned, Records
<1>3. /\ UNCHANGED <<tree, fork, base, sealed, intent, volatile, op, edits, forkEdits,
       restores, faults, exposed, overwritten>>
      /\ proc[p].at = "opening" /\ lock = None /\ intent # None
      /\ lock' = p
  BY DEF Recover, history, bounds, Return
<1>4. TypeOK'
  BY <1>1, <1>2, <1>3 DEF BaseInv, TypeOK, Turned, Shapes, Waiting
<1>5. PhaseInv'
  BY <1>1, <1>2, <1>3 DEF BaseInv, Shapes, Turned, PhaseInv, Waiting, Before, During, Differing
<1>6. IntentInv'
  BY <1>1, <1>2, <1>3 DEF BaseInv, Shapes, Turned, IntentInv
<1>7. TornInv'
  BY <1>1, <1>2, <1>3 DEF BaseInv, Shapes, Turned, TornInv, Untorn, Differing, IntentInv,
      Waiting, Before, During
<1>8. BaseInv'
  BY <1>4, <1>5, <1>6, <1>7 DEF BaseInv
<1>9. ASSUME AtomInv
      PROVE  AtomInv' /\ [Promise!Next]_(Promise!vars)
  <2>1. OwnedInv'
    BY <1>9, <1>1, <1>2, <1>3 DEF AtomInv, BaseInv, Shapes, Turned, OwnedInv, Waiting, Before,
        During
  <2>2. SafeInv'
    BY <1>9, <1>1, <1>2, <1>3 DEF AtomInv, BaseInv, Shapes, Turned, SafeInv, Safe, Sealed,
        Differing, Waiting, Before, During
  <2>3. ProgressInv'
    BY <1>9, <1>1, <1>2, <1>3 DEF AtomInv, BaseInv, Shapes, Turned, ProgressInv, Differing,
        IntentInv, Waiting, Before, During
  <2>4. [Promise!Next]_(Promise!vars)
    BY <1>3 DEF Promise!vars, SeenTree, SeenOp
  <2> QED
    BY <1>8, <2>1, <2>2, <2>3, <2>4 DEF AtomInv
<1> QED
  BY <1>8, <1>9 DEF Good

(* Another command seals a tree that is not torn. *)
LEMMA SealTreeGood ==
    ASSUME BaseInv, ~overwritten', NEW p \in Procs, SealTree(p)
    PROVE  Good
<1>1. Shapes
  BY TypeShapes DEF BaseInv
<1>2. /\ UNCHANGED <<tree, fork, base, intent, lock, proc, volatile, op, edits, forkEdits,
       restores, faults, exposed, overwritten>>
      /\ sealed' = sealed \cup {tree}
      /\ proc[p].at = "idle"
  BY DEF SealTree, history, bounds, Return
<1>3. TypeOK'
  BY <1>1, <1>2 DEF BaseInv, TypeOK, Shapes, Waiting
<1>4. PhaseInv'
  BY <1>1, <1>2 DEF BaseInv, Shapes, PhaseInv, Waiting, Before, During
<1>5. IntentInv'
  BY <1>1, <1>2 DEF BaseInv, Shapes, IntentInv
<1>6. TornInv'
  BY <1>1, <1>2 DEF BaseInv, Shapes, TornInv, Untorn
<1>7. BaseInv'
  BY <1>3, <1>4, <1>5, <1>6 DEF BaseInv
<1>8. ASSUME AtomInv
      PROVE  AtomInv' /\ [Promise!Next]_(Promise!vars)
  <2>1. OwnedInv'
    BY <1>8, <1>1, <1>2 DEF AtomInv, BaseInv, OwnedInv
  <2>2. SafeInv'
    BY <1>8, <1>1, <1>2 DEF AtomInv, BaseInv, Shapes, SafeInv, Safe, Sealed
  <2>3. ProgressInv'
    BY <1>8, <1>1, <1>2 DEF AtomInv, BaseInv, ProgressInv
  <2>4. [Promise!Next]_(Promise!vars)
    BY <1>1, <1>2 DEF Promise!Next, Promise!Seal, Promise!vars, SeenTree, SeenOp, BaseInv,
        TypeOK, Promise!Trees, Trees
  <2> QED
    BY <1>7, <2>1, <2>2, <2>3, <2>4 DEF AtomInv
<1> QED
  BY <1>7, <1>8 DEF Good

(* A rewind begins with no other restore in progress. *)
LEMMA RewindBeginGood ==
    ASSUME BaseInv, ~overwritten', NEW p \in Procs, NEW sel \in Selections,
           NEW target \in sealed, RewindBegin(p, sel, target)
    PROVE  Good
<1>1. Shapes
  BY TypeShapes DEF BaseInv
<1>2. Turned(p, "planned", "rewind", None, Differing(target, sel), {})
  <2>1. Differing(target, sel) \subseteq Paths
    BY ConstantsAssumption DEF Differing
  <2> QED
    BY <2>1 DEF RewindBegin, Idle, BaseInv, TypeOK, Turned, Records
<1>3. /\ UNCHANGED <<tree, fork, base, sealed, intent, volatile, edits, forkEdits, faults, exposed>>
      /\ proc[p].at = "idle" /\ lock = None /\ intent = None /\ overwritten' = overwritten
      /\ lock' = p
      /\ restores < MaxRestores /\ restores' = restores + 1
  BY DEF RewindBegin, history, bounds, Return, BaseInv, TypeOK
<1>4. Became(sel, target, {}, {}) /\ sel \subseteq Paths
  BY NewOpBecomes, ConstantsAssumption DEF RewindBegin, BaseInv, TypeOK
<1>5. op = NoOp
  BY <1>3 DEF BaseInv, IntentInv
<1>6. TypeOK'
  <2>1. restores' \in 0..MaxRestores
    BY <1>3, ConstantsAssumption DEF BaseInv, TypeOK
  <2>2. \A r \in Procs : proc'[r].at \notin {"closed", "idle", "opening"} <=> lock' = r
    BY <1>1, <1>2, <1>3 DEF Turned, Shapes, Waiting
  <2> QED
    BY <1>1, <1>2, <1>3, <1>4, <1>5, <2>1, <2>2 DEF BaseInv, TypeOK, Turned, Became, Operations
<1>7. PhaseInv'
  BY <1>1, <1>2, <1>3, <1>4, <1>5 DEF BaseInv, Shapes, Turned, PhaseInv, Waiting, Before,
      During, Became, Differing
<1>8. IntentInv'
  BY <1>1, <1>2, <1>3, <1>4, <1>5 DEF BaseInv, Shapes, Turned, IntentInv, Became
<1>9. TornInv'
  BY <1>1, <1>2, <1>3, <1>4, <1>5 DEF BaseInv, Shapes, Turned, TornInv, Untorn, Became,
      Waiting, Before, During
<1>10. BaseInv'
  BY <1>6, <1>7, <1>8, <1>9 DEF BaseInv
<1>11. ASSUME AtomInv
      PROVE  AtomInv' /\ [Promise!Next]_(Promise!vars)
  <2>1. OwnedInv'
    BY <1>11, <1>1, <1>2, <1>3, <1>4, <1>5 DEF AtomInv, BaseInv, Shapes, Turned, OwnedInv,
        Became, Waiting, Before, During
  <2>2. SafeInv'
    BY <1>11, <1>1, <1>2, <1>3, <1>4, <1>5 DEF AtomInv, BaseInv, Shapes, Turned, SafeInv,
        Safe, Sealed, Waiting, Before, During
  <2>3. ProgressInv'
    BY <1>11, <1>1, <1>2, <1>3, <1>4, <1>5 DEF AtomInv, BaseInv, Shapes, Turned, ProgressInv,
        Became, Differing, Waiting, Before, During
  <2>4. [Promise!Next]_(Promise!vars)
    <3>1. SeenOp = NoOp /\ SeenTree' = SeenTree
      BY <1>1, <1>2, <1>3, <1>4, <1>5 DEF SeenOp, SeenTree, Became
    <3>2. SeenOp' \in [active : {TRUE}, sel : SUBSET Paths, target : Trees, dirty : {{}}]
      BY <1>1, <1>2, <1>3, <1>4, <1>5 DEF SeenOp, Became, Operations
    <3> QED
      BY <1>1, <1>2, <1>3, <1>4, <1>5, <3>1, <3>2 DEF Promise!Next, Promise!Begin,
          Promise!NoOp, NoOp, Promise!Trees, Trees
  <2> QED
    BY <1>10, <2>1, <2>2, <2>3, <2>4 DEF AtomInv
<1> QED
  BY <1>10, <1>11 DEF Good

(* A rewind seals the tree before it changes anything. *)
LEMMA RewindSealGood ==
    ASSUME BaseInv, ~overwritten', NEW p \in Procs, RewindSeal(p)
    PROVE  Good
<1>1. Shapes
  BY TypeShapes DEF BaseInv
<1>2. Turned(p, "sealed", proc[p].kind, tree, proc[p].plan, proc[p].todo)
  <2>1. tree \in Trees
    BY DEF BaseInv, TypeOK
  <2>2. proc[p] \in Records
    BY DEF BaseInv, TypeOK
  <2>3. proc' = [proc EXCEPT ![p] = [proc[p] EXCEPT !.at = "sealed", !.pre = tree]]
    BY DEF RewindSeal
  <2>4. [proc[p] EXCEPT !.at = "sealed", !.pre = tree] \in Records
    BY <2>1, <2>2 DEF Records
  <2> QED
    BY <2>2, <2>3, <2>4 DEF BaseInv, TypeOK, Turned, Records
<1>3. /\ UNCHANGED <<tree, fork, base, intent, lock, volatile, op, edits, forkEdits, restores,
       faults, exposed, overwritten>>
      /\ proc[p].at = "planned"
      /\ sealed' = sealed \cup {tree}
  BY DEF RewindSeal, history, bounds, Return
<1>4. TypeOK'
  BY <1>1, <1>2, <1>3 DEF BaseInv, TypeOK, Turned, Shapes, Waiting
<1>5. PhaseInv'
  BY <1>1, <1>2, <1>3 DEF BaseInv, Shapes, Turned, PhaseInv, Waiting, Before, During
<1>6. IntentInv'
  BY <1>1, <1>2, <1>3 DEF BaseInv, Shapes, Turned, IntentInv
<1>7. TornInv'
  BY <1>1, <1>2, <1>3 DEF BaseInv, Shapes, Turned, TornInv, Untorn, Waiting, Before, During
<1>8. BaseInv'
  BY <1>4, <1>5, <1>6, <1>7 DEF BaseInv
<1>9. ASSUME AtomInv
      PROVE  AtomInv' /\ [Promise!Next]_(Promise!vars)
  <2>1. OwnedInv'
    BY <1>9, <1>1, <1>2, <1>3 DEF AtomInv, BaseInv, Shapes, Turned, OwnedInv, Waiting, Before,
        During
  <2>2. SafeInv'
    BY <1>9, <1>1, <1>2, <1>3 DEF AtomInv, BaseInv, Shapes, Turned, SafeInv, Safe, Sealed,
        Waiting, Before, During
  <2>3. ProgressInv'
    BY <1>9, <1>1, <1>2, <1>3 DEF AtomInv, BaseInv, Shapes, Turned, ProgressInv, Waiting,
        Before, During
  <2>4. [Promise!Next]_(Promise!vars)
    BY <1>1, <1>2, <1>3 DEF Promise!Next, Promise!Seal, Promise!vars, SeenTree, SeenOp,
        BaseInv, TypeOK, Promise!Trees, Trees
  <2> QED
    BY <1>8, <2>1, <2>2, <2>3, <2>4 DEF AtomInv
<1> QED
  BY <1>8, <1>9 DEF Good

(* What a rewind is about to replace is as it was sealed. *)
LEMMA RewindVerifyGood ==
    ASSUME BaseInv, ~overwritten', NEW p \in Procs, RewindVerify(p)
    PROVE  Good
<1>1. Shapes
  BY TypeShapes DEF BaseInv
<1>2. Turned(p, "armed", proc[p].kind, proc[p].pre, proc[p].plan, proc[p].plan)
  <2>1. proc \in [Procs -> Records]
    BY DEF BaseInv, TypeOK
  <2>2. proc' = [proc EXCEPT ![p].at = "armed", ![p].todo = proc[p].plan]
    BY DEF RewindVerify
  <2> QED
    BY <2>1, <2>2 DEF Turned, Records
<1>3. /\ UNCHANGED <<tree, fork, base, sealed, intent, lock, volatile, op, edits, forkEdits,
       restores, faults, exposed, overwritten>>
      /\ proc[p].at = "sealed" /\ proc[p].kind = "rewind"
      /\ \A q \in proc[p].plan : tree[q] = proc[p].pre[q]
  BY DEF RewindVerify, history, bounds, Return
<1>4. TypeOK'
  BY <1>1, <1>2, <1>3 DEF BaseInv, TypeOK, Turned, Shapes, Waiting
<1>5. PhaseInv'
  BY <1>1, <1>2, <1>3 DEF BaseInv, Shapes, Turned, PhaseInv, Waiting, Before, During
<1>6. IntentInv'
  BY <1>1, <1>2, <1>3 DEF BaseInv, IntentInv
<1>7. TornInv'
  BY <1>1, <1>2, <1>3 DEF BaseInv, Shapes, Turned, TornInv, Untorn, Waiting, Before, During
<1>8. BaseInv'
  BY <1>4, <1>5, <1>6, <1>7 DEF BaseInv
<1>9. ASSUME AtomInv
      PROVE  AtomInv' /\ [Promise!Next]_(Promise!vars)
  <2>1. OwnedInv'
    BY <1>9, <1>1, <1>2, <1>3 DEF AtomInv, BaseInv, Shapes, Turned, OwnedInv, Waiting, Before,
        During
  <2>2. SafeInv'
    BY <1>9, <1>1, <1>2, <1>3 DEF AtomInv, BaseInv, Shapes, Turned, SafeInv, Safe, Sealed,
        Waiting, Before, During
  <2>3. ProgressInv'
    BY <1>9, <1>1, <1>2, <1>3 DEF AtomInv, BaseInv, Shapes, Turned, ProgressInv, Waiting,
        Before, During
  <2>4. [Promise!Next]_(Promise!vars)
    BY <1>3 DEF Promise!vars, SeenTree, SeenOp
  <2> QED
    BY <1>8, <2>1, <2>2, <2>3, <2>4 DEF AtomInv
<1> QED
  BY <1>8, <1>9 DEF Good

(* A rewind that is cancelled has changed nothing. *)
LEMMA RewindCancelGood ==
    ASSUME BaseInv, ~overwritten', NEW p \in Procs, RewindCancel(p)
    PROVE  Good
<1>1. Shapes
  BY TypeShapes DEF BaseInv
<1>2. Turned(p, "idle", None, None, {}, {})
  BY DEF RewindCancel, At, Return, Idle, Closed, BaseInv, TypeOK, Turned, Records
<1>3. /\ UNCHANGED <<tree, fork, base, sealed, intent, volatile, edits, forkEdits, restores,
       faults, exposed, overwritten>>
      /\ proc[p].at = "sealed"
      /\ lock' = None /\ op' = NoOp
  BY DEF RewindCancel, Return, history, bounds
<1>4. TypeOK'
  BY <1>1, <1>2, <1>3 DEF BaseInv, TypeOK, Turned, Shapes, Waiting
<1>5. PhaseInv'
  BY <1>1, <1>2, <1>3 DEF BaseInv, Shapes, Turned, PhaseInv, Waiting, Before, During
<1>6. IntentInv'
  BY <1>1, <1>2, <1>3 DEF BaseInv, Shapes, Turned, IntentInv, PhaseInv, Waiting, Before, During
<1>7. TornInv'
  BY <1>1, <1>2, <1>3 DEF BaseInv, Shapes, Turned, TornInv, Untorn, PhaseInv, Waiting, Before,
      During
<1>8. BaseInv'
  BY <1>4, <1>5, <1>6, <1>7 DEF BaseInv
<1>9. ASSUME AtomInv
      PROVE  AtomInv' /\ [Promise!Next]_(Promise!vars)
  <2>1. OwnedInv'
    BY <1>9, <1>1, <1>2, <1>3 DEF AtomInv, BaseInv, Shapes, Turned, OwnedInv, PhaseInv,
        Waiting, Before, During
  <2>2. SafeInv'
    BY <1>9, <1>1, <1>2, <1>3 DEF AtomInv, BaseInv, Shapes, Turned, SafeInv, Safe, Sealed,
        PhaseInv, Waiting, Before, During
  <2>3. ProgressInv'
    BY <1>9, <1>1, <1>2, <1>3 DEF AtomInv, BaseInv, Shapes, Turned, ProgressInv, Waiting,
        Before, During
  <2>4. [Promise!Next]_(Promise!vars)
    <3>1. SeenTree' = SeenTree
      BY <1>1, <1>2, <1>3 DEF SeenTree, BaseInv, PhaseInv, Before
    <3> QED
      BY <1>1, <1>2, <1>3, <3>1, AbortSeen DEF Shapes
  <2> QED
    BY <1>8, <2>1, <2>2, <2>3, <2>4 DEF AtomInv
<1> QED
  BY <1>8, <1>9 DEF Good

(* A merge seals both sides before it plans. *)
LEMMA MergeBeginGood ==
    ASSUME BaseInv, ~overwritten', NEW p \in Procs, MergeBegin(p)
    PROVE  Good
<1>1. Shapes
  BY TypeShapes DEF BaseInv
<1>2. Turned(p, "merging", "merge", tree, {}, {})
  BY DEF MergeBegin, At, Return, Idle, Closed, BaseInv, TypeOK, Turned, Records
<1>3. /\ UNCHANGED <<tree, fork, base, intent, volatile, op, edits, forkEdits, faults, exposed>>
      /\ proc[p].at = "idle" /\ lock = None /\ intent = None /\ overwritten' = overwritten
      /\ lock' = p /\ sealed' = sealed \cup {tree, fork}
      /\ restores < MaxRestores /\ restores' = restores + 1
  BY DEF MergeBegin, history, bounds, Return, BaseInv, TypeOK
<1>4. op = NoOp
  BY <1>3 DEF BaseInv, IntentInv
<1>5. TypeOK'
  <2>1. restores' \in 0..MaxRestores
    BY <1>3, ConstantsAssumption DEF BaseInv, TypeOK
  <2> QED
    BY <1>1, <1>2, <1>3, <1>4, <2>1 DEF BaseInv, TypeOK, Turned, Shapes, Waiting
<1>6. PhaseInv'
  BY <1>1, <1>2, <1>3, <1>4 DEF BaseInv, Shapes, Turned, PhaseInv, Waiting, Before, During
<1>7. IntentInv'
  BY <1>1, <1>2, <1>3, <1>4 DEF BaseInv, Shapes, Turned, IntentInv
<1>8. TornInv'
  BY <1>1, <1>2, <1>3, <1>4 DEF BaseInv, Shapes, Turned, TornInv, Untorn, Waiting, Before,
      During
<1>9. BaseInv'
  BY <1>5, <1>6, <1>7, <1>8 DEF BaseInv
<1>10. ASSUME AtomInv
      PROVE  AtomInv' /\ [Promise!Next]_(Promise!vars)
  <2>1. OwnedInv'
    BY <1>10, <1>1, <1>2, <1>3, <1>4 DEF AtomInv, BaseInv, Shapes, Turned, OwnedInv, Waiting,
        Before, During
  <2>2. SafeInv'
    BY <1>10, <1>1, <1>2, <1>3, <1>4 DEF AtomInv, BaseInv, Shapes, Turned, SafeInv, Safe,
        Sealed, Waiting, Before, During
  <2>3. ProgressInv'
    BY <1>10, <1>1, <1>2, <1>3, <1>4 DEF AtomInv, BaseInv, Shapes, Turned, ProgressInv,
        Waiting, Before, During
  <2>4. [Promise!Next]_(Promise!vars)
    BY <1>1, <1>2, <1>3, <1>4 DEF Promise!Next, Promise!Seal, Promise!vars, SeenTree, SeenOp,
        BaseInv, TypeOK, Promise!Trees, Trees
  <2> QED
    BY <1>9, <2>1, <2>2, <2>3, <2>4 DEF AtomInv
<1> QED
  BY <1>9, <1>10 DEF Good

(* A merge takes from the fork what only the fork changed. *)
LEMMA MergePlanGood ==
    ASSUME BaseInv, ~overwritten', NEW p \in Procs, MergePlan(p)
    PROVE  Good
<1>1. Shapes
  BY TypeShapes DEF BaseInv
<1>2. Turned(p, "sealed", proc[p].kind, proc[p].pre, Taken(proc[p].pre), proc[p].todo)
  <2>1. Taken(proc[p].pre) \in SUBSET Paths
    BY DEF Taken
  <2>2. proc[p] \in Records
    BY DEF BaseInv, TypeOK
  <2>3. proc' = [proc EXCEPT ![p] = [proc[p] EXCEPT !.at = "sealed", !.plan =
         Taken(proc[p].pre)]]
    BY DEF MergePlan
  <2>4. [proc[p] EXCEPT !.at = "sealed", !.plan = Taken(proc[p].pre)] \in Records
    BY <2>1, <2>2 DEF Records
  <2> QED
    BY <2>2, <2>3, <2>4 DEF BaseInv, TypeOK, Turned, Records
<1>3. /\ UNCHANGED <<tree, fork, base, sealed, intent, lock, volatile, edits, forkEdits,
       restores, faults, exposed, overwritten>>
      /\ proc[p].at = "merging"
  BY DEF MergePlan, history, bounds, Return
<1>4. /\ Became(Taken(proc[p].pre), [q \in Paths |-> IF q \in Taken(proc[p].pre) THEN fork[q]
                                                   ELSE proc[p].pre[q]], {}, {})
      /\ Untorn(op'.target)
  <2> DEFINE target == [q \in Paths |-> IF q \in Taken(proc[p].pre) THEN fork[q]
                                       ELSE proc[p].pre[q]]
  <2>1. proc[p].pre \in sealed /\ proc[p].pre \in Trees
    BY <1>3 DEF BaseInv, PhaseInv, TypeOK
  <2>2. target \in Trees /\ Taken(proc[p].pre) \subseteq Paths
    BY <2>1 DEF BaseInv, TypeOK, Trees, Taken
  <2>3. Untorn(target)
    BY <2>1 DEF Untorn, BaseInv, TornInv
  <2>4. op' = NewOp(Taken(proc[p].pre), target)
    BY DEF MergePlan
  <2> HIDE DEF target
  <2>5. Became(Taken(proc[p].pre), target, {}, {})
    BY <2>2, <2>4, NewOpBecomes
  <2>6. Untorn(op'.target)
    BY <2>3, <2>5 DEF Became
  <2> QED
    BY <2>5, <2>6 DEF target
<1>5. op = NoOp /\ intent = None
  BY <1>3 DEF BaseInv, PhaseInv, Before
<1>6. proc[p].kind # "rewind"
  BY <1>3 DEF BaseInv, PhaseInv
<1>7. TypeOK'
  BY <1>1, <1>2, <1>3, <1>4, <1>5, <1>6 DEF BaseInv, TypeOK, Turned, Became, Operations,
      Shapes, Waiting
<1>8. PhaseInv'
  BY <1>1, <1>2, <1>3, <1>4, <1>5, <1>6 DEF BaseInv, Shapes, Turned, PhaseInv, Waiting,
      Before, During, Became
<1>9. IntentInv'
  BY <1>1, <1>2, <1>3, <1>4, <1>5, <1>6 DEF BaseInv, Shapes, Turned, IntentInv, Became,
      Waiting, Before, During
<1>10. TornInv'
  BY <1>1, <1>2, <1>3, <1>4, <1>5, <1>6 DEF BaseInv, Shapes, Turned, TornInv, Untorn, Became,
      Waiting, Before, During
<1>11. BaseInv'
  BY <1>7, <1>8, <1>9, <1>10 DEF BaseInv
<1>12. ASSUME AtomInv
      PROVE  AtomInv' /\ [Promise!Next]_(Promise!vars)
  <2>1. OwnedInv'
    BY <1>12, <1>1, <1>2, <1>3, <1>4, <1>5, <1>6 DEF AtomInv, BaseInv, Shapes, Turned,
        OwnedInv, Became, Waiting, Before, During
  <2>2. SafeInv'
    BY <1>12, <1>1, <1>2, <1>3, <1>4, <1>5, <1>6 DEF AtomInv, BaseInv, Shapes, Turned,
        SafeInv, Safe, Sealed, Waiting, Before, During
  <2>3. ProgressInv'
    BY <1>12, <1>1, <1>2, <1>3, <1>4, <1>5, <1>6 DEF AtomInv, BaseInv, Shapes, Turned,
        ProgressInv, Became, Waiting, Before, During
  <2>4. [Promise!Next]_(Promise!vars)
    <3>1. SeenOp = NoOp /\ SeenTree' = SeenTree
      BY <1>1, <1>2, <1>3, <1>4, <1>5, <1>6 DEF SeenOp, SeenTree, Became
    <3>2. SeenOp' \in [active : {TRUE}, sel : SUBSET Paths, target : Trees, dirty : {{}}]
      BY <1>1, <1>2, <1>3, <1>4, <1>5, <1>6 DEF SeenOp, Became, Operations
    <3> QED
      BY <1>1, <1>2, <1>3, <1>4, <1>5, <1>6, <3>1, <3>2 DEF Promise!Next, Promise!Begin,
          Promise!NoOp, NoOp, Promise!Trees, Trees
  <2> QED
    BY <1>11, <2>1, <2>2, <2>3, <2>4 DEF AtomInv
<1> QED
  BY <1>11, <1>12 DEF Good

(* A merge with conflicts has changed nothing. *)
LEMMA MergeConflictGood ==
    ASSUME BaseInv, ~overwritten', NEW p \in Procs, MergeConflict(p)
    PROVE  Good
<1>1. Shapes
  BY TypeShapes DEF BaseInv
<1>2. Turned(p, "idle", None, None, {}, {})
  BY DEF MergeConflict, At, Return, Idle, Closed, BaseInv, TypeOK, Turned, Records
<1>3. /\ UNCHANGED <<tree, fork, base, sealed, intent, volatile, op, edits, forkEdits,
       restores, faults, exposed, overwritten>>
      /\ proc[p].at = "merging"
      /\ lock' = None
  BY DEF MergeConflict, Return, history, bounds
<1>4. TypeOK'
  BY <1>1, <1>2, <1>3 DEF BaseInv, TypeOK, Turned, Shapes, Waiting
<1>5. PhaseInv'
  BY <1>1, <1>2, <1>3 DEF BaseInv, Shapes, Turned, PhaseInv, Waiting, Before, During
<1>6. IntentInv'
  BY <1>1, <1>2, <1>3 DEF BaseInv, Shapes, Turned, IntentInv, PhaseInv, Waiting, Before, During
<1>7. TornInv'
  BY <1>1, <1>2, <1>3 DEF BaseInv, Shapes, Turned, TornInv, Untorn, Waiting, Before, During
<1>8. BaseInv'
  BY <1>4, <1>5, <1>6, <1>7 DEF BaseInv
<1>9. ASSUME AtomInv
      PROVE  AtomInv' /\ [Promise!Next]_(Promise!vars)
  <2>1. OwnedInv'
    BY <1>9, <1>1, <1>2, <1>3 DEF AtomInv, BaseInv, Shapes, Turned, OwnedInv, Waiting, Before,
        During
  <2>2. SafeInv'
    BY <1>9, <1>1, <1>2, <1>3 DEF AtomInv, BaseInv, Shapes, Turned, SafeInv, Safe, Sealed,
        PhaseInv, Waiting, Before, During
  <2>3. ProgressInv'
    BY <1>9, <1>1, <1>2, <1>3 DEF AtomInv, BaseInv, Shapes, Turned, ProgressInv, Waiting,
        Before, During
  <2>4. [Promise!Next]_(Promise!vars)
    BY <1>3 DEF Promise!vars, SeenTree, SeenOp
  <2> QED
    BY <1>8, <2>1, <2>2, <2>3, <2>4 DEF AtomInv
<1> QED
  BY <1>8, <1>9 DEF Good

(* The tree a merge is about to change is the one it sealed. *)
LEMMA MergeVerifyGood ==
    ASSUME BaseInv, ~overwritten', NEW p \in Procs, MergeVerify(p)
    PROVE  Good
<1>1. Shapes
  BY TypeShapes DEF BaseInv
<1>2. Turned(p, "armed", proc[p].kind, proc[p].pre, proc[p].plan, proc[p].plan)
  BY DEF MergeVerify, At, Return, Idle, Closed, BaseInv, TypeOK, Turned, Records
<1>3. /\ UNCHANGED <<tree, fork, base, sealed, intent, lock, volatile, op, edits, forkEdits,
       restores, faults, exposed, overwritten>>
      /\ proc[p].at = "sealed" /\ proc[p].kind = "merge"
      /\ tree = proc[p].pre
  BY DEF MergeVerify, history, bounds, Return
<1>4. TypeOK'
  BY <1>1, <1>2, <1>3 DEF BaseInv, TypeOK, Turned, Shapes, Waiting
<1>5. PhaseInv'
  BY <1>1, <1>2, <1>3 DEF BaseInv, Shapes, Turned, PhaseInv, Waiting, Before, During
<1>6. IntentInv'
  BY <1>1, <1>2, <1>3 DEF BaseInv, IntentInv
<1>7. TornInv'
  BY <1>1, <1>2, <1>3 DEF BaseInv, Shapes, Turned, TornInv, Untorn, Waiting, Before, During
<1>8. BaseInv'
  BY <1>4, <1>5, <1>6, <1>7 DEF BaseInv
<1>9. ASSUME AtomInv
      PROVE  AtomInv' /\ [Promise!Next]_(Promise!vars)
  <2>1. OwnedInv'
    BY <1>9, <1>1, <1>2, <1>3 DEF AtomInv, BaseInv, Shapes, Turned, OwnedInv, Waiting, Before,
        During
  <2>2. SafeInv'
    BY <1>9, <1>1, <1>2, <1>3 DEF AtomInv, BaseInv, Shapes, Turned, SafeInv, Safe, Sealed,
        Waiting, Before, During
  <2>3. ProgressInv'
    BY <1>9, <1>1, <1>2, <1>3 DEF AtomInv, BaseInv, Shapes, Turned, ProgressInv, Waiting,
        Before, During
  <2>4. [Promise!Next]_(Promise!vars)
    BY <1>3 DEF Promise!vars, SeenTree, SeenOp
  <2> QED
    BY <1>8, <2>1, <2>2, <2>3, <2>4 DEF AtomInv
<1> QED
  BY <1>8, <1>9 DEF Good

(* A merge whose check fails has changed nothing. *)
LEMMA MergeCancelGood ==
    ASSUME BaseInv, ~overwritten', NEW p \in Procs, MergeCancel(p)
    PROVE  Good
<1>1. Shapes
  BY TypeShapes DEF BaseInv
<1>2. Turned(p, "idle", None, None, {}, {})
  BY DEF MergeCancel, At, Return, Idle, Closed, BaseInv, TypeOK, Turned, Records
<1>3. /\ UNCHANGED <<tree, fork, base, sealed, intent, volatile, edits, forkEdits, restores,
       faults, exposed, overwritten>>
      /\ proc[p].at = "sealed"
      /\ lock' = None /\ op' = NoOp
  BY DEF MergeCancel, Return, history, bounds
<1>4. TypeOK'
  BY <1>1, <1>2, <1>3 DEF BaseInv, TypeOK, Turned, Shapes, Waiting
<1>5. PhaseInv'
  BY <1>1, <1>2, <1>3 DEF BaseInv, Shapes, Turned, PhaseInv, Waiting, Before, During
<1>6. IntentInv'
  BY <1>1, <1>2, <1>3 DEF BaseInv, Shapes, Turned, IntentInv, PhaseInv, Waiting, Before, During
<1>7. TornInv'
  BY <1>1, <1>2, <1>3 DEF BaseInv, Shapes, Turned, TornInv, Untorn, PhaseInv, Waiting, Before,
      During
<1>8. BaseInv'
  BY <1>4, <1>5, <1>6, <1>7 DEF BaseInv
<1>9. ASSUME AtomInv
      PROVE  AtomInv' /\ [Promise!Next]_(Promise!vars)
  <2>1. OwnedInv'
    BY <1>9, <1>1, <1>2, <1>3 DEF AtomInv, BaseInv, Shapes, Turned, OwnedInv, PhaseInv,
        Waiting, Before, During
  <2>2. SafeInv'
    BY <1>9, <1>1, <1>2, <1>3 DEF AtomInv, BaseInv, Shapes, Turned, SafeInv, Safe, Sealed,
        PhaseInv, Waiting, Before, During
  <2>3. ProgressInv'
    BY <1>9, <1>1, <1>2, <1>3 DEF AtomInv, BaseInv, Shapes, Turned, ProgressInv, Waiting,
        Before, During
  <2>4. [Promise!Next]_(Promise!vars)
    <3>1. SeenTree' = SeenTree
      BY <1>1, <1>2, <1>3 DEF SeenTree, BaseInv, PhaseInv, Before
    <3> QED
      BY <1>1, <1>2, <1>3, <3>1, AbortSeen DEF Shapes
  <2> QED
    BY <1>8, <2>1, <2>2, <2>3, <2>4 DEF AtomInv
<1> QED
  BY <1>8, <1>9 DEF Good

(* The intent names what is sealed and every path that will change. *)
LEMMA ArmGood ==
    ASSUME BaseInv, ~overwritten', NEW p \in Procs, Arm(p)
    PROVE  Good
<1>1. Shapes
  BY TypeShapes DEF BaseInv
<1>2. Turned(p, "apply", proc[p].kind, proc[p].pre, proc[p].plan, proc[p].todo)
  BY DEF Arm, At, Return, Idle, Closed, BaseInv, TypeOK, Turned, Records
<1>3. /\ UNCHANGED <<tree, fork, base, sealed, lock, volatile, op, edits, forkEdits, restores,
       faults, exposed, overwritten>>
      /\ proc[p].at = "armed"
      /\ intent' = [pre |-> proc[p].pre, sel |-> IF proc[p].kind = "rewind" THEN op.sel ELSE Paths]
  BY DEF Arm, history, bounds, Return
<1>4. /\ proc[p].pre \in sealed /\ op # NoOp /\ op.own = {} /\ volatile = {}
      /\ proc[p].kind # "recover" /\ proc[p].plan \subseteq op.sel /\ proc[p].todo = proc[p].plan
      /\ lock = p /\ intent = None
  BY <1>1, <1>3 DEF BaseInv, PhaseInv, IntentInv, Shapes, Waiting, Before, During
<1>5. intent' \in Intents /\ intent' # None
  BY <1>1, <1>3, <1>4, NoneAssumption DEF Intents, BaseInv, TypeOK, Shapes
<1>6. TypeOK'
  BY <1>1, <1>2, <1>3, <1>4, <1>5 DEF BaseInv, TypeOK, Turned, Shapes, Waiting
<1>7. PhaseInv'
  BY <1>1, <1>2, <1>3, <1>4, <1>5 DEF BaseInv, Shapes, Turned, PhaseInv, Waiting, Before,
      During, TypeOK, Waiting, Before, During
<1>8. IntentInv'
  BY <1>1, <1>2, <1>3, <1>4, <1>5 DEF BaseInv, Shapes, Turned, IntentInv
<1>9. TornInv'
  BY <1>1, <1>2, <1>3, <1>4, <1>5 DEF BaseInv, Shapes, Turned, TornInv, Untorn, Waiting,
      Before, During
<1>10. BaseInv'
  BY <1>6, <1>7, <1>8, <1>9 DEF BaseInv
<1>11. ASSUME AtomInv
      PROVE  AtomInv' /\ [Promise!Next]_(Promise!vars)
  <2>1. OwnedInv'
    BY <1>11, <1>1, <1>2, <1>3, <1>4, <1>5 DEF AtomInv, BaseInv, Shapes, Turned, OwnedInv,
        Waiting, Before, During
  <2>2. SafeInv'
    BY <1>11, <1>1, <1>2, <1>3, <1>4, <1>5 DEF AtomInv, BaseInv, Shapes, Turned, SafeInv,
        Safe, Sealed, Waiting, Before, During
  <2>3. ProgressInv'
    BY <1>11, <1>1, <1>2, <1>3, <1>4, <1>5 DEF AtomInv, BaseInv, Shapes, Turned, ProgressInv,
        Waiting, Before, During
  <2>4. [Promise!Next]_(Promise!vars)
    BY <1>1, <1>2, <1>3, <1>4, <1>5 DEF Promise!vars, SeenTree, SeenOp, BaseInv, TypeOK, Trees
  <2> QED
    BY <1>10, <2>1, <2>2, <2>3, <2>4 DEF AtomInv
<1> QED
  BY <1>10, <1>11 DEF Good

(* A write replaces what is sealed, and the intent protects it. *)
LEMMA WriteGood ==
    ASSUME BaseInv, ~overwritten', NEW p \in Procs, Write(p)
    PROVE  Good
<1>1. Shapes
  BY TypeShapes DEF BaseInv
<1>2. Turned(p, "apply", proc[p].kind, proc[p].pre, proc[p].plan,
             proc[p].todo \ {NextPath(proc[p].todo, op.target)})
  BY DEF Write, Replace, BaseInv, TypeOK, Turned, Records
<1>3. /\ UNCHANGED <<fork, base, sealed, intent, lock, edits, forkEdits, restores, faults, exposed, overwritten>>
      /\ proc[p].at = "apply" /\ proc[p].todo # {}
  BY DEF Write, Replace, history, bounds
<1>4. PICK q \in proc[p].todo : q = NextPath(proc[p].todo, op.target)
  BY <1>1, <1>3, NextPathIn DEF Shapes
<1>5. q \in Paths /\ intent # None /\ op # NoOp /\ lock = p /\ proc[p].pre = intent.pre
  BY <1>1, <1>3 DEF Shapes, BaseInv, PhaseInv, IntentInv, Waiting, Before, During
<1>6. tree' = [tree EXCEPT ![q] = op.target[q]] /\ volatile' = volatile \cup {q}
  BY <1>4 DEF Write, Replace
<1>7. Became(op.sel, op.target, op.dirty, op.own \cup {q})
  <2>1. op' = [op EXCEPT !.dirty = op.dirty, !.own = op.own \cup {q}]
    <3>1. op' = [op EXCEPT !.own = @ \cup {q}] /\ op \in Operations
      BY <1>4, <1>5 DEF Write, Replace, BaseInv, TypeOK, Operations
    <3> QED
      BY <3>1 DEF Operations
  <2> QED
    BY <1>1, <1>5, <2>1, OpChanges DEF Shapes, BaseInv
<1>8. op.target[q] \in Contents /\ op.target[q] # Torn
  BY <1>5 DEF BaseInv, TornInv, Untorn, IntentInv, TypeOK, Trees, Intents
<1>9. TypeOK'
  <2>1. tree' \in Trees
    BY <1>5, <1>6, <1>8 DEF BaseInv, TypeOK, Trees
  <2> QED
    BY <1>1, <1>2, <1>3, <1>4, <1>5, <1>6, <1>7, <1>8, <2>1 DEF BaseInv, TypeOK, Turned,
        Became, Operations, Shapes, Waiting
<1>10. PhaseInv'
  BY <1>1, <1>2, <1>3, <1>4, <1>5, <1>6, <1>7, <1>8 DEF BaseInv, Shapes, Turned, PhaseInv,
      Waiting, Before, During, Became
<1>11. IntentInv'
  BY <1>1, <1>2, <1>3, <1>4, <1>5, <1>6, <1>7, <1>8 DEF BaseInv, Shapes, Turned, IntentInv,
      Became, PhaseInv, Waiting, Before, During
<1>12. TornInv'
  BY <1>1, <1>2, <1>3, <1>4, <1>5, <1>6, <1>7, <1>8 DEF BaseInv, Shapes, Turned, TornInv,
      Untorn, Became, Waiting, Before, During
<1>13. BaseInv'
  BY <1>9, <1>10, <1>11, <1>12 DEF BaseInv
<1>14. ASSUME AtomInv
      PROVE  AtomInv' /\ [Promise!Next]_(Promise!vars)
  <2>1. OwnedInv'
    BY <1>14, <1>1, <1>2, <1>3, <1>4, <1>5, <1>6, <1>7, <1>8 DEF AtomInv, BaseInv, Shapes,
        Turned, OwnedInv, Became, PhaseInv, Waiting, Before, During
  <2>2. SafeInv'
    BY <1>14, <1>1, <1>2, <1>3, <1>4, <1>5, <1>6, <1>7, <1>8 DEF AtomInv, BaseInv, Shapes,
        Turned, SafeInv, Safe, Sealed, Became, Waiting, Before, During
  <2>3. ProgressInv'
    BY <1>14, <1>1, <1>2, <1>3, <1>4, <1>5, <1>6, <1>7, <1>8 DEF AtomInv, BaseInv, Shapes,
        Turned, ProgressInv, Became, Waiting, Before, During
  <2>4. [Promise!Next]_(Promise!vars)
    <3>1. Safe(q, intent.pre)
      BY <1>14, <1>3, <1>4, <1>5 DEF AtomInv, SafeInv
    <3> QED
      BY <1>3, <1>5, <1>6, <1>7, <3>1, ReplaceSeen
  <2> QED
    BY <1>13, <2>1, <2>2, <2>3, <2>4 DEF AtomInv
<1> QED
  BY <1>13, <1>14 DEF Good

(* A write that fails leaves the restore to be undone. *)
LEMMA WriteFailsGood ==
    ASSUME BaseInv, ~overwritten', NEW p \in Procs, WriteFails(p)
    PROVE  Good
<1>1. Shapes
  BY TypeShapes DEF BaseInv
<1>2. Turned(p, "failed", proc[p].kind, proc[p].pre, proc[p].plan, proc[p].todo)
  BY DEF WriteFails, At, Return, Idle, Closed, BaseInv, TypeOK, Turned, Records
<1>3. /\ UNCHANGED <<tree, fork, base, sealed, intent, lock, volatile, op, edits, forkEdits,
       restores, faults, exposed, overwritten>>
      /\ proc[p].at = "apply"
  BY DEF WriteFails, history, bounds, Return
<1>4. TypeOK'
  BY <1>1, <1>2, <1>3 DEF BaseInv, TypeOK, Turned, Shapes, Waiting
<1>5. PhaseInv'
  BY <1>1, <1>2, <1>3 DEF BaseInv, Shapes, Turned, PhaseInv, Waiting, Before, During
<1>6. IntentInv'
  BY <1>1, <1>2, <1>3 DEF BaseInv, IntentInv
<1>7. TornInv'
  BY <1>1, <1>2, <1>3 DEF BaseInv, Shapes, Turned, TornInv, Untorn, Waiting, Before, During
<1>8. BaseInv'
  BY <1>4, <1>5, <1>6, <1>7 DEF BaseInv
<1>9. ASSUME AtomInv
      PROVE  AtomInv' /\ [Promise!Next]_(Promise!vars)
  <2>1. OwnedInv'
    BY <1>9, <1>1, <1>2, <1>3 DEF AtomInv, BaseInv, Shapes, Turned, OwnedInv, Waiting, Before,
        During
  <2>2. SafeInv'
    BY <1>9, <1>1, <1>2, <1>3 DEF AtomInv, BaseInv, Shapes, Turned, SafeInv, Safe, Sealed,
        Waiting, Before, During
  <2>3. ProgressInv'
    BY <1>9, <1>1, <1>2, <1>3 DEF AtomInv, BaseInv, Shapes, Turned, ProgressInv, Waiting,
        Before, During
  <2>4. [Promise!Next]_(Promise!vars)
    BY <1>3 DEF Promise!vars, SeenTree, SeenOp
  <2> QED
    BY <1>8, <2>1, <2>2, <2>3, <2>4 DEF AtomInv
<1> QED
  BY <1>8, <1>9 DEF Good

(* Everything is written and flushed before the restore is checked. *)
LEMMA AppliedGood ==
    ASSUME BaseInv, ~overwritten', NEW p \in Procs, Applied(p)
    PROVE  Good
<1>1. Shapes
  BY TypeShapes DEF BaseInv
<1>2. Turned(p, "applied", proc[p].kind, proc[p].pre, proc[p].plan, proc[p].todo)
  BY DEF Applied, At, Return, Idle, Closed, BaseInv, TypeOK, Turned, Records
<1>3. /\ UNCHANGED <<tree, fork, base, sealed, intent, lock, op, edits, forkEdits, restores,
       faults, exposed, overwritten>>
      /\ proc[p].at = "apply" /\ proc[p].todo = {}
      /\ volatile' = {}
  BY DEF Applied, history, bounds, Return
<1>4. TypeOK'
  BY <1>1, <1>2, <1>3 DEF BaseInv, TypeOK, Turned, Shapes, Waiting
<1>5. PhaseInv'
  BY <1>1, <1>2, <1>3 DEF BaseInv, Shapes, Turned, PhaseInv, Waiting, Before, During
<1>6. IntentInv'
  BY <1>1, <1>2, <1>3 DEF BaseInv, Shapes, Turned, IntentInv
<1>7. TornInv'
  BY <1>1, <1>2, <1>3 DEF BaseInv, Shapes, Turned, TornInv, Untorn, Waiting, Before, During
<1>8. BaseInv'
  BY <1>4, <1>5, <1>6, <1>7 DEF BaseInv
<1>9. ASSUME AtomInv
      PROVE  AtomInv' /\ [Promise!Next]_(Promise!vars)
  <2>1. OwnedInv'
    BY <1>9, <1>1, <1>2, <1>3 DEF AtomInv, BaseInv, Shapes, Turned, OwnedInv, Waiting, Before,
        During
  <2>2. SafeInv'
    BY <1>9, <1>1, <1>2, <1>3 DEF AtomInv, BaseInv, Shapes, Turned, SafeInv, Safe, Sealed,
        Waiting, Before, During
  <2>3. ProgressInv'
    BY <1>9, <1>1, <1>2, <1>3 DEF AtomInv, BaseInv, Shapes, Turned, ProgressInv, Waiting,
        Before, During
  <2>4. [Promise!Next]_(Promise!vars)
    BY <1>3 DEF Promise!vars, SeenTree, SeenOp
  <2> QED
    BY <1>8, <2>1, <2>2, <2>3, <2>4 DEF AtomInv
<1> QED
  BY <1>8, <1>9 DEF Good

(* A rewind is done, or has to be undone. *)
LEMMA RewindCheckGood ==
    ASSUME BaseInv, ~overwritten', NEW p \in Procs, RewindCheck(p)
    PROVE  Good
<1>1. Shapes
  BY TypeShapes DEF BaseInv
<1>2. \/ Turned(p, "done", proc[p].kind, proc[p].pre, proc[p].plan, proc[p].todo)
      \/ Turned(p, "failed", proc[p].kind, proc[p].pre, proc[p].plan, proc[p].todo)
  BY DEF RewindCheck, At, Return, Idle, Closed, BaseInv, TypeOK, Turned, Records
<1>3. /\ UNCHANGED <<tree, fork, base, sealed, intent, lock, volatile, op, edits, forkEdits,
       restores, faults, exposed, overwritten>>
      /\ proc[p].at = "applied"
  BY DEF RewindCheck, history, bounds, Return
<1>4. TypeOK'
  BY <1>1, <1>2, <1>3 DEF BaseInv, TypeOK, Turned, Shapes, Waiting
<1>5. PhaseInv'
  BY <1>1, <1>2, <1>3 DEF BaseInv, Shapes, Turned, PhaseInv, Waiting, Before, During
<1>6. IntentInv'
  BY <1>1, <1>2, <1>3 DEF BaseInv, IntentInv
<1>7. TornInv'
  BY <1>1, <1>2, <1>3 DEF BaseInv, Shapes, Turned, TornInv, Untorn, Waiting, Before, During
<1>8. BaseInv'
  BY <1>4, <1>5, <1>6, <1>7 DEF BaseInv
<1>9. ASSUME AtomInv
      PROVE  AtomInv' /\ [Promise!Next]_(Promise!vars)
  <2>1. OwnedInv'
    BY <1>9, <1>1, <1>2, <1>3 DEF AtomInv, BaseInv, Shapes, Turned, OwnedInv, Waiting, Before,
        During
  <2>2. SafeInv'
    BY <1>9, <1>1, <1>2, <1>3 DEF AtomInv, BaseInv, Shapes, Turned, SafeInv, Safe, Sealed,
        Waiting, Before, During
  <2>3. ProgressInv'
    BY <1>9, <1>1, <1>2, <1>3 DEF AtomInv, BaseInv, Shapes, Turned, ProgressInv, Waiting,
        Before, During
  <2>4. [Promise!Next]_(Promise!vars)
    BY <1>3 DEF Promise!vars, SeenTree, SeenOp
  <2> QED
    BY <1>8, <2>1, <2>2, <2>3, <2>4 DEF AtomInv
<1> QED
  BY <1>8, <1>9 DEF Good

(* A merged tree is sealed. *)
LEMMA MergeSealGood ==
    ASSUME BaseInv, ~overwritten', NEW p \in Procs, MergeSeal(p)
    PROVE  Good
<1>1. Shapes
  BY TypeShapes DEF BaseInv
<1>2. Turned(p, "done", proc[p].kind, proc[p].pre, proc[p].plan, proc[p].todo)
  BY DEF MergeSeal, At, Return, Idle, Closed, BaseInv, TypeOK, Turned, Records
<1>3. /\ UNCHANGED <<tree, fork, base, intent, lock, volatile, op, edits, forkEdits, restores,
       faults, exposed, overwritten>>
      /\ proc[p].at = "applied"
      /\ sealed' = sealed \cup {tree}
  BY DEF MergeSeal, history, bounds, Return
<1>4. TypeOK'
  BY <1>1, <1>2, <1>3 DEF BaseInv, TypeOK, Turned, Shapes, Waiting
<1>5. PhaseInv'
  BY <1>1, <1>2, <1>3 DEF BaseInv, Shapes, Turned, PhaseInv, Waiting, Before, During
<1>6. IntentInv'
  BY <1>1, <1>2, <1>3 DEF BaseInv, Shapes, Turned, IntentInv
<1>7. TornInv'
  BY <1>1, <1>2, <1>3 DEF BaseInv, Shapes, Turned, TornInv, Untorn, Waiting, Before, During
<1>8. BaseInv'
  BY <1>4, <1>5, <1>6, <1>7 DEF BaseInv
<1>9. ASSUME AtomInv
      PROVE  AtomInv' /\ [Promise!Next]_(Promise!vars)
  <2>1. OwnedInv'
    BY <1>9, <1>1, <1>2, <1>3 DEF AtomInv, BaseInv, Shapes, Turned, OwnedInv, Waiting, Before,
        During
  <2>2. SafeInv'
    BY <1>9, <1>1, <1>2, <1>3 DEF AtomInv, BaseInv, Shapes, Turned, SafeInv, Safe, Sealed,
        Waiting, Before, During
  <2>3. ProgressInv'
    BY <1>9, <1>1, <1>2, <1>3 DEF AtomInv, BaseInv, Shapes, Turned, ProgressInv, Waiting,
        Before, During
  <2>4. [Promise!Next]_(Promise!vars)
    BY <1>1, <1>2, <1>3 DEF Promise!Next, Promise!Seal, Promise!vars, SeenTree, SeenOp,
        BaseInv, TypeOK, Promise!Trees, Trees
  <2> QED
    BY <1>8, <2>1, <2>2, <2>3, <2>4 DEF AtomInv
<1> QED
  BY <1>8, <1>9 DEF Good

(* A merge that cannot be sealed has to be undone. *)
LEMMA MergeSealFailsGood ==
    ASSUME BaseInv, ~overwritten', NEW p \in Procs, MergeSealFails(p)
    PROVE  Good
<1>1. Shapes
  BY TypeShapes DEF BaseInv
<1>2. Turned(p, "failed", proc[p].kind, proc[p].pre, proc[p].plan, proc[p].todo)
  BY DEF MergeSealFails, At, Return, Idle, Closed, BaseInv, TypeOK, Turned, Records
<1>3. /\ UNCHANGED <<tree, fork, base, sealed, intent, lock, volatile, op, edits, forkEdits,
       restores, faults, exposed, overwritten>>
      /\ proc[p].at = "applied"
  BY DEF MergeSealFails, history, bounds, Return
<1>4. TypeOK'
  BY <1>1, <1>2, <1>3 DEF BaseInv, TypeOK, Turned, Shapes, Waiting
<1>5. PhaseInv'
  BY <1>1, <1>2, <1>3 DEF BaseInv, Shapes, Turned, PhaseInv, Waiting, Before, During
<1>6. IntentInv'
  BY <1>1, <1>2, <1>3 DEF BaseInv, IntentInv
<1>7. TornInv'
  BY <1>1, <1>2, <1>3 DEF BaseInv, Shapes, Turned, TornInv, Untorn, Waiting, Before, During
<1>8. BaseInv'
  BY <1>4, <1>5, <1>6, <1>7 DEF BaseInv
<1>9. ASSUME AtomInv
      PROVE  AtomInv' /\ [Promise!Next]_(Promise!vars)
  <2>1. OwnedInv'
    BY <1>9, <1>1, <1>2, <1>3 DEF AtomInv, BaseInv, Shapes, Turned, OwnedInv, Waiting, Before,
        During
  <2>2. SafeInv'
    BY <1>9, <1>1, <1>2, <1>3 DEF AtomInv, BaseInv, Shapes, Turned, SafeInv, Safe, Sealed,
        Waiting, Before, During
  <2>3. ProgressInv'
    BY <1>9, <1>1, <1>2, <1>3 DEF AtomInv, BaseInv, Shapes, Turned, ProgressInv, Waiting,
        Before, During
  <2>4. [Promise!Next]_(Promise!vars)
    BY <1>3 DEF Promise!vars, SeenTree, SeenOp
  <2> QED
    BY <1>8, <2>1, <2>2, <2>3, <2>4 DEF AtomInv
<1> QED
  BY <1>8, <1>9 DEF Good

(* A restore that is done has changed all its paths at once. *)
LEMMA FinishGood ==
    ASSUME BaseInv, ~overwritten', NEW p \in Procs, Finish(p)
    PROVE  Good
<1>1. Shapes
  BY TypeShapes DEF BaseInv
<1>2. Turned(p, "idle", None, None, {}, {})
  BY DEF Finish, At, Return, Idle, Closed, BaseInv, TypeOK, Turned, Records
<1>3. /\ UNCHANGED <<tree, fork, base, sealed, volatile, edits, forkEdits, restores, faults, exposed, overwritten>>
      /\ proc[p].at = "done"
      /\ intent' = None /\ op' = NoOp /\ lock' = None
  BY DEF Finish, Return, history, bounds
<1>4. TypeOK'
  BY <1>1, <1>2, <1>3 DEF BaseInv, TypeOK, Turned, Shapes, Waiting
<1>5. PhaseInv'
  BY <1>1, <1>2, <1>3 DEF BaseInv, Shapes, Turned, PhaseInv, Waiting, Before, During, Shapes
<1>6. IntentInv'
  BY <1>1, <1>2, <1>3 DEF BaseInv, Shapes, Turned, IntentInv, PhaseInv, Waiting, Before, During
<1>7. TornInv'
  BY <1>1, <1>2, <1>3 DEF BaseInv, Shapes, Turned, TornInv, Untorn, PhaseInv, Waiting, Before,
      During
<1>8. BaseInv'
  BY <1>4, <1>5, <1>6, <1>7 DEF BaseInv
<1>9. ASSUME AtomInv
      PROVE  AtomInv' /\ [Promise!Next]_(Promise!vars)
  <2>1. OwnedInv'
    BY <1>9, <1>1, <1>2, <1>3 DEF AtomInv, BaseInv, Shapes, Turned, OwnedInv, Waiting, Before,
        During
  <2>2. SafeInv'
    BY <1>9, <1>1, <1>2, <1>3 DEF AtomInv, BaseInv, Shapes, Turned, SafeInv, Safe, Sealed,
        Waiting, Before, During
  <2>3. ProgressInv'
    BY <1>9, <1>1, <1>2, <1>3 DEF AtomInv, BaseInv, Shapes, Turned, ProgressInv, Waiting,
        Before, During
  <2>4. [Promise!Next]_(Promise!vars)
    <3> DEFINE s == op.own
    <3>1. /\ op # NoOp /\ intent # None /\ s \subseteq op.sel
          /\ \A q \in s : tree[q] = op.target[q]
          /\ \A q \in op.sel \ op.dirty : q \in s \/ tree[q] = op.target[q]
          /\ op.sel \subseteq Paths /\ intent.pre \in sealed
      BY <1>9, <1>1, <1>2, <1>3 DEF AtomInv, BaseInv, PhaseInv, IntentInv, ProgressInv,
          During, Shapes
    <3>2. SeenTree = [q \in Paths |-> IF q \in s THEN intent.pre[q] ELSE tree[q]]
      BY <3>1 DEF SeenTree
    <3>3. SeenTree' = [q \in Paths |-> IF q \in s THEN op.target[q] ELSE SeenTree[q]]
      <4>1. SeenTree' = [q \in Paths |-> tree[q]]
        BY <1>1, <1>2, <1>3 DEF SeenTree
      <4>2. \A q \in Paths : tree[q] = IF q \in s THEN op.target[q] ELSE SeenTree[q]
        BY <3>1, <3>2
      <4> QED
        BY <4>1, <4>2
    <3>4. SeenOp # NoOp /\ SeenOp.sel = op.sel /\ SeenOp.target = op.target
          /\ SeenOp.dirty = op.dirty /\ SeenOp' = NoOp
      BY <1>1, <1>2, <1>3, <3>1 DEF SeenOp, NoOp
    <3>5. \A q \in (op.sel \ op.dirty) \ s : SeenTree[q] = op.target[q]
      BY <3>1, <3>2
    <3>6. \A q \in s : Promise!Sealed(q, SeenTree[q])
      BY <3>1, <3>2 DEF Promise!Sealed
    <3>7. Promise!Commit
      <4> HIDE DEF s
      <4> QED
        BY <1>1, <1>2, <1>3, <3>1, <3>3, <3>4, <3>5, <3>6 DEF Promise!Commit, Promise!NoOp, NoOp
    <3> QED
      BY <3>7 DEF Promise!Next
  <2> QED
    BY <1>8, <2>1, <2>2, <2>3, <2>4 DEF AtomInv
<1> QED
  BY <1>8, <1>9 DEF Good

(* What the person wrote into a failed rewind is sealed before it is taken back. *)
LEMMA RescueGood ==
    ASSUME BaseInv, ~overwritten', NEW p \in Procs, Rescue(p)
    PROVE  Good
<1>1. Shapes
  BY TypeShapes DEF BaseInv
<1>2. Turned(p, "undo", proc[p].kind, proc[p].pre, proc[p].plan, op.sel)
  <2>1. op.sel \subseteq Paths
    BY <1>1 DEF Rescue, BaseInv, IntentInv, PhaseInv, During, Shapes
  <2> QED
    BY <2>1 DEF Rescue, BaseInv, TypeOK, Turned, Records
<1>3. /\ UNCHANGED <<tree, fork, base, intent, lock, volatile, op, edits, forkEdits, restores,
       faults, exposed, overwritten>>
      /\ proc[p].at = "failed" /\ proc[p].kind = "rewind"
      /\ sealed' = sealed \cup {tree}
  BY DEF Rescue, history, bounds, Return
<1>4. TypeOK'
  BY <1>1, <1>2, <1>3 DEF BaseInv, TypeOK, Turned, Shapes, Waiting
<1>5. PhaseInv'
  BY <1>1, <1>2, <1>3 DEF BaseInv, Shapes, Turned, PhaseInv, Waiting, Before, During
<1>6. IntentInv'
  BY <1>1, <1>2, <1>3 DEF BaseInv, Shapes, Turned, IntentInv
<1>7. TornInv'
  BY <1>1, <1>2, <1>3 DEF BaseInv, Shapes, Turned, TornInv, Untorn, Waiting, Before, During
<1>8. BaseInv'
  BY <1>4, <1>5, <1>6, <1>7 DEF BaseInv
<1>9. ASSUME AtomInv
      PROVE  AtomInv' /\ [Promise!Next]_(Promise!vars)
  <2>1. OwnedInv'
    BY <1>9, <1>1, <1>2, <1>3 DEF AtomInv, BaseInv, Shapes, Turned, OwnedInv, Waiting, Before,
        During
  <2>2. SafeInv'
    BY <1>9, <1>1, <1>2, <1>3 DEF AtomInv, BaseInv, Shapes, Turned, SafeInv, Safe, Sealed,
        OwnedInv, PhaseInv, IntentInv, Waiting, Before, During
  <2>3. ProgressInv'
    BY <1>9, <1>1, <1>2, <1>3 DEF AtomInv, BaseInv, Shapes, Turned, ProgressInv, PhaseInv,
        Waiting, Before, During
  <2>4. [Promise!Next]_(Promise!vars)
    BY <1>1, <1>2, <1>3 DEF Promise!Next, Promise!Seal, Promise!vars, SeenTree, SeenOp,
        BaseInv, TypeOK, Promise!Trees, Trees
  <2> QED
    BY <1>8, <2>1, <2>2, <2>3, <2>4 DEF AtomInv
<1> QED
  BY <1>8, <1>9 DEF Good

(* Without a rescue, what no snapshot holds of the edits is exposed. *)
LEMMA RescueFailsGood ==
    ASSUME BaseInv, ~overwritten', NEW p \in Procs, RescueFails(p)
    PROVE  Good
<1>1. Shapes
  BY TypeShapes DEF BaseInv
<1>2. Turned(p, "undo", proc[p].kind, proc[p].pre, proc[p].plan,
             IF proc[p].kind = "rewind" THEN op.sel ELSE Paths)
  <2>1. (IF proc[p].kind = "rewind" THEN op.sel ELSE Paths) \in SUBSET Paths
    BY <1>1 DEF RescueFails, BaseInv, IntentInv, PhaseInv, During, Shapes
  <2>2. proc[p] \in Records
    BY DEF BaseInv, TypeOK
  <2>3. proc' = [proc EXCEPT ![p] = [proc[p] EXCEPT !.at = "undo",
                        !.todo = IF proc[p].kind = "rewind" THEN op.sel ELSE Paths]]
    BY DEF RescueFails
  <2>4. [proc[p] EXCEPT !.at = "undo",
                        !.todo = IF proc[p].kind = "rewind" THEN op.sel ELSE Paths] \in Records
    BY <2>1, <2>2 DEF Records
  <2> QED
    BY <2>2, <2>3, <2>4 DEF BaseInv, TypeOK, Turned, Records
<1>3. /\ UNCHANGED <<tree, fork, base, sealed, intent, lock, volatile, op, edits, forkEdits,
       restores, faults, overwritten>>
      /\ proc[p].at = "failed"
      /\ exposed' = exposed \cup Unsaved
  BY DEF RescueFails, history, bounds, Return
<1>3a. exposed' \subseteq Paths /\ op # NoOp
  BY <1>1, <1>3 DEF Unsaved, Shapes, BaseInv, TypeOK, PhaseInv, IntentInv, During
<1>4. TypeOK'
  BY <1>1, <1>2, <1>3, <1>3a DEF BaseInv, TypeOK, Turned, Shapes, Waiting
<1>5. PhaseInv'
  BY <1>1, <1>2, <1>3 DEF BaseInv, Shapes, Turned, PhaseInv, Waiting, Before, During
<1>6. IntentInv'
  BY <1>1, <1>2, <1>3 DEF BaseInv, IntentInv
<1>7. TornInv'
  BY <1>1, <1>2, <1>3 DEF BaseInv, Shapes, Turned, TornInv, Untorn, Waiting, Before, During
<1>8. BaseInv'
  BY <1>4, <1>5, <1>6, <1>7 DEF BaseInv
<1>9. ASSUME AtomInv
      PROVE  AtomInv' /\ [Promise!Next]_(Promise!vars)
  <2>1. OwnedInv'
    BY <1>9, <1>1, <1>2, <1>3 DEF AtomInv, BaseInv, Shapes, Turned, OwnedInv, Waiting, Before,
        During
  <2>2. SafeInv'
    BY <1>9, <1>1, <1>2, <1>3 DEF AtomInv, BaseInv, Shapes, Turned, SafeInv, Safe, Sealed,
        Unsaved, OwnedInv, PhaseInv, IntentInv, Waiting, Before, During
  <2>3. ProgressInv'
    BY <1>9, <1>1, <1>2, <1>3 DEF AtomInv, BaseInv, Shapes, Turned, ProgressInv, PhaseInv,
        Waiting, Before, During
  <2>4. [Promise!Next]_(Promise!vars)
    <3>1. SeenTree' = SeenTree
      BY <1>3 DEF SeenTree
    <3> QED
      BY <1>3, <1>3a, <3>1, InterruptSeen
  <2> QED
    BY <1>8, <2>1, <2>2, <2>3, <2>4 DEF AtomInv
<1> QED
  BY <1>8, <1>9 DEF Good

(* The rollback covers every path that differs from what was sealed. *)
LEMMA UndoPlanGood ==
    ASSUME BaseInv, ~overwritten', NEW p \in Procs, UndoPlan(p)
    PROVE  Good
<1>1. Shapes
  BY TypeShapes DEF BaseInv
<1>2. Turned(p, "rollback", proc[p].kind, proc[p].pre, Differing(proc[p].pre, proc[p].todo),
             Differing(proc[p].pre, proc[p].todo))
  <2>1. Differing(proc[p].pre, proc[p].todo) \in SUBSET Paths
    BY <1>1 DEF Differing, Shapes
  <2>2. proc[p] \in Records
    BY DEF BaseInv, TypeOK
  <2>3. proc' = [proc EXCEPT ![p] = [proc[p] EXCEPT !.at = "rollback",
                        !.plan = Differing(proc[p].pre, proc[p].todo),
                        !.todo = Differing(proc[p].pre, proc[p].todo)]]
    BY DEF UndoPlan
  <2>4. [proc[p] EXCEPT !.at = "rollback",
                        !.plan = Differing(proc[p].pre, proc[p].todo),
                        !.todo = Differing(proc[p].pre, proc[p].todo)] \in Records
    BY <2>1, <2>2 DEF Records
  <2> QED
    BY <2>2, <2>3, <2>4 DEF BaseInv, TypeOK, Turned, Records
<1>3. /\ UNCHANGED <<tree, fork, base, sealed, intent, lock, volatile, op, edits, forkEdits,
       restores, faults, exposed, overwritten>>
      /\ proc[p].at = "undo"
  BY DEF UndoPlan, history, bounds, Return
<1>4. TypeOK'
  BY <1>1, <1>2, <1>3 DEF BaseInv, TypeOK, Turned, Shapes, Waiting
<1>5. PhaseInv'
  BY <1>1, <1>2, <1>3 DEF BaseInv, Shapes, Turned, PhaseInv, Waiting, Before, During, Differing
<1>6. IntentInv'
  BY <1>1, <1>2, <1>3 DEF BaseInv, IntentInv
<1>7. TornInv'
  BY <1>1, <1>2, <1>3 DEF BaseInv, Shapes, Turned, TornInv, Untorn, Waiting, Before, During
<1>8. BaseInv'
  BY <1>4, <1>5, <1>6, <1>7 DEF BaseInv
<1>9. ASSUME AtomInv
      PROVE  AtomInv' /\ [Promise!Next]_(Promise!vars)
  <2>1. OwnedInv'
    BY <1>9, <1>1, <1>2, <1>3 DEF AtomInv, BaseInv, Shapes, Turned, OwnedInv, Waiting, Before,
        During
  <2>2. SafeInv'
    BY <1>9, <1>1, <1>2, <1>3 DEF AtomInv, BaseInv, Shapes, Turned, SafeInv, Safe, Sealed,
        Differing, PhaseInv, ProgressInv, Waiting, Before, During
  <2>3. ProgressInv'
    BY <1>9, <1>1, <1>2, <1>3 DEF AtomInv, BaseInv, Shapes, Turned, ProgressInv, Differing,
        PhaseInv, IntentInv, Waiting, Before, During
  <2>4. [Promise!Next]_(Promise!vars)
    BY <1>3 DEF Promise!vars, SeenTree, SeenOp
  <2> QED
    BY <1>8, <2>1, <2>2, <2>3, <2>4 DEF AtomInv
<1> QED
  BY <1>8, <1>9 DEF Good

(* A rollback puts back what was sealed, and loses nothing unsealed. *)
LEMMA UndoWriteGood ==
    ASSUME BaseInv, ~overwritten', NEW p \in Procs, UndoWrite(p)
    PROVE  Good
<1>1. Shapes
  BY TypeShapes DEF BaseInv
<1>2. Turned(p, "rollback", proc[p].kind, proc[p].pre, proc[p].plan,
             proc[p].todo \ {NextPath(proc[p].todo, proc[p].pre)})
  BY DEF UndoWrite, Replace, BaseInv, TypeOK, Turned, Records
<1>3. /\ UNCHANGED <<fork, base, sealed, intent, lock, edits, forkEdits, restores, faults, exposed, overwritten>>
      /\ proc[p].at = "rollback" /\ proc[p].todo # {}
  BY DEF UndoWrite, Replace, history, bounds
<1>4. PICK q \in proc[p].todo : q = NextPath(proc[p].todo, proc[p].pre)
  BY <1>1, <1>3, NextPathIn DEF Shapes
<1>5. q \in Paths /\ intent # None /\ op # NoOp /\ lock = p /\ proc[p].pre = intent.pre
  BY <1>1, <1>3 DEF Shapes, BaseInv, PhaseInv, IntentInv, Waiting, Before, During
<1>6. tree' = [tree EXCEPT ![q] = proc[p].pre[q]] /\ volatile' = volatile \cup {q}
  BY <1>4 DEF UndoWrite, Replace
<1>7. Became(op.sel, op.target, op.dirty, op.own \cup {q})
  <2>1. op' = [op EXCEPT !.dirty = op.dirty, !.own = op.own \cup {q}]
    <3>1. op' = [op EXCEPT !.own = @ \cup {q}] /\ op \in Operations
      BY <1>4, <1>5 DEF UndoWrite, Replace, BaseInv, TypeOK, Operations
    <3> QED
      BY <3>1 DEF Operations
  <2> QED
    BY <1>1, <1>5, <2>1, OpChanges DEF Shapes, BaseInv
<1>8. proc[p].pre[q] \in Contents /\ proc[p].pre[q] # Torn
  BY <1>5 DEF BaseInv, TornInv, Untorn, IntentInv, TypeOK, Trees, Intents
<1>9. TypeOK'
  <2>1. tree' \in Trees
    BY <1>5, <1>6, <1>8 DEF BaseInv, TypeOK, Trees
  <2> QED
    BY <1>1, <1>2, <1>3, <1>4, <1>5, <1>6, <1>7, <1>8, <2>1 DEF BaseInv, TypeOK, Turned,
        Became, Operations, Shapes, Waiting
<1>10. PhaseInv'
  BY <1>1, <1>2, <1>3, <1>4, <1>5, <1>6, <1>7, <1>8 DEF BaseInv, Shapes, Turned, PhaseInv,
      Waiting, Before, During, Became
<1>11. IntentInv'
  BY <1>1, <1>2, <1>3, <1>4, <1>5, <1>6, <1>7, <1>8 DEF BaseInv, Shapes, Turned, IntentInv,
      Became, PhaseInv, Waiting, Before, During
<1>12. TornInv'
  BY <1>1, <1>2, <1>3, <1>4, <1>5, <1>6, <1>7, <1>8 DEF BaseInv, Shapes, Turned, TornInv,
      Untorn, Became, Waiting, Before, During
<1>13. BaseInv'
  BY <1>9, <1>10, <1>11, <1>12 DEF BaseInv
<1>14. ASSUME AtomInv
      PROVE  AtomInv' /\ [Promise!Next]_(Promise!vars)
  <2>1. OwnedInv'
    BY <1>14, <1>1, <1>2, <1>3, <1>4, <1>5, <1>6, <1>7, <1>8 DEF AtomInv, BaseInv, Shapes,
        Turned, OwnedInv, Became, PhaseInv, Waiting, Before, During
  <2>2. SafeInv'
    BY <1>14, <1>1, <1>2, <1>3, <1>4, <1>5, <1>6, <1>7, <1>8 DEF AtomInv, BaseInv, Shapes,
        Turned, SafeInv, Safe, Sealed, Became, Waiting, Before, During
  <2>3. ProgressInv'
    BY <1>14, <1>1, <1>2, <1>3, <1>4, <1>5, <1>6, <1>7, <1>8 DEF AtomInv, BaseInv, Shapes,
        Turned, ProgressInv, Became, Waiting, Before, During
  <2>4. [Promise!Next]_(Promise!vars)
    <3>1. Safe(q, intent.pre)
      BY <1>14, <1>3, <1>4, <1>5 DEF AtomInv, SafeInv
    <3> QED
      BY <1>3, <1>5, <1>6, <1>7, <3>1, ReplaceSeen
  <2> QED
    BY <1>13, <2>1, <2>2, <2>3, <2>4 DEF AtomInv
<1> QED
  BY <1>13, <1>14 DEF Good

(* What was put back is flushed before the intent is removed. *)
LEMMA UndoFlushGood ==
    ASSUME BaseInv, ~overwritten', NEW p \in Procs, UndoFlush(p)
    PROVE  Good
<1>1. Shapes
  BY TypeShapes DEF BaseInv
<1>2. Turned(p, "converge", proc[p].kind, proc[p].pre, proc[p].plan, proc[p].todo)
  BY DEF UndoFlush, At, Return, Idle, Closed, BaseInv, TypeOK, Turned, Records
<1>3. /\ UNCHANGED <<tree, fork, base, sealed, intent, lock, op, edits, forkEdits, restores,
       faults, exposed, overwritten>>
      /\ proc[p].at = "rollback" /\ proc[p].todo = {}
      /\ volatile' = {}
  BY DEF UndoFlush, history, bounds, Return
<1>4. TypeOK'
  BY <1>1, <1>2, <1>3 DEF BaseInv, TypeOK, Turned, Shapes, Waiting
<1>5. PhaseInv'
  BY <1>1, <1>2, <1>3 DEF BaseInv, Shapes, Turned, PhaseInv, Waiting, Before, During
<1>6. IntentInv'
  BY <1>1, <1>2, <1>3 DEF BaseInv, Shapes, Turned, IntentInv
<1>7. TornInv'
  BY <1>1, <1>2, <1>3 DEF BaseInv, Shapes, Turned, TornInv, Untorn, Waiting, Before, During
<1>8. BaseInv'
  BY <1>4, <1>5, <1>6, <1>7 DEF BaseInv
<1>9. ASSUME AtomInv
      PROVE  AtomInv' /\ [Promise!Next]_(Promise!vars)
  <2>1. OwnedInv'
    BY <1>9, <1>1, <1>2, <1>3 DEF AtomInv, BaseInv, Shapes, Turned, OwnedInv, Waiting, Before,
        During
  <2>2. SafeInv'
    BY <1>9, <1>1, <1>2, <1>3 DEF AtomInv, BaseInv, Shapes, Turned, SafeInv, Safe, Sealed,
        Waiting, Before, During
  <2>3. ProgressInv'
    BY <1>9, <1>1, <1>2, <1>3 DEF AtomInv, BaseInv, Shapes, Turned, ProgressInv, Waiting,
        Before, During
  <2>4. [Promise!Next]_(Promise!vars)
    BY <1>3 DEF Promise!vars, SeenTree, SeenOp
  <2> QED
    BY <1>8, <2>1, <2>2, <2>3, <2>4 DEF AtomInv
<1> QED
  BY <1>8, <1>9 DEF Good

(* A rollback that converged has put everything back. *)
LEMMA UndoDoneGood ==
    ASSUME BaseInv, ~overwritten', NEW p \in Procs, UndoDone(p)
    PROVE  Good
<1>1. Shapes
  BY TypeShapes DEF BaseInv
<1>2. Turned(p, "idle", None, None, {}, {})
  BY DEF UndoDone, At, Return, Idle, Closed, BaseInv, TypeOK, Turned, Records
<1>3. /\ UNCHANGED <<tree, fork, base, sealed, volatile, edits, forkEdits, restores, faults, exposed, overwritten>>
      /\ proc[p].at = "converge"
      /\ intent' = None /\ op' = NoOp /\ lock' = None
  BY DEF UndoDone, Return, history, bounds
<1>4. TypeOK'
  BY <1>1, <1>2, <1>3 DEF BaseInv, TypeOK, Turned, Shapes, Waiting
<1>5. PhaseInv'
  BY <1>1, <1>2, <1>3 DEF BaseInv, Shapes, Turned, PhaseInv, Waiting, Before, During
<1>6. IntentInv'
  BY <1>1, <1>2, <1>3 DEF BaseInv, Shapes, Turned, IntentInv, PhaseInv, Waiting, Before, During
<1>7. TornInv'
  BY <1>1, <1>2, <1>3 DEF BaseInv, Shapes, Turned, TornInv, Untorn, PhaseInv, Waiting, Before,
      During
<1>8. BaseInv'
  BY <1>4, <1>5, <1>6, <1>7 DEF BaseInv
<1>9. ASSUME AtomInv
      PROVE  AtomInv' /\ [Promise!Next]_(Promise!vars)
  <2>1. OwnedInv'
    BY <1>9, <1>1, <1>2, <1>3 DEF AtomInv, BaseInv, Shapes, Turned, OwnedInv, Waiting, Before,
        During
  <2>2. SafeInv'
    BY <1>9, <1>1, <1>2, <1>3 DEF AtomInv, BaseInv, Shapes, Turned, SafeInv, Safe, Sealed,
        Waiting, Before, During
  <2>3. ProgressInv'
    BY <1>9, <1>1, <1>2, <1>3 DEF AtomInv, BaseInv, Shapes, Turned, ProgressInv, Waiting,
        Before, During
  <2>4. [Promise!Next]_(Promise!vars)
    <3>1. /\ op # NoOp /\ intent # None
          /\ \A q \in op.own : tree[q] = intent.pre[q]
      BY <1>9, <1>1, <1>2, <1>3 DEF AtomInv, BaseInv, PhaseInv, IntentInv, ProgressInv, During
    <3>2. SeenTree' = SeenTree
      BY <1>1, <1>2, <1>3, <3>1 DEF SeenTree
    <3> QED
      BY <1>1, <1>2, <1>3, <3>2, AbortSeen DEF Shapes
  <2> QED
    BY <1>8, <2>1, <2>2, <2>3, <2>4 DEF AtomInv
<1> QED
  BY <1>8, <1>9 DEF Good

(* A rollback that did not converge leaves the intent for the next open. *)
LEMMA UndoDivergedGood ==
    ASSUME BaseInv, ~overwritten', NEW p \in Procs, UndoDiverged(p)
    PROVE  Good
<1>1. Shapes
  BY TypeShapes DEF BaseInv
<1>2. Turned(p, "idle", None, None, {}, {})
  BY DEF UndoDiverged, At, Return, Idle, Closed, BaseInv, TypeOK, Turned, Records
<1>3. /\ UNCHANGED <<tree, fork, base, sealed, intent, volatile, op, edits, forkEdits,
       restores, faults, exposed, overwritten>>
      /\ proc[p].at = "converge" /\ proc[p].kind = "rewind"
      /\ lock' = None
  BY DEF UndoDiverged, Converged, Return, history, bounds
<1>4. TypeOK'
  BY <1>1, <1>2, <1>3 DEF BaseInv, TypeOK, Turned, Shapes, Waiting
<1>5. PhaseInv'
  BY <1>1, <1>2, <1>3 DEF BaseInv, Shapes, Turned, PhaseInv, Waiting, Before, During
<1>6. IntentInv'
  BY <1>1, <1>2, <1>3 DEF BaseInv, Shapes, Turned, IntentInv, PhaseInv, Waiting, Before, During
<1>7. TornInv'
  BY <1>1, <1>2, <1>3 DEF BaseInv, Shapes, Turned, TornInv, Untorn, Waiting, Before, During
<1>8. BaseInv'
  BY <1>4, <1>5, <1>6, <1>7 DEF BaseInv
<1>9. ASSUME AtomInv
      PROVE  AtomInv' /\ [Promise!Next]_(Promise!vars)
  <2>1. OwnedInv'
    BY <1>9, <1>1, <1>2, <1>3 DEF AtomInv, BaseInv, Shapes, Turned, OwnedInv, Waiting, Before,
        During
  <2>2. SafeInv'
    BY <1>9, <1>1, <1>2, <1>3 DEF AtomInv, BaseInv, Shapes, Turned, SafeInv, Safe, Sealed,
        PhaseInv, Waiting, Before, During
  <2>3. ProgressInv'
    BY <1>9, <1>1, <1>2, <1>3 DEF AtomInv, BaseInv, Shapes, Turned, ProgressInv, Waiting,
        Before, During
  <2>4. [Promise!Next]_(Promise!vars)
    BY <1>3 DEF Promise!vars, SeenTree, SeenOp
  <2> QED
    BY <1>8, <2>1, <2>2, <2>3, <2>4 DEF AtomInv
<1> QED
  BY <1>8, <1>9 DEF Good

(* A rollback that fails leaves the intent for the next open. *)
LEMMA UndoFailsGood ==
    ASSUME BaseInv, ~overwritten', NEW p \in Procs, UndoFails(p)
    PROVE  Good
<1>1. Shapes
  BY TypeShapes DEF BaseInv
<1>2. \/ Turned(p, "idle", None, None, {}, {}) /\ proc[p].kind # "recover"
      \/ Turned(p, "closed", None, None, {}, {}) /\ proc[p].kind = "recover"
  <2>1. CASE proc[p].kind = "recover"
    BY <2>1 DEF UndoFails, Closed, Idle, BaseInv, TypeOK, Turned, Records
  <2>2. CASE proc[p].kind # "recover"
    BY <2>2 DEF UndoFails, Idle, BaseInv, TypeOK, Turned, Records
  <2> QED
    BY <2>1, <2>2
<1>3. /\ UNCHANGED <<tree, fork, base, sealed, intent, volatile, op, edits, forkEdits,
       restores, overwritten>>
      /\ proc[p].at = "rollback"
      /\ lock' = None
      /\ faults < MaxFaults /\ faults' = faults + 1
      /\ exposed' = IF intent # None /\ op # NoOp THEN exposed \cup Unsaved ELSE exposed
  BY DEF UndoFails, Interrupt, history, bounds
<1>3a. intent # None /\ op # NoOp /\ exposed' = exposed \cup Unsaved /\ exposed' \subseteq Paths
  BY <1>1, <1>3 DEF Unsaved, Shapes, BaseInv, TypeOK, PhaseInv, IntentInv, During
<1>4. TypeOK'
  <2>1. faults' \in 0..MaxFaults
    BY <1>3, ConstantsAssumption DEF BaseInv, TypeOK
  <2> QED
    BY <1>1, <1>2, <1>3, <1>3a, <2>1 DEF BaseInv, TypeOK, Turned, Shapes, Waiting
<1>5. PhaseInv'
  BY <1>1, <1>2, <1>3 DEF BaseInv, Shapes, Turned, PhaseInv, Waiting, Before, During
<1>6. IntentInv'
  BY <1>1, <1>2, <1>3 DEF BaseInv, Shapes, Turned, IntentInv, PhaseInv, Waiting, Before, During
<1>7. TornInv'
  BY <1>1, <1>2, <1>3 DEF BaseInv, Shapes, Turned, TornInv, Untorn, Waiting, Before, During
<1>8. BaseInv'
  BY <1>4, <1>5, <1>6, <1>7 DEF BaseInv
<1>9. ASSUME AtomInv
      PROVE  AtomInv' /\ [Promise!Next]_(Promise!vars)
  <2>1. OwnedInv'
    BY <1>9, <1>1, <1>2, <1>3 DEF AtomInv, BaseInv, Shapes, Turned, OwnedInv, Waiting, Before,
        During
  <2>2. SafeInv'
    BY <1>9, <1>1, <1>2, <1>3, <1>3a DEF AtomInv, BaseInv, Shapes, Turned, SafeInv, Safe, Sealed,
        Unsaved, OwnedInv, PhaseInv, IntentInv, Waiting, Before, During
  <2>3. ProgressInv'
    BY <1>9, <1>1, <1>2, <1>3 DEF AtomInv, BaseInv, Shapes, Turned, ProgressInv, Waiting,
        Before, During
  <2>4. [Promise!Next]_(Promise!vars)
    <3>1. SeenTree' = SeenTree
      BY <1>3 DEF SeenTree
    <3> QED
      BY <1>3, <1>3a, <3>1, InterruptSeen
  <2> QED
    BY <1>8, <2>1, <2>2, <2>3, <2>4 DEF AtomInv
<1> QED
  BY <1>8, <1>9 DEF Good

(* A process that is killed leaves the intent, or has changed nothing. *)
LEMMA KillGood ==
    ASSUME BaseInv, ~overwritten', NEW p \in Procs, Kill(p)
    PROVE  Good
<1>1. Shapes
  BY TypeShapes DEF BaseInv
<1>2. Turned(p, "closed", None, None, {}, {})
  BY DEF Kill, At, Return, Idle, Closed, BaseInv, TypeOK, Turned, Records
<1>3. /\ UNCHANGED <<tree, fork, base, sealed, intent, volatile, edits, forkEdits, restores, overwritten>>
      /\ lock' = IF lock = p THEN None ELSE lock
      /\ op' = IF lock = p /\ intent = None THEN NoOp ELSE op
      /\ faults < MaxFaults /\ faults' = faults + 1
      /\ exposed' = IF lock = p /\ intent # None /\ op # NoOp THEN exposed \cup Unsaved
                    ELSE exposed
  BY DEF Kill, Interrupt, Interrupted, history, bounds
<1>3a. exposed' \subseteq Paths
  BY <1>1, <1>3 DEF Unsaved, Shapes, BaseInv, TypeOK
<1>4. TypeOK'
  <2>1. faults' \in 0..MaxFaults
    BY <1>3, ConstantsAssumption DEF BaseInv, TypeOK
  <2> QED
    BY <1>1, <1>2, <1>3, <1>3a, <2>1 DEF BaseInv, TypeOK, Turned, Shapes, Waiting
<1>5. PhaseInv'
  BY <1>1, <1>2, <1>3 DEF BaseInv, Shapes, Turned, PhaseInv, Waiting, Before, During, IntentInv
<1>6. IntentInv'
  BY <1>1, <1>2, <1>3 DEF BaseInv, Shapes, Turned, IntentInv
<1>7. TornInv'
  BY <1>1, <1>2, <1>3 DEF BaseInv, Shapes, Turned, TornInv, Untorn, Waiting, Before, During
<1>8. BaseInv'
  BY <1>4, <1>5, <1>6, <1>7 DEF BaseInv
<1>9. ASSUME AtomInv
      PROVE  AtomInv' /\ [Promise!Next]_(Promise!vars)
  <2>1. OwnedInv'
    BY <1>9, <1>1, <1>2, <1>3 DEF AtomInv, BaseInv, Shapes, Turned, OwnedInv, Waiting, Before,
        During
  <2>2. SafeInv'
    BY <1>9, <1>1, <1>2, <1>3 DEF AtomInv, BaseInv, Shapes, Turned, SafeInv, Safe, Sealed,
        Unsaved, OwnedInv, PhaseInv, IntentInv, Waiting, Before, During
  <2>3. ProgressInv'
    BY <1>9, <1>1, <1>2, <1>3 DEF AtomInv, BaseInv, Shapes, Turned, ProgressInv, Waiting,
        Before, During
  <2>4. [Promise!Next]_(Promise!vars)
    <3>0. CASE op' = op /\ exposed' # exposed
      <4>1. SeenTree' = SeenTree
        BY <1>3, <3>0 DEF SeenTree
      <4> QED
        BY <1>3, <3>0, <4>1, InterruptSeen
    <3>1. CASE op' = op /\ exposed' = exposed
      BY <1>1, <1>2, <1>3, <3>1 DEF Promise!vars, SeenTree, SeenOp
    <3>2. CASE op' # op
      <4>1. intent = None /\ op' = NoOp /\ exposed' = exposed
        BY <1>1, <1>2, <1>3, <3>2
      <4>2. SeenTree' = SeenTree
        BY <1>1, <1>2, <1>3, <4>1 DEF SeenTree
      <4> QED
        BY <1>1, <1>2, <1>3, <4>1, <4>2, AbortSeen DEF Shapes
    <3> QED
      BY <3>0, <3>1, <3>2
  <2> QED
    BY <1>8, <2>1, <2>2, <2>3, <2>4 DEF AtomInv
<1> QED
  BY <1>8, <1>9 DEF Good

(* A power loss tears only what the restore wrote since the last flush. *)
LEMMA PowerLossGood ==
    ASSUME BaseInv, ~overwritten', PowerLoss
    PROVE  Good
<1>1. Shapes
  BY TypeShapes DEF BaseInv
<1>2. /\ UNCHANGED <<fork, base, sealed, intent, edits, forkEdits, restores, overwritten>>
      /\ proc' = [p \in Procs |-> Closed] /\ lock' = None /\ volatile' = {}
      /\ op' = IF intent = None THEN NoOp ELSE op
      /\ faults < MaxFaults /\ faults' = faults + 1
      /\ exposed' = IF intent # None /\ op # NoOp THEN exposed \cup Unsaved ELSE exposed
      /\ /\ tree' \in Trees
         /\ \A q \in Paths : \/ tree'[q] = tree[q]
                             \/ q \in volatile /\ (tree'[q] = Torn \/ Sealed(q, tree'[q]))
  <2>1. PICK t \in Trees :
            /\ \A q \in Paths : \/ t[q] = tree[q]
                                \/ q \in volatile /\ (t[q] = Torn \/ Sealed(q, t[q]))
            /\ tree' = t
    BY DEF PowerLoss
  <2> QED
    BY <2>1 DEF PowerLoss, Interrupt, Interrupted, history, bounds
<1>3. \A p \in Procs : proc'[p] = Closed /\ Closed.at = "closed" /\ Closed \in Records
  BY <1>2 DEF Closed, Idle, Records
<1>4. TypeOK'
  <2>1. faults' \in 0..MaxFaults
    BY <1>2, ConstantsAssumption DEF BaseInv, TypeOK
  <2>2. exposed' \subseteq Paths
    BY <1>1, <1>2 DEF Unsaved, Shapes, BaseInv, TypeOK
  <2> QED
    BY <1>1, <1>2, <1>3, <2>1, <2>2 DEF BaseInv, TypeOK, Shapes
<1>5. PhaseInv'
  BY <1>3 DEF PhaseInv, Waiting, Before, During
<1>6. IntentInv'
  BY <1>1, <1>2, <1>3 DEF BaseInv, Shapes, IntentInv
<1>7. TornInv'
  BY <1>1, <1>2, <1>3 DEF BaseInv, Shapes, TornInv, Untorn, IntentInv, Sealed, Untorn
<1>8. BaseInv'
  BY <1>4, <1>5, <1>6, <1>7 DEF BaseInv
<1>9. ASSUME AtomInv
      PROVE  AtomInv' /\ [Promise!Next]_(Promise!vars)
  <2>1. OwnedInv'
    BY <1>9, <1>1, <1>2, <1>3 DEF AtomInv, BaseInv, Shapes, OwnedInv, IntentInv
  <2>2. SafeInv'
    BY <1>9, <1>1, <1>2, <1>3 DEF AtomInv, BaseInv, Shapes, SafeInv, Safe, Sealed, OwnedInv,
        Unsaved, IntentInv
  <2>3. ProgressInv'
    BY <1>9, <1>1, <1>2, <1>3 DEF AtomInv, BaseInv, Shapes, ProgressInv
  <2>4. [Promise!Next]_(Promise!vars)
    <3>1. SeenTree' = SeenTree
      <4>1. CASE intent = None
        BY <1>1, <1>2, <1>3, <4>1 DEF SeenTree, BaseInv, IntentInv
      <4>2. CASE intent # None
        BY <1>1, <1>2, <1>3, <4>2 DEF SeenTree, BaseInv, IntentInv
      <4> QED
        BY <4>1, <4>2
    <3>2. CASE op' = op /\ exposed' = exposed
      BY <1>1, <1>2, <1>3, <3>1, <3>2 DEF Promise!vars, SeenOp
    <3>3. CASE op' # op
      <4>1. op' = NoOp /\ exposed' = exposed
        BY <1>2, <3>3
      <4> QED
        BY <1>1, <1>2, <1>3, <3>1, <4>1, AbortSeen DEF Shapes
    <3>4. CASE op' = op /\ exposed' # exposed
      BY <1>2, <3>1, <3>4, InterruptSeen
    <3> QED
      BY <3>2, <3>3, <3>4
  <2> QED
    BY <1>8, <2>1, <2>2, <2>3, <2>4 DEF AtomInv
<1> QED
  BY <1>8, <1>9 DEF Good

-----------------------------------------------------------------------------
(* The theorems *)

(* At first nothing is restored, nothing is torn, and the tree is sealed. *)
LEMMA RestoreInit == Init => AtomInv /\ Promise!Init
<1> HAVE Init
<1>1. tree \in Trees /\ Untorn(tree) /\ fork = tree /\ base = tree
  BY ConstantsAssumption DEF Init, Trees, Contents, Torn, Untorn
<1>2. PICK earlier \in [Paths -> 0..1] : sealed = {earlier, tree}
  BY DEF Init
<1>3. earlier \in Trees /\ Untorn(earlier)
  BY ConstantsAssumption DEF Trees, Contents, Torn, Untorn
<1>4. \A p \in Procs : /\ proc[p] = Closed /\ Closed.at = "closed" /\ Closed \in Records
                       /\ lock # p
  BY ConstantsAssumption DEF Init, Closed, Idle, Records
<1>5. edits \in 0..MaxEdits /\ forkEdits \in 0..MaxEdits
  BY ConstantsAssumption DEF Init
<1>6. restores \in 0..MaxRestores /\ faults \in 0..MaxFaults
  BY ConstantsAssumption DEF Init
<1>7. TypeOK
  BY <1>1, <1>2, <1>3, <1>4, <1>5, <1>6 DEF Init, TypeOK
<1>8. PhaseInv /\ IntentInv
  BY <1>4 DEF Init, PhaseInv, IntentInv, Waiting, Before, During
<1>9. TornInv
  BY <1>1, <1>2, <1>3 DEF Init, TornInv, Untorn
<1>10. OwnedInv /\ SafeInv /\ ProgressInv
  BY <1>4 DEF Init, OwnedInv, SafeInv, ProgressInv
<1>11. Promise!Init
  <2>1. SeenTree = tree /\ SeenOp = NoOp
    BY <1>1 DEF Init, SeenTree, SeenOp, Trees
  <2> QED
    BY <1>1, <1>2, <1>3, <2>1 DEF Init, Promise!Init, Promise!NoOp, NoOp, Promise!Trees, Trees
<1> QED
  BY <1>7, <1>8, <1>9, <1>10, <1>11 DEF AtomInv, BaseInv

(* Every step of the person, of a process or of a fault is good. *)
LEMMA RestoreStep ==
    ASSUME BaseInv, ~overwritten', [Next]_vars
    PROVE  Good
<1>1. CASE UNCHANGED vars
  <2>1. BaseInv'
    BY <1>1 DEF vars, BaseInv, TypeOK, PhaseInv, IntentInv, TornInv, Untorn, Waiting, Before,
        During
  <2>2. AtomInv => AtomInv'
    BY <1>1, <2>1 DEF vars, AtomInv, OwnedInv, SafeInv, Safe, Sealed, ProgressInv
  <2>3. UNCHANGED Promise!vars
    BY <1>1 DEF vars, Promise!vars, SeenTree, SeenOp
  <2> QED
    BY <2>1, <2>2, <2>3 DEF Good
<1>2. ASSUME NEW q \in Paths, NEW c \in 0..MaxContent, Edit(q, c) \/ ForkEdit(q, c)
      PROVE  Good
  BY <1>2, EditGood, ForkEditGood
<1>3. ASSUME NEW p \in Procs, Open(p) \/ OpenFails(p) \/ Recover(p) \/ SealTree(p) \/ Kill(p)
      PROVE  Good
  BY <1>3, OpenGood, OpenFailsGood, RecoverGood, SealTreeGood, KillGood
<1>4. ASSUME NEW p \in Procs, Rewind(p)
      PROVE  Good
  BY <1>4, RewindBeginGood, RewindSealGood, RewindVerifyGood, RewindCancelGood, RewindCheckGood
     DEF Rewind
<1>5. ASSUME NEW p \in Procs, Merge(p)
      PROVE  Good
  BY <1>5, MergeBeginGood, MergePlanGood, MergeConflictGood, MergeVerifyGood, MergeCancelGood,
     MergeSealGood, MergeSealFailsGood DEF Merge
<1>6. ASSUME NEW p \in Procs, Apply(p)
      PROVE  Good
  BY <1>6, ArmGood, WriteGood, WriteFailsGood, AppliedGood, FinishGood DEF Apply
<1>7. ASSUME NEW p \in Procs, RollBack(p)
      PROVE  Good
  BY <1>7, RescueGood, RescueFailsGood, UndoPlanGood, UndoWriteGood, UndoFlushGood,
      UndoDoneGood,
     UndoDivergedGood, UndoFailsGood DEF RollBack
<1>8. CASE PowerLoss
  BY <1>8, PowerLossGood
<1> QED
  BY <1>1, <1>2, <1>3, <1>4, <1>5, <1>6, <1>7, <1>8 DEF Next

(* An intent that was written over stays so. *)
LEMMA OverwrittenStays ==
    ASSUME [Next]_vars, overwritten
    PROVE  overwritten'
<1>1. CASE UNCHANGED vars
  BY <1>1 DEF vars
<1>2. ASSUME NEW q \in Paths, NEW c \in 0..MaxContent, Edit(q, c) \/ ForkEdit(q, c)
      PROVE  overwritten'
  BY <1>2 DEF Edit, ForkEdit, history
<1>3. ASSUME NEW p \in Procs,
             Open(p) \/ OpenFails(p) \/ Recover(p) \/ SealTree(p) \/ Kill(p)
      PROVE  overwritten'
  BY <1>3 DEF Open, OpenFails, Recover, SealTree, Kill, Interrupt, history
<1>4. ASSUME NEW p \in Procs, Rewind(p)
      PROVE  overwritten'
  BY <1>4 DEF Rewind, RewindBegin, RewindSeal, RewindVerify, RewindCancel, RewindCheck, history
<1>5. ASSUME NEW p \in Procs, Merge(p)
      PROVE  overwritten'
  BY <1>5 DEF Merge, MergeBegin, MergePlan, MergeConflict, MergeVerify, MergeCancel, MergeSeal,
              MergeSealFails, history
<1>6. ASSUME NEW p \in Procs, Apply(p)
      PROVE  overwritten'
  BY <1>6 DEF Apply, Arm, Write, WriteFails, Applied, Finish, history
<1>7. ASSUME NEW p \in Procs, RollBack(p)
      PROVE  overwritten'
  BY <1>7 DEF RollBack, Rescue, RescueFails, UndoPlan, UndoWrite, UndoFlush, UndoDone,
              UndoDiverged, UndoFails, Interrupt, history
<1>8. CASE PowerLoss
  BY <1>8 DEF PowerLoss, Interrupt, history
<1> QED
  BY <1>1, <1>2, <1>3, <1>4, <1>5, <1>6, <1>7, <1>8 DEF Next

(* Until an intent is written over, the invariant holds. *)
RestoreHolds == overwritten \/ AtomInv

LEMMA RestoreHeld == Spec => []RestoreHolds
<1>1. Init => RestoreHolds
  BY RestoreInit DEF RestoreHolds
<1>2. RestoreHolds /\ [Next]_vars => RestoreHolds'
  BY RestoreStep, OverwrittenStays DEF RestoreHolds, Good, AtomInv
<1> QED
  BY <1>1, <1>2, PTL DEF Spec

(* Once restore.intent is gone, after a restore, a rollback or the recovery of
   an interrupted one, no file is torn, however kills, power losses and edits
   fall between the steps, unless the intent of an interrupted restore was
   written over by another. *)
THEOREM NothingIsTorn == Spec => []NothingTorn
<1>1. RestoreHolds => NothingTorn
  BY DEF RestoreHolds, AtomInv, BaseInv, TornInv, NothingTorn
<1> QED
  BY <1>1, RestoreHeld, PTL

(* Rewinds and merges implement AtomicRestore, whenever the person writes and
   whatever fails: they happen at once or not at all, and all they overwrite is in
   a snapshot or was written into them in a moment when nothing would look again;
   until an intent is written over. *)
THEOREM RestoreIsAtomic == Spec => Atomic
<1>1. Init => Promise!Init
  BY RestoreInit
<1>2. RestoreHolds /\ [Next]_vars => [Promise!Next]_(Promise!vars)
  <2>1. CASE overwritten'
    BY <2>1 DEF Promise!Next
  <2>2. ASSUME RestoreHolds, [Next]_vars, ~overwritten' PROVE [Promise!Next]_(Promise!vars)
    BY <2>2, RestoreStep, OverwrittenStays DEF RestoreHolds, Good, AtomInv
  <2> QED
    BY <2>1, <2>2
<1> QED
  BY <1>1, <1>2, RestoreHeld, PTL DEF Spec, Atomic, Promise!Spec

=============================================================================
