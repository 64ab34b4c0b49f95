------------------------------ MODULE Exchange ------------------------------
(***************************************************************************)
(* The exchange of snapshots between devices as sealed frames: export and  *)
(* published on the side that sends, want, import and materialize on the   *)
(* side that takes, with the ledgers of what the store between them has.   *)
(* The caller, which is not part of the engine, carries the frames: it     *)
(* uploads, downloads and starts again whatever was killed or refused.     *)
(*                                                                         *)
(* An object stands for its bytes and for the rid it travels under, which  *)
(* the keys that both devices have derive from its id.                     *)
(***************************************************************************)
EXTENDS Integers, Sequences, SequencesExt, FiniteSets, FiniteSetsExt

CONSTANTS Devices,
          Objects,   \* sealed by the devices, in send order: snapshots first, chunks last
          Kind,      \* of each object
          Children,  \* what each names: no snapshot, not even those before a snapshot
          Size,      \* of each, sealed
          Parent,    \* of each snapshot: the one whose tree was edited, None for the first
          Author,    \* of each snapshot
          MaxFrame, MaxHeader, \* limits of a frame and of its header, in the units of Size
          Entry,     \* what a header needs for one object
          WantLimit, \* the most that one want names
          Scenarios, \* the `mode` of import, and bounds: `faults` and `collections`
          None

Names == Range(Objects)
Heads == {o \in Names : Kind[o] = "snapshot"}

ASSUME ObjectsAssumption ==
    /\ Objects \in Seq(Names) /\ IsInjective(Objects)
    /\ Kind \in [Names -> {"snapshot", "tree", "xattrs", "blob", "chunk"}]
    /\ Children \in [Names -> SUBSET (Names \ Heads)] /\ Size \in [Names -> Nat \ {0}]
    /\ Parent \in [Heads -> Heads \cup {None}] /\ Author \in [Heads -> Devices]
ASSUME LimitsAssumption ==
    /\ MaxFrame \in Nat /\ MaxHeader \in Nat /\ Entry \in Nat \ {0} /\ WantLimit \in Nat \ {0}
ASSUME ScenariosAssumption == Scenarios \subseteq
    [mode : {"strict", "primed", "partial"}, faults : Nat, collections : Nat]

VARIABLES scenario,
          disk,    \* the objects that each device's store holds
          refs,    \* the snapshots in its timelines
          tree,    \* the snapshot that its working tree is of
          ledger,  \* what it has recorded as published
          outbox,  \* the frames in its outbox
          inbox,   \* the files in its inbox
          torn,    \* those of them that were damaged on the way
          remote,  \* the objects of the store between the devices
          served,  \* the snapshots that were announced as published
          job,     \* the command that each device's caller is at
          spent

vars == <<scenario, disk, refs, tree, ledger, outbox, inbox, torn, remote, served, job, spent>>

Idle == [step |-> "idle"]
Spend(what) == spent[what] < scenario[what] /\ spent' = [spent EXCEPT ![what] = @ + 1]

\* The walk from a head: what it comes to when it opens the objects it holds.
Walk(head, held) ==
    LET walk[n \in 0..Len(Objects)] == IF n = 0 THEN {head}
            ELSE LET seen == walk[n - 1] IN seen \cup UNION {Children[o] : o \in seen \cap held}
    IN walk[Len(Objects)]

Reachable == [head \in Heads |-> Walk(head, Names)]
Below(head) == Reachable[head]

\* Mutant: a tree that is there is taken for complete.
MissingBelowHead(head, held) == Walk(head, held \cap Heads) \ held

\* What the walk does not find.
Missing(head, held) == Walk(head, held) \ held

Init ==
    /\ scenario \in Scenarios
    /\ LET first == {h \in Heads : Parent[h] = None} IN
       /\ refs = [d \in Devices |-> {h \in first : Author[h] = d}]
       /\ disk = [d \in Devices |-> UNION {Below(h) : h \in refs[d]}]
       /\ tree = [d \in Devices |-> IF refs[d] = {} THEN None ELSE CHOOSE h \in refs[d] : TRUE]
    /\ ledger = [d \in Devices |-> {}] /\ outbox = [d \in Devices |-> {}]
    /\ inbox = [d \in Devices |-> {}] /\ torn = [d \in Devices |-> {}]
    /\ remote = {} /\ served = {} /\ job = [d \in Devices |-> Idle]
    /\ spent = [faults |-> 0, collections |-> 0]

\* The next snapshot of a workspace, of the tree that was edited.
Seal(d, h) ==
    /\ job[d] = Idle /\ Author[h] = d /\ h \notin refs[d]
    /\ Parent[h] # None /\ tree[d] = Parent[h] /\ Parent[h] \in refs[d]
    /\ disk' = [disk EXCEPT ![d] = @ \cup Below(h)] /\ refs' = [refs EXCEPT ![d] = @ \cup {h}]
    /\ tree' = [tree EXCEPT ![d] = h]
    /\ UNCHANGED <<scenario, ledger, outbox, inbox, torn, remote, served, job, spent>>

\* A collection keeps what the timelines refer to.  It does not come into the
\* batch of an import, which has the catalog.
Collect(d) ==
    /\ Spend("collections") /\ job[d].step \notin {"pass", "commit"}
    /\ disk' = [disk EXCEPT ![d] = UNION {Below(h) : h \in refs[d]}]
    /\ UNCHANGED <<scenario, refs, tree, ledger, outbox, inbox, torn, remote, served, job>>

(***************************************************************************)
(* export and published.                                                   *)
(***************************************************************************)
Sum(S) == FoldSet(LAMBDA o, total : Size[o] + total, 0, S)

\* Whether a frame that is not empty has room for one more object.
Fits(frame, o) == frame = {} \/ Entry * (Cardinality(frame) + 1) + Sum(frame) + Size[o] <= MaxFrame

\* The objects, in send order, packed into frames.
Pack(objects) ==
    LET pack[n \in 0..Len(Objects)] == IF n = 0 THEN <<>>
            ELSE LET frames == pack[n - 1] o == Objects[n] IN
                 IF o \notin objects THEN frames
                 ELSE IF frames # <<>> /\ Fits(frames[Len(frames)], o)
                      THEN [frames EXCEPT ![Len(frames)] = @ \cup {o}]
                      ELSE Append(frames, {o})
    IN pack[Len(Objects)]

\* A header that the store would refuse.
TooLarge(frame) == Entry * Cardinality(frame) > MaxHeader

Unsent(d, h) == Below(h) \ ledger[d]

Export(d, h) ==
    /\ job[d] = Idle /\ h \in refs[d] /\ h \notin served /\ Missing(h, disk[d]) = {}
    /\ job' = [job EXCEPT ![d] = [step |-> "frames", head |-> h, frames |-> Pack(Unsent(d, h)),
                                  written |-> 0, sent |-> 0]]
    /\ UNCHANGED <<scenario, disk, refs, tree, ledger, outbox, inbox, torn, remote, served, spent>>

\* Mutant: what is written to the outbox is recorded as published.
WriteFrameRecorded(d) ==
    LET j == job[d] IN
    /\ j.step = "frames" /\ j.written < Len(j.frames)
    /\ outbox' = [outbox EXCEPT ![d] = @ \cup {j.frames[j.written + 1]}]
    /\ ledger' = [ledger EXCEPT ![d] = @ \cup j.frames[j.written + 1]]
    /\ job' = [job EXCEPT ![d].written = @ + 1]
    /\ UNCHANGED <<scenario, disk, refs, tree, inbox, torn, remote, served, spent>>

\* A frame into the outbox, or the end of the command.
WriteFrame(d) ==
    LET j == job[d] IN
    /\ j.step = "frames" /\ j.written < Len(j.frames)
    /\ IF TooLarge(j.frames[j.written + 1])
       THEN job' = [job EXCEPT ![d] = [step |-> "refused", head |-> j.head]] /\ UNCHANGED outbox
       ELSE /\ outbox' = [outbox EXCEPT ![d] = @ \cup {j.frames[j.written + 1]}]
            /\ job' = [job EXCEPT ![d].written = @ + 1]
    /\ UNCHANGED <<scenario, disk, refs, tree, ledger, inbox, torn, remote, served, spent>>

\* The caller has the report, and uploads the frames it names.
Upload(d) ==
    LET j == job[d] IN
    /\ j.step = "frames" /\ j.written = Len(j.frames) /\ j.sent < Len(j.frames)
    /\ j.frames[j.sent + 1] \in outbox[d]
    /\ remote' = remote \cup j.frames[j.sent + 1]
    /\ job' = [job EXCEPT ![d].sent = @ + 1]
    /\ UNCHANGED <<scenario, disk, refs, tree, ledger, outbox, inbox, torn, served, spent>>

\* The uploaded frames whose files are there.
Published(d) == {job[d].frames[i] : i \in 1..job[d].sent} \cap outbox[d]

RecordPublished(d) ==
    /\ job[d].step = "frames" /\ job[d].written = Len(job[d].frames) /\ Published(d) # {}
    /\ ledger' = [ledger EXCEPT ![d] = @ \cup UNION Published(d)]
    /\ job' = [job EXCEPT ![d].step = "recorded"]
    /\ UNCHANGED <<scenario, disk, refs, tree, outbox, inbox, torn, remote, served, spent>>

DeleteFrames(d) ==
    /\ job[d].step = "recorded"
    /\ outbox' = [outbox EXCEPT ![d] = @ \ Published(d)]
    /\ job' = [job EXCEPT ![d].step = "frames"]
    /\ UNCHANGED <<scenario, disk, refs, tree, ledger, inbox, torn, remote, served, spent>>

\* The caller tells the other devices of the head, or gives an export up.
Announce(d) ==
    LET j == job[d] IN
    /\ j.step \in {"frames", "refused"}
    /\ j.step = "frames" => j.sent = Len(j.frames) /\ Published(d) = {}
    /\ served' = IF j.step = "frames" THEN served \cup {j.head} ELSE served
    /\ job' = [job EXCEPT ![d] = Idle]
    /\ UNCHANGED <<scenario, disk, refs, tree, ledger, outbox, inbox, torn, remote, spent>>

(***************************************************************************)
(* want, import and materialize.                                           *)
(***************************************************************************)
BeginTake(d, h) ==
    /\ job[d] = Idle /\ h \in served \ refs[d]
    /\ job' = [job EXCEPT ![d] = [step |-> "want", head |-> h]]
    /\ UNCHANGED <<scenario, disk, refs, tree, ledger, outbox, inbox, torn, remote, served, spent>>

\* A want that is empty says that the head is complete.
Want(d) ==
    LET missing == Missing(job[d].head, disk[d]) IN
    /\ job[d].step = "want"
    /\ IF missing = {} THEN job' = [job EXCEPT ![d].step = "rewind"]
       ELSE \E want \in kSubset(Min({WantLimit, Cardinality(missing)}), missing) :
                job' = [job EXCEPT ![d] = [step |-> "fetch", head |-> @.head, want |-> want]]
    /\ UNCHANGED <<scenario, disk, refs, tree, ledger, outbox, inbox, torn, remote, served, spent>>

\* What the caller puts into the inbox: what was wanted, for a primed import
\* with all that the store has or with any other object of it, whether or not
\* what names that object has come, for a partial one a first part of it.
Delivered(d) ==
    CASE scenario.mode = "strict" -> {job[d].want}
      [] scenario.mode = "primed" -> {remote} \cup {job[d].want \cup {o} : o \in remote}
      [] scenario.mode = "partial" -> {{o} : o \in job[d].want}

Fetch(d) ==
    /\ job[d].step = "fetch"
    /\ \E files \in Delivered(d) :
           /\ inbox' = [inbox EXCEPT ![d] = @ \cup files]
           /\ \/ torn' = [torn EXCEPT ![d] = @ \ files] /\ UNCHANGED spent
              \/ \E o \in files : torn' = [torn EXCEPT ![d] = (@ \ files) \cup {o}] /\ Spend("faults")
    /\ job' = [job EXCEPT ![d] = [step |-> "list", head |-> @.head]]
    /\ UNCHANGED <<scenario, disk, refs, tree, ledger, outbox, remote, served>>

\* A file comes while an import is at work.
FetchMore(d) ==
    /\ job[d].step \in {"list", "pass", "commit", "delete", "settle"}
    /\ \E o \in (remote \cap Below(job[d].head)) \ (inbox[d] \cup disk[d]) :
           inbox' = [inbox EXCEPT ![d] = @ \cup {o}]
    /\ UNCHANGED <<scenario, disk, refs, tree, ledger, outbox, torn, remote, served, job, spent>>

ListInbox(d) ==
    /\ job[d].step = "list"
    /\ job' = [job EXCEPT ![d] = [step |-> "pass", head |-> @.head, listed |-> inbox[d],
                                  reported |-> {}, stored |-> {}, had |-> {}]]
    /\ UNCHANGED <<scenario, disk, refs, tree, ledger, outbox, inbox, torn, remote, served, spent>>

\* Of the files, those that the sealer does not open: the rid, the kind, the id
\* and the hash of the content all have to be the ones that were expected.
Damaged(d, files) == files \cap torn[d]

\* A pass stores what the walk newly found missing and the inbox had.  A file
\* that does not verify ends the import, which leaves the store as it was; the
\* caller throws it away.
Pass(d) ==
    LET j == job[d]
        wanted == Missing(j.head, disk[d] \cup j.stored) \ j.reported
        taken == wanted \cap j.listed IN
    /\ j.step = "pass"
    /\ IF Damaged(d, taken) # {}
       THEN /\ job' = [job EXCEPT ![d] = Idle] /\ UNCHANGED ledger
            /\ inbox' = [inbox EXCEPT ![d] = @ \ torn[d]] /\ torn' = [torn EXCEPT ![d] = {}]
       ELSE /\ ledger' = [ledger EXCEPT ![d] = @ \cup taken] /\ UNCHANGED <<inbox, torn>>
            /\ job' = [job EXCEPT ![d].step = IF taken = {} THEN "commit" ELSE @,
                                  ![d].reported = @ \cup wanted, ![d].stored = @ \cup taken]
    /\ UNCHANGED <<scenario, disk, refs, tree, outbox, remote, served, spent>>

\* The pack is flushed and the catalog commits; what the store has by then is
\* remembered, for TakenKept.
Commit(d) ==
    /\ job[d].step = "commit"
    /\ disk' = [disk EXCEPT ![d] = @ \cup job[d].stored]
    /\ job' = [job EXCEPT ![d].step = "delete", ![d].had = disk[d] \cup job[d].stored]
    /\ UNCHANGED <<scenario, refs, tree, ledger, outbox, inbox, torn, remote, served, spent>>

\* Mutant: the files that were listed are deleted.
ListedFiles(d) == job[d].listed

\* The files whose objects were stored.
StoredFiles(d) == job[d].stored

DeleteStored(d) ==
    /\ job[d].step = "delete"
    /\ inbox' = [inbox EXCEPT ![d] = @ \ StoredFiles(d)] /\ torn' = [torn EXCEPT ![d] = @ \ StoredFiles(d)]
    /\ job' = [job EXCEPT ![d].step = IF scenario.mode = "partial" THEN "want" ELSE "settle"]
    /\ UNCHANGED <<scenario, disk, refs, tree, ledger, outbox, remote, served, spent>>

\* What is left over: copies of what the head holds, and what it did not want,
\* which is an error unless the caller said there would be such files.
SettleLeftovers(d) ==
    LET held == Walk(job[d].head, disk[d]) \cap disk[d] IN
    /\ job[d].step = "settle"
    /\ IF scenario.mode = "strict" /\ ~(inbox[d] \subseteq held)
       THEN UNCHANGED <<inbox, torn>>
       ELSE inbox' = [inbox EXCEPT ![d] = {}] /\ torn' = [torn EXCEPT ![d] = {}]
    /\ job' = [job EXCEPT ![d].step = "want"]
    /\ UNCHANGED <<scenario, disk, refs, tree, ledger, outbox, remote, served, spent>>

\* materialize seals the tree and rewinds it to the head, which has to be
\* complete by then,
Rewind(d) ==
    /\ job[d].step = "rewind"
    /\ IF Missing(job[d].head, disk[d]) = {}
       THEN /\ tree' = [tree EXCEPT ![d] = job[d].head]
            /\ job' = [job EXCEPT ![d].step = "adopt"]
       ELSE job' = [job EXCEPT ![d] = Idle] /\ UNCHANGED tree
    /\ UNCHANGED <<scenario, disk, refs, ledger, outbox, inbox, torn, remote, served, spent>>

\* and only then has the head put into the timeline.
AdoptHead(d) ==
    /\ job[d].step = "adopt"
    /\ refs' = IF job[d].head \in disk[d] THEN [refs EXCEPT ![d] = @ \cup {job[d].head}] ELSE refs
    /\ job' = [job EXCEPT ![d] = Idle]
    /\ UNCHANGED <<scenario, disk, tree, ledger, outbox, inbox, torn, remote, served, spent>>

\* The device loses power, or a command is killed.  The outbox's directory was
\* not flushed.
Crash(d) ==
    /\ job[d] # Idle /\ Spend("faults") /\ job' = [job EXCEPT ![d] = Idle]
    /\ \E kept \in {{}, outbox[d]} : outbox' = [outbox EXCEPT ![d] = kept]
    /\ UNCHANGED <<scenario, disk, refs, tree, ledger, inbox, torn, remote, served>>

Exporting(d) ==
    WriteFrame(d) \/ Upload(d) \/ RecordPublished(d) \/ DeleteFrames(d) \/ Announce(d)

Taking(d) ==
    \/ Want(d) \/ Fetch(d) \/ ListInbox(d) \/ Pass(d) \/ Commit(d) \/ DeleteStored(d)
    \/ SettleLeftovers(d) \/ Rewind(d) \/ AdoptHead(d)

Next == \E d \in Devices :
    \/ Exporting(d) \/ Taking(d) \/ FetchMore(d) \/ Collect(d) \/ Crash(d)
    \/ \E h \in Heads : Seal(d, h) \/ Export(d, h) \/ BeginTake(d, h)

\* A caller goes on with what it began, and begins again what it did not end.
Fairness == \A d \in Devices :
    WF_vars(Exporting(d) \/ Taking(d)) /\ SF_vars(\E h \in Heads : BeginTake(d, h))

Spec == Init /\ [][Next]_vars /\ Fairness

(***************************************************************************)
(* Properties.                                                             *)
(***************************************************************************)
\* A head that was announced can be taken from the store alone, whatever was
\* killed while it, or an earlier one, was exported or imported.
HeadServed == \A h \in served : Below(h) \subseteq remote

\* The files that a primed import clears away although they may be of its head:
\* those that came after the inbox was listed, and those whose parents the store
\* did not have when the passes had ended.  They have to be fetched again.
Cleared(d) ==
    IF scenario.mode = "primed" /\ job[d].step = "settle"
    THEN inbox[d] \ (job[d].listed \cap Walk(job[d].head, job[d].had)) ELSE {}

\* A file of the head that is taken leaves the inbox when it is damaged, or when
\* its object is in the store or was when the import committed.  A primed import
\* alone deletes others, none that its passes could have stored; a strict or a
\* partial one never (Import::run, settle_leftovers).
TakenKept == [][\A d \in Devices : \A o \in inbox[d] \ inbox'[d] :
    \/ o \in disk'[d] \/ o \in torn[d] \/ o \notin Below(job[d].head)
    \/ job[d].step \in {"delete", "settle"} /\ o \in job[d].had
    \/ o \in Cleared(d)]_vars

\* Whatever a collection took away and whatever was killed, a device that keeps
\* asking has in the end every head that was announced in its timeline, and all
\* of it in its store.
Taken == \A h \in Heads : h \in served ~>
    \A d \in Devices : h \in refs[d] /\ Below(h) \subseteq disk[d]

\* The export of a head that the store holds ends with its frames.
Exported == \A d \in Devices : job[d].step # "refused"
=============================================================================
