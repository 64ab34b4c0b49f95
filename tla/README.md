# furrow in TLA+

furrow captures the state of a working tree into an object store shared by commands, agents and
a daemon, keeps a timeline of snapshots under a retention policy, can rewind the tree, forks and
merges it, and moves it between machines. This directory models the parts of it whose correctness
depends on the order of steps: what reaches the disk when, which process or machine does what in
between, and what a crash, a lost answer or a late event leaves.

## The system

Paths are under `furrow-core/src`, `furrow-daemon/src` and `furrow-cli/src`.

| Part | State | Operations | What makes it hard |
|---|---|---|---|
| Object store (`store.rs`) | pack files, `packs/CURRENT`, `group-commit.json`, per process: open batch, unsynced run, known pack length | put, batched, publish, open and recover, sync | several processes, kills inside a record, power losses that keep any unflushed part |
| Reference log (`refs.rs`) | `workspaces/*/refs.log`, hash chained, and its index | append, read, repair the suffix | torn frames; the durable boundary recorded by the group commit |
| Catalog (`catalog.rs`) | object rows, pack checkpoint, stat cache, directory cache | batch, lookup, swap by a collection | commits that are not flushed, rows that outlive what they describe |
| Garbage collection (`gc.rs`) | marks, a pack of a new generation | mark, compact, swap, activate, remove | concurrent captures, pins and rewinds; crashes between two generations |
| Retention (`retention.rs`) | `retention.log`: ranges of retained sequence numbers, pins | plan, apply, pin, unpin, count, list | dates in any order, age boundaries, long sequences of plans, appends killed half way |
| Rewind (`repository.rs`, `durability.rs`) | `restore.intent`, `mutation.lock` | plan, safety capture, apply, verify, roll back, recover | a kill at any point, edits at any point, a collection in between |
| Capture (`repository.rs`, `tree.rs`, `change_tracking.rs`, `path_index.rs`, `capture_plan.rs`, `policy.rs`) | pages of a tree, path index and its head token, tracker queue, plans | full and changed-path capture, plans | hints that lag behind edits; other processes that seal |
| Background capture (`watcher.rs`, `self_write.rs`) | pending events, baselines of a pull's writes | rounds, filtering | telling one's own writes from a person's |
| Daemon (`router.rs`, `handle.rs`, `server.rs`) | queue, writer and flusher thread per store, dirty flag, active syncs | submit, sync, seal, tick, shutdown | deadlines, failed flushes, threads that wait for each other |
| Merge (`merge.rs`) | three trees, a plan | plan, apply | shortcuts over pages, files that become directories |
| Sync (`sync.rs`, `remote.rs`, `s3_remote.rs`, `remote_crypto.rs`) | remote head and lease, `sync/state.json`, `sync/incoming.json` | push, pull, follow, takeover | two machines, lost answers, crashes between the head and the tree |
| Exchange (`exchange/`, `sealer.rs`) | frames, inbox, publication ledger | export, published, want, import, materialize | repeated, partial and late transfers |
| Radar and claims (`radar.rs`, `claims.rs`) | observed heads, dirty scopes, conflicts, event log; claims that expire | scan, follow; claim, release | skipped heads, several scanners, a bounded log |
| Forks and coordination (`fork.rs`, `universe.rs`, `coord.rs`) | fork records; shared files, tombstones | fork, remove; write, remove, reconcile | a source that is edited, names used again, siblings that are away |
| Bisect (`repository.rs`) | a scratch copy | search | snapshots under different rules |
| Budgets (`budget.rs`, `estimate.rs`, `shrink.rs`), bundles and archives | limits; copies | enforce; copy | calls the collector from a capture |
| Views (`furrow-cli`, `mcp.rs`, `ui.rs`) | none of their own | | |

They meet in files: every process opens the same store, and `locks/` orders them. The
maintenance lock is shared by captures and exclusive for a collection; the catalog's write
transaction admits one batch at a time; `group.lock` admits one group commit; `mutation.lock`
one rewind, merge or pull of a workspace; the family lock one coordination command. `PROJECT.json`
lists what is modelled of each part ("components") and, under "hazards", the places where an order
of steps nobody tested could go wrong, with the properties that watch them.

## Modules

**ObjectStore** is the store with one pack and one reference log. A record or frame is a whole
object, torn (`Torn`, a short read) or damaged (`Garbage`); its index in the file stands for the
byte offset. `packSynced` and `refsSynced` say how much has been flushed. A capture is
`BeginCapture`, `PutAppend`/`PutKnown` for the blob and the snapshot (`PutRecover` when the
pack's length is not the one this process knows), `CommitBatch` or `Rollback`, `Publish`;
`deferred` is the daemon's kind, which flushes nothing. The six `Group...` actions are the steps of
`GroupCommit::sync_locked` in its order. `Open...`, `RepairRefs` and `Attach` are what
`ObjectStore::open` and the attachment of a workspace repair; `VerifyIndex` builds the index
anew from the pack, for `furrow verify` or for a read that failed (`heal_index`). `Kill` and
`KillInPublish` stop a process between two writes. `PowerLoss` comes at any time, also between the write and the flush of
a reference; it keeps the flushed prefix of each file, any part of the rest, each record of it
possibly damaged, one of the catalog states that were committed since the last checkpoint, and one
of the versions of `group-commit.json` since the directory was last flushed; `fallen` is the catalog
state that the last power loss left, for as long as it is not checkpointed. `acked`, `opened` and
`refused` are history variables.

**PackGeneration** is a collection among the other users of the store. A pack is the set
of its objects; a snapshot lists files, each a blob (the list of chunks) and a chunk (the bytes). A
collection is `GcMark`, `GcWrite`, `GcSwap`, `GcRename`, `GcSyncDir`, `GcRemove`, `GcFinish`;
captures, pins, rewinds (`RewindPlan` to `RewindRollback`, `RecoverRewind` at an open), edits,
kills and power losses go on around it as far as the locks allow. `Plans` takes any set of snapshots
a policy could keep, thinned ones included, so this module does not depend on the dates. The root that
`sync/incoming.json` adds to the marks (`gc.rs:268`) is in Sync, whose `Roots` has it.

**Retention** is the policy that chooses it: `plan_state` over dates that can come in any order,
with pins, plans that end half way, and `retention.log`, whose last frame an append that is killed
leaves `torn`; `AppendState` behind such a frame would bury it. **RetentionTimeline** adds the two
computations that read the state without the snapshots, `retained_count` and the heap of
`recent_sequences`, and compares them with the obvious definitions.

**Daemon** is `router.rs`: sessions, the queue and the thread of a writer, its flusher, syncs that
flush on their own session's thread, and shutdown. A flush makes durable what was written when it
started; ObjectStore says why that is right.

**AtomicRestore** says what a rewind or a merge promises to whoever works in the tree: it happens
at once or not at all, and overwrites nothing that no snapshot holds. **Restore** is how the code
does it: `RewindBegin` or `MergeBegin`, the safety capture, `restore.intent`, the files one by one,
the flush, verification, and on failure `Rescue`, `UndoPlan` and the way back; `Recover...` at an
open. A power loss can tear every file that was written and not flushed (`volatile`). The
refinement mapping shows the state before the restore for files it has replaced until the intent
is gone (`SeenTree`).

**TreePages** is the stored form of a directory, `tree.rs`, with its page sizes. **Merge** is
`plan_trees` over it, with the shortcuts for equal pages, next to the flat planner on whole trees,
and the application of a plan; a universe and its source change apart and are merged again and
again.

**Sync** is one workspace on several machines and a remote. A push is `PushCheck`, `PushUpload`
object by object, `PushHead`, `PushEnd`; a pull streams: `PullArm` writes `restore.intent`,
`PullWrite` files while objects still come, `PullFinish`, `PullIncoming`, `PullPublish`,
`PullDisarm`, `PullSettle`, `PullClear`; `Follow...` chooses between them. A content is the number
of the edit that made it, and `past` records upon which contents each edit was made: that is how
the properties tell an edit from a loss.

**Tracking** is how a change gets into the head when nobody walks the tree: the daemon's tracker
with its event queue and fence, the path index and the token that says of which head it is, capture
plans, and `furrow watch` with the baselines that hide a pull's own writes.

**Radar** is the scan of the universes, transaction by transaction, its conflicts and events, and
the claims. **Family** is the life of a fork (prepare, copy or clone, verify, record, remove) and
the coordination files of a family. **Exchange** is the transfer of sealed frames: the engine's
commands and a caller outside of it that carries the files and repeats what was killed.
**Bisect** is the search with its scratch copy.

`MC*.tla` extend a module with the instance TLC uses: symmetry sets, and for some modules
`Scenarios`, several small combinations of bounds of which each behaviour takes one, so that a run
need not pay for all bounds at once. The `.cfg` files give the constants.

### Orders of steps the code has no defence against

Some orders of steps break what the code promises. The models contain them: no action has a guard
against them. A history variable, on which nothing but itself depends, notes that one has happened, and
to what, and the property excepts exactly that. So each property says two things: what the code
keeps, and that the orders named are the only ways to break it. The same formula without
the exception is violated; where a configuration shows it, the table names it (`V*.cfg`, to be run
with the MC module of its family; it lets only that one order happen). The others were seen
in the same way, with the constraint changed.

| History variable | Module | What happened | Excepted in; broken without the exception |
|---|---|---|---|
| `races`: `kill` | ObjectStore | a writer is killed inside a record while another process is between recovering the pack and noting its length (`store.rs:353`) | all; DurableIntact, `VKill.cfg` |
| `races`: `publish` | ObjectStore | a deferred capture begins between a synchronous one's flush and its reference (`store.rs:1241`) | all but FrontierPacks; DurableIntact, `VPublish.cfg` |
| `races`: `count` | ObjectStore | a group commit counts a torn reference frame (`refs.rs:306`) | all but FrontierPacks; NotRefused, `VTornRef.cfg` |
| `races`: `rename` | ObjectStore | a capture defers upon a first `group-commit.json` that is not flushed (`store.rs:1006`) | all; AllReadable |
| `races`: `undone` | ObjectStore | a second power loss takes the catalog back to the state the first one left, from before its recovery | all but FrontierPacks; DurableIntact, with 1 process, 2 contents, 3 captures, 2 power losses |
| `races`: `swap` | PackGeneration | a power loss undoes the catalog swap after CURRENT was flushed (`gc.rs:435`, `catalog.rs:565`) | all; AllReadable, `VSwap.cfg` |
| `races`: `cached` | PackGeneration | a collection drops the bytes of a file that its stat row still answers for (`catalog.rs:547`) | all; HeadPinsHold, `VCached.cfg` |
| `races`: `current` | PackGeneration | a capture goes to the new pack while the rename of CURRENT, left by a killed collection, is not flushed | all; PacksHoldAll |
| `races`: `resurrect` | PackGeneration | a plan retains a snapshot that was thinned (`retention.rs:269`) | all; AllReadable, and RetainedStored of Retention, `VRetention.cfg` |
| `races`: `midnight` | PackGeneration | a day passes between the capture of a rewind and its intent | all; PreHolds |
| `exposed` | Restore | paths edited between the last look and the replacement, or between a crash and the open that recovers, or not sealed when a restore was cut off or its rescue failed (`repository.rs:3287-3308`) | Atomic |
| `overwritten` | Restore | a rewind or merge writes `restore.intent` over that of a killed process (`repository.rs:3262`) | Atomic, NothingTorn |
| `exposed` | Sync | contents written or unsaved at such moments of a pull | LocalKept |
| `races`: `publish` | Sync | a crash, the only fault, after the pulled head is published and before the intent is removed (`repository.rs:1505`) | RemoteKept |
| `races`: `finish` | Sync | the end of a streamed pull fails and leaves the intent (`repository.rs:1488`) | RemoteKept; with `MaxEvents = 2` |
| `races`: `seal` | Sync | another command captures a half-pulled tree, and the pull then fails | RemoteKept; with `MaxEvents = 3` |
| `races`: `pointer` | Sync | an SSH remote loses power with pointers that were not flushed (`remote.rs:1003`) | Complete, its clause about the remote; with the transport `"ssh"` |
| `missed` | Tracking | files edited between a pull's write and its end, or to what the pull left before (`self_write.rs:131`), or of a capture of `furrow watch` that failed (`watcher.rs:54`) | Protected; ProtectedAlways, `VStaleBaseline.cfg` |
| `unsure` | Radar | paths below a file that became a directory, or the reverse, and went back (`radar.rs:452`); all paths of a row that changed between a scan's read and its transaction (`radar.rs:188`) | Flagged; FlaggedAlways, `VRadar.cfg` |
| `restored` | Radar | a release fails after another agent has claimed the path, and the claim is put back (`repository.rs:1083`) | Exclusive |
| `races`: `nested`, `full` | Family | a coordination key above or below another (`coord.rs:243`); more files than a reconcile reads (`coord.rs:342`) | Openable |
| `loose` | Family | bases that retention thinned out of the source's timeline, or that never were in it because the fork is of another fork's snapshot (`gc.rs:216`) | BaseHeld |
| `reused` | Family | destinations forked to while an old record names them (`repository.rs:5837`) | OwnRemoval, ForkedExactly |
| `edited` | Family | files edited in a fork since it was put there, which is no fault | ForkedExactly |

In Merge the exception is in the data: a changed name that sorts between a removed directory and its
contents (`d-x` beside `d/s`; `Masked`) hides the conflict of that directory from
`delta_has_descendant` (`merge.rs:376`). MergeExact says that nothing else is overlooked and that only
what is in that directory is wrong; `VMerkle.cfg` shows ConflictsReported violated. In Exchange
a primed import deletes files of the head it has no parent for (`settle_leftovers`), which is
what it is for; TakenKept is about those its passes came to. Two more configurations change the
data: `VLongNames.cfg` has names of 255 bytes (`write` in `tree.rs` does not end; Storable),
`VFrames.cfg` a frame whose header is full before the frame is (Exported).

## Runs

| Run | Instance | What it shows |
|---|---|---|
| `store` | 2 processes, 1 content, 2 captures, 1 kill, 1 torn frame, 1 power loss; after the first of these, one process at a time | until a race: the frontier tells the truth about packs and references; durable captures survive; published ones can be read; a store can be opened again; no step but a power loss drops a reference |
| `gc` | 2 processes, 3 captures, 1 collection; or 1 process, 2 captures, 2 collections, 1 kill, 1 power loss; 1 file of a class that expires | until a race: retained snapshots, head, pins and the target of a rollback survive in any interleaving; whatever generation is current, the catalog can be rebuilt from it |
| `retention` | 3 snapshots, windows of 2, 4 and 8 clock units, clock to 12, dates up to 1 ahead | the promise of the policy, the readability of its log, counts and lists |
| `daemon` | 2 requests of any kind, 1 store, 2 failures | deadlines, durability of what is reported durable, and of groups, shutdown, and that all of them end |
| `restore` | 2 processes, 2 files, 2 contents, 1 kill or power loss; 2 edits and 1 restore, or 1 edit and 2 restores | Restore implements AtomicRestore, with edits and failures at any step; no torn file is left |
| `merge` | `d`, `d-x`, `d/s`, `d/s/x`, each absent, a file of 2 contents or a directory; pages of one or two entries; 3 edits, 2 merges | a merge is what the trees say, path by path, but for a masked directory; pages can be read back |
| `sync` | 2 machines, 2 files, 2 edits, directory or S3 remote, 1 command, collection or fault besides following | the remote's head can be pulled; no push takes back another's but after three ways for a pull to end, no pull an unsaved edit that anything could have seen; the machines settle |
| `tracking` | 2 files, 2 sets of rules; daemon, `watch` or a pull, up to 2 edits, 3 seals, 2 faults | tracked captures miss nothing, planned ones publish nothing unscreened, `watch` catches up with all but the files in `missed` |
| `radar` | 2 or 3 universes, 3 nested paths, up to 10 trees; 1 or 2 scanners, up to 3 seals, 3 claims, 1 fault; a log of 2 events | conflicts are complete and precise but for the paths in `unsure`, a follower is told, claims exclude each other but for a restored one |
| `family` | 2 destinations, 2 names, 2 files, 3 keys of which two are nested, at most 1 coordination file read; eight scenarios of forks, edits, coordination, removals and kills | forks are copies of their base, bases in a timeline stay, coordination reads the latest, opens succeed and removals hit their own fork, with the exceptions above |
| `exchange` | 2 devices, 2 heads that share a blob and a chunk, each mode of import (a primed one is given all of the store, or what it wants and one object more), 1 kill or torn file, 1 collection | announced heads are complete and are taken in the end; no file that an import came to is dropped unstored |
| `bisect_rules` | 2 contents, 5 snapshots | a violation: see "findings" |

`MCObjectStore.cfg`, `MCPackGeneration.cfg` and `MCRestore.cfg` end a behaviour at the first race, or
when an intent is written over (`CONSTRAINT Unraced`, `IntentKept`): the properties of these runs say
nothing of what comes after, but for FrontierPacks, which the theorem covers there.
The other runs go on. In `MCSync.cfg` the first edit is one of a given path on a given machine
(`ACTION_CONSTRAINT FirstEdit`): machines and paths are interchangeable, so every behaviour is one of these
with the names changed, and edits, which it restricts, carry no fairness, so it is sound for `Settles` too.

Why the bounds are enough. In the store, an order that loses data needs one capture that is to
survive, one that disturbs it, and one crash; two processes and two captures, of the same
content so that the second can reuse the first's objects, give all of these. The constraint
`OneAtATimeAfterFault` keeps the run within minutes: processes overlap up to and through the first
kill or power loss, and from then on one has the store open at a time (the survivor of a kill goes on
first). Without that line of `MCObjectStore.cfg` the same instance has 3.5 million states,
which TLC checks in three times as long with the same result; and the theorems below have neither
bound. A collection needs a snapshot that is thinned, one that is kept and one made meanwhile; a second collection is needed
where the first one's leftovers matter. The retention instance has every bucket width and every
boundary between two windows within the clock's range, and three snapshots are enough for a bucket
with a newest, an older and a pinned member. Two requests are enough for one that waits behind
another in the queue and one that is covered by the other's sync; writers of different stores share
nothing but the order in which shutdown joins them. A restore needs one file it writes and one it
has still to write when it is stopped, and a second restore, of the other process, that meets what
the first left; the constraint `Together` of `MCRestore.cfg` spends two edits on one restore or one edit on two. A merge needs a directory within a directory for what a shortcut may hide, a name that sorts between one and its contents, and a
second merge for a universe that was merged before; the page limit is small enough that an edit moves entries
between pages. Two machines with an edit each diverge, race and settle; one fault at every step of a
push or pull is what the code's recovery is for (and one is enough for the race `publish`, where that
recovery breaks RemoteKept). In
Radar the three nested paths are a scope, what is inside it and what it is inside of, and a log
of two events overflows within one scan; a third universe can share a path with one of two that are in conflict
further up (`radar_next` keeps the topmost path only, so the pair is then in no conflict by name). Two forks and two names are enough for one that is used
again while the other is removed.

Deadlock is not checked: captures, kills, collections and requests are bounded, so every behaviour
stops when its bounds are used up, and a daemon that has shut down does nothing.

### Fairness

- Daemon: each session, writer, flusher and the thread in `close_durable` is weakly fair: they are
  threads of the operating system whose every wait has a deadline (`recv_timeout`, the 30 seconds of
  a request) or is for a thread that is fair itself, and the flusher ticks every 250 ms. Nothing is
  assumed of clients (`Submit`), of the passing of deadlines (`Expire`) or of shutdown (`Close`).
  Failures are bounded: a device that fails for ever never makes a capture durable.
- Sync: on each machine a follow command loops (`Step`), a sealer captures what changed (`Seal`) and
  a machine that went down is started again (`Open`). Edits, other commands and faults are bounded and not fair.
- Tracking: the thread that drains events, the rounds of `furrow watch`, its captures and a pull that
  was begun go on. Nothing is assumed of people, of the daemon's clients or of other commands.
- Exchange: a device goes on with the command it runs (weak), and a caller that keeps wanting a head
  starts to take it again and again although other commands come between (strong). This is what
  the engine asks of its caller; kills, torn files and collections are bounded.

## Proofs

Eight modules hold theorems. Each is for any value of the constants that its model assumes: any
number of processes, files, contents, requests, devices, kills and power losses, where the runs
have two or three, and of the whole specification, without a hypothesis: the exceptions are in the
properties, by the history variables of the table above. Every invariant was checked with TLC on a run's instance
before it was proved. The proofs have one lemma per action, and under it one step per part that the
action touches.

| Theorem | States | But for |
|---|---|---|
| ObjectStoreProofs: `TypeCorrect` | TypeOK | |
| `FrontierPromise`, `RecoveryNeverGivesUp` | FrontierPacks; the scan of a pack at an open never ends inside the durable prefix, so the error "durable object pack prefix was lost" cannot occur | `kill`, `rename` |
| `FrontierIsComplete`, `DurableCapturesAreKept`, `PublishedIsComplete`, `OpenIsNeverRefused`, `PublishedReferencesStay` | FrontierRefs, DurableCapturesSurvive, PublishedComplete, OpenNeverRefused, PublishedStays | the five races |
| DaemonProofs: `BusyIsNeverRun`, `DurableIsDurable` | BusyNeverRuns, DurableAsTold | |
| RestoreProofs: `NothingIsTorn` | NothingTorn | `overwritten` |
| `RestoreIsAtomic` | Atomic: Restore implements AtomicRestore | `exposed` paths; `overwritten` |
| PackGenerationProofs: `CatalogRebuildable`, `RetainedStaysReadable`, `HeadAndPinsStayExact`, `IntentStaysRestorable` | Rebuildable, RetainedReadable, HeadAndPinsExact, IntentRestorable | the five races |
| SyncProofs: `TypeCorrect` | TypeOK | |
| `CompleteAlways` | Complete | `pointer` |
| `LocalIsKept` | LocalKept | `exposed` contents |
| `RemoteIsKept` | RemoteKept | `publish`, `finish`, `seal` |
| ExchangeProofs: `AnnouncedIsServed`, `NothingTakenIsLost`, `AdoptedIsComplete` | HeadServed, TakenKept; a head in a timeline is complete in the store (`TimelineComplete`) | |
| RetentionProofs: `StateIsReadable`, `PromiseIsKept` | StateReadable, PromisedKept | |
| FamilyProofs: `ForkIsExact` | ForkedExactly | `reused`, `edited` |
| `BaseIsHeld` | BaseHeld | `loose` bases |
| `RemovalIsItsOwn` | OwnRemoval | `reused` destinations |
| `ReadsAreCoordinated` | Coordinated | |
| `EveryWorkspaceOpens` | Openable | `nested`, `full` |

**The store.** `FrontierPacks` is not inductive: that a group commit records a length below which
all is flushed and whole depends on where that length comes from. `PackInv` adds it: until the first
frontier is durable, the checkpoint of every catalog state a power loss can return to covers only
what is flushed and whole (`CommitsSafe`); while a process has the store open the rows lie in a
whole prefix (`RowsClean`); a process that has just recovered the pack has left it whole
(`RepairClean`); what the running group commit has sampled is whole and, past its flush, flushed
(`GroupClean`); and each process's transaction, run and known length lie in a whole prefix
(`ProcInv`).

The references need more, `RefInv`, on top of it. Of the pack: a snapshot lies behind its blob
(`Ordered`), no record is numbered beyond the captures (`Numbered`), and once the pack is recovered
only its last record can be damaged (`TailTorn`). Of every catalog state that a power loss can
bring back (`CommitsInv`): its stat rows name blobs that have object rows (`Cached`), its rows name
what the pack has there, or else something beyond the end or damaged (`Weak`; `Firm`, without that
exception, for all but the state the last power loss left), and below its checkpoint no published snapshot is
without a row (`Counted`). These three are what makes it safe to go back to an old catalog: the
scan mends what lies above the checkpoint, the rows below it are right. Of the current catalog:
what is published and whole can be found in it (`FoundInv`), and in the transaction of a capture
(`BatchInv`; `OneBatch` is the write lock). Of the log: once it was repaired everything it names is
whole (`MendedInv`), and as long as nobody may defer, flushed (`SolidInv`); what was reported
durable is flushed with all it needs (`AckedInv`); what a group commit has counted lies below the
pack length that it sampled afterwards (`GroupRefs`: here the order of its first two steps matters).

**The daemon.** A request's job state, its place in an inbox and its answer agree (`JobsInv`,
`QueueInv`, `WriterInv`); what a sync has to cover is over when it takes its sample (`SyncInv`); and
what is published and not durable is covered by the dirty flag, by a flush that is under way or by
the job whose writer has not replied (`CoverInv`). `ThreadsInv` has the order in which shutdown
takes the threads down, so that the last flush comes after the last job.

**Restores.** `BaseInv` ties the intent on disk to the place the restore has come to, says that a
file that is not flushed belongs to it, and that a torn file can be seen by nobody but a recovery
that has it on its list. `AtomInv` adds that each path can be put back without losing what no
snapshot holds and is not exposed (`Safe`). The refinement is proved step by step: `SeenTree` of each
step is a step of AtomicRestore or stutters.

**Collections.** One invariant, `GInv`, carries all four properties. `Locks` is what the maintenance
and the mutation lock keep apart, and `ProcsOK` what a capture or a rewind has made sure of at the
place it has come to: it has a row for every object of the snapshot it publishes, and the snapshot
before a rewind is of today until the intent names it. `LogOK` is why a plan takes none of the
snapshots in use: those of today, the head and the newest of the older ones are retained
without a pin, so a later plan that keeps them resurrects nothing. `StoreOK` says what may be read in any
state a power loss brings back: every CURRENT it may leave names a pack that is there and holds what
the one in use holds (`CurrentOK`); the rows of every committed catalog name packs that hold their object
(`RowsOK`); a stat row without object rows is of a file that a capture reads again, or whose objects
are in the pack in use (`CacheOK`, on which the reuse of unchanged files rests); and once a process has
the store open nothing that matters lacks a row (`OpenOK`). `GcOK` follows a collection: what it
has marked contains all that is needed although captures, pins and rewinds went on before, and from the swap on
the rows name the new pack alone. The removal of the old pack is safe because CURRENT
was flushed before (`currents` has one member by then).

**Sync.** `BInv` holds whatever races have happened: a command has read what its stage needs, the lock is
held by the machine that pushes, all but the working trees hold sealed contents, a collection leaves
what a pull or a rollback will read. With it, `Complete` needs only that the remote's head is written
after its objects (`Whole`), and `LocalKept` that while a pull writes, each planned file is the
captured one or the pulled one (`WInv`).

`RemoteKept` is the property that needs history. `past` has, for every content, those it was
edited upon, and `HInv` relates the trees of all machines and of the remote in that order. Content that a machine
has written and nobody has published is *private* to it; every tree of a machine differs from the ones
below by private content only (`Grown`). The remote's head lies above whatever any machine has
read of it or reconciled with (`Ascending`), and where a push may still replace it, it is the one that
push was checked against (`Replacing`); the local root a push carries lies above that one, so the head
only moves up. A head that a rollback took back behind the reconciled root is the hard case: it
holds private content (`Stray`), therefore equals neither the remote's root nor its base, and
no pull fast-forwards from it (`ForwardGood`).

**The exchange.** Two recursive functions carry the argument, and what they compute is proved for
all inputs: `Pack` puts every object it is given into a frame, and a walk that misses nothing has
seen all below its head. The induction is by a least counterexample in the order of `Objects`
(`WFMin`), since the library's induction rules take an operator. The invariant says that what is in
the ledger and what an export has counted as sent was uploaded, and that an import has stored, of
what it reported missing, all that it had listed; `had` is what the store held when
an import committed, and `PassedInv` says that of what its passes listed nothing was missing below the head then.

**Retention.** `PromisedKept` is not inductive: a snapshot that is promised may be retained by its
pin alone as far as the property knows, and lose it. The invariant has it that what is due is listed
without its pin (`DueKept`), that pins are stored, and that no plan reaches beyond the log. A plan
keeps what is due because the newest of a stretch is the newest of every narrower stretch in it
(`WiderStretch`, where it matters that a day is whole hours and a week whole days), and the ranges it
writes cover what it keeps and are apart (`RangesCover`, by a least element on each side).

**The family.** `ForkInv` says in which states of a fork or a removal a directory is there and
whose it is, and that the snapshots it names were sealed; `RowsInv` that a base stays in the source's
timeline unless it is loose; `MarkInv` that a record names the directory that carries its mark, unless
the destination was reused. `TreeInv` follows the files of a fork from the copy to the record: what
was verified, cloned or restored is the base's, and from the rename on only an edit in the fork changes it.
`CoordInv` is about the coordination files: a command that changes them has the family lock and is
the latest of its key, and what a command has reconciled is not older than what was acknowledged when
it began, also where keys are nested and commands were refused. `OpenInv` holds until a race: no
key that was used lies above another, so every write and removal is possible, and the files are not too many.

The assumptions on constants are few: bounds are numbers, `None`, damaged records and the like are
no values of another kind (`NoneIsApart` in PackGeneration and Sync), `Contents` is not empty, and in Exchange `Objects` lists every object
once and no object has a snapshot for a child. TLC evaluates all of them on the runs' instances.

What the proofs corrected. `PublishedComplete` and `DurableCapturesSurvive` could not be proved
over two power losses: a catalog state left by the first, which recovery has mended since, can come
back with the second, beside new records (race `undone`; one power loss, as in the run, cannot show
it). The rebuilding of the index was missing from the model (`VerifyIndex`).
`TakenKept` did not allow that a collection takes an object between its commit and the deletion
of its file.

Only model-checked:

- liveness, which is out of the prover's reach: `Settles` of Sync, `Taken` of Exchange, `Answered`,
  `GroupDurability` and `ShutdownEnds` of Daemon, and `Protected` of Tracking;
- `TimelineExact`, `MergeExact`, `ConflictsReported` and `PagesExact`: RetentionTimeline, Merge and
  TreePages compute by recursive operators over data, as the code does, and these properties say what
  that recursion returns;
- Tracking and Radar, whose safety properties have no proof yet. `Told` of Radar speaks of a log that is
  cut while it is read and `Flagged` of what several scans leave together, so their invariants
  would have to keep what every scan has read; `Exclusive`, `TrackedComplete`
  and `ScreenedOnly` are the next to prove.

## Not modelled

Bytes: record headers, hashes, chunk boundaries, encryption, frame and wire formats. A damaged
record is assumed to be detected by its checksum. SQLite is a sequence of committed states of which
a power loss may return any since the last checkpoint. The filesystem is assumed to keep what `fsync`
confirmed and to rename atomically. Hard links, modes and times are part of a file's content.

- `merge_snapshot` looks for a base in the timeline and then merges as Merge does.
- Archives (`archive.rs`) require their caller to keep every writer away; bundles (`bundle.rs`) are
  used by tests only.
- Budgets, estimates and shrinking are thresholds over sizes.
- Overlays, SQLite backups, platform layers and name tables are calls of the system; views and the
  MCP server present what the modelled operations return; matching of patterns against paths is
  pure text.
- The removal of capture plans after ten minutes and the spill files of a collection change
  what is on disk and nothing the properties speak of.

## Plan

1. Done: the modules above.
2. Done: the proofs of ObjectStore, PackGeneration, Daemon, Restore, Retention, Sync, Exchange and
   Family.
3. Proofs next: `Exclusive` of Radar and `TrackedComplete` of Tracking.
4. Then the locks of `refs.rs:320` and the budget's collection (`store.rs:1103`), the two hazards
   that need lock waits as steps of their own.
