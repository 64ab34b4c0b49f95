------------------------------- MODULE Daemon -------------------------------
(***************************************************************************)
(* The daemon's threads: router.rs, with handle.rs and the shutdown of     *)
(* server.rs.                                                              *)
(*                                                                         *)
(* A session thread submits its request to the writer thread of a store    *)
(* and waits for the answer, at most until the request's deadline.  The    *)
(* writer runs its queue in order.  A seal is written without a flush; the *)
(* store's flusher thread makes what is pending durable at its next tick.  *)
(* A sync passes through the queue as a barrier and flushes on its own     *)
(* session's thread.  Shutdown closes the router, waits for the syncs and  *)
(* joins the writers one after the other.                                  *)
(*                                                                         *)
(* What a flush does on disk is the subject of ObjectStore: here it makes  *)
(* durable what was written when it started.  Verbs that only read pass    *)
(* through the queue like a barrier and are left out.                      *)
(***************************************************************************)
EXTENDS Naturals, Sequences, FiniteSets

CONSTANTS
    Requests,       \* requests, each of a session of its own
    Stores,
    Nobody,         \* no request
    MaxFailures     \* bound: flushes and captures that fail

ASSUME DaemonBounds == MaxFailures \in Nat /\ Nobody \notin Requests

VARIABLES
    session,    \* request -> where its session thread is, what it asked, and the result
    jobState,   \* request -> the atomic state of its job
    answers,    \* request -> what is in its reply channel
    late,       \* requests whose deadline has passed
    queue,      \* store -> the writer's inbox
    writer,     \* store -> the writer thread and the job it runs
    flusher,    \* store -> the flusher thread, what its flush covers, and whether a
                \* checkpoint of the indexes was asked for
    dirty,      \* store -> the flag the writer sets and the flusher takes
    error,      \* store -> the last flush failed
    written,    \* store -> requests whose snapshot is published
    durable,    \* store -> those that would survive a power loss
    router,     \* the stores in the router's map, or those still to be joined
    closing,    \* how far shutdown is
    failures    \* how much of its bound is used

vars == <<session, jobState, answers, late, queue, writer, flusher, dirty, error,
          written, durable, router, closing, failures>>

flushing == <<flusher, dirty, error>>
data == <<written, durable>>
shutdown == <<router, closing>>

Kinds == {"seal", "durableSeal", "sync"}
(* "contended" is the text of "busy", from a lock or a database that a verb
   waited for in vain until the request's deadline. *)
Results == {"none", "ok", "busy", "contended", "failed", "stopping"}

Session == [at : {"new", "entered", "cloned", "waiting", "barrier", "flush", "done"},
            kind : Kinds, store : Stores, result : Results,
            before : SUBSET Requests, sample : SUBSET Requests]
Writer == [at : {"none", "idle", "running", "ran", "sealed", "finish", "gone", "failed"},
           job : Requests \cup {Nobody}, outcome : Results]
Flusher == [at : {"none", "idle", "flush", "lastFlush", "gone", "failed"},
            sample : SUBSET Requests, folding : BOOLEAN]

TypeOK ==
    /\ session \in [Requests -> Session]
    /\ jobState \in [Requests -> {"none", "queued", "running", "canceled"}]
    /\ answers \in [Requests -> Results]
    /\ late \subseteq Requests
    /\ queue \in [Stores -> Seq(Requests)]
    /\ writer \in [Stores -> Writer]
    /\ flusher \in [Stores -> Flusher]
    /\ dirty \in [Stores -> BOOLEAN] /\ error \in [Stores -> BOOLEAN]
    /\ written \in [Stores -> SUBSET Requests]
    /\ durable \in [Stores -> SUBSET Requests]
    /\ \A s \in Stores : durable[s] \subseteq written[s]
    /\ router \subseteq Stores
    /\ closing \in {"open", "syncs", "join", "ok", "error"}
    /\ failures \in 0..MaxFailures

Init ==
    /\ session \in [Requests ->
            [at : {"new"}, kind : Kinds, store : Stores, result : {"none"},
             before : {{}}, sample : {{}}]]
    /\ jobState = [r \in Requests |-> "none"]
    /\ answers = [r \in Requests |-> "none"]
    /\ late = {}
    /\ queue = [s \in Stores |-> << >>]
    /\ writer = [s \in Stores |-> [at |-> "none", job |-> Nobody, outcome |-> "none"]]
    /\ flusher = [s \in Stores |-> [at |-> "none", sample |-> {}, folding |-> FALSE]]
    /\ dirty = [s \in Stores |-> FALSE] /\ error = [s \in Stores |-> FALSE]
    /\ written = [s \in Stores |-> {}] /\ durable = [s \in Stores |-> {}]
    /\ router = {} /\ closing = "open"
    /\ failures = 0

(* The process is gone once shutdown has returned. *)
Alive == closing \notin {"ok", "error"}

Finished(r, result) ==
    session' = [session EXCEPT ![r].at = "done", ![r].result = result, ![r].sample = {}]

-----------------------------------------------------------------------------
(* Session threads: submit_with_sync *)

(* A sync registers with ActiveSyncs before it asks for a writer. *)
Submit(r) ==
    /\ Alive /\ session[r].at = "new"
    /\ session' = [session EXCEPT ![r].at = "entered",
                     ![r].before = {q \in Requests : session[q].result = "ok"
                                        /\ session[q].store = session[r].store}]
    /\ UNCHANGED <<jobState, answers, late, queue, writer, flushing, data, shutdown, failures>>

(* Mutant: a sync that fails does not give its place back. *)
ActiveSyncsLeaking ==
    {r \in Requests : session[r].kind = "sync" /\ session[r].at # "new"
                        /\ ~(session[r].at = "done" /\ session[r].result = "ok")}

ActiveSyncs ==
    {r \in Requests : session[r].kind = "sync" /\ session[r].at \notin {"new", "done"}}

(* writer_inbox: under the router's lock, a writer is found or started and its
   sender cloned. *)
WriterInbox(r) ==
    LET s == session[r].store
    IN  /\ Alive /\ session[r].at = "entered" /\ closing = "open"
        /\ session' = [session EXCEPT ![r].at = "cloned"]
        /\ router' = router \cup {s}
        /\ writer' = IF s \in router THEN writer ELSE [writer EXCEPT ![s].at = "idle"]
        /\ flusher' = IF s \in router THEN flusher ELSE [flusher EXCEPT ![s].at = "idle"]
        /\ UNCHANGED <<jobState, answers, late, queue, dirty, error, data, closing, failures>>

WriterRefused(r) ==
    /\ Alive /\ session[r].at = "entered" /\ closing # "open"
    /\ Finished(r, "stopping")
    /\ UNCHANGED <<jobState, answers, late, queue, writer, flushing, data, shutdown, failures>>

Send(r) ==
    /\ Alive /\ session[r].at = "cloned"
    /\ session' = [session EXCEPT ![r].at = "waiting"]
    /\ jobState' = [jobState EXCEPT ![r] = "queued"]
    /\ queue' = [queue EXCEPT ![session[r].store] = Append(@, r)]
    /\ UNCHANGED <<answers, late, writer, flushing, data, shutdown, failures>>

(* The deadline is looked at while the answer is waited for. *)
Expire(r) ==
    /\ Alive /\ r \notin late /\ session[r].at = "waiting"
    /\ late' = late \cup {r}
    /\ UNCHANGED <<session, jobState, answers, queue, writer, flushing, data, shutdown, failures>>

(* Mutant: nothing is received after the deadline. *)
ReceiveInTime(r) ==
    /\ Alive /\ session[r].at = "waiting" /\ answers[r] # "none" /\ r \notin late
    /\ IF session[r].kind = "sync" /\ answers[r] = "ok"
       THEN session' = [session EXCEPT ![r].at = "barrier"]
       ELSE Finished(r, answers[r])
    /\ UNCHANGED <<jobState, answers, late, queue, writer, flushing, data, shutdown, failures>>

(* Mutant: the barrier is taken for the sync. *)
ReceiveBarrier(r) ==
    /\ Alive /\ session[r].at = "waiting" /\ answers[r] # "none"
    /\ Finished(r, answers[r])
    /\ UNCHANGED <<jobState, answers, late, queue, writer, flushing, data, shutdown, failures>>

(* recv: a barrier that was answered is followed by the flush. *)
Receive(r) ==
    /\ Alive /\ session[r].at = "waiting" /\ answers[r] # "none"
    /\ IF session[r].kind = "sync" /\ answers[r] = "ok"
       THEN session' = [session EXCEPT ![r].at = "barrier"]
       ELSE Finished(r, answers[r])
    /\ UNCHANGED <<jobState, answers, late, queue, writer, flushing, data, shutdown, failures>>

(* Mutant: the caller gives up without taking the job back. *)
CancelAnyway(r) ==
    /\ Alive /\ session[r].at = "waiting" /\ answers[r] = "none" /\ r \in late
    /\ Finished(r, "busy")
    /\ UNCHANGED <<jobState, answers, late, queue, writer, flushing, data, shutdown, failures>>

(* recv_timeout ran out: only a job that is still queued is given up; for one
   that runs the caller goes on waiting. *)
Cancel(r) ==
    /\ Alive /\ session[r].at = "waiting" /\ answers[r] = "none" /\ r \in late
    /\ jobState[r] = "queued"
    /\ jobState' = [jobState EXCEPT ![r] = "canceled"]
    /\ Finished(r, "busy")
    /\ UNCHANGED <<answers, late, queue, writer, flushing, data, shutdown, failures>>

(* The flush of a sync covers what is written when it starts. *)
SyncStart(r) ==
    /\ Alive /\ session[r].at = "barrier"
    /\ session' = [session EXCEPT ![r].at = "flush", ![r].sample = written[session[r].store]]
    /\ UNCHANGED <<jobState, answers, late, queue, writer, flushing, data, shutdown, failures>>

SyncEnd(r) ==
    /\ Alive /\ session[r].at = "flush"
    /\ Finished(r, "ok")
    /\ durable' = [durable EXCEPT ![session[r].store] = @ \cup session[r].sample]
    /\ UNCHANGED <<jobState, answers, late, queue, writer, flushing, written, shutdown, failures>>

SyncFails(r) ==
    /\ Alive /\ session[r].at = "flush" /\ failures < MaxFailures
    /\ Finished(r, "failed")
    /\ failures' = failures + 1
    /\ UNCHANGED <<jobState, answers, late, queue, writer, flushing, data, shutdown>>

-----------------------------------------------------------------------------
(* The writer thread of a store: Writer::spawn *)

(* The next job.  One that is late or was given up is answered, not run. *)
Take(s) ==
    /\ Alive /\ writer[s].at = "idle" /\ queue[s] # << >>
    /\ queue' = [queue EXCEPT ![s] = Tail(@)]
    /\ LET r == Head(queue[s])
       IN  IF r \in late \/ jobState[r] = "canceled"
           THEN answers' = [answers EXCEPT ![r] = "busy"] /\ UNCHANGED <<jobState, writer>>
           ELSE /\ jobState' = [jobState EXCEPT ![r] = "running"]
                /\ writer' = [writer EXCEPT ![s].at = "running", ![s].job = r]
                /\ UNCHANGED answers
    /\ UNCHANGED <<session, late, flushing, data, shutdown, failures>>

(* After a failed flush every job is refused until a flush succeeds. *)
Refuse(s) ==
    /\ Alive /\ writer[s].at = "running" /\ error[s]
    /\ writer' = [writer EXCEPT ![s].at = "idle", ![s].job = Nobody]
    /\ answers' = [answers EXCEPT ![writer[s].job] = "failed"]
    /\ UNCHANGED <<session, jobState, late, queue, flushing, data, shutdown, failures>>

(* The verb.  A seal publishes without a flush. *)
Run(s) ==
    /\ Alive /\ writer[s].at = "running" /\ ~error[s]
    /\ LET r == writer[s].job
           kind == session[r].kind
       IN  /\ writer' = [writer EXCEPT
                ![s].at = IF kind = "durableSeal" THEN "sealed" ELSE "ran",
                ![s].outcome = "ok"]
           /\ written' = IF kind = "sync" THEN written ELSE [written EXCEPT ![s] = @ \cup {r}]
    /\ UNCHANGED <<session, jobState, answers, late, queue, flushing, durable, shutdown, failures>>

(* What a failing verb answers: an error of its own, or, after the deadline, that
   of a wait. *)
Errors(r) == {"failed"} \cup (IF r \in late THEN {"contended"} ELSE {})

(* The store or its tree cannot be opened: nothing was written. *)
OpenFails(s) ==
    /\ Alive /\ writer[s].at = "running" /\ ~error[s] /\ failures < MaxFailures
    /\ \E e \in Errors(writer[s].job) : answers' = [answers EXCEPT ![writer[s].job] = e]
    /\ writer' = [writer EXCEPT ![s].at = "idle", ![s].job = Nobody]
    /\ failures' = failures + 1
    /\ UNCHANGED <<session, jobState, late, queue, flushing, data, shutdown>>

(* A capture fails before its snapshot is published, or after it: in the index
   of the references, in that of the paths, or in the tracker. *)
SealFails(s) ==
    LET r == writer[s].job
    IN  /\ Alive /\ writer[s].at = "running" /\ ~error[s] /\ failures < MaxFailures
        /\ session[r].kind # "sync"
        /\ \E e \in Errors(r) : writer' = [writer EXCEPT ![s].at = "ran", ![s].outcome = e]
        /\ \/ written' = [written EXCEPT ![s] = @ \cup {r}]
           \/ UNCHANGED written
        /\ failures' = failures + 1
        /\ UNCHANGED <<session, jobState, answers, late, queue, flushing, durable, shutdown>>

(* Handle::sync, of a seal that asks to be durable. *)
SealSync(s) ==
    /\ Alive /\ writer[s].at = "sealed"
    /\ durable' = [durable EXCEPT ![s] = written[s]]
    /\ writer' = [writer EXCEPT ![s].at = "ran"]
    /\ UNCHANGED <<session, jobState, answers, late, queue, flushing, written, shutdown, failures>>

SealSyncFails(s) ==
    /\ Alive /\ writer[s].at = "sealed" /\ failures < MaxFailures
    /\ \E e \in Errors(writer[s].job) :
            writer' = [writer EXCEPT ![s].at = "ran", ![s].outcome = e]
    /\ failures' = failures + 1
    /\ UNCHANGED <<session, jobState, answers, late, queue, flushing, data, shutdown>>

(* A handle has something pending unless its sync went through. *)
Pending(s) ==
    LET kind == session[writer[s].job].kind
    IN  kind = "seal" \/ (kind = "durableSeal" /\ writer[s].outcome # "ok")

(* The flag is raised, then the answer is sent. *)
Reply(s) ==
    /\ Alive /\ writer[s].at = "ran"
    /\ dirty' = [dirty EXCEPT ![s] = @ \/ Pending(s)]
    /\ answers' = [answers EXCEPT ![writer[s].job] = writer[s].outcome]
    /\ writer' = [writer EXCEPT ![s] = [at |-> "idle", job |-> Nobody, outcome |-> "none"]]
    /\ UNCHANGED <<session, jobState, late, queue, flusher, error, data, shutdown, failures>>

(* Every sender is dropped: the router's and the clones of the sessions. *)
Disconnected(s) ==
    /\ closing = "join" /\ s \notin router
    /\ \A r \in Requests : session[r].at = "cloned" => session[r].store # s

(* The inbox is empty and disconnected: the flusher is told to stop. *)
WriterEnds(s) ==
    /\ Alive /\ writer[s].at = "idle" /\ queue[s] = << >> /\ Disconnected(s)
    /\ writer' = [writer EXCEPT ![s].at = "finish"]
    /\ UNCHANGED <<session, jobState, answers, late, queue, flushing, data, shutdown, failures>>

(* Flusher::finish: the thread returns what the flusher returned. *)
WriterJoinsFlusher(s) ==
    /\ Alive /\ writer[s].at = "finish" /\ flusher[s].at \in {"gone", "failed"}
    /\ writer' = [writer EXCEPT ![s].at = flusher[s].at]
    /\ UNCHANGED <<session, jobState, answers, late, queue, flushing, data, shutdown, failures>>

-----------------------------------------------------------------------------
(* The flusher thread of a store: Flusher::start_over *)

(* A tick, or the last round when the writer has stopped it: the flag is taken
   before the flush samples what is written. *)
FlusherTick(s) ==
    /\ Alive /\ flusher[s].at = "idle" /\ dirty[s]
    /\ dirty' = [dirty EXCEPT ![s] = FALSE]
    /\ flusher' = [flusher EXCEPT
            ![s].at = IF writer[s].at = "finish" THEN "lastFlush" ELSE "flush",
            ![s].sample = written[s]]
    /\ UNCHANGED <<session, jobState, answers, late, queue, writer, error, data, shutdown, failures>>

(* Stopped with nothing pending.  The result is that of the last checkpoint of
   the indexes, if there was one, which can have failed. *)
FlusherEnds(s) ==
    /\ Alive /\ flusher[s].at = "idle" /\ writer[s].at = "finish" /\ ~dirty[s]
    /\ \/ flusher' = [flusher EXCEPT ![s].at = "gone"] /\ UNCHANGED failures
       \/ /\ flusher[s].folding /\ failures < MaxFailures
          /\ failures' = failures + 1
          /\ flusher' = [flusher EXCEPT ![s].at = "failed"]
    /\ UNCHANGED <<session, jobState, answers, late, queue, writer, dirty, error, data, shutdown>>

(* Mutant: the flag is put down when the flush is over. *)
FlushEndsClearing(s) ==
    /\ Alive /\ flusher[s].at \in {"flush", "lastFlush"}
    /\ durable' = [durable EXCEPT ![s] = @ \cup flusher[s].sample]
    /\ error' = [error EXCEPT ![s] = FALSE]
    /\ dirty' = [dirty EXCEPT ![s] = FALSE]
    /\ flusher' = [flusher EXCEPT ![s] = [at |-> "idle", sample |-> {}, folding |-> TRUE]]
    /\ UNCHANGED <<session, jobState, answers, late, queue, writer, written, shutdown, failures>>

FlushEnds(s) ==
    /\ Alive /\ flusher[s].at \in {"flush", "lastFlush"}
    /\ durable' = [durable EXCEPT ![s] = @ \cup flusher[s].sample]
    /\ error' = [error EXCEPT ![s] = FALSE]
    /\ flusher' = [flusher EXCEPT ![s] = [at |-> "idle", sample |-> {}, folding |-> TRUE]]
    /\ UNCHANGED <<session, jobState, answers, late, queue, writer, dirty, written, shutdown, failures>>

(* The flag goes up again; in the last round the flusher gives up. *)
FlushFails(s) ==
    /\ Alive /\ flusher[s].at \in {"flush", "lastFlush"} /\ failures < MaxFailures
    /\ failures' = failures + 1
    /\ dirty' = [dirty EXCEPT ![s] = TRUE]
    /\ error' = [error EXCEPT ![s] = TRUE]
    /\ flusher' = [flusher EXCEPT
            ![s].at = IF flusher[s].at = "flush" THEN "idle" ELSE "failed", ![s].sample = {}]
    /\ UNCHANGED <<session, jobState, answers, late, queue, writer, data, shutdown>>

-----------------------------------------------------------------------------
(* Shutdown: close_durable *)

(* Stopped, signalled or idle: the map is taken, so no writer is found. *)
Close ==
    /\ closing = "open"
    /\ closing' = "syncs"
    /\ UNCHANGED <<session, jobState, answers, late, queue, writer, flushing, data, router, failures>>

WaitSyncs ==
    /\ closing = "syncs" /\ ActiveSyncs = {}
    /\ closing' = "join"
    /\ UNCHANGED <<session, jobState, answers, late, queue, writer, flushing, data, router, failures>>

(* The writer whose turn it is: its sender is dropped. *)
Joining == {s \in Stores \ router : writer[s].at \notin {"none", "gone", "failed"}}

Drop(s) ==
    /\ closing = "join" /\ s \in router /\ Joining = {}
    /\ \A q \in Stores : writer[q].at # "failed"
    /\ router' = router \ {s}
    /\ UNCHANGED <<session, jobState, answers, late, queue, writer, flushing, data, closing, failures>>

(* The first writer that returns an error ends the loop. *)
Exit ==
    /\ closing = "join"
    /\ \/ /\ \E s \in Stores : writer[s].at = "failed"
          /\ closing' = "error"
       \/ /\ router = {} /\ Joining = {} /\ \A s \in Stores : writer[s].at # "failed"
          /\ closing' = "ok"
    /\ UNCHANGED <<session, jobState, answers, late, queue, writer, flushing, data, router, failures>>

-----------------------------------------------------------------------------
SessionStep(r) ==
    \/ WriterInbox(r) \/ WriterRefused(r) \/ Send(r) \/ Receive(r) \/ Cancel(r)
    \/ SyncStart(r) \/ SyncEnd(r) \/ SyncFails(r)

WriterStep(s) ==
    \/ Take(s) \/ Refuse(s) \/ Run(s) \/ OpenFails(s) \/ SealFails(s) \/ SealSync(s) \/ SealSyncFails(s)
    \/ Reply(s) \/ WriterEnds(s) \/ WriterJoinsFlusher(s)

FlusherStep(s) == FlusherTick(s) \/ FlusherEnds(s) \/ FlushEnds(s) \/ FlushFails(s)

CloseStep == WaitSyncs \/ (\E s \in Stores : Drop(s)) \/ Exit

Next ==
    \/ \E r \in Requests : Submit(r) \/ Expire(r) \/ SessionStep(r)
    \/ \E s \in Stores : WriterStep(s) \/ FlusherStep(s)
    \/ Close \/ CloseStep

(* Every thread that can go on does: the threads are the operating system's,
   and every wait in them has a deadline or a tick. *)
Fairness ==
    /\ \A r \in Requests : WF_vars(SessionStep(r))
    /\ \A s \in Stores : WF_vars(WriterStep(s)) /\ WF_vars(FlusherStep(s))
    /\ WF_vars(CloseStep)

Spec == Init /\ [][Next]_vars
FairSpec == Spec /\ Fairness

-----------------------------------------------------------------------------
(* Properties *)

Done(r, result) == session[r].at = "done" /\ session[r].result = result

(* A caller whose request is given up in the queue can retry it: it was not run
   and never will be, however the deadline, the queue and the writer race. *)
BusyNeverRuns ==
    \A r \in Requests : Done(r, "busy") =>
        /\ r \notin UNION {written[s] : s \in Stores}
        /\ \A s \in Stores : writer[s].job # r

(* A sync that answers durable covers every capture that was answered before
   it was submitted, whichever session made it; so does a seal that asked to
   be durable cover itself. *)
AnsweredDurable ==
    \A r \in Requests : Done(r, "ok") =>
        /\ session[r].kind = "sync" =>
            session[r].before \cap written[session[r].store] \subseteq durable[session[r].store]
        /\ session[r].kind = "durableSeal" => r \in durable[session[r].store]

InFlight(s) ==
    \/ queue[s] # << >> \/ writer[s].job # Nobody
    \/ \E r \in ActiveSyncs : session[r].store = s /\ session[r].at # "entered"

(* Shutdown that reports success has finished the requests of every store and
   left nothing that is not durable. *)
ShutdownFlushes ==
    closing = "ok" => \A s \in Stores : ~InFlight(s) /\ written[s] = durable[s]

(* What the daemon reports as durable, by the answer of a request or by the end
   of close_durable, survives a power loss. *)
DurableAsTold == AnsweredDurable /\ ShutdownFlushes

(* Every request is answered, unless shutdown overtakes it. *)
Answered == \A r \in Requests : session[r].at = "entered" ~> session[r].at = "done" \/ ~Alive

(* Everything that was published becomes durable without being asked for,
   unless shutdown reports an error first. *)
GroupDurability ==
    \A r \in Requests :
        r \in written[session[r].store] ~> r \in durable[session[r].store] \/ closing = "error"

(* Shutdown ends: no thread waits for another in a circle. *)
ShutdownEnds == closing = "syncs" ~> ~Alive
=============================================================================
