---------------------------- MODULE DaemonProofs ----------------------------
(***************************************************************************)
(* Theorems about Daemon, for any number of requests, stores and failures: *)
(* a request that is answered "busy" was not run and never will be, and    *)
(* what is reported durable, by an answer or by shutdown, is.              *)
(***************************************************************************)
EXTENDS Daemon, TLAPS

-----------------------------------------------------------------------------
(* The inductive invariant *)

Running(s) == writer[s].at \in {"running", "ran", "sealed"}
Stopped(s) == writer[s].at \in {"finish", "gone", "failed"}

(* A job is created by the send, and its state and its answer tell how far it
   came.  "busy" is answered only for a job that was not started. *)
JobsInv ==
    \A r \in Requests :
        /\ session[r].at \in {"new", "entered", "cloned"} =>
                jobState[r] = "none" /\ answers[r] = "none"
        /\ session[r].at \in {"barrier", "flush"} => session[r].kind = "sync"
        /\ session[r].at # "done" => session[r].result = "none"
        /\ answers[r] = "busy" => jobState[r] \in {"queued", "canceled"}
        /\ Done(r, "busy") => answers[r] = "busy" \/ jobState[r] = "canceled"
        /\ Done(r, "ok") => session[r].kind = "sync" \/ answers[r] = "ok"

(* An inbox holds a request once, unanswered and not started; one that is not
   canceled has a caller that waits. *)
QueueInv ==
    \A s \in Stores : \A i \in 1..Len(queue[s]) :
        /\ session[queue[s][i]].store = s
        /\ answers[queue[s][i]] = "none"
        /\ \/ jobState[queue[s][i]] = "queued" /\ session[queue[s][i]].at = "waiting"
           \/ jobState[queue[s][i]] = "canceled"
        /\ \A j \in 1..Len(queue[s]) : queue[s][i] = queue[s][j] => i = j

(* A writer that runs a job runs one of its own store, whose caller waits; it
   has published nothing of it before the verb, and has flushed it when a
   durable seal went through. *)
WriterInv ==
    \A s \in Stores :
        /\ Running(s) <=> writer[s].job # Nobody
        /\ Running(s) =>
            /\ session[writer[s].job].store = s
            /\ session[writer[s].job].at = "waiting"
            /\ jobState[writer[s].job] = "running"
            /\ answers[writer[s].job] = "none"
        /\ writer[s].at = "running" => writer[s].job \notin written[s]
        /\ writer[s].at = "sealed" => writer[s].job \in written[s] /\ writer[s].outcome = "ok"
        /\ writer[s].at = "ran" =>
            /\ writer[s].outcome \in {"ok", "failed", "contended"}
            /\ writer[s].outcome = "ok" /\ session[writer[s].job].kind = "durableSeal" =>
                    writer[s].job \in durable[s]

(* What is published was run, on its own store. *)
WrittenInv ==
    \A s \in Stores : \A r \in written[s] :
        session[r].store = s /\ jobState[r] = "running" /\ session[r].kind # "sync"

(* The requests a sync has to cover are over, so none of them is published
   later; what the flush of a sync samples contains those that are. *)
SyncInv ==
    \A r \in Requests :
        /\ \A q \in session[r].before :
                session[q].at = "done" /\ session[q].store = session[r].store
        /\ session[r].at = "flush" =>
                /\ session[r].before \cap written[session[r].store] \subseteq session[r].sample
                /\ session[r].sample \subseteq written[session[r].store]

(* What is published and not durable is covered by the flag, by the flush that
   is under way, or is the job the writer has not replied to. *)
CoverInv ==
    \A s \in Stores :
        /\ flusher[s].sample \subseteq written[s]
        /\ \A r \in written[s] \ durable[s] :
            \/ dirty[s]
            \/ flusher[s].at \in {"flush", "lastFlush"} /\ r \in flusher[s].sample
            \/ writer[s].job = r

(* What is answered durable is. *)
AnswerInv ==
    /\ AnsweredDurable
    /\ \A r \in Requests : answers[r] = "ok" /\ session[r].kind = "durableSeal" =>
            r \in durable[session[r].store]

(* A store has a writer once the router gave out its sender; the writer stops
   when no sender is left and its flusher after it, with nothing pending. *)
ThreadsInv ==
    /\ \A s \in Stores :
        /\ s \in router => writer[s].at # "none"
        /\ s \notin router /\ writer[s].at # "none" => closing \notin {"open", "syncs"}
        /\ Stopped(s) =>
            /\ queue[s] = << >> /\ closing \notin {"open", "syncs"} /\ s \notin router
            /\ \A r \in Requests : session[r].at = "cloned" => session[r].store # s
        /\ flusher[s].at \in {"lastFlush", "gone", "failed"} => Stopped(s)
        /\ flusher[s].at = "gone" => ~dirty[s]
        /\ writer[s].at = "gone" => flusher[s].at = "gone"
    /\ \A r \in Requests :
            session[r].at = "cloned" \/ jobState[r] # "none" =>
                writer[session[r].store].at # "none"
    /\ closing \notin {"open", "syncs"} =>
        \A r \in Requests : session[r].kind = "sync" =>
            session[r].at \in {"new", "entered", "done"}

IInv ==
    /\ TypeOK /\ JobsInv /\ QueueInv /\ WriterInv /\ WrittenInv
    /\ SyncInv /\ CoverInv /\ AnswerInv /\ ThreadsInv /\ ShutdownFlushes
-----------------------------------------------------------------------------
(* Types, component by component, and what a step changes of a thread *)

Shapes ==
    /\ \A r \in Requests :
        /\ session[r].store \in Stores /\ session[r].kind \in Kinds
        /\ session[r].before \subseteq Requests
    /\ DOMAIN jobState = Requests /\ DOMAIN answers = Requests /\ DOMAIN queue = Stores
    /\ DOMAIN dirty = Stores /\ DOMAIN written = Stores /\ DOMAIN durable = Stores
    /\ \A s \in Stores :
        /\ \A i \in 1..Len(queue[s]) : queue[s][i] \in Requests
        /\ writer[s].job \in Requests \cup {Nobody}
        /\ written[s] \subseteq Requests
    /\ Nobody \notin Requests

Moved(r, at, result, before, sample) ==
    /\ session' \in [Requests -> Session]
    /\ \A q \in Requests : /\ session'[q].kind = session[q].kind
                           /\ session'[q].store = session[q].store
                           /\ q # r => session'[q] = session[q]
    /\ session'[r].at = at /\ session'[r].result = result
    /\ session'[r].before = before /\ session'[r].sample = sample

Turned(s, at, job, outcome) ==
    /\ writer' \in [Stores -> Writer]
    /\ \A q \in Stores : q # s => writer'[q] = writer[q]
    /\ writer'[s].at = at /\ writer'[s].job = job /\ writer'[s].outcome = outcome

Flushed(s, at, sample) ==
    /\ flusher' \in [Stores -> Flusher]
    /\ \A q \in Stores : q # s => flusher'[q] = flusher[q]
    /\ flusher'[s].at = at /\ flusher'[s].sample = sample

(* The type invariant types every component. *)
LEMMA TypeShapes == TypeOK => Shapes
<1> HAVE TypeOK
<1>1. \A r \in Requests : session[r] \in Session
  BY DEF TypeOK
<1>2. \A s \in Stores : writer[s] \in Writer
  BY DEF TypeOK
<1>3. \A s \in Stores : queue[s] \in Seq(Requests)
  BY DEF TypeOK
<1> QED
  BY <1>1, <1>2, <1>3, DaemonBounds DEF TypeOK, Shapes, Session, Writer

(* The end of a session changes its own record and nothing of what it asked. *)
LEMMA FinishedMoves ==
    ASSUME TypeOK, NEW r \in Requests, NEW result \in Results, Finished(r, result)
    PROVE  Moved(r, "done", result, session[r].before, {})
<1>1. session[r] \in Session
  BY DEF TypeOK
<1>2. session' = [session EXCEPT ![r] =
                    [session[r] EXCEPT !.at = "done", !.result = result, !.sample = {}]]
  BY DEF Finished
<1>3. [session[r] EXCEPT !.at = "done", !.result = result, !.sample = {}] \in Session
  BY <1>1 DEF Session
<1> QED
  BY <1>1, <1>2, <1>3 DEF Moved, TypeOK, Session

(* A failure within the bound stays within it. *)
LEMMA Counted ==
    ASSUME TypeOK, failures < MaxFailures, failures' = failures + 1
    PROVE  failures' \in 0..MaxFailures
  BY DaemonBounds DEF TypeOK

-----------------------------------------------------------------------------
(* Every action preserves the invariant *)
(* A submitted request has no job yet, and the ones it has to cover are over. *)
LEMMA SubmitKeeps ==
    ASSUME IInv, NEW r \in Requests, Submit(r)
    PROVE  IInv'
<1>1. Shapes
  BY TypeShapes DEF IInv
<1>2. Moved(r, "entered", session[r].result,
            {q \in Requests : session[q].result = "ok" /\ session[q].store = session[r].store},
            session[r].sample)
  BY DEF Submit, IInv, TypeOK, Moved, Session, Kinds, Results
<1>3. /\ UNCHANGED <<jobState, answers, late, queue, writer, flusher, dirty, error,
       written, durable, router, closing, failures>>
      /\ session[r].at = "new" /\ closing # "ok"
  BY DEF Submit, flushing, data, shutdown, Alive
<1>4. TypeOK'
  BY <1>1, <1>2, <1>3 DEF IInv, TypeOK, Moved
<1>5. JobsInv'
  BY <1>1, <1>2, <1>3 DEF IInv, Shapes, Moved, JobsInv, Done
<1>6. QueueInv'
  BY <1>1, <1>2, <1>3 DEF IInv, Shapes, Moved, QueueInv
<1>7. WriterInv'
  BY <1>1, <1>2, <1>3 DEF IInv, Shapes, Moved, WriterInv, Running
<1>8. WrittenInv'
  BY <1>1, <1>2, <1>3 DEF IInv, Shapes, Moved, WrittenInv
<1>9. SyncInv'
  BY <1>1, <1>2, <1>3 DEF IInv, Shapes, Moved, SyncInv, JobsInv
<1>10. AnswerInv'
  BY <1>1, <1>2, <1>3 DEF IInv, Shapes, Moved, AnswerInv, AnsweredDurable, Done
<1>11. ThreadsInv'
  BY <1>1, <1>2, <1>3 DEF IInv, Shapes, Moved, ThreadsInv, Stopped
<1>12. CoverInv'
  BY <1>3 DEF IInv, CoverInv
<1>13. ShutdownFlushes'
  BY <1>3 DEF ShutdownFlushes
<1> QED
  BY <1>4, <1>5, <1>6, <1>7, <1>8, <1>9, <1>10, <1>11, <1>12, <1>13 DEF IInv

(* The writer found or started is idle, and the router holds it. *)
LEMMA WriterInboxKeeps ==
    ASSUME IInv, NEW r \in Requests, WriterInbox(r)
    PROVE  IInv'
<1>1. Shapes
  BY TypeShapes DEF IInv
<1>2. Moved(r, "cloned", session[r].result, session[r].before, session[r].sample)
  BY DEF WriterInbox, IInv, TypeOK, Moved, Session, Kinds, Results
<1>3. \/ session[r].store \in router /\ UNCHANGED <<writer, flusher>>
      \/ /\ session[r].store \notin router
         /\ Turned(session[r].store, "idle", writer[session[r].store].job,
                   writer[session[r].store].outcome)
         /\ Flushed(session[r].store, "idle", flusher[session[r].store].sample)
  <2>1. CASE session[r].store \in router
    BY <2>1 DEF WriterInbox
  <2>2. CASE session[r].store \notin router
    <3> DEFINE t == session[r].store
    <3>1. writer' = [writer EXCEPT ![t].at = "idle"] /\ t \in Stores
      BY <1>1, <2>2 DEF WriterInbox, Shapes
    <3>2. flusher' = [flusher EXCEPT ![t].at = "idle"]
      BY <2>2 DEF WriterInbox
    <3> HIDE DEF t
    <3>3. Turned(t, "idle", writer[t].job, writer[t].outcome)
      BY <3>1 DEF IInv, TypeOK, Turned, Writer, Results
    <3>4. Flushed(t, "idle", flusher[t].sample)
      BY <3>1, <3>2 DEF IInv, TypeOK, Flushed, Flusher
    <3> QED
      BY <2>2, <3>3, <3>4 DEF t
  <2> QED
    BY <2>1, <2>2
<1>4. /\ UNCHANGED <<jobState, answers, late, queue, dirty, error, written, durable,
       closing, failures>>
      /\ session[r].at = "entered" /\ closing = "open" /\ closing # "ok"
      /\ router' = router \cup {session[r].store}
  BY DEF WriterInbox, flushing, data, shutdown, Alive
<1>5. TypeOK'
  BY <1>1, <1>2, <1>3, <1>4 DEF IInv, TypeOK, Moved, Turned, Flushed, Shapes
<1>6. JobsInv'
  BY <1>1, <1>2, <1>3, <1>4 DEF IInv, Shapes, Moved, JobsInv, Done
<1>7. QueueInv'
  BY <1>1, <1>2, <1>3, <1>4 DEF IInv, Shapes, Moved, QueueInv
<1>8. WriterInv'
  BY <1>1, <1>2, <1>3, <1>4 DEF IInv, Shapes, Moved, Turned, WriterInv, Running, ThreadsInv
<1>9. WrittenInv'
  BY <1>1, <1>2, <1>3, <1>4 DEF IInv, Shapes, Moved, WrittenInv
<1>10. SyncInv'
  BY <1>1, <1>2, <1>3, <1>4 DEF IInv, Shapes, Moved, SyncInv
<1>11. CoverInv'
  BY <1>1, <1>2, <1>3, <1>4 DEF IInv, Shapes, Turned, CoverInv, Flushed, ThreadsInv,
      WrittenInv
<1>12. AnswerInv'
  BY <1>1, <1>2, <1>3, <1>4 DEF IInv, Shapes, Moved, AnswerInv, AnsweredDurable, Done
<1>13. ThreadsInv'
  BY <1>1, <1>2, <1>3, <1>4 DEF IInv, Shapes, Moved, Turned, ThreadsInv, Stopped, Flushed
<1>14. ShutdownFlushes'
  BY <1>4 DEF ShutdownFlushes
<1> QED
  BY <1>5, <1>6, <1>7, <1>8, <1>9, <1>10, <1>11, <1>12, <1>13, <1>14 DEF IInv

(* A request that finds the router closed ends without a job. *)
LEMMA WriterRefusedKeeps ==
    ASSUME IInv, NEW r \in Requests, WriterRefused(r)
    PROVE  IInv'
<1>1. Shapes
  BY TypeShapes DEF IInv
<1>2. Moved(r, "done", "stopping", session[r].before, {})
  BY FinishedMoves DEF WriterRefused, IInv, TypeOK, Results
<1>3. /\ UNCHANGED <<jobState, answers, late, queue, writer, flusher, dirty, error,
       written, durable, router, closing, failures>>
      /\ session[r].at = "entered" /\ closing # "ok"
  BY DEF WriterRefused, flushing, data, shutdown, Alive
<1>4. TypeOK'
  BY <1>1, <1>2, <1>3 DEF IInv, TypeOK, Moved
<1>5. JobsInv'
  BY <1>1, <1>2, <1>3 DEF IInv, Shapes, Moved, JobsInv, Done
<1>6. QueueInv'
  BY <1>1, <1>2, <1>3 DEF IInv, Shapes, Moved, QueueInv
<1>7. WriterInv'
  BY <1>1, <1>2, <1>3 DEF IInv, Shapes, Moved, WriterInv, Running
<1>8. WrittenInv'
  BY <1>1, <1>2, <1>3 DEF IInv, Shapes, Moved, WrittenInv
<1>9. SyncInv'
  BY <1>1, <1>2, <1>3 DEF IInv, Shapes, Moved, SyncInv
<1>10. AnswerInv'
  BY <1>1, <1>2, <1>3 DEF IInv, Shapes, Moved, AnswerInv, AnsweredDurable, Done
<1>11. ThreadsInv'
  BY <1>1, <1>2, <1>3 DEF IInv, Shapes, Moved, ThreadsInv, Stopped
<1>12. CoverInv'
  BY <1>3 DEF IInv, CoverInv
<1>13. ShutdownFlushes'
  BY <1>3 DEF ShutdownFlushes
<1> QED
  BY <1>4, <1>5, <1>6, <1>7, <1>8, <1>9, <1>10, <1>11, <1>12, <1>13 DEF IInv

(* A request enters one inbox, once, unanswered. *)
LEMMA SendKeeps ==
    ASSUME IInv, NEW r \in Requests, Send(r)
    PROVE  IInv'
<1>1. Shapes
  BY TypeShapes DEF IInv
<1>2. Moved(r, "waiting", session[r].result, session[r].before, session[r].sample)
  BY DEF Send, IInv, TypeOK, Moved, Session, Kinds, Results
<1>3. /\ UNCHANGED <<answers, late, writer, flusher, dirty, error, written, durable,
       router, closing, failures>>
      /\ session[r].at = "cloned" /\ closing # "ok"
      /\ jobState' = [jobState EXCEPT ![r] = "queued"]
      /\ queue' = [queue EXCEPT ![session[r].store] = Append(@, r)]
  BY DEF Send, flushing, data, shutdown, Alive
<1>4. /\ jobState' \in [Requests -> {"none", "queued", "running", "canceled"}]
      /\ queue' \in [Stores -> Seq(Requests)]
  BY <1>1, <1>3 DEF IInv, TypeOK, Shapes
<1>5. TypeOK'
  BY <1>1, <1>2, <1>3, <1>4 DEF IInv, TypeOK, Moved
<1>6. JobsInv'
  BY <1>1, <1>2, <1>3 DEF IInv, Shapes, Moved, JobsInv, Done
<1>7. QueueInv'
  <2> DEFINE t == session[r].store
  <2>1. t \in Stores /\ queue[t] \in Seq(Requests)
    BY <1>1 DEF Shapes, IInv, TypeOK
  <2>2. /\ Len(queue'[t]) = Len(queue[t]) + 1 /\ Len(queue[t]) \in Nat
        /\ \A i \in 1..Len(queue[t]) : queue'[t][i] = queue[t][i]
        /\ queue'[t][Len(queue[t]) + 1] = r
    BY <2>1, <1>1, <1>3 DEF Shapes
  <2>3. \A s \in Stores : s # t => queue'[s] = queue[s]
    BY <1>1, <1>3 DEF Shapes
  <2>4. jobState'[r] = "queued" /\ \A q \in Requests : q # r => jobState'[q] = jobState[q]
    BY <1>1, <1>3 DEF Shapes
  <2>5. \A s \in Stores : \A i \in 1..Len(queue[s]) : queue[s][i] # r
    BY <1>3 DEF IInv, QueueInv, JobsInv
  <2> HIDE DEF t
  <2>6. SUFFICES ASSUME NEW s \in Stores, NEW i \in 1..Len(queue'[s])
                 PROVE  /\ session'[queue'[s][i]].store = s
                        /\ answers[queue'[s][i]] = "none"
                        /\ \/ /\ jobState'[queue'[s][i]] = "queued"
                              /\ session'[queue'[s][i]].at = "waiting"
                           \/ jobState'[queue'[s][i]] = "canceled"
                        /\ \A j \in 1..Len(queue'[s]) : queue'[s][i] = queue'[s][j] => i = j
    BY <1>3 DEF QueueInv
  <2>7. CASE s = t /\ i = Len(queue[t]) + 1
    BY <1>1, <1>2, <1>3, <2>1, <2>2, <2>4, <2>5, <2>7 DEF Moved, JobsInv, IInv, t
  <2>8. CASE ~(s = t /\ i = Len(queue[t]) + 1)
    <3>1. i \in 1..Len(queue[s]) /\ queue'[s][i] = queue[s][i]
      BY <2>2, <2>3, <2>8
    <3> QED
      BY <1>1, <1>2, <1>3, <2>1, <2>2, <2>3, <2>4, <2>5, <3>1 DEF Moved, QueueInv, IInv,
          Shapes
  <2> QED
    BY <2>7, <2>8
<1>8. WriterInv'
  BY <1>1, <1>2, <1>3 DEF IInv, Shapes, Moved, WriterInv, Running
<1>9. WrittenInv'
  BY <1>1, <1>2, <1>3 DEF IInv, Shapes, Moved, WrittenInv, JobsInv
<1>10. SyncInv'
  BY <1>1, <1>2, <1>3 DEF IInv, Shapes, Moved, SyncInv
<1>11. AnswerInv'
  BY <1>1, <1>2, <1>3 DEF IInv, Shapes, Moved, AnswerInv, AnsweredDurable, Done
<1>12. ThreadsInv'
  BY <1>1, <1>2, <1>3 DEF IInv, Shapes, Moved, ThreadsInv, Stopped
<1>13. CoverInv'
  BY <1>3 DEF IInv, CoverInv
<1>14. ShutdownFlushes'
  BY <1>3 DEF ShutdownFlushes
<1> QED
  BY <1>5, <1>6, <1>7, <1>8, <1>9, <1>10, <1>11, <1>12, <1>13, <1>14 DEF IInv

(* A deadline that passes changes nothing else. *)
LEMMA ExpireKeeps ==
    ASSUME IInv, NEW r \in Requests, Expire(r)
    PROVE  IInv'
<1>1. Shapes
  BY TypeShapes DEF IInv
<1>2. /\ UNCHANGED <<session, jobState, answers, queue, writer, flusher, dirty, error,
       written, durable, router, closing, failures>>
      /\ late' = late \cup {r} /\ closing # "ok"
  BY DEF Expire, flushing, data, shutdown, Alive
<1>3. TypeOK'
  BY <1>1, <1>2 DEF IInv, TypeOK
<1>4. JobsInv' /\ QueueInv' /\ WriterInv' /\ WrittenInv' /\ SyncInv' /\ CoverInv' /\
       AnswerInv' /\ ThreadsInv'
  BY <1>2 DEF IInv, JobsInv, Done, QueueInv, WriterInv, Running, WrittenInv, SyncInv,
      CoverInv, AnswerInv, AnsweredDurable, ThreadsInv, Stopped
<1>5. ShutdownFlushes'
  BY <1>2 DEF ShutdownFlushes
<1> QED
  BY <1>3, <1>4, <1>5 DEF IInv

(* A received answer ends the session, or starts the flush of a sync. *)
LEMMA ReceiveKeeps ==
    ASSUME IInv, NEW r \in Requests, Receive(r)
    PROVE  IInv'
<1>1. Shapes
  BY TypeShapes DEF IInv
<1>2. \/ /\ session[r].kind = "sync" /\ answers[r] = "ok"
         /\ Moved(r, "barrier", session[r].result, session[r].before, session[r].sample)
      \/ /\ ~(session[r].kind = "sync" /\ answers[r] = "ok")
         /\ Moved(r, "done", answers[r], session[r].before, {})
  <2>1. answers[r] \in Results
    BY DEF IInv, TypeOK
  <2>2. CASE session[r].kind = "sync" /\ answers[r] = "ok"
    <3>1. session[r] \in Session
      BY DEF IInv, TypeOK
    <3>2. session' = [session EXCEPT ![r] = [session[r] EXCEPT !.at = "barrier"]]
      BY <2>2 DEF Receive
    <3>3. [session[r] EXCEPT !.at = "barrier"] \in Session
      BY <3>1 DEF Session
    <3>4. Moved(r, "barrier", session[r].result, session[r].before, session[r].sample)
      BY <3>1, <3>2, <3>3 DEF IInv, TypeOK, Moved, Session
    <3> QED
      BY <2>2, <3>4
  <2>3. CASE ~(session[r].kind = "sync" /\ answers[r] = "ok")
    BY <2>1, <2>3, FinishedMoves DEF Receive, IInv
  <2> QED
    BY <2>2, <2>3
<1>3. /\ UNCHANGED <<jobState, answers, late, queue, writer, flusher, dirty, error,
       written, durable, router, closing, failures>>
      /\ session[r].at = "waiting" /\ answers[r] # "none" /\ closing # "ok"
  BY DEF Receive, flushing, data, shutdown, Alive
<1>4. TypeOK'
  BY <1>1, <1>2, <1>3 DEF IInv, TypeOK, Moved
<1>5. JobsInv'
  BY <1>1, <1>2, <1>3 DEF IInv, Shapes, Moved, JobsInv, Done
<1>6. QueueInv'
  BY <1>1, <1>2, <1>3 DEF IInv, Shapes, Moved, QueueInv
<1>7. WriterInv'
  BY <1>1, <1>2, <1>3 DEF IInv, Shapes, Moved, WriterInv, Running
<1>8. WrittenInv'
  BY <1>1, <1>2, <1>3 DEF IInv, Shapes, Moved, WrittenInv
<1>9. SyncInv'
  BY <1>1, <1>2, <1>3 DEF IInv, Shapes, Moved, SyncInv
<1>10. AnswerInv'
  BY <1>1, <1>2, <1>3 DEF IInv, Shapes, Moved, AnswerInv, AnsweredDurable, Done
<1>11. ThreadsInv'
  BY <1>1, <1>2, <1>3 DEF IInv, Shapes, Moved, ThreadsInv, Stopped
<1>12. CoverInv'
  BY <1>3 DEF IInv, CoverInv
<1>13. ShutdownFlushes'
  BY <1>3 DEF ShutdownFlushes
<1> QED
  BY <1>4, <1>5, <1>6, <1>7, <1>8, <1>9, <1>10, <1>11, <1>12, <1>13 DEF IInv

(* A job that is given up was not started and is not started later. *)
LEMMA CancelKeeps ==
    ASSUME IInv, NEW r \in Requests, Cancel(r)
    PROVE  IInv'
<1>1. Shapes
  BY TypeShapes DEF IInv
<1>2. Moved(r, "done", "busy", session[r].before, {})
  BY FinishedMoves DEF Cancel, IInv, TypeOK, Results
<1>3. /\ UNCHANGED <<answers, late, queue, writer, flusher, dirty, error, written,
       durable, router, closing, failures>>
      /\ session[r].at = "waiting" /\ answers[r] = "none" /\ jobState[r] = "queued"
      /\ closing # "ok"
      /\ jobState' = [jobState EXCEPT ![r] = "canceled"]
  BY DEF Cancel, flushing, data, shutdown, Alive
<1>4. TypeOK'
  BY <1>1, <1>2, <1>3 DEF IInv, TypeOK, Moved
<1>5. JobsInv'
  BY <1>1, <1>2, <1>3 DEF IInv, Shapes, Moved, JobsInv, Done
<1>6. QueueInv'
  BY <1>1, <1>2, <1>3 DEF IInv, Shapes, Moved, QueueInv
<1>7. WriterInv'
  BY <1>1, <1>2, <1>3 DEF IInv, Shapes, Moved, WriterInv, Running
<1>8. WrittenInv'
  BY <1>1, <1>2, <1>3 DEF IInv, Shapes, Moved, WrittenInv
<1>9. SyncInv'
  BY <1>1, <1>2, <1>3 DEF IInv, Shapes, Moved, SyncInv
<1>10. AnswerInv'
  BY <1>1, <1>2, <1>3 DEF IInv, Shapes, Moved, AnswerInv, AnsweredDurable, Done
<1>11. ThreadsInv'
  BY <1>1, <1>2, <1>3 DEF IInv, Shapes, Moved, ThreadsInv, Stopped
<1>12. CoverInv'
  BY <1>3 DEF IInv, CoverInv
<1>13. ShutdownFlushes'
  BY <1>3 DEF ShutdownFlushes
<1> QED
  BY <1>4, <1>5, <1>6, <1>7, <1>8, <1>9, <1>10, <1>11, <1>12, <1>13 DEF IInv

(* The flush of a sync samples all that is published. *)
LEMMA SyncStartKeeps ==
    ASSUME IInv, NEW r \in Requests, SyncStart(r)
    PROVE  IInv'
<1>1. Shapes
  BY TypeShapes DEF IInv
<1>2. Moved(r, "flush", session[r].result, session[r].before, written[session[r].store])
  <2>1. written[session[r].store] \in SUBSET Requests
    BY <1>1 DEF Shapes
  <2>2. session[r] \in Session
    BY DEF IInv, TypeOK
  <2> QED
    BY <2>1, <2>2 DEF SyncStart, IInv, TypeOK, Moved, Session, Kinds, Results
<1>3. /\ UNCHANGED <<jobState, answers, late, queue, writer, flusher, dirty, error,
       written, durable, router, closing, failures>>
      /\ session[r].at = "barrier" /\ closing # "ok"
  BY DEF SyncStart, flushing, data, shutdown, Alive
<1>4. TypeOK'
  BY <1>1, <1>2, <1>3 DEF IInv, TypeOK, Moved
<1>5. JobsInv'
  BY <1>1, <1>2, <1>3 DEF IInv, Shapes, Moved, JobsInv, Done
<1>6. QueueInv'
  BY <1>1, <1>2, <1>3 DEF IInv, Shapes, Moved, QueueInv
<1>7. WriterInv'
  BY <1>1, <1>2, <1>3 DEF IInv, Shapes, Moved, WriterInv, Running
<1>8. WrittenInv'
  BY <1>1, <1>2, <1>3 DEF IInv, Shapes, Moved, WrittenInv
<1>9. SyncInv'
  BY <1>1, <1>2, <1>3 DEF IInv, Shapes, Moved, SyncInv
<1>10. AnswerInv'
  BY <1>1, <1>2, <1>3 DEF IInv, Shapes, Moved, AnswerInv, AnsweredDurable, Done
<1>11. ThreadsInv'
  BY <1>1, <1>2, <1>3 DEF IInv, Shapes, Moved, ThreadsInv, Stopped
<1>12. CoverInv'
  BY <1>3 DEF IInv, CoverInv
<1>13. ShutdownFlushes'
  BY <1>3 DEF ShutdownFlushes
<1> QED
  BY <1>4, <1>5, <1>6, <1>7, <1>8, <1>9, <1>10, <1>11, <1>12, <1>13 DEF IInv

(* A sync that answers made its sample durable. *)
LEMMA SyncEndKeeps ==
    ASSUME IInv, NEW r \in Requests, SyncEnd(r)
    PROVE  IInv'
<1>1. Shapes
  BY TypeShapes DEF IInv
<1>2. Moved(r, "done", "ok", session[r].before, {})
  BY FinishedMoves DEF SyncEnd, IInv, TypeOK, Results
<1>3. /\ UNCHANGED <<jobState, answers, late, queue, writer, flusher, dirty, error,
       written, router, closing, failures>>
      /\ session[r].at = "flush" /\ closing # "ok"
      /\ durable' = [durable EXCEPT ![session[r].store] = @ \cup session[r].sample]
  BY DEF SyncEnd, flushing, data, shutdown, Alive
<1>4. /\ durable' \in [Stores -> SUBSET Requests]
      /\ \A s \in Stores : durable'[s] \subseteq written[s]
  BY <1>1, <1>3 DEF IInv, TypeOK, Shapes, SyncInv
<1>5. TypeOK'
  BY <1>1, <1>2, <1>3, <1>4 DEF IInv, TypeOK, Moved
<1>6. JobsInv'
  BY <1>1, <1>2, <1>3 DEF IInv, Shapes, Moved, JobsInv, Done
<1>7. QueueInv'
  BY <1>1, <1>2, <1>3 DEF IInv, Shapes, Moved, QueueInv
<1>8. WriterInv'
  BY <1>1, <1>2, <1>3 DEF IInv, Shapes, Moved, WriterInv, Running
<1>9. WrittenInv'
  BY <1>1, <1>2, <1>3 DEF IInv, Shapes, Moved, WrittenInv
<1>10. SyncInv'
  BY <1>1, <1>2, <1>3 DEF IInv, Shapes, Moved, SyncInv
<1>11. CoverInv'
  BY <1>1, <1>2, <1>3 DEF IInv, Shapes, CoverInv
<1>12. AnswerInv'
  BY <1>1, <1>2, <1>3 DEF IInv, Shapes, Moved, AnswerInv, AnsweredDurable, Done, SyncInv,
      JobsInv
<1>13. ThreadsInv'
  BY <1>1, <1>2, <1>3 DEF IInv, Shapes, Moved, ThreadsInv, Stopped
<1>14. ShutdownFlushes'
  BY <1>3 DEF ShutdownFlushes
<1> QED
  BY <1>5, <1>6, <1>7, <1>8, <1>9, <1>10, <1>11, <1>12, <1>13, <1>14 DEF IInv

(* A sync that fails reports it. *)
LEMMA SyncFailsKeeps ==
    ASSUME IInv, NEW r \in Requests, SyncFails(r)
    PROVE  IInv'
<1>1. Shapes
  BY TypeShapes DEF IInv
<1>2. Moved(r, "done", "failed", session[r].before, {})
  BY FinishedMoves DEF SyncFails, IInv, TypeOK, Results
<1>3. /\ UNCHANGED <<jobState, answers, late, queue, writer, flusher, dirty, error,
       written, durable, router, closing>>
      /\ session[r].at = "flush" /\ closing # "ok"
      /\ failures < MaxFailures /\ failures' = failures + 1
  BY DEF SyncFails, flushing, data, shutdown, Alive
<1>4. /\ failures' \in 0..MaxFailures
  BY <1>3, Counted DEF IInv
<1>5. TypeOK'
  BY <1>1, <1>2, <1>3, <1>4 DEF IInv, TypeOK, Moved
<1>6. JobsInv'
  BY <1>1, <1>2, <1>3 DEF IInv, Shapes, Moved, JobsInv, Done
<1>7. QueueInv'
  BY <1>1, <1>2, <1>3 DEF IInv, Shapes, Moved, QueueInv
<1>8. WriterInv'
  BY <1>1, <1>2, <1>3 DEF IInv, Shapes, Moved, WriterInv, Running
<1>9. WrittenInv'
  BY <1>1, <1>2, <1>3 DEF IInv, Shapes, Moved, WrittenInv
<1>10. SyncInv'
  BY <1>1, <1>2, <1>3 DEF IInv, Shapes, Moved, SyncInv
<1>11. AnswerInv'
  BY <1>1, <1>2, <1>3 DEF IInv, Shapes, Moved, AnswerInv, AnsweredDurable, Done
<1>12. ThreadsInv'
  BY <1>1, <1>2, <1>3 DEF IInv, Shapes, Moved, ThreadsInv, Stopped
<1>13. CoverInv'
  BY <1>3 DEF IInv, CoverInv
<1>14. ShutdownFlushes'
  BY <1>3 DEF ShutdownFlushes
<1> QED
  BY <1>5, <1>6, <1>7, <1>8, <1>9, <1>10, <1>11, <1>12, <1>13, <1>14 DEF IInv

(* The job taken leaves the inbox; one that is late or given up is not started. *)
LEMMA TakeKeeps ==
    ASSUME IInv, NEW s \in Stores, Take(s)
    PROVE  IInv'
<1>1. Shapes
  BY TypeShapes DEF IInv
<1>2. LET r == Head(queue[s])
      IN  \/ /\ r \in late \/ jobState[r] = "canceled"
             /\ answers' = [answers EXCEPT ![r] = "busy"] /\ UNCHANGED <<jobState, writer>>
          \/ /\ r \notin late /\ jobState[r] # "canceled"
             /\ jobState' = [jobState EXCEPT ![r] = "running"] /\ UNCHANGED answers
             /\ Turned(s, "running", r, writer[s].outcome)
  <2>1. Head(queue[s]) \in Requests /\ UNCHANGED session
    BY DEF Take, IInv, TypeOK
  <2>2. CASE Head(queue[s]) \in late \/ jobState[Head(queue[s])] = "canceled"
    BY <2>2 DEF Take
  <2>3. CASE ~(Head(queue[s]) \in late \/ jobState[Head(queue[s])] = "canceled")
    <3>1. writer' = [writer EXCEPT ![s].at = "running", ![s].job = Head(queue[s])]
      BY <2>3 DEF Take
    <3>2. Turned(s, "running", Head(queue[s]), writer[s].outcome)
      BY <2>1, <3>1 DEF IInv, TypeOK, Turned, Writer, Results
    <3> QED
      BY <2>3, <3>2 DEF Take
  <2> QED
    BY <2>2, <2>3
<1>3. /\ UNCHANGED <<session, late, flusher, dirty, error, written, durable, router,
       closing, failures>>
      /\ writer[s].at = "idle" /\ queue[s] # << >> /\ closing # "ok"
      /\ queue' = [queue EXCEPT ![s] = Tail(@)]
  BY DEF Take, flushing, data, shutdown, Alive
<1>4. /\ Head(queue[s]) \in Requests /\ session[Head(queue[s])].store = s
      /\ answers[Head(queue[s])] = "none"
      /\ \/ jobState[Head(queue[s])] = "queued" /\ session[Head(queue[s])].at = "waiting"
         \/ jobState[Head(queue[s])] = "canceled"
  <2>1. 1 \in 1..Len(queue[s]) /\ Head(queue[s]) = queue[s][1]
    BY <1>3 DEF IInv, TypeOK
  <2> QED
    BY <1>1, <2>1 DEF IInv, QueueInv, Shapes
<1>5. /\ queue' \in [Stores -> Seq(Requests)]
      /\ jobState' \in [Requests -> {"none", "queued", "running", "canceled"}]
      /\ answers' \in [Requests -> Results]
      /\ writer' \in [Stores -> Writer]
  <2>1. queue' \in [Stores -> Seq(Requests)]
    BY <1>3 DEF IInv, TypeOK
  <2>2. jobState' \in [Requests -> {"none", "queued", "running", "canceled"}]
    BY <1>2 DEF IInv, TypeOK
  <2>3. answers' \in [Requests -> Results]
    BY <1>2 DEF IInv, TypeOK, Results
  <2>4. writer' \in [Stores -> Writer]
    BY <1>2 DEF IInv, TypeOK, Turned
  <2> QED
    BY <2>1, <2>2, <2>3, <2>4
<1>6. TypeOK'
  BY <1>1, <1>2, <1>3, <1>4, <1>5 DEF IInv, TypeOK, Turned
<1>7. JobsInv'
  BY <1>1, <1>2, <1>3, <1>4 DEF IInv, Shapes, JobsInv, Done
<1>8. QueueInv'
  BY <1>1, <1>2, <1>3, <1>4 DEF IInv, Shapes, QueueInv
<1>9. WriterInv'
  BY <1>1, <1>2, <1>3, <1>4 DEF IInv, Shapes, Turned, WriterInv, Running, WrittenInv
<1>10. WrittenInv'
  BY <1>1, <1>2, <1>3, <1>4 DEF IInv, Shapes, WrittenInv
<1>11. CoverInv'
  BY <1>1, <1>2, <1>3, <1>4 DEF IInv, Shapes, Turned, CoverInv, WriterInv, Running
<1>12. AnswerInv'
  BY <1>1, <1>2, <1>3, <1>4 DEF IInv, Shapes, AnswerInv, AnsweredDurable, Done
<1>13. ThreadsInv'
  BY <1>1, <1>2, <1>3, <1>4 DEF IInv, Shapes, Turned, ThreadsInv, Stopped
<1>14. SyncInv'
  BY <1>3 DEF IInv, SyncInv
<1>15. ShutdownFlushes'
  BY <1>3 DEF ShutdownFlushes
<1> QED
  BY <1>6, <1>7, <1>8, <1>9, <1>10, <1>11, <1>12, <1>13, <1>14, <1>15 DEF IInv

(* A refused job is answered and is published nowhere. *)
LEMMA RefuseKeeps ==
    ASSUME IInv, NEW s \in Stores, Refuse(s)
    PROVE  IInv'
<1>1. Shapes
  BY TypeShapes DEF IInv
<1>2. Turned(s, "idle", Nobody, writer[s].outcome)
  BY DEF Refuse, IInv, TypeOK, Turned, Writer, Results
<1>3. /\ UNCHANGED <<session, jobState, late, queue, flusher, dirty, error, written,
       durable, router, closing, failures>>
      /\ writer[s].at = "running" /\ closing # "ok"
      /\ answers' = [answers EXCEPT ![writer[s].job] = "failed"]
  BY DEF Refuse, flushing, data, shutdown, Alive
<1>4. /\ writer[s].job \in Requests /\ session[writer[s].job].store = s
      /\ session[writer[s].job].at = "waiting" /\ jobState[writer[s].job] = "running"
      /\ answers[writer[s].job] = "none"
      /\ writer[s].job \notin written[s]
  BY <1>1, <1>3 DEF IInv, Shapes, WriterInv, Running
<1>5. /\ answers' \in [Requests -> Results]
  BY <1>3 DEF IInv, TypeOK, Results
<1>6. TypeOK'
  BY <1>1, <1>2, <1>3, <1>4, <1>5 DEF IInv, TypeOK, Turned
<1>7. JobsInv'
  BY <1>1, <1>2, <1>3, <1>4 DEF IInv, Shapes, JobsInv, Done
<1>8. QueueInv'
  BY <1>1, <1>2, <1>3, <1>4 DEF IInv, Shapes, QueueInv
<1>9. WriterInv'
  BY <1>1, <1>2, <1>3, <1>4 DEF IInv, Shapes, Turned, WriterInv, Running
<1>10. CoverInv'
  BY <1>1, <1>2, <1>3, <1>4 DEF IInv, Shapes, Turned, CoverInv
<1>11. AnswerInv'
  BY <1>1, <1>2, <1>3, <1>4 DEF IInv, Shapes, AnswerInv, AnsweredDurable, Done
<1>12. ThreadsInv'
  BY <1>1, <1>2, <1>3, <1>4 DEF IInv, Shapes, Turned, ThreadsInv, Stopped
<1>13. WrittenInv' /\ SyncInv'
  BY <1>3 DEF IInv, WrittenInv, SyncInv
<1>14. ShutdownFlushes'
  BY <1>3 DEF ShutdownFlushes
<1> QED
  BY <1>6, <1>7, <1>8, <1>9, <1>10, <1>11, <1>12, <1>13, <1>14 DEF IInv

(* The verb publishes the job the writer runs. *)
LEMMA RunKeeps ==
    ASSUME IInv, NEW s \in Stores, Run(s)
    PROVE  IInv'
<1>1. Shapes
  BY TypeShapes DEF IInv
<1>2. Turned(s, IF session[writer[s].job].kind = "durableSeal" THEN "sealed" ELSE "ran",
             writer[s].job, "ok")
  BY DEF Run, IInv, TypeOK, Turned, Writer, Results
<1>3. /\ UNCHANGED <<session, jobState, answers, late, queue, flusher, dirty, error,
       durable, router, closing, failures>>
      /\ writer[s].at = "running" /\ closing # "ok"
      /\ written' = IF session[writer[s].job].kind = "sync" THEN written
                   ELSE [written EXCEPT ![s] = @ \cup {writer[s].job}]
  BY DEF Run, flushing, data, shutdown, Alive
<1>4. /\ writer[s].job \in Requests /\ session[writer[s].job].store = s
      /\ session[writer[s].job].at = "waiting" /\ jobState[writer[s].job] = "running"
      /\ answers[writer[s].job] = "none"
      /\ writer[s].job \notin written[s]
  BY <1>1, <1>3 DEF IInv, Shapes, WriterInv, Running
<1>5. /\ written' \in [Stores -> SUBSET Requests]
      /\ \A q \in Stores : durable'[q] \subseteq written'[q]
  BY <1>3, <1>4 DEF IInv, TypeOK
<1>6. TypeOK'
  BY <1>1, <1>2, <1>3, <1>4, <1>5 DEF IInv, TypeOK, Turned
<1>7. WriterInv'
  BY <1>1, <1>2, <1>3, <1>4 DEF IInv, Shapes, Turned, WriterInv, Running
<1>8. WrittenInv'
  BY <1>1, <1>2, <1>3, <1>4 DEF IInv, Shapes, WrittenInv
<1>9. SyncInv'
  BY <1>1, <1>2, <1>3, <1>4 DEF IInv, Shapes, SyncInv
<1>10. CoverInv'
  BY <1>1, <1>2, <1>3, <1>4 DEF IInv, Shapes, Turned, CoverInv
<1>11. AnswerInv'
  BY <1>1, <1>2, <1>3, <1>4 DEF IInv, Shapes, AnswerInv, AnsweredDurable, Done, SyncInv
<1>12. ThreadsInv'
  BY <1>1, <1>2, <1>3, <1>4 DEF IInv, Shapes, Turned, ThreadsInv, Stopped
<1>13. JobsInv' /\ QueueInv'
  BY <1>3 DEF IInv, JobsInv, Done, QueueInv
<1>14. ShutdownFlushes'
  BY <1>3 DEF ShutdownFlushes
<1> QED
  BY <1>6, <1>7, <1>8, <1>9, <1>10, <1>11, <1>12, <1>13, <1>14 DEF IInv

(* A job whose store cannot be opened is answered and is published nowhere. *)
LEMMA OpenFailsKeeps ==
    ASSUME IInv, NEW s \in Stores, OpenFails(s)
    PROVE  IInv'
<1>1. Shapes
  BY TypeShapes DEF IInv
<1>2. Turned(s, "idle", Nobody, writer[s].outcome)
  <2>1. writer' = [writer EXCEPT ![s].at = "idle", ![s].job = Nobody]
    BY DEF OpenFails
  <2> QED
    BY <2>1 DEF IInv, TypeOK, Turned, Writer, Results
<1>3. /\ UNCHANGED <<session, jobState, late, queue, flusher, dirty, error, written,
       durable, router, closing>>
      /\ writer[s].at = "running" /\ closing # "ok" /\ failures < MaxFailures
      /\ failures' = failures + 1
      /\ \E e \in {"failed", "contended"} : answers' = [answers EXCEPT ![writer[s].job] = e]
  BY DEF OpenFails, Errors, flushing, data, shutdown, Alive
<1>4. /\ writer[s].job \in Requests /\ session[writer[s].job].store = s
      /\ session[writer[s].job].at = "waiting" /\ jobState[writer[s].job] = "running"
      /\ answers[writer[s].job] = "none"
      /\ writer[s].job \notin written[s]
  BY <1>1, <1>3 DEF IInv, Shapes, WriterInv, Running
<1>5. /\ answers' \in [Requests -> Results]
      /\ failures' \in 0..MaxFailures
  BY <1>3, Counted DEF IInv, TypeOK, Results
<1>6. TypeOK'
  BY <1>1, <1>2, <1>3, <1>4, <1>5 DEF IInv, TypeOK, Turned
<1>7. JobsInv'
  BY <1>1, <1>2, <1>3, <1>4 DEF IInv, Shapes, JobsInv, Done
<1>8. QueueInv'
  BY <1>1, <1>2, <1>3, <1>4 DEF IInv, Shapes, QueueInv
<1>9. WriterInv'
  BY <1>1, <1>2, <1>3, <1>4 DEF IInv, Shapes, Turned, WriterInv, Running
<1>10. CoverInv'
  BY <1>1, <1>2, <1>3, <1>4 DEF IInv, Shapes, Turned, CoverInv
<1>11. AnswerInv'
  BY <1>1, <1>2, <1>3, <1>4 DEF IInv, Shapes, AnswerInv, AnsweredDurable, Done
<1>12. ThreadsInv'
  BY <1>1, <1>2, <1>3, <1>4 DEF IInv, Shapes, Turned, ThreadsInv, Stopped
<1>13. WrittenInv' /\ SyncInv'
  BY <1>3 DEF IInv, WrittenInv, SyncInv
<1>14. ShutdownFlushes'
  BY <1>3 DEF ShutdownFlushes
<1> QED
  BY <1>6, <1>7, <1>8, <1>9, <1>10, <1>11, <1>12, <1>13, <1>14 DEF IInv

(* A capture that fails may have published its job. *)
LEMMA SealFailsKeeps ==
    ASSUME IInv, NEW s \in Stores, SealFails(s)
    PROVE  IInv'
<1>1. Shapes
  BY TypeShapes DEF IInv
<1>2. \E e \in {"failed", "contended"} : Turned(s, "ran", writer[s].job, e)
  <2>1. PICK e \in Errors(writer[s].job) :
            writer' = [writer EXCEPT ![s].at = "ran", ![s].outcome = e]
    BY DEF SealFails
  <2>2. e \in {"failed", "contended"}
    BY DEF Errors
  <2>3. Turned(s, "ran", writer[s].job, e)
    BY <2>1, <2>2 DEF IInv, TypeOK, Turned, Writer, Results
  <2> QED
    BY <2>2, <2>3
<1>3. /\ UNCHANGED <<session, jobState, answers, late, queue, flusher, dirty, error,
       durable, router, closing>>
      /\ writer[s].at = "running" /\ closing # "ok" /\ failures < MaxFailures
      /\ failures' = failures + 1
      /\ session[writer[s].job].kind # "sync"
      /\ written' = [written EXCEPT ![s] = @ \cup {writer[s].job}] \/ UNCHANGED written
  BY DEF SealFails, flushing, data, shutdown, Alive
<1>4. /\ writer[s].job \in Requests /\ session[writer[s].job].store = s
      /\ session[writer[s].job].at = "waiting" /\ jobState[writer[s].job] = "running"
      /\ answers[writer[s].job] = "none"
      /\ writer[s].job \notin written[s]
  BY <1>1, <1>3 DEF IInv, Shapes, WriterInv, Running
<1>5. /\ written' \in [Stores -> SUBSET Requests]
      /\ \A q \in Stores : durable'[q] \subseteq written'[q]
      /\ failures' \in 0..MaxFailures
  <2>1. written' \in [Stores -> SUBSET Requests]
    <3>1. CASE written' = [written EXCEPT ![s] = @ \cup {writer[s].job}]
      BY <1>4, <3>1 DEF IInv, TypeOK
    <3>2. CASE UNCHANGED written
      BY <3>2 DEF IInv, TypeOK
    <3> QED
      BY <1>3, <3>1, <3>2
  <2>2. \A q \in Stores : durable'[q] \subseteq written'[q]
    BY <1>3, <1>4 DEF IInv, TypeOK
  <2> QED
    BY <1>3, <2>1, <2>2, Counted DEF IInv
<1>6. TypeOK'
  BY <1>1, <1>2, <1>3, <1>4, <1>5 DEF IInv, TypeOK, Turned
<1>7. WriterInv'
  BY <1>1, <1>2, <1>3, <1>4 DEF IInv, Shapes, Turned, WriterInv, Running
<1>8. WrittenInv'
  BY <1>1, <1>2, <1>3, <1>4 DEF IInv, Shapes, WrittenInv
<1>9. SyncInv'
  BY <1>1, <1>2, <1>3, <1>4 DEF IInv, Shapes, SyncInv
<1>10. CoverInv'
  BY <1>1, <1>2, <1>3, <1>4 DEF IInv, Shapes, Turned, CoverInv
<1>11. AnswerInv'
  BY <1>1, <1>2, <1>3, <1>4 DEF IInv, Shapes, AnswerInv, AnsweredDurable, Done, SyncInv
<1>12. ThreadsInv'
  BY <1>1, <1>2, <1>3, <1>4 DEF IInv, Shapes, Turned, ThreadsInv, Stopped
<1>13. JobsInv' /\ QueueInv'
  BY <1>3 DEF IInv, JobsInv, Done, QueueInv
<1>14. ShutdownFlushes'
  BY <1>3 DEF ShutdownFlushes
<1> QED
  BY <1>6, <1>7, <1>8, <1>9, <1>10, <1>11, <1>12, <1>13, <1>14 DEF IInv

(* The flush of a durable seal covers its own job. *)
LEMMA SealSyncKeeps ==
    ASSUME IInv, NEW s \in Stores, SealSync(s)
    PROVE  IInv'
<1>1. Shapes
  BY TypeShapes DEF IInv
<1>2. Turned(s, "ran", writer[s].job, writer[s].outcome)
  BY DEF SealSync, IInv, TypeOK, Turned, Writer, Results
<1>3. /\ UNCHANGED <<session, jobState, answers, late, queue, flusher, dirty, error,
       written, router, closing, failures>>
      /\ writer[s].at = "sealed" /\ closing # "ok"
      /\ durable' = [durable EXCEPT ![s] = written[s]]
  BY DEF SealSync, flushing, data, shutdown, Alive
<1>4. /\ writer[s].job \in Requests /\ session[writer[s].job].store = s
      /\ session[writer[s].job].at = "waiting" /\ jobState[writer[s].job] = "running"
      /\ answers[writer[s].job] = "none"
      /\ writer[s].job \in written[s]
  BY <1>1, <1>3 DEF IInv, Shapes, WriterInv, Running
<1>5. durable[s] \subseteq written[s]
  BY DEF IInv, TypeOK
<1>6. /\ durable' \in [Stores -> SUBSET Requests]
      /\ \A q \in Stores : durable'[q] \subseteq written'[q]
  BY <1>3 DEF IInv, TypeOK
<1>7. TypeOK'
  BY <1>1, <1>2, <1>3, <1>4, <1>5, <1>6 DEF IInv, TypeOK, Turned
<1>8. WriterInv'
  BY <1>1, <1>2, <1>3, <1>4, <1>5 DEF IInv, Shapes, Turned, WriterInv, Running
<1>9. CoverInv'
  BY <1>1, <1>2, <1>3, <1>4, <1>5 DEF IInv, Shapes, Turned, CoverInv
<1>10. AnswerInv'
  BY <1>1, <1>2, <1>3, <1>4, <1>5 DEF IInv, Shapes, AnswerInv, AnsweredDurable, Done
<1>11. ThreadsInv'
  BY <1>1, <1>2, <1>3, <1>4, <1>5 DEF IInv, Shapes, Turned, ThreadsInv, Stopped
<1>12. JobsInv' /\ QueueInv' /\ WrittenInv' /\ SyncInv'
  BY <1>3 DEF IInv, JobsInv, Done, QueueInv, WrittenInv, SyncInv
<1>13. ShutdownFlushes'
  BY <1>3 DEF ShutdownFlushes
<1> QED
  BY <1>7, <1>8, <1>9, <1>10, <1>11, <1>12, <1>13 DEF IInv

(* A durable seal whose flush fails is not answered ok. *)
LEMMA SealSyncFailsKeeps ==
    ASSUME IInv, NEW s \in Stores, SealSyncFails(s)
    PROVE  IInv'
<1>1. Shapes
  BY TypeShapes DEF IInv
<1>2. \E e \in {"failed", "contended"} : Turned(s, "ran", writer[s].job, e)
  <2>1. PICK e \in Errors(writer[s].job) :
            writer' = [writer EXCEPT ![s].at = "ran", ![s].outcome = e]
    BY DEF SealSyncFails
  <2>2. e \in {"failed", "contended"}
    BY DEF Errors
  <2>3. Turned(s, "ran", writer[s].job, e)
    BY <2>1, <2>2 DEF IInv, TypeOK, Turned, Writer, Results
  <2> QED
    BY <2>2, <2>3
<1>3. /\ UNCHANGED <<session, jobState, answers, late, queue, flusher, dirty, error,
       written, durable, router, closing>>
      /\ writer[s].at = "sealed" /\ closing # "ok" /\ failures < MaxFailures
      /\ failures' = failures + 1
  BY DEF SealSyncFails, flushing, data, shutdown, Alive
<1>4. /\ writer[s].job \in Requests /\ session[writer[s].job].store = s
      /\ session[writer[s].job].at = "waiting" /\ jobState[writer[s].job] = "running"
      /\ answers[writer[s].job] = "none"
      /\ writer[s].job \in written[s]
  BY <1>1, <1>3 DEF IInv, Shapes, WriterInv, Running
<1>5. /\ failures' \in 0..MaxFailures
  BY <1>3, Counted DEF IInv
<1>6. TypeOK'
  BY <1>1, <1>2, <1>3, <1>4, <1>5 DEF IInv, TypeOK, Turned
<1>7. WriterInv'
  BY <1>1, <1>2, <1>3, <1>4 DEF IInv, Shapes, Turned, WriterInv, Running
<1>8. CoverInv'
  BY <1>1, <1>2, <1>3, <1>4 DEF IInv, Shapes, Turned, CoverInv
<1>9. ThreadsInv'
  BY <1>1, <1>2, <1>3, <1>4 DEF IInv, Shapes, Turned, ThreadsInv, Stopped
<1>10. JobsInv' /\ QueueInv' /\ WrittenInv' /\ SyncInv' /\ AnswerInv'
  BY <1>3 DEF IInv, JobsInv, Done, QueueInv, WrittenInv, SyncInv, AnswerInv, AnsweredDurable
<1>11. ShutdownFlushes'
  BY <1>3 DEF ShutdownFlushes
<1> QED
  BY <1>6, <1>7, <1>8, <1>9, <1>10, <1>11 DEF IInv

(* What is published and not flushed is flagged before it is answered. *)
LEMMA ReplyKeeps ==
    ASSUME IInv, NEW s \in Stores, Reply(s)
    PROVE  IInv'
<1>1. Shapes
  BY TypeShapes DEF IInv
<1>2. Turned(s, "idle", Nobody, "none")
  BY DEF Reply, IInv, TypeOK, Turned, Writer, Results
<1>3. /\ UNCHANGED <<session, jobState, late, queue, flusher, error, written, durable,
       router, closing, failures>>
      /\ writer[s].at = "ran" /\ closing # "ok"
      /\ dirty' = [dirty EXCEPT ![s] = @ \/ Pending(s)]
      /\ answers' = [answers EXCEPT ![writer[s].job] = writer[s].outcome]
  BY DEF Reply, flushing, data, shutdown, Alive
<1>4. /\ writer[s].job \in Requests /\ session[writer[s].job].store = s
      /\ session[writer[s].job].at = "waiting" /\ jobState[writer[s].job] = "running"
      /\ answers[writer[s].job] = "none"
      /\ writer[s].outcome \in {"ok", "failed", "contended"}
  BY <1>1, <1>3 DEF IInv, Shapes, WriterInv, Running
<1>5. /\ answers' \in [Requests -> Results]
      /\ dirty' \in [Stores -> BOOLEAN]
  <2>1. Pending(s) \in BOOLEAN
    BY DEF Pending
  <2>2. writer[s].outcome \in Results
    BY <1>4 DEF Results
  <2> QED
    BY <1>3, <1>4, <2>1, <2>2 DEF IInv, TypeOK
<1>6. TypeOK'
  BY <1>1, <1>2, <1>3, <1>4, <1>5 DEF IInv, TypeOK, Turned
<1>7. JobsInv'
  BY <1>1, <1>2, <1>3, <1>4 DEF IInv, Shapes, JobsInv, Done
<1>8. QueueInv'
  BY <1>1, <1>2, <1>3, <1>4 DEF IInv, Shapes, QueueInv
<1>9. WriterInv'
  BY <1>1, <1>2, <1>3, <1>4 DEF IInv, Shapes, Turned, WriterInv, Running
<1>10. CoverInv'
  <2>1. SUFFICES ASSUME NEW q \in Stores, NEW x \in written[q] \ durable[q]
                 PROVE  \/ dirty'[q]
                        \/ flusher[q].at \in {"flush", "lastFlush"} /\ x \in flusher[q].sample
                        \/ writer'[q].job = x
    BY <1>3 DEF CoverInv, IInv
  <2>2. CASE q # s
    BY <1>1, <1>2, <1>3, <2>1, <2>2 DEF IInv, CoverInv, Turned, Shapes
  <2>3. CASE q = s /\ x = writer[s].job
    <3>1. session[x].kind # "sync" /\ session[x].kind \in Kinds
      BY <1>1, <1>4, <2>1, <2>3 DEF IInv, WrittenInv, Shapes
    <3>2. Pending(s)
      BY <1>3, <2>1, <2>3, <3>1 DEF IInv, WriterInv, Pending, Kinds
    <3> QED
      BY <1>1, <1>3, <2>3, <3>2 DEF Shapes
  <2>4. CASE q = s /\ x # writer[s].job
    BY <1>1, <1>3, <2>1, <2>4 DEF IInv, CoverInv, Shapes
  <2> QED
    BY <2>2, <2>3, <2>4
<1>11. AnswerInv'
  BY <1>1, <1>2, <1>3, <1>4 DEF IInv, Shapes, AnswerInv, AnsweredDurable, Done, WriterInv,
      Running
<1>12. ThreadsInv'
  BY <1>1, <1>2, <1>3, <1>4 DEF IInv, Shapes, Turned, ThreadsInv, Stopped
<1>13. WrittenInv' /\ SyncInv'
  BY <1>3 DEF IInv, WrittenInv, SyncInv
<1>14. ShutdownFlushes'
  BY <1>3 DEF ShutdownFlushes
<1> QED
  BY <1>6, <1>7, <1>8, <1>9, <1>10, <1>11, <1>12, <1>13, <1>14 DEF IInv

(* The writer stops with an empty inbox that nobody can send to. *)
LEMMA WriterEndsKeeps ==
    ASSUME IInv, NEW s \in Stores, WriterEnds(s)
    PROVE  IInv'
<1>1. Shapes
  BY TypeShapes DEF IInv
<1>2. Turned(s, "finish", writer[s].job, writer[s].outcome)
  BY DEF WriterEnds, IInv, TypeOK, Turned, Writer, Results
<1>3. /\ UNCHANGED <<session, jobState, answers, late, queue, flusher, dirty, error,
       written, durable, router, closing, failures>>
      /\ writer[s].at = "idle" /\ queue[s] = << >> /\ Disconnected(s) /\ closing # "ok"
  BY DEF WriterEnds, flushing, data, shutdown, Alive
<1>4. TypeOK'
  BY <1>1, <1>2, <1>3 DEF IInv, TypeOK, Turned
<1>5. WriterInv'
  BY <1>1, <1>2, <1>3 DEF IInv, Shapes, Turned, WriterInv, Running
<1>6. CoverInv'
  BY <1>1, <1>2, <1>3 DEF IInv, Shapes, Turned, CoverInv
<1>7. ThreadsInv'
  BY <1>1, <1>2, <1>3 DEF IInv, Shapes, Turned, ThreadsInv, Stopped, Disconnected
<1>8. JobsInv' /\ QueueInv' /\ WrittenInv' /\ SyncInv' /\ AnswerInv'
  BY <1>3 DEF IInv, JobsInv, Done, QueueInv, WrittenInv, SyncInv, AnswerInv, AnsweredDurable
<1>9. ShutdownFlushes'
  BY <1>3 DEF ShutdownFlushes
<1> QED
  BY <1>4, <1>5, <1>6, <1>7, <1>8, <1>9 DEF IInv

(* The writer returns what its flusher returned. *)
LEMMA WriterJoinsFlusherKeeps ==
    ASSUME IInv, NEW s \in Stores, WriterJoinsFlusher(s)
    PROVE  IInv'
<1>1. Shapes
  BY TypeShapes DEF IInv
<1>2. Turned(s, flusher[s].at, writer[s].job, writer[s].outcome)
  BY DEF WriterJoinsFlusher, IInv, TypeOK, Turned, Writer, Results
<1>3. /\ UNCHANGED <<session, jobState, answers, late, queue, flusher, dirty, error,
       written, durable, router, closing, failures>>
      /\ writer[s].at = "finish" /\ flusher[s].at \in {"gone", "failed"} /\ closing # "ok"
  BY DEF WriterJoinsFlusher, flushing, data, shutdown, Alive
<1>4. TypeOK'
  BY <1>1, <1>2, <1>3 DEF IInv, TypeOK, Turned
<1>5. WriterInv'
  BY <1>1, <1>2, <1>3 DEF IInv, Shapes, Turned, WriterInv, Running
<1>6. CoverInv'
  BY <1>1, <1>2, <1>3 DEF IInv, Shapes, Turned, CoverInv
<1>7. ThreadsInv'
  BY <1>1, <1>2, <1>3 DEF IInv, Shapes, Turned, ThreadsInv, Stopped
<1>8. JobsInv' /\ QueueInv' /\ WrittenInv' /\ SyncInv' /\ AnswerInv'
  BY <1>3 DEF IInv, JobsInv, Done, QueueInv, WrittenInv, SyncInv, AnswerInv, AnsweredDurable
<1>9. ShutdownFlushes'
  BY <1>3 DEF ShutdownFlushes
<1> QED
  BY <1>4, <1>5, <1>6, <1>7, <1>8, <1>9 DEF IInv

(* The flag is taken before the flush samples: nothing is lost in between. *)
LEMMA FlusherTickKeeps ==
    ASSUME IInv, NEW s \in Stores, FlusherTick(s)
    PROVE  IInv'
<1>1. Shapes
  BY TypeShapes DEF IInv
<1>2. Flushed(s, IF writer[s].at = "finish" THEN "lastFlush" ELSE "flush", written[s])
  BY DEF FlusherTick, IInv, TypeOK, Flushed, Flusher
<1>3. /\ UNCHANGED <<session, jobState, answers, late, queue, writer, error, written,
       durable, router, closing, failures>>
      /\ flusher[s].at = "idle" /\ closing # "ok"
      /\ dirty' = [dirty EXCEPT ![s] = FALSE]
  BY DEF FlusherTick, flushing, data, shutdown, Alive
<1>4. TypeOK'
  BY <1>1, <1>2, <1>3 DEF IInv, TypeOK, Flushed
<1>5. CoverInv'
  BY <1>1, <1>2, <1>3 DEF IInv, Shapes, Flushed, CoverInv
<1>6. ThreadsInv'
  BY <1>1, <1>2, <1>3 DEF IInv, Shapes, Flushed, ThreadsInv, Stopped
<1>7. JobsInv' /\ QueueInv' /\ WriterInv' /\ WrittenInv' /\ SyncInv' /\ AnswerInv'
  BY <1>3 DEF IInv, JobsInv, Done, QueueInv, WriterInv, Running, WrittenInv, SyncInv,
      AnswerInv, AnsweredDurable
<1>8. ShutdownFlushes'
  BY <1>3 DEF ShutdownFlushes
<1> QED
  BY <1>4, <1>5, <1>6, <1>7, <1>8 DEF IInv

(* The flusher ends with the flag down and the writer stopped. *)
LEMMA FlusherEndsKeeps ==
    ASSUME IInv, NEW s \in Stores, FlusherEnds(s)
    PROVE  IInv'
<1>1. Shapes
  BY TypeShapes DEF IInv
<1>2. Flushed(s, "gone", flusher[s].sample) \/ Flushed(s, "failed", flusher[s].sample)
  <2>1. \/ flusher' = [flusher EXCEPT ![s].at = "gone"]
        \/ flusher' = [flusher EXCEPT ![s].at = "failed"]
    BY DEF FlusherEnds
  <2>2. CASE flusher' = [flusher EXCEPT ![s].at = "gone"]
    BY <2>2 DEF IInv, TypeOK, Flushed, Flusher
  <2>3. CASE flusher' = [flusher EXCEPT ![s].at = "failed"]
    BY <2>3 DEF IInv, TypeOK, Flushed, Flusher
  <2> QED
    BY <2>1, <2>2, <2>3
<1>3. /\ UNCHANGED <<session, jobState, answers, late, queue, writer, dirty, error,
       written, durable, router, closing>>
      /\ flusher[s].at = "idle" /\ writer[s].at = "finish" /\ ~dirty[s] /\ closing # "ok"
      /\ UNCHANGED failures \/ (failures < MaxFailures /\ failures' = failures + 1)
  BY DEF FlusherEnds, flushing, data, shutdown, Alive
<1>4. /\ failures' \in 0..MaxFailures
  BY <1>3, Counted DEF IInv, TypeOK
<1>5. TypeOK'
  BY <1>1, <1>2, <1>3, <1>4 DEF IInv, TypeOK, Flushed
<1>6. CoverInv'
  BY <1>1, <1>2, <1>3 DEF IInv, Shapes, Flushed, CoverInv
<1>7. ThreadsInv'
  BY <1>1, <1>2, <1>3 DEF IInv, Shapes, Flushed, ThreadsInv, Stopped
<1>8. JobsInv' /\ QueueInv' /\ WriterInv' /\ WrittenInv' /\ SyncInv' /\ AnswerInv'
  BY <1>3 DEF IInv, JobsInv, Done, QueueInv, WriterInv, Running, WrittenInv, SyncInv,
      AnswerInv, AnsweredDurable
<1>9. ShutdownFlushes'
  BY <1>3 DEF ShutdownFlushes
<1> QED
  BY <1>5, <1>6, <1>7, <1>8, <1>9 DEF IInv

(* A flush makes its sample durable. *)
LEMMA FlushEndsKeeps ==
    ASSUME IInv, NEW s \in Stores, FlushEnds(s)
    PROVE  IInv'
<1>1. Shapes
  BY TypeShapes DEF IInv
<1>2. Flushed(s, "idle", {})
  BY DEF FlushEnds, IInv, TypeOK, Flushed, Flusher
<1>3. /\ UNCHANGED <<session, jobState, answers, late, queue, writer, dirty, written,
       router, closing, failures>>
      /\ flusher[s].at \in {"flush", "lastFlush"} /\ closing # "ok"
      /\ durable' = [durable EXCEPT ![s] = @ \cup flusher[s].sample]
      /\ error' = [error EXCEPT ![s] = FALSE]
  BY DEF FlushEnds, flushing, data, shutdown, Alive
<1>4. /\ durable' \in [Stores -> SUBSET Requests]
      /\ \A q \in Stores : durable'[q] \subseteq written'[q]
      /\ error' \in [Stores -> BOOLEAN]
  BY <1>1, <1>3 DEF IInv, TypeOK, Shapes, CoverInv
<1>5. TypeOK'
  BY <1>1, <1>2, <1>3, <1>4 DEF IInv, TypeOK, Flushed
<1>6. WriterInv'
  BY <1>1, <1>2, <1>3 DEF IInv, Shapes, WriterInv, Running
<1>7. CoverInv'
  BY <1>1, <1>2, <1>3 DEF IInv, Shapes, Flushed, CoverInv
<1>8. AnswerInv'
  BY <1>1, <1>2, <1>3 DEF IInv, Shapes, AnswerInv, AnsweredDurable, Done
<1>9. ThreadsInv'
  BY <1>1, <1>2, <1>3 DEF IInv, Shapes, Flushed, ThreadsInv, Stopped
<1>10. JobsInv' /\ QueueInv' /\ WrittenInv' /\ SyncInv'
  BY <1>3 DEF IInv, JobsInv, Done, QueueInv, WrittenInv, SyncInv
<1>11. ShutdownFlushes'
  BY <1>3 DEF ShutdownFlushes
<1> QED
  BY <1>5, <1>6, <1>7, <1>8, <1>9, <1>10, <1>11 DEF IInv

(* A flush that fails raises the flag again. *)
LEMMA FlushFailsKeeps ==
    ASSUME IInv, NEW s \in Stores, FlushFails(s)
    PROVE  IInv'
<1>1. Shapes
  BY TypeShapes DEF IInv
<1>2. Flushed(s, IF flusher[s].at = "flush" THEN "idle" ELSE "failed", {})
  BY DEF FlushFails, IInv, TypeOK, Flushed, Flusher
<1>3. /\ UNCHANGED <<session, jobState, answers, late, queue, writer, written, durable,
       router, closing>>
      /\ flusher[s].at \in {"flush", "lastFlush"} /\ closing # "ok" /\ failures < MaxFailures
      /\ failures' = failures + 1
      /\ dirty' = [dirty EXCEPT ![s] = TRUE]
      /\ error' = [error EXCEPT ![s] = TRUE]
  BY DEF FlushFails, flushing, data, shutdown, Alive
<1>4. /\ dirty' \in [Stores -> BOOLEAN]
      /\ error' \in [Stores -> BOOLEAN]
      /\ failures' \in 0..MaxFailures
  BY <1>3, Counted DEF IInv, TypeOK
<1>5. TypeOK'
  BY <1>1, <1>2, <1>3, <1>4 DEF IInv, TypeOK, Flushed
<1>6. CoverInv'
  BY <1>1, <1>2, <1>3 DEF IInv, Shapes, Flushed, CoverInv
<1>7. ThreadsInv'
  BY <1>1, <1>2, <1>3 DEF IInv, Shapes, Flushed, ThreadsInv, Stopped
<1>8. JobsInv' /\ QueueInv' /\ WriterInv' /\ WrittenInv' /\ SyncInv' /\ AnswerInv'
  BY <1>3 DEF IInv, JobsInv, Done, QueueInv, WriterInv, Running, WrittenInv, SyncInv,
      AnswerInv, AnsweredDurable
<1>9. ShutdownFlushes'
  BY <1>3 DEF ShutdownFlushes
<1> QED
  BY <1>5, <1>6, <1>7, <1>8, <1>9 DEF IInv

(* Closing starts with every writer still in the router. *)
LEMMA CloseKeeps ==
    ASSUME IInv, Close
    PROVE  IInv'
<1>1. Shapes
  BY TypeShapes DEF IInv
<1>2. /\ UNCHANGED <<session, jobState, answers, late, queue, writer, flusher, dirty,
       error, written, durable, router, failures>>
      /\ closing = "open" /\ closing' = "syncs"
  BY DEF Close, flushing, data, shutdown, Alive
<1>3. TypeOK'
  BY <1>1, <1>2 DEF IInv, TypeOK
<1>4. ThreadsInv'
  BY <1>1, <1>2 DEF IInv, Shapes, ThreadsInv, Stopped
<1>5. JobsInv' /\ QueueInv' /\ WriterInv' /\ WrittenInv' /\ SyncInv' /\ CoverInv' /\
       AnswerInv'
  BY <1>2 DEF IInv, JobsInv, Done, QueueInv, WriterInv, Running, WrittenInv, SyncInv,
      CoverInv, AnswerInv, AnsweredDurable
<1>6. ShutdownFlushes'
  BY <1>2 DEF ShutdownFlushes
<1> QED
  BY <1>3, <1>4, <1>5, <1>6 DEF IInv

(* The writers are joined when no sync is left. *)
LEMMA WaitSyncsKeeps ==
    ASSUME IInv, WaitSyncs
    PROVE  IInv'
<1>1. Shapes
  BY TypeShapes DEF IInv
<1>2. /\ UNCHANGED <<session, jobState, answers, late, queue, writer, flusher, dirty,
       error, written, durable, router, failures>>
      /\ closing = "syncs" /\ ActiveSyncs = {} /\ closing' = "join"
  BY DEF WaitSyncs, flushing, data, shutdown, Alive
<1>3. TypeOK'
  BY <1>1, <1>2 DEF IInv, TypeOK
<1>4. ThreadsInv'
  BY <1>1, <1>2 DEF IInv, Shapes, ThreadsInv, Stopped, ActiveSyncs
<1>5. JobsInv' /\ QueueInv' /\ WriterInv' /\ WrittenInv' /\ SyncInv' /\ CoverInv' /\
       AnswerInv'
  BY <1>2 DEF IInv, JobsInv, Done, QueueInv, WriterInv, Running, WrittenInv, SyncInv,
      CoverInv, AnswerInv, AnsweredDurable
<1>6. ShutdownFlushes'
  BY <1>2 DEF ShutdownFlushes
<1> QED
  BY <1>3, <1>4, <1>5, <1>6 DEF IInv

(* A writer that is dropped leaves the router. *)
LEMMA DropKeeps ==
    ASSUME IInv, NEW s \in Stores, Drop(s)
    PROVE  IInv'
<1>1. Shapes
  BY TypeShapes DEF IInv
<1>2. /\ UNCHANGED <<session, jobState, answers, late, queue, writer, flusher, dirty,
       error, written, durable, closing, failures>>
      /\ closing = "join"
      /\ router' = router \ {s}
  BY DEF Drop, flushing, data, shutdown, Alive
<1>3. TypeOK'
  BY <1>1, <1>2 DEF IInv, TypeOK
<1>4. ThreadsInv'
  BY <1>1, <1>2 DEF IInv, Shapes, ThreadsInv, Stopped
<1>5. JobsInv' /\ QueueInv' /\ WriterInv' /\ WrittenInv' /\ SyncInv' /\ CoverInv' /\
       AnswerInv'
  BY <1>2 DEF IInv, JobsInv, Done, QueueInv, WriterInv, Running, WrittenInv, SyncInv,
      CoverInv, AnswerInv, AnsweredDurable
<1>6. ShutdownFlushes'
  BY <1>2 DEF ShutdownFlushes
<1> QED
  BY <1>3, <1>4, <1>5, <1>6 DEF IInv

(* A shutdown that reports success has joined every writer. *)
LEMMA ExitKeeps ==
    ASSUME IInv, Exit
    PROVE  IInv'
<1>1. Shapes
  BY TypeShapes DEF IInv
<1>2. /\ UNCHANGED <<session, jobState, answers, late, queue, writer, flusher, dirty,
       error, written, durable, router, failures>>
      /\ closing = "join" /\ closing' \in {"ok", "error"}
      /\ closing' = "ok" => router = {} /\ Joining = {} /\ \A s \in Stores : writer[s].at # "failed"
  BY DEF Exit, flushing, data, shutdown, Alive
<1>3. TypeOK'
  BY <1>1, <1>2 DEF IInv, TypeOK
<1>4. ThreadsInv'
  BY <1>1, <1>2 DEF IInv, Shapes, ThreadsInv, Stopped
<1>5. JobsInv' /\ QueueInv' /\ WriterInv' /\ WrittenInv' /\ SyncInv' /\ CoverInv' /\
       AnswerInv'
  BY <1>2 DEF IInv, JobsInv, Done, QueueInv, WriterInv, Running, WrittenInv, SyncInv,
      CoverInv, AnswerInv, AnsweredDurable
<1>6. ShutdownFlushes'
  <2> SUFFICES ASSUME closing' = "ok", NEW s \in Stores
               PROVE  ~InFlight(s)' /\ written[s] = durable[s]
    BY <1>2 DEF ShutdownFlushes
  <2>1. writer[s].at \in {"none", "gone"}
    BY <1>2 DEF Joining
  <2>2. queue[s] = << >> /\ writer[s].job = Nobody
    <3>1. writer[s].job = Nobody
      BY <2>1 DEF IInv, WriterInv, Running
    <3>2. CASE writer[s].at = "gone"
      BY <3>1, <3>2 DEF IInv, ThreadsInv, Stopped
    <3>3. CASE writer[s].at = "none"
      <4>1. \A i \in 1..Len(queue[s]) : FALSE
        BY <1>1, <3>3 DEF IInv, QueueInv, ThreadsInv, Shapes
      <4>2. queue[s] \in Seq(Requests)
        BY DEF IInv, TypeOK
      <4> QED
        BY <3>1, <4>1, <4>2
    <3> QED
      BY <2>1, <3>2, <3>3
  <2>3. ~InFlight(s)'
    BY <1>2, <2>2 DEF InFlight, ActiveSyncs, IInv, ThreadsInv
  <2>4. written[s] = durable[s]
    <3>1. durable[s] \subseteq written[s]
      BY DEF IInv, TypeOK
    <3>2. SUFFICES ASSUME NEW x \in written[s] \ durable[s]
                   PROVE  FALSE
      BY <3>1
    <3>3. CASE writer[s].at = "none"
      BY <1>1, <3>2, <3>3 DEF IInv, WrittenInv, ThreadsInv, Shapes
    <3>4. CASE writer[s].at = "gone"
      BY <1>1, <2>2, <3>2, <3>4 DEF IInv, CoverInv, ThreadsInv, Shapes
    <3> QED
      BY <2>1, <3>3, <3>4
  <2> QED
    BY <2>3, <2>4
<1> QED
  BY <1>3, <1>4, <1>5, <1>6 DEF IInv

-----------------------------------------------------------------------------
(* The theorems *)

(* The router starts with no writer, no job and nothing published. *)
LEMMA DaemonInit == Init => IInv
<1> HAVE Init
<1>1. TypeOK
  <2>1. session \in [Requests -> Session]
    BY DEF Init, Session, Results
  <2>2. /\ writer \in [Stores -> Writer] /\ flusher \in [Stores -> Flusher]
        /\ queue \in [Stores -> Seq(Requests)]
    BY DEF Init, Writer, Flusher, Results
  <2>3. failures \in 0..MaxFailures
    BY DaemonBounds DEF Init
  <2>4. /\ jobState \in [Requests -> {"none", "queued", "running", "canceled"}]
        /\ answers \in [Requests -> Results] /\ late \subseteq Requests
    BY DEF Init, Results
  <2> QED
    BY <2>1, <2>2, <2>3, <2>4 DEF Init, TypeOK
<1>2. \A r \in Requests : /\ session[r].at = "new" /\ session[r].result = "none"
                          /\ session[r].before = {}
  BY DEF Init
<1>3. \A s \in Stores : writer[s].at = "none" /\ writer[s].job = Nobody
  BY DEF Init
<1>4. \A s \in Stores : flusher[s].at = "none" /\ flusher[s].sample = {}
  BY DEF Init
<1>5. JobsInv /\ SyncInv
  BY <1>2 DEF Init, JobsInv, SyncInv, Done
<1>6. QueueInv /\ WrittenInv
  BY DEF Init, QueueInv, WrittenInv
<1>7. WriterInv
  BY <1>3 DEF WriterInv, Running
<1>8. CoverInv
  BY <1>4 DEF Init, CoverInv
<1>9. AnswerInv /\ ShutdownFlushes
  BY <1>2 DEF Init, AnswerInv, AnsweredDurable, Done, ShutdownFlushes
<1>10. ThreadsInv
  BY <1>2, <1>3, <1>4 DEF Init, ThreadsInv, Stopped
<1> QED
  BY <1>1, <1>5, <1>6, <1>7, <1>8, <1>9, <1>10 DEF IInv

(* Every step of a session, a writer, a flusher or the shutdown preserves it. *)
LEMMA DaemonStep == IInv /\ [Next]_vars => IInv'
<1> SUFFICES ASSUME IInv, [Next]_vars
             PROVE  IInv'
  OBVIOUS
<1>1. CASE UNCHANGED vars
  BY <1>1 DEF vars, IInv, TypeOK, JobsInv, QueueInv, WriterInv, WrittenInv, SyncInv,
      CoverInv,
              AnswerInv, ThreadsInv, ShutdownFlushes, AnsweredDurable, Done, Running, Stopped,
              InFlight, ActiveSyncs
<1>2. ASSUME NEW r \in Requests, Submit(r) \/ Expire(r) \/ SessionStep(r)
      PROVE  IInv'
  BY <1>2, SubmitKeeps, ExpireKeeps, WriterInboxKeeps, WriterRefusedKeeps, SendKeeps,
     ReceiveKeeps, CancelKeeps, SyncStartKeeps, SyncEndKeeps, SyncFailsKeeps DEF SessionStep
<1>3. ASSUME NEW s \in Stores, WriterStep(s)
      PROVE  IInv'
  BY <1>3, TakeKeeps, RefuseKeeps, RunKeeps, OpenFailsKeeps, SealFailsKeeps, SealSyncKeeps,
     SealSyncFailsKeeps, ReplyKeeps, WriterEndsKeeps, WriterJoinsFlusherKeeps DEF WriterStep
<1>4. ASSUME NEW s \in Stores, FlusherStep(s)
      PROVE  IInv'
  BY <1>4, FlusherTickKeeps, FlusherEndsKeeps, FlushEndsKeeps, FlushFailsKeeps DEF
      FlusherStep
<1>5. CASE Close \/ CloseStep
  BY <1>5, CloseKeeps, WaitSyncsKeeps, DropKeeps, ExitKeeps DEF CloseStep
<1> QED
  BY <1>1, <1>2, <1>3, <1>4, <1>5 DEF Next

(* The daemon's state is well typed, and all that is said of its threads holds
   in every state it can reach. *)
THEOREM DaemonInvariant == Spec => []IInv
  BY DaemonInit, DaemonStep, PTL DEF Spec

(* A request whose caller was told "busy" was not run by any writer and is not
   run later, however the deadline, the queue and the writer race: it can be
   retried. *)
THEOREM BusyIsNeverRun == Spec => []BusyNeverRuns
<1>1. IInv => BusyNeverRuns
  <2> SUFFICES ASSUME IInv, NEW r \in Requests, Done(r, "busy")
               PROVE  /\ r \notin UNION {written[s] : s \in Stores}
                      /\ \A s \in Stores : writer[s].job # r
    BY DEF BusyNeverRuns
  <2>1. jobState[r] \in {"queued", "canceled"} /\ r # Nobody
    BY DaemonBounds DEF IInv, JobsInv
  <2>2. \A s \in Stores : r \notin written[s]
    BY <2>1 DEF IInv, WrittenInv
  <2>3. \A s \in Stores : writer[s].job # r
    BY <2>1 DEF IInv, WriterInv
  <2> QED
    BY <2>2, <2>3
<1> QED
  BY <1>1, DaemonInvariant, PTL

(* An answered sync covers every capture answered before it was submitted, an
   answered durable seal itself, and a shutdown that reports success leaves
   nothing in flight and nothing that is not durable. *)
THEOREM DurableIsDurable == Spec => []DurableAsTold
<1>1. IInv => DurableAsTold
  BY DEF IInv, AnswerInv, DurableAsTold
<1> QED
  BY <1>1, DaemonInvariant, PTL

=============================================================================
