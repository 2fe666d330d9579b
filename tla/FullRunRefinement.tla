------------------------- MODULE FullRunRefinement -------------------------
(***************************************************************************)
(* FullRun implements RunLifecycle when requests wait for the jobs of the  *)
(* run to be over and no enqueue fails after it took effect: for every     *)
(* number of workers, jobs, requests and retries, with work-horses killed, *)
(* Redis and provider errors, and callbacks that fail or come early.       *)
(***************************************************************************)
EXTENDS FullRunProofs

(***************************************************************************)
(* One thing at a time.                                                    *)
(***************************************************************************)

\* A worker goes from one step of its job to another.
LEMMA MoveOne ==
    ASSUME TypeOK, OneAtATime, NEW w \in Workers, NEW from, NEW to,
           Move(w, from, to) \/ Commit(w, from, to), from # "idle", to # "idle"
    PROVE  OneAtATime'
BY DEF TypeOK, OneAtATime, Busy, Open, LiveJob, Move, Commit, Goto, queue

LEMMA PipelineOne ==
    ASSUME TypeOK, OneAtATime, NEW w \in Workers, PipelineStep(w)
    PROVE  OneAtATime'
<1>1. CASE SearchChunks(w)
  BY <1>1 DEF SearchChunks, TypeOK, OneAtATime, Busy, Open, LiveJob, Goto, queue
<1>2. CASE ~SearchChunks(w)
  <2>1. PICK from \in Holding, to \in Holding : Move(w, from, to) \/ Commit(w, from, to)
    BY <1>2 DEF PipelineStep, EnterPipeline, PhaseOne, StoreRetrieval, StoreConflict,
                PhaseTwo, LoadForGeneration, StoreGeneration, GenerationConflict,
                PhaseThree, LoadForJudge, Judged, CheckEvaluation, StoreEvaluation,
                EvaluationConflict, MarkFailedRead, MarkFailedWrite, Holding, Pipeline
  <2> QED BY <2>1, MoveOne DEF Holding, Pipeline
<1> QED BY <1>1, <1>2

\* A worker ends its job: nothing but the job and the worker changes.
LEMMA EndOne ==
    ASSUME TypeOK, OneAtATime, NEW w \in Workers, NEW to, pc[w] # "idle",
           Goto(w, "idle"), mine' = [mine EXCEPT ![w] = NoJob],
           job' = [job EXCEPT ![mine[w]] = to], UNCHANGED <<post, api>>
    PROVE  OneAtATime'
<1>1. PICK j \in Jobs : j = mine[w] /\ job[j] = "started"
  BY DEF OneAtATime, Busy
<1>2. \A k \in Jobs \ {j} : ~LiveJob(k)
  BY <1>1 DEF OneAtATime, LiveJob, Live
<1>3. \A v \in Workers \ {w} : ~Busy(v)
  BY DEF OneAtATime, Busy
<1>4. \A v \in Workers : ~Busy(v)'
  BY <1>3 DEF Busy, TypeOK, Goto
<1>5. \A k \in Jobs : LiveJob(k)' => k = j
  BY <1>1, <1>2 DEF LiveJob, TypeOK
<1>6. \A c \in Clients : ~Open(c)
  BY <1>1 DEF OneAtATime, LiveJob, Live
<1>7. post = "done"
  BY <1>1 DEF OneAtATime, LiveJob, Live
<1>8. \A c \in Clients : ~Open(c)'
  BY <1>6 DEF Open
<1> QED BY <1>4, <1>5, <1>7, <1>8 DEF OneAtATime

LEMMA WorkerOne ==
    ASSUME TypeOK, OneAtATime, NEW w \in Workers, JobStep(w) \/ WorkerFault(w)
    PROVE  OneAtATime'
<1> USE DEF Horse, Holding, Pipeline
<1>1. CASE AcquireLock(w)
  BY <1>1 DEF AcquireLock, TypeOK, OneAtATime, Busy, Open, LiveJob, Goto, queue
<1>2. CASE SkipLocked(w) BY <1>2, MoveOne DEF SkipLocked
<1>3. CASE PipelineStep(w) BY <1>3, PipelineOne
<1>4. CASE ReleaseLock(w)
  BY <1>4 DEF ReleaseLock, TypeOK, OneAtATime, Busy, Open, LiveJob, Goto, queue
<1>5. CASE FinishJob(w) BY <1>5, EndOne DEF FinishJob
<1>6. CASE NoticeKilled(w) BY <1>6, MoveOne DEF NoticeKilled
<1>7. CASE NoCallback(w) BY <1>7, MoveOne DEF NoCallback
<1>8. CASE OnFailureRead(w) BY <1>8, MoveOne DEF OnFailureRead
<1>9. CASE OnFailureWrite(w) BY <1>9, MoveOne DEF OnFailureWrite
<1>10. CASE HandleFailure(w)
  <2>1. PICK to \in {"scheduled", "failed"} : job' = [job EXCEPT ![mine[w]] = to]
    BY <1>10 DEF HandleFailure
  <2> QED BY <1>10, <2>1, EndOne DEF HandleFailure
<1>11. CASE LockError(w) BY <1>11, MoveOne DEF LockError
<1>12. CASE LLMValueError(w) BY <1>12, MoveOne DEF LLMValueError
<1>13. CASE RetryableError(w) BY <1>13, MoveOne DEF RetryableError
<1>14. CASE KillHorse(w) BY <1>14, MoveOne DEF KillHorse
<1>15. CASE OnFailureSwallowed(w) BY <1>15, MoveOne DEF OnFailureSwallowed
<1> QED
  BY <1>1, <1>2, <1>3, <1>4, <1>5, <1>6, <1>7, <1>8, <1>9, <1>10, <1>11, <1>12,
     <1>13, <1>14, <1>15 DEF JobStep, WorkerFault

\* A request moves on to a step that belongs to its kind.
LEMMA HandleOne ==
    ASSUME TypeOK, OneAtATime, NEW c \in Clients, NEW request,
           api' = [api EXCEPT ![c] = request],
           UNCHANGED <<job, worker, post>>,
           request.pc = "idle" \/ (request.kind = api[c].kind /\ api[c].pc # "idle"),
           request.pc \in {"check", "normalize", "commit", "enqueue"}
             => request.kind = "requeue"
    PROVE  OneAtATime'
<1>1. \A d \in Clients : Open(d)' => Open(d)
  BY DEF Open, TypeOK
<1>2. \A d \in Clients : api'[d].pc \in {"check", "normalize", "commit", "enqueue"}
                           => api'[d].kind = "requeue"
  BY DEF OneAtATime, TypeOK
<1>3. (\A w \in Workers : Busy(w)' <=> Busy(w)) /\ (\A j \in Jobs : LiveJob(j)' <=> LiveJob(j))
  BY DEF Busy, LiveJob, worker
<1> QED BY <1>1, <1>2, <1>3 DEF OneAtATime, worker

LEMMA RequestOne ==
    ASSUME Waits, TypeOK, OneAtATime, NEW c \in Clients, RequestStep(c)
    PROVE  OneAtATime'
<1> USE DEF Request, NoRequest, At
<1>1. ASSUME LoadRun(c, "requeue") PROVE OneAtATime'
  <2>1. (\A j \in Jobs : ~LiveJob(j)) /\ post = "done"
        /\ \A d \in Clients \ {c} : ~Open(d)
    BY <1>1 DEF LoadRun, Quiescent, Waits, Open, TypeOK, Requests
  <2>2. \A d \in Clients \ {c} : ~Open(d)'
    BY <1>1, <2>1 DEF LoadRun, Handle, Open, TypeOK
  <2>3. \A d \in Clients : api'[d].pc \in {"check", "normalize", "commit", "enqueue"}
                             => api'[d].kind = "requeue"
    BY <1>1 DEF LoadRun, Handle, OneAtATime, TypeOK
  <2> QED
    BY <1>1, <2>1, <2>2, <2>3 DEF LoadRun, Handle, OneAtATime, Busy, LiveJob, queue, worker
<1>2. ASSUME LoadRun(c, "status") PROVE OneAtATime'
  <2>1. api'[c].pc = "scan" /\ api'[c].kind = "status"
        /\ \A d \in Clients \ {c} : api'[d] = api[d]
    BY <1>2 DEF LoadRun, Handle, TypeOK
  <2>2. \A d \in Clients : Open(d)' => Open(d)
    BY <2>1 DEF Open
  <2>3. \A d \in Clients : api'[d].pc \in {"check", "normalize", "commit", "enqueue"}
                             => api'[d].kind = "requeue"
    BY <2>1 DEF OneAtATime
  <2> QED
    BY <1>2, <2>2, <2>3 DEF LoadRun, Handle, OneAtATime, Busy, LiveJob, queue, worker
<1>3. CASE ScanJobs(c) BY <1>3, HandleOne DEF ScanJobs, Handle, queue
<1>4. CASE ClearStaleLock(c)
  BY <1>4, HandleOne DEF ClearStaleLock, queue, TypeOK, Requests
<1>5. CASE CheckLock(c) BY <1>5, HandleOne DEF CheckLock, Handle, queue, OneAtATime
<1>6. CASE NormalizeRead(c) BY <1>6, HandleOne DEF NormalizeRead, Handle, queue, OneAtATime
<1>7. CASE NormalizeCommit(c) BY <1>7, HandleOne DEF NormalizeCommit, queue, OneAtATime
<1>8. ASSUME NEW j \in Jobs, RequeueEnqueue(c, j) PROVE OneAtATime'
  <2>1. Open(c) BY <1>8 DEF RequeueEnqueue, OneAtATime, Open
  <2>2. \A d \in Clients : ~Open(d)'
    BY <1>8, <2>1 DEF RequeueEnqueue, OneAtATime, Open, TypeOK
  <2>3. \A k \in Jobs : ~LiveJob(k)
    BY <2>1 DEF OneAtATime
  <2>4. \A k \in Jobs : LiveJob(k)' => k = j
    BY <1>8, <2>3 DEF RequeueEnqueue, enqueue_full_benchmark_run, LiveJob, TypeOK
  <2>5. \A w \in Workers : ~Busy(w)
    BY <2>3 DEF OneAtATime, LiveJob, Live
  <2>6. \A w \in Workers : ~Busy(w)'
    BY <1>8, <2>5 DEF RequeueEnqueue, Busy, worker
  <2>7. post' = "done"
    BY <1>8, <2>1 DEF RequeueEnqueue, OneAtATime
  <2>8. \A d \in Clients : api'[d].pc \in {"check", "normalize", "commit", "enqueue"}
                             => api'[d].kind = "requeue"
    BY <1>8 DEF RequeueEnqueue, OneAtATime, TypeOK
  <2> QED BY <2>2, <2>4, <2>6, <2>7, <2>8 DEF OneAtATime
<1>9. CASE AbandonRequest(c) BY <1>9, HandleOne DEF AbandonRequest, Handle, queue
<1> QED
  BY <1>1, <1>2, <1>3, <1>4, <1>5, <1>6, <1>7, <1>8, <1>9 DEF RequestStep

LEMMA NextOne ==
    ASSUME Waits, TypeOK, OneAtATime, [Next]_vars
    PROVE  OneAtATime'
<1>1. ASSUME NEW j \in Jobs, PostEnqueue(j) PROVE OneAtATime'
  <2>1. \A k \in Jobs : ~LiveJob(k) BY <1>1 DEF PostEnqueue, OneAtATime
  <2>2. \A k \in Jobs : LiveJob(k)' => k = j
    BY <1>1, <2>1 DEF PostEnqueue, enqueue_full_benchmark_run, LiveJob, TypeOK
  <2>3. \A w \in Workers : ~Busy(w) BY <2>1 DEF OneAtATime, LiveJob, Live
  <2>4. \A c \in Clients : ~Open(c) BY <1>1 DEF PostEnqueue, OneAtATime
  <2>5. (\A w \in Workers : ~Busy(w)') /\ (\A c \in Clients : ~Open(c)')
    BY <1>1, <2>3, <2>4 DEF PostEnqueue, Busy, Open, worker
  <2> QED BY <1>1, <2>2, <2>5 DEF PostEnqueue, OneAtATime
<1>2. ASSUME NEW j \in Jobs, PostLostReply(j) PROVE OneAtATime'
  BY <1>2 DEF PostLostReply, Waits
<1>3. ASSUME NEW j \in Jobs, Promote(j) PROVE OneAtATime'
  <2>1. \A k \in Jobs : LiveJob(k)' <=> LiveJob(k)
    BY <1>3 DEF Promote, LiveJob, Live, TypeOK
  <2>2. \A w \in Workers : Busy(w) => job'[mine[w]] = "started"
    BY <1>3 DEF Promote, OneAtATime, TypeOK
  <2> QED BY <1>3, <2>1, <2>2 DEF Promote, OneAtATime, Busy, Open, worker
<1>4. ASSUME NEW j \in Jobs, Expire(j) PROVE OneAtATime'
  <2>1. \A k \in Jobs : LiveJob(k)' <=> LiveJob(k)
    BY <1>4 DEF Expire, LiveJob, Live, TypeOK
  <2>2. \A w \in Workers : Busy(w) => job'[mine[w]] = "started"
    BY <1>4 DEF Expire, OneAtATime, TypeOK
  <2> QED BY <1>4, <2>1, <2>2 DEF Expire, OneAtATime, Busy, Open, worker
<1>5. CASE PostRedisDown
  BY <1>5 DEF PostRedisDown, OneAtATime, Busy, Open, LiveJob, queue, worker
<1>6. CASE PostMarkFailed
  BY <1>6 DEF PostMarkFailed, OneAtATime, Busy, Open, LiveJob, queue, worker
<1>7. ASSUME NEW w \in Workers, NEW j \in Jobs, StartJob(w, j) PROVE OneAtATime'
  <2>1. LiveJob(j) /\ \A k \in Jobs \ {j} : ~LiveJob(k)
    BY <1>7 DEF StartJob, OneAtATime, LiveJob, Live
  <2>2. \A v \in Workers : ~Busy(v)
    BY <1>7, <2>1 DEF StartJob, OneAtATime, LiveJob, Live
  <2>3. \A v \in Workers : Busy(v)' => v = w
    BY <1>7, <2>2 DEF StartJob, Busy, Goto, TypeOK
  <2>4. \A k \in Jobs : LiveJob(k)' => k = j
    BY <1>7, <2>1 DEF StartJob, LiveJob, TypeOK
  <2>5. mine'[w] = j /\ job'[j] = "started"
    BY <1>7 DEF StartJob, TypeOK
  <2>6. post = "done" /\ \A c \in Clients : ~Open(c)
    BY <2>1 DEF OneAtATime
  <2>7. post' = "done" /\ \A c \in Clients : ~Open(c)'
    BY <1>7, <2>6 DEF StartJob, Open
  <2>8. \A c \in Clients : api'[c] = api[c]
    BY <1>7 DEF StartJob
  <2> QED BY <2>3, <2>4, <2>5, <2>7, <2>8 DEF OneAtATime
<1>8. ASSUME NEW w \in Workers, JobStep(w) \/ WorkerFault(w) PROVE OneAtATime'
  BY <1>8, WorkerOne
<1>9. ASSUME NEW c \in Clients, RequestStep(c) PROVE OneAtATime' BY <1>9, RequestOne
<1>10. CASE LockExpires
  BY <1>10 DEF LockExpires, OneAtATime, Busy, Open, LiveJob, queue, worker
<1>11. CASE DeleteDocument
  BY <1>11 DEF DeleteDocument, OneAtATime, Busy, Open, LiveJob, queue, worker
<1>12. CASE UNCHANGED vars
  BY <1>12 DEF vars, OneAtATime, Busy, Open, LiveJob, queue, worker
<1> QED
  BY <1>1, <1>2, <1>3, <1>4, <1>5, <1>6, <1>7, <1>8, <1>9, <1>10, <1>11, <1>12 DEF Next

(***************************************************************************)
(* Reads are fresh, and every step is a step of the lifecycle.             *)
(***************************************************************************)

PhaseInv == ReadsAreFresh /\ StatusIsPhase

\* While a worker is busy it is the only actor.
LEMMA Alone ==
    ASSUME OneAtATime, NEW w \in Workers, Busy(w)
    PROVE  /\ \A v \in Workers \ {w} : ~Busy(v)
           /\ \A c \in Clients : ~Open(c) /\ api[c].pc # "commit" /\ api[c].pc # "normalize"
           /\ post = "done"
<1>1. LiveJob(mine[w]) /\ mine[w] \in Jobs
  BY DEF OneAtATime, LiveJob, Live
<1>2. \A c \in Clients : ~Open(c)
  BY <1>1 DEF OneAtATime
<1>3. \A c \in Clients : api[c].pc # "commit" /\ api[c].pc # "normalize"
  BY <1>2 DEF OneAtATime, Open
<1> QED BY <1>1, <1>2, <1>3 DEF OneAtATime

\* So a step of that worker has only its own reads to account for.
LEMMA WorkerFresh ==
    ASSUME TypeOK, OneAtATime, NEW w \in Workers, Busy(w),
           \A v \in Workers \ {w} : pc'[v] = pc[v],
           UNCHANGED <<post, api>>, WorkerReads(w)'
    PROVE  ReadsAreFresh'
<1>1. \A v \in Workers \ {w} : pc'[v] = "idle"
  BY Alone DEF Busy
<1>2. \A v \in Workers \ {w} : WorkerReads(v)'
  BY <1>1 DEF WorkerReads
<1>3. \A c \in Clients : RequestReads(c)'
  BY Alone DEF RequestReads, Open
<1> QED BY <1>2, <1>3, Alone DEF ReadsAreFresh

LEMMA MovePhase ==
    ASSUME TypeOK, OneAtATime, PhaseInv, NEW w \in Workers, NEW from, NEW to,
           Move(w, from, to), from # "idle", WorkerReads(w)'
    PROVE  PhaseInv' /\ LifecycleStep
<1>1. Busy(w) /\ \A v \in Workers \ {w} : pc'[v] = pc[v]
  BY DEF Busy, Move, Goto, TypeOK
<1>2. ReadsAreFresh'
  BY <1>1, WorkerFresh DEF Move
<1> QED
  BY <1>2 DEF Move, db, PhaseInv, StatusIsPhase, LifecycleStep, Lifecycle!lifecycle

\* A worker writes the run.
LEMMA CommitPhase ==
    ASSUME TypeOK, OneAtATime, NEW w \in Workers, NEW from, NEW to,
           Commit(w, from, to), from # "idle",
           to \in {"p2", "p3", "releaseOk", "handle"}, StatusIsPhase', LifecycleStep
    PROVE  PhaseInv' /\ LifecycleStep
<1>1. Busy(w) /\ pc'[w] = to /\ \A v \in Workers \ {w} : pc'[v] = pc[v]
  BY DEF Busy, Commit, Goto, TypeOK
<1>2. WorkerReads(w)'
  BY <1>1 DEF WorkerReads
<1>3. ReadsAreFresh'
  BY <1>1, <1>2, WorkerFresh DEF Commit
<1> QED BY <1>3 DEF PhaseInv

LEMMA PipelinePhase ==
    ASSUME TypeOK, OneAtATime, PhaseInv, NEW w \in Workers, PipelineStep(w)
    PROVE  PhaseInv' /\ LifecycleStep
<1> DEFINE quiet == {"p1", "p2", "p3", "mark", "releaseOk", "releaseErr"}
<1> WorkerReads(w) BY DEF PhaseInv, ReadsAreFresh
<1>1. ASSUME NEW from \in Pipeline \cup {"enter"}, NEW to \in quiet, Move(w, from, to)
      PROVE  PhaseInv' /\ LifecycleStep
  <2>1. WorkerReads(w)'
    BY <1>1 DEF WorkerReads, Move, Goto, TypeOK
  <2> QED BY <1>1, <2>1, MovePhase DEF Pipeline
<1> USE DEF Pipeline
<1>2. CASE EnterPipeline(w) BY <1>1, <1>2 DEF EnterPipeline
<1>3. CASE PhaseOne(w)
  <2>1. WorkerReads(w)'
    BY <1>3 DEF PhaseOne, WorkerReads, Move, Goto, TypeOK, db
  <2> QED BY <1>3, <2>1, MovePhase DEF PhaseOne
<1>4. CASE SearchChunks(w)
  <2>1. Busy(w) /\ WorkerReads(w)' /\ \A v \in Workers \ {w} : pc'[v] = pc[v]
    BY <1>4 DEF SearchChunks, Busy, WorkerReads, Goto, TypeOK, db
  <2>2. ReadsAreFresh' BY <1>4, <2>1, WorkerFresh DEF SearchChunks
  <2> QED
    BY <1>4, <2>2 DEF SearchChunks, db, PhaseInv, StatusIsPhase, LifecycleStep,
                      Lifecycle!lifecycle
<1>5. CASE StoreRetrieval(w)
  <2>1. status = "running" /\ rows = 0 /\ ~generation /\ ~evaluation
    BY <1>5 DEF StoreRetrieval, Commit, WorkerReads, PhaseInv, StatusIsPhase
  <2>2. rows' \in {0, 1} /\ status' = "retrieval_completed"
        /\ UNCHANGED <<generation, evaluation>>
    BY <1>5, <2>1 DEF StoreRetrieval
  <2>3. StatusIsPhase' BY <2>1, <2>2 DEF StatusIsPhase
  <2>4. LifecycleStep BY <2>1, <2>2 DEF LifecycleStep, Lifecycle!Next, Lifecycle!Retrieve
  <2> QED BY <1>5, <2>3, <2>4, CommitPhase DEF StoreRetrieval
<1>6. CASE StoreConflict(w) BY <1>1, <1>6 DEF StoreConflict
<1>7. CASE PhaseTwo(w)
  <2>1. WorkerReads(w)'
    BY <1>7 DEF PhaseTwo, WorkerReads, Move, Goto, TypeOK, db
  <2> QED BY <1>7, <2>1, MovePhase DEF PhaseTwo
<1>8. CASE LoadForGeneration(w)
  <2>1. WorkerReads(w)'
    BY <1>8 DEF LoadForGeneration, WorkerReads, Move, Goto, TypeOK, db
  <2> QED BY <1>8, <2>1, MovePhase DEF LoadForGeneration
<1>9. CASE StoreGeneration(w)
  <2>1. status = "retrieval_completed" /\ rows <= 1 /\ ~generation /\ ~evaluation
    BY <1>9 DEF StoreGeneration, Commit, WorkerReads, PhaseInv, StatusIsPhase
  <2>2. generation' = TRUE /\ status' = "generation_completed"
        /\ UNCHANGED <<rows, evaluation>>
    BY <1>9 DEF StoreGeneration
  <2>3. StatusIsPhase' BY <2>1, <2>2 DEF StatusIsPhase
  <2>4. LifecycleStep BY <2>1, <2>2 DEF LifecycleStep, Lifecycle!Next, Lifecycle!Generate
  <2> QED BY <1>9, <2>3, <2>4, CommitPhase DEF StoreGeneration
<1>10. CASE GenerationConflict(w) BY <1>1, <1>10 DEF GenerationConflict
<1>11. CASE PhaseThree(w)
  <2>1. WorkerReads(w)'
    BY <1>11 DEF PhaseThree, WorkerReads, Move, Goto, TypeOK, db
  <2> QED BY <1>11, <2>1, MovePhase DEF PhaseThree
<1>12. CASE LoadForJudge(w)
  <2>1. WorkerReads(w)'
    BY <1>12 DEF LoadForJudge, WorkerReads, Move, Goto, TypeOK, db
  <2> QED BY <1>12, <2>1, MovePhase DEF LoadForJudge
<1>13. CASE Judged(w)
  <2>1. WorkerReads(w)'
    BY <1>13 DEF Judged, WorkerReads, Move, Goto, TypeOK, db
  <2> QED BY <1>13, <2>1, MovePhase DEF Judged
<1>14. CASE CheckEvaluation(w)
  <2>1. WorkerReads(w)'
    BY <1>14 DEF CheckEvaluation, WorkerReads, Move, Goto, TypeOK, db
  <2> QED BY <1>14, <2>1, MovePhase DEF CheckEvaluation
<1>15. CASE StoreEvaluation(w)
  <2>1. status = "generation_completed" /\ rows <= 1 /\ generation /\ ~evaluation
    BY <1>15 DEF StoreEvaluation, Commit, WorkerReads, PhaseInv, StatusIsPhase
  <2>2. evaluation' = TRUE /\ status' = "completed" /\ UNCHANGED <<rows, generation>>
    BY <1>15 DEF StoreEvaluation
  <2>3. StatusIsPhase' BY <2>1, <2>2 DEF StatusIsPhase
  <2>4. LifecycleStep BY <2>1, <2>2 DEF LifecycleStep, Lifecycle!Next, Lifecycle!Complete
  <2> QED BY <1>15, <2>3, <2>4, CommitPhase DEF StoreEvaluation
<1>16. CASE EvaluationConflict(w) BY <1>1, <1>16 DEF EvaluationConflict
<1>17. CASE MarkFailedRead(w)
  <2>1. WorkerReads(w)'
    BY <1>17 DEF MarkFailedRead, WorkerReads, Move, Goto, TypeOK, db
  <2> QED BY <1>17, <2>1, MovePhase DEF MarkFailedRead
<1>18. CASE MarkFailedWrite(w)
  <2>1. status \notin Terminal
    BY <1>18 DEF MarkFailedWrite, Commit, WorkerReads
  <2>2. StatusIsPhase' /\ LifecycleStep
    BY <1>18, <2>1 DEF MarkFailedWrite, Terminal, PhaseInv, StatusIsPhase, LifecycleStep,
                       Lifecycle!Next, Lifecycle!Fail
  <2> QED BY <1>18, <2>2, CommitPhase DEF MarkFailedWrite
<1> QED
  BY <1>2, <1>3, <1>4, <1>5, <1>6, <1>7, <1>8, <1>9, <1>10, <1>11, <1>12, <1>13, <1>14,
     <1>15, <1>16, <1>17, <1>18 DEF PipelineStep

LEMMA EndPhase ==
    ASSUME TypeOK, OneAtATime, PhaseInv, NEW w \in Workers, pc[w] # "idle",
           Goto(w, "idle") \/ Goto(w, "enter") \/ Goto(w, "returned") \/ Goto(w, "errored"),
           UNCHANGED <<db, post, api>>
    PROVE  PhaseInv' /\ LifecycleStep
<1>1. Busy(w) /\ WorkerReads(w)' /\ \A v \in Workers \ {w} : pc'[v] = pc[v]
  BY DEF Busy, WorkerReads, Goto, TypeOK
<1>2. ReadsAreFresh' BY <1>1, WorkerFresh
<1> QED BY <1>2 DEF db, PhaseInv, StatusIsPhase, LifecycleStep, Lifecycle!lifecycle

LEMMA WorkerPhase ==
    ASSUME TypeOK, OneAtATime, PhaseInv, NEW w \in Workers, JobStep(w) \/ WorkerFault(w)
    PROVE  PhaseInv' /\ LifecycleStep
<1> DEFINE quiet == {"enter", "returned", "errored", "mark", "releaseErr", "killed", "handle"}
<1> WorkerReads(w) BY DEF PhaseInv, ReadsAreFresh
<1> USE DEF Horse, Holding, Pipeline
<1>0. ASSUME NEW from \in Horse \cup {"killed", "errored", "failWrite"}, NEW to \in quiet,
             Move(w, from, to)
      PROVE  PhaseInv' /\ LifecycleStep
  <2>1. WorkerReads(w)'
    BY <1>0 DEF WorkerReads, Move, Goto, TypeOK
  <2> QED BY <1>0, <2>1, MovePhase
<1>1. CASE AcquireLock(w) BY <1>1, EndPhase DEF AcquireLock
<1>2. CASE SkipLocked(w) BY <1>0, <1>2 DEF SkipLocked
<1>3. CASE PipelineStep(w) BY <1>3, PipelinePhase
<1>4. CASE ReleaseLock(w)
  <2>1. Goto(w, "returned") \/ Goto(w, "errored") BY <1>4 DEF ReleaseLock
  <2> QED BY <1>4, <2>1, EndPhase DEF ReleaseLock
<1>5. CASE FinishJob(w) BY <1>5, EndPhase DEF FinishJob
<1>6. CASE NoticeKilled(w) BY <1>0, <1>6 DEF NoticeKilled
<1>7. CASE NoCallback(w) BY <1>0, <1>7 DEF NoCallback
<1>8. CASE OnFailureRead(w)
  <2>1. WorkerReads(w)'
    BY <1>8 DEF OnFailureRead, WorkerReads, Move, Goto, TypeOK, db
  <2> QED BY <1>8, <2>1, MovePhase DEF OnFailureRead
<1>9. CASE OnFailureWrite(w)
  <2>1. status \notin Terminal
    BY <1>9 DEF OnFailureWrite, Commit, WorkerReads
  <2>2. StatusIsPhase' /\ LifecycleStep
    BY <1>9, <2>1 DEF OnFailureWrite, Terminal, PhaseInv, StatusIsPhase, LifecycleStep,
                      Lifecycle!Next, Lifecycle!Fail
  <2> QED BY <1>9, <2>2, CommitPhase DEF OnFailureWrite
<1>10. CASE HandleFailure(w) BY <1>10, EndPhase DEF HandleFailure
<1>11. CASE LockError(w) BY <1>0, <1>11 DEF LockError
<1>12. CASE LLMValueError(w) BY <1>0, <1>12 DEF LLMValueError
<1>13. CASE RetryableError(w) BY <1>0, <1>13 DEF RetryableError
<1>14. CASE KillHorse(w) BY <1>0, <1>14 DEF KillHorse
<1>15. CASE OnFailureSwallowed(w) BY <1>0, <1>15 DEF OnFailureSwallowed
<1> QED
  BY <1>1, <1>2, <1>3, <1>4, <1>5, <1>6, <1>7, <1>8, <1>9, <1>10, <1>11, <1>12,
     <1>13, <1>14, <1>15 DEF JobStep, WorkerFault

\* A step of a request that leaves the run alone.
LEMMA HandlePhase ==
    ASSUME TypeOK, PhaseInv, NEW c \in Clients, NEW request,
           api' = [api EXCEPT ![c] = request],
           UNCHANGED <<db, worker, post>>, RequestReads(c)'
    PROVE  PhaseInv' /\ LifecycleStep
<1>1. \A d \in Clients \ {c} : RequestReads(d)'
  BY DEF PhaseInv, ReadsAreFresh, RequestReads, Open, TypeOK, db
<1>2. \A w \in Workers : WorkerReads(w)'
  BY DEF PhaseInv, ReadsAreFresh, WorkerReads, worker, db
<1> QED
  BY <1>1, <1>2 DEF db, PhaseInv, ReadsAreFresh, StatusIsPhase, LifecycleStep,
                    Lifecycle!lifecycle

LEMMA RequestPhase ==
    ASSUME Waits, TypeOK, OneAtATime, PhaseInv, NEW c \in Clients, RequestStep(c)
    PROVE  PhaseInv' /\ LifecycleStep
<1> USE DEF Request, NoRequest, At, Handle, queue, db
<1> RequestReads(c) BY DEF PhaseInv, ReadsAreFresh
<1>1. ASSUME NEW kind, LoadRun(c, kind) PROVE PhaseInv' /\ LifecycleStep
  <2>1. RequestReads(c)' BY <1>1 DEF LoadRun, RequestReads, Open, TypeOK
  <2> QED BY <1>1, <2>1, HandlePhase DEF LoadRun
<1>2. CASE ScanJobs(c)
  <2>1. RequestReads(c)' BY <1>2 DEF ScanJobs, RequestReads, Open, TypeOK
  <2> QED BY <1>2, <2>1, HandlePhase DEF ScanJobs
<1>3. CASE ClearStaleLock(c)
  <2>1. RequestReads(c)'
    BY <1>3 DEF ClearStaleLock, RequestReads, Open, TypeOK, Requests
  <2> QED BY <1>3, <2>1, HandlePhase DEF ClearStaleLock
<1>4. CASE CheckLock(c)
  <2>1. RequestReads(c)' BY <1>4 DEF CheckLock, RequestReads, Open, TypeOK
  <2> QED BY <1>4, <2>1, HandlePhase DEF CheckLock
<1>5. CASE NormalizeRead(c)
  <2>1. status = "failed" /\ StatusIsPhase
    BY <1>5 DEF NormalizeRead, RequestReads, OneAtATime, Open, PhaseInv
  <2>2. ResumeStatus \in {"running", "retrieval_completed", "generation_completed"}
        /\ (ResumeStatus = "running" => rows = 0 /\ ~generation)
        /\ (ResumeStatus = "retrieval_completed" => ~generation)
        /\ (ResumeStatus = "generation_completed" => generation)
    BY DEF ResumeStatus, TypeOK
  <2>3. RequestReads(c)' BY <1>5, <2>1, <2>2 DEF NormalizeRead, RequestReads, Open, TypeOK
  <2> QED BY <1>5, <2>3, HandlePhase DEF NormalizeRead
<1>6. CASE NormalizeCommit(c)
  <2>1. Open(c) /\ status = "failed" /\ StatusIsPhase
    BY <1>6 DEF NormalizeCommit, RequestReads, OneAtATime, Open, PhaseInv
  <2>2. \/ status' = "running" /\ rows = 0 /\ ~generation
        \/ status' = "retrieval_completed" /\ ~generation
        \/ status' = "generation_completed" /\ generation
    BY <1>6 DEF NormalizeCommit, RequestReads
  <2>3. StatusIsPhase' /\ LifecycleStep
    BY <1>6, <2>1, <2>2 DEF NormalizeCommit, StatusIsPhase, LifecycleStep, Lifecycle!Next,
                            Lifecycle!Resume
  <2>4. \A w \in Workers : pc[w] = "idle"
    BY <2>1 DEF OneAtATime, Busy, LiveJob, Live
  <2>5. \A w \in Workers : WorkerReads(w)'
    BY <1>6, <2>4 DEF NormalizeCommit, WorkerReads, worker
  <2>6. \A d \in Clients \ {c} : ~Open(d) /\ api[d].pc # "commit" /\ api[d].pc # "normalize"
    BY <2>1 DEF OneAtATime, Open
  <2>7. api'[c].pc = "enqueue" /\ \A d \in Clients \ {c} : api'[d] = api[d]
    BY <1>6 DEF NormalizeCommit, TypeOK
  <2>8. \A d \in Clients : RequestReads(d)'
    BY <2>6, <2>7 DEF RequestReads, Open
  <2>9. post' = "done" BY <1>6, <2>1 DEF NormalizeCommit, OneAtATime
  <2> QED BY <2>3, <2>5, <2>8, <2>9 DEF PhaseInv, ReadsAreFresh
<1>7. ASSUME NEW j \in Jobs, RequeueEnqueue(c, j) PROVE PhaseInv' /\ LifecycleStep
  <2>1. RequestReads(c)' BY <1>7 DEF RequeueEnqueue, RequestReads, Open, TypeOK
  <2> QED BY <1>7, <2>1, HandlePhase DEF RequeueEnqueue
<1>8. CASE AbandonRequest(c)
  <2>1. RequestReads(c)' BY <1>8 DEF AbandonRequest, RequestReads, Open, TypeOK
  <2> QED BY <1>8, <2>1, HandlePhase DEF AbandonRequest
<1> QED BY <1>1, <1>2, <1>3, <1>4, <1>5, <1>6, <1>7, <1>8 DEF RequestStep

LEMMA NextPhase ==
    ASSUME Waits, TypeOK, OneAtATime, PhaseInv, [Next]_vars
    PROVE  PhaseInv' /\ LifecycleStep
<1>1. ASSUME UNCHANGED <<db, worker, api>>, post' # "done" => post # "done"
      PROVE  PhaseInv' /\ LifecycleStep
  BY <1>1 DEF db, worker, PhaseInv, ReadsAreFresh, WorkerReads, RequestReads, Open,
              StatusIsPhase, LifecycleStep, Lifecycle!lifecycle
<1>2. ASSUME NEW j \in Jobs,
             PostEnqueue(j) \/ PostLostReply(j) \/ Promote(j) \/ Expire(j)
      PROVE  PhaseInv' /\ LifecycleStep
  BY <1>1, <1>2 DEF PostEnqueue, PostLostReply, Promote, Expire, Waits
<1>3. CASE PostRedisDown BY <1>1, <1>3 DEF PostRedisDown
<1>4. CASE PostMarkFailed
  <2>1. status = "running" /\ \A w \in Workers : pc[w] = "idle"
    BY <1>4 DEF PostMarkFailed, PhaseInv, ReadsAreFresh, OneAtATime, Busy, LiveJob, Live
  <2>2. \A c \in Clients : ~Open(c) /\ api[c].pc # "commit" /\ api[c].pc # "normalize"
    BY <1>4 DEF PostMarkFailed, OneAtATime, Open
  <2>3. StatusIsPhase' /\ LifecycleStep
    BY <1>4, <2>1 DEF PostMarkFailed, PhaseInv, StatusIsPhase, LifecycleStep,
                      Lifecycle!Next, Lifecycle!Fail
  <2>4. ReadsAreFresh'
    BY <1>4, <2>1, <2>2 DEF PostMarkFailed, ReadsAreFresh, WorkerReads, RequestReads,
                            Open, worker
  <2> QED BY <2>3, <2>4 DEF PhaseInv
<1>5. ASSUME NEW w \in Workers, NEW j \in Jobs, StartJob(w, j)
      PROVE  PhaseInv' /\ LifecycleStep
  <2>1. \A v \in Workers : WorkerReads(v)'
    BY <1>5 DEF StartJob, Goto, TypeOK, PhaseInv, ReadsAreFresh, WorkerReads, db
  <2> QED
    BY <1>5, <2>1 DEF StartJob, db, PhaseInv, ReadsAreFresh, RequestReads, Open,
                      StatusIsPhase, LifecycleStep, Lifecycle!lifecycle
<1>6. ASSUME NEW w \in Workers, JobStep(w) \/ WorkerFault(w)
      PROVE  PhaseInv' /\ LifecycleStep
  BY <1>6, WorkerPhase
<1>7. ASSUME NEW c \in Clients, RequestStep(c) PROVE PhaseInv' /\ LifecycleStep
  BY <1>7, RequestPhase
<1>8. CASE LockExpires BY <1>1, <1>8 DEF LockExpires
<1>9. CASE DeleteDocument
  <2>1. rows' = 0 /\ UNCHANGED <<status, generation, evaluation, worker, post, api>>
    BY <1>9 DEF DeleteDocument
  <2>2. PhaseInv'
    BY <2>1 DEF PhaseInv, ReadsAreFresh, WorkerReads, RequestReads, Open, StatusIsPhase, worker
  <2> QED BY <2>1, <2>2 DEF LifecycleStep, Lifecycle!Next, Lifecycle!LoseRetrieval
<1>10. CASE UNCHANGED vars BY <1>1, <1>10 DEF vars
<1> QED
  BY <1>2, <1>3, <1>4, <1>5, <1>6, <1>7, <1>8, <1>9, <1>10 DEF Next

(***************************************************************************)
(* The live job is the newest, so a newest job that failed has no successor.*)
(***************************************************************************)

QueueOrder ==
    /\ \A j \in Jobs : at[j] <= clock
    /\ \A j, k \in Jobs : LiveJob(j) /\ Known(k) /\ k # j => at[k] < at[j]
    /\ \A c \in Clients, j \in Jobs : api[c].pc = "clear" /\ api[c].stale => ~LiveJob(j)

\* No job comes to life and no handler has found a lock stale.
LEMMA KeepOrder ==
    ASSUME QueueOrder, UNCHANGED <<at, clock>>,
           \A j \in Jobs : (LiveJob(j)' => LiveJob(j)) /\ (Known(j)' => Known(j)),
           \A c \in Clients : api'[c].pc = "clear" /\ api'[c].stale
                                => api[c].pc = "clear" /\ api[c].stale
    PROVE  QueueOrder'
BY DEF QueueOrder

\* A job that enters the queue, new or again, becomes the newest.
LEMMA EnterOrder ==
    ASSUME TypeOK, QueueOrder, NEW j \in Jobs, job' = [job EXCEPT ![j] = "queued"],
           at' = [at EXCEPT ![j] = clock + 1], clock' = clock + 1,
           \A k \in Jobs \ {j} : ~LiveJob(k),
           \A c \in Clients : ~(api'[c].pc = "clear" /\ api'[c].stale)
    PROVE  QueueOrder'
<1>1. \A k \in Jobs : at'[k] \in Nat /\ at'[k] <= clock' /\ (k # j => at'[k] = at[k])
  BY DEF TypeOK, QueueOrder
<1>2. \A k \in Jobs : LiveJob(k)' => k = j
  BY DEF LiveJob, TypeOK
<1>3. at'[j] = clock + 1 /\ \A k \in Jobs : at[k] < clock + 1
  BY DEF TypeOK, QueueOrder
<1> QED BY <1>1, <1>2, <1>3 DEF QueueOrder

LEMMA WorkerOrder ==
    ASSUME TypeOK, OneAtATime, QueueOrder, NEW w \in Workers, JobStep(w) \/ WorkerFault(w)
    PROVE  QueueOrder'
<1>1. UNCHANGED <<at, clock, api>>
  BY DEF JobStep, WorkerFault, PipelineStep, AcquireLock, SkipLocked, EnterPipeline,
         PhaseOne, SearchChunks, StoreRetrieval, StoreConflict, PhaseTwo, LoadForGeneration,
         StoreGeneration, GenerationConflict, PhaseThree, LoadForJudge, Judged,
         CheckEvaluation, StoreEvaluation, EvaluationConflict, MarkFailedRead,
         MarkFailedWrite, ReleaseLock, FinishJob, NoticeKilled, NoCallback, OnFailureRead,
         OnFailureWrite, HandleFailure, LockError, LLMValueError, RetryableError, KillHorse,
         OnFailureSwallowed, Move, Commit, queue
<1>2. CASE FinishJob(w) \/ HandleFailure(w)
  <2>1. PICK to \in {"finished", "scheduled", "failed"} : job' = [job EXCEPT ![mine[w]] = to]
    BY <1>2 DEF FinishJob, HandleFailure
  <2>2. \A j \in Jobs : (LiveJob(j)' => LiveJob(j)) /\ (Known(j)' => Known(j))
    BY <1>2, <2>1 DEF OneAtATime, Busy, LiveJob, Live, Known, TypeOK, FinishJob, HandleFailure
  <2> QED BY <1>1, <2>2, KeepOrder
<1>3. CASE UNCHANGED job
  BY <1>1, <1>3, KeepOrder DEF LiveJob, Known
<1> QED
  BY <1>2, <1>3
     DEF JobStep, WorkerFault, PipelineStep, AcquireLock, SkipLocked, EnterPipeline,
         PhaseOne, SearchChunks, StoreRetrieval, StoreConflict, PhaseTwo, LoadForGeneration,
         StoreGeneration, GenerationConflict, PhaseThree, LoadForJudge, Judged,
         CheckEvaluation, StoreEvaluation, EvaluationConflict, MarkFailedRead,
         MarkFailedWrite, ReleaseLock, NoticeKilled, NoCallback, OnFailureRead,
         OnFailureWrite, LockError, LLMValueError, RetryableError, KillHorse,
         OnFailureSwallowed, Move, Commit, queue

LEMMA NextOrder ==
    ASSUME Waits, TypeOK, OneAtATime, QueueOrder, [Next]_vars
    PROVE  QueueOrder'
<1>1. ASSUME UNCHANGED <<queue, api>> PROVE QueueOrder'
  BY <1>1, KeepOrder DEF LiveJob, Known, queue
<1>2. ASSUME NEW j \in Jobs, PostEnqueue(j) PROVE QueueOrder'
  <2>1. \A k \in Jobs : ~LiveJob(k)
    BY <1>2 DEF PostEnqueue, OneAtATime
  <2> QED
    BY <1>2, <2>1, EnterOrder
       DEF PostEnqueue, HandlersFree, enqueue_full_benchmark_run
<1>3. ASSUME NEW j \in Jobs, PostLostReply(j) PROVE QueueOrder'
  BY <1>3 DEF PostLostReply, Waits
<1>4. ASSUME NEW j \in Jobs, Promote(j) PROVE QueueOrder'
  <2>1. LiveJob(j) BY <1>4 DEF Promote, LiveJob, Live
  <2>2. \A k \in Jobs \ {j} : ~LiveJob(k)
    BY <2>1 DEF OneAtATime
  <2>3. \A c \in Clients : ~(api[c].pc = "clear" /\ api[c].stale)
    BY <2>1 DEF QueueOrder
  <2> QED BY <1>4, <2>2, <2>3, EnterOrder DEF Promote
<1>5. ASSUME NEW j \in Jobs, Expire(j) PROVE QueueOrder'
  <2>1. \A k \in Jobs : (LiveJob(k)' => LiveJob(k)) /\ (Known(k)' => Known(k))
    BY <1>5 DEF Expire, LiveJob, Live, Known, TypeOK
  <2> QED BY <1>5, <2>1, KeepOrder DEF Expire
<1>6. CASE PostRedisDown BY <1>1, <1>6 DEF PostRedisDown
<1>7. CASE PostMarkFailed BY <1>1, <1>7 DEF PostMarkFailed
<1>8. ASSUME NEW w \in Workers, NEW j \in Jobs, StartJob(w, j) PROVE QueueOrder'
  <2>1. \A k \in Jobs : (LiveJob(k)' => LiveJob(k)) /\ (Known(k)' => Known(k))
    BY <1>8 DEF StartJob, LiveJob, Live, Known, TypeOK
  <2> QED BY <1>8, <2>1, KeepOrder DEF StartJob
<1>9. ASSUME NEW w \in Workers, JobStep(w) \/ WorkerFault(w) PROVE QueueOrder'
  BY <1>9, WorkerOrder
<1>10. ASSUME NEW c \in Clients, RequestStep(c) PROVE QueueOrder'
  <2> USE DEF Handle, Request, NoRequest, At
  <2>1. CASE ScanJobs(c)
    <3>1. NewestJobFailed => \A j \in Jobs : ~LiveJob(j)
      BY DEF NewestJobFailed, find_primary_job_for_run, STALE_LOCK_RQ_STATUSES, QueueOrder,
             LiveJob, Live, Known, TypeOK
    <3>2. /\ api'[c].stale => NewestJobFailed
          /\ \A d \in Clients \ {c} : api'[d] = api[d]
          /\ UNCHANGED queue
      BY <2>1 DEF ScanJobs, TypeOK
    <3> QED BY <3>1, <3>2 DEF QueueOrder, LiveJob, Known, queue
  <2>2. ASSUME NEW j \in Jobs, RequeueEnqueue(c, j) PROVE QueueOrder'
    <3>1. \A k \in Jobs : ~LiveJob(k)
      BY <2>2 DEF RequeueEnqueue, OneAtATime, Open
    <3>2. \A d \in Clients : api'[d].pc # "clear"
      BY <2>2 DEF RequeueEnqueue, EventLoopFree, TypeOK
    <3> QED
      BY <2>2, <3>1, <3>2, EnterOrder DEF RequeueEnqueue, enqueue_full_benchmark_run
  <2>3. ASSUME UNCHANGED queue, api'[c].pc # "clear",
               \A d \in Clients \ {c} : api'[d] = api[d]
        PROVE  QueueOrder'
    BY <2>3, KeepOrder DEF LiveJob, Known, queue
  <2>4. ASSUME NEW kind, LoadRun(c, kind) PROVE QueueOrder'
    BY <2>3, <2>4 DEF LoadRun, TypeOK
  <2>5. CASE ClearStaleLock(c) BY <2>3, <2>5 DEF ClearStaleLock, TypeOK
  <2>6. CASE CheckLock(c) BY <2>3, <2>6 DEF CheckLock, TypeOK
  <2>7. CASE NormalizeRead(c) BY <2>3, <2>7 DEF NormalizeRead, TypeOK
  <2>8. CASE NormalizeCommit(c) BY <2>3, <2>8 DEF NormalizeCommit, TypeOK
  <2>9. CASE AbandonRequest(c) BY <2>3, <2>9 DEF AbandonRequest, TypeOK
  <2> QED BY <1>10, <2>1, <2>2, <2>4, <2>5, <2>6, <2>7, <2>8, <2>9 DEF RequestStep
<1>11. CASE LockExpires BY <1>1, <1>11 DEF LockExpires
<1>12. CASE DeleteDocument BY <1>1, <1>12 DEF DeleteDocument
<1>13. CASE UNCHANGED vars BY <1>1, <1>13 DEF vars
<1> QED
  BY <1>2, <1>3, <1>4, <1>5, <1>6, <1>7, <1>8, <1>9, <1>10, <1>11, <1>12, <1>13 DEF Next

(***************************************************************************)
(* The theorems.                                                           *)
(***************************************************************************)

\* One thing at a time, fresh reads and a status that names the phase: the
\* inductive invariant of a run whose requests wait.
THEOREM WaitCorrect == ASSUME Waits PROVE Spec => []WaitInv
<1>1. Init => WaitInv
  BY DEF Init, NoRequest, Request, WaitInv, OneAtATime, Busy, Open, LiveJob, Live,
         ReadsAreFresh, WorkerReads, RequestReads, StatusIsPhase
<1>2. TypeOK /\ WaitInv /\ [Next]_vars => WaitInv'
  BY NextOne, NextPhase DEF WaitInv, PhaseInv
<1> QED BY <1>1, <1>2, TypeCorrect, PTL DEF Spec

\* A full run lives the life of RunLifecycle: retrieval once, generation once,
\* one evaluation that completes it, failure only before completion, resume
\* only from a failed run and to a phase its rows do not contradict.
THEOREM WaitingImplements == ASSUME Waits PROVE Spec => ImplementsLifecycle
<1>1. Init => Lifecycle!Init
  BY DEF Init, Lifecycle!Init
<1>2. TypeOK /\ WaitInv /\ [Next]_vars => [Lifecycle!Next]_Lifecycle!lifecycle
  BY NextPhase DEF WaitInv, PhaseInv, LifecycleStep
<1> QED
  BY <1>1, <1>2, TypeCorrect, WaitCorrect, PTL DEF Spec, ImplementsLifecycle, Lifecycle!Spec

\* No retry and no resume stores the retrieval of a run twice.
THEOREM WaitingRetrievesOnce == ASSUME Waits PROVE Spec => []RetrievalStoredOnce
<1>1. WaitInv => RetrievalStoredOnce
  BY DEF WaitInv, StatusIsPhase, RetrievalStoredOnce
<1> QED BY <1>1, WaitCorrect, PTL

\* No late write takes completed away from a run that has its evaluation.
THEOREM WaitingKeepsCompleted == ASSUME Waits PROVE Spec => []EvaluatedRunIsCompleted
<1>1. WaitInv => EvaluatedRunIsCompleted
  BY DEF WaitInv, StatusIsPhase, EvaluatedRunIsCompleted
<1> QED BY <1>1, WaitCorrect, PTL

\* Nor is any completed status ever overwritten: what the comment on
\* run_full_benchmark_pipeline says is true as long as requests wait.
THEOREM WaitingCompletedIsFinal == ASSUME Waits PROVE Spec => CompletedIsFinal
<1>1. TypeOK /\ WaitInv /\ [Next]_vars
        => [status = "completed" => status' = "completed"]_vars
  BY NextPhase DEF WaitInv, PhaseInv, LifecycleStep, Lifecycle!Next, Lifecycle!Retrieve,
                   Lifecycle!Generate, Lifecycle!Complete, Lifecycle!Fail,
                   Lifecycle!Resume, Lifecycle!LoseRetrieval, Lifecycle!lifecycle
<1> QED BY <1>1, TypeCorrect, WaitCorrect, PTL DEF Spec, CompletedIsFinal

\* And so is the comment on stale locks: whatever fails, the newest job of the
\* run has failed only when no job of the run is left.
THEOREM WaitingStaleLockIsDead == ASSUME Waits PROVE Spec => StaleLockIsDead
<1>1. Init => QueueOrder
  BY DEF Init, QueueOrder, LiveJob, Live, NoRequest, Request
<1>2. TypeOK /\ OneAtATime /\ QueueOrder /\ [Next]_vars => QueueOrder'
  BY NextOrder
<1>3. TypeOK /\ OneAtATime /\ QueueOrder => ClearsOnlyDead
  BY DEF TypeOK, OneAtATime, QueueOrder, ClearsOnlyDead, ClearStaleLock, Busy, LiveJob,
         Live, Holding, Pipeline
<1>4. WaitInv => OneAtATime
  BY DEF WaitInv
<1>5. [][ClearsOnlyDead]_vars => StaleLockIsDead
  BY DEF ClearsOnlyDead, StaleLockIsDead
<1> QED BY <1>1, <1>2, <1>3, <1>4, <1>5, TypeCorrect, WaitCorrect, PTL DEF Spec

=============================================================================
