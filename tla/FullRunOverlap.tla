--------------------------- MODULE FullRunOverlap ---------------------------
(***************************************************************************)
(* What the lock is worth while requests overlap with jobs: FullRun when   *)
(* no fault strikes and at most one requeue is open at a time, whatever    *)
(* the number of workers, jobs and status requests, and whether or not the *)
(* requeue waits for a job that is under way.                              *)
(***************************************************************************)
EXTENDS FullRunProofs

\* The code retries twice.  The failure callback may be unable to write.
Undisturbed == Faults \subseteq {"callback"} /\ MaxRetries # 0

OneRequeue == \A c, d \in Clients : Open(c) /\ Open(d) => c = d

(***************************************************************************)
(* Without a fault a job fails in one way: the document is deleted between *)
(* the search that found its chunks and the commit of the retrieval rows.  *)
(* It happens once, for no later search finds anything, and it leaves a    *)
(* barren run: one that can only end failed, without a row.                *)
(***************************************************************************)

Erring == {"releaseErr", "errored", "failWrite", "handle"}

\* A retrieval of this run can still have rows to store.
Fertile == indexed \/ \E w \in Workers : pc[w] = "store" /\ hits[w]

Barren ==
    /\ ~Fertile
    /\ rows = 0 /\ ~generation /\ ~evaluation
    /\ status \in {"running", "retrieval_completed", "failed"}
    /\ \A w \in Workers : pc[w] \notin {"generate", "load3", "judge", "persist", "complete"}

ErrOnce ==
    /\ Fertile => /\ \A j \in Jobs : left[j] = MaxRetries
                  /\ \A w \in Workers : pc[w] \notin Erring
    /\ \A v, w \in Workers : pc[v] \in Erring /\ pc[w] \in Erring => v = w
    /\ \A w \in Workers : pc[w] \in Erring => left[mine[w]] > 0

\* So no job is ever failed and nobody takes a lock for stale.
Calm ==
    /\ LockOwned
    /\ post # "error"
    /\ \A j \in Jobs : job[j] # "failed"
    /\ \A c \in Clients : ~api[c].stale
    /\ \A w \in Workers : pc[w] # "killed" /\ (Busy(w) => mine[w] \in Jobs)

\* What an open requeue knows of the run.
RequeueReads(c) ==
    /\ api[c].pc \in {"check", "normalize", "commit", "enqueue"} => api[c].kind = "requeue"
    /\ Open(c) /\ api[c].seen = "failed" /\ api[c].pc \in {"scan", "clear", "check"} =>
         \/ status = "failed"
         \/ /\ Barren
            /\ status = "retrieval_completed"
            /\ \E w \in Workers : pc[w] \in {"p2", "load2", "mark", "markWrite"}
    /\ api[c].pc \in {"normalize", "commit"} =>
         /\ api[c].seen = "failed"
         /\ status = "failed"
         /\ \A w \in Workers : pc[w] \notin Pipeline
    /\ api[c].pc = "commit" =>
         \/ api[c].target = "running" /\ rows = 0 /\ ~generation
         \/ api[c].target = "retrieval_completed" /\ ~generation
         \/ api[c].target = "generation_completed" /\ generation

\* What the sessions of a run that is not barren read is still so.
SoleReads ==
    /\ \A w \in Workers : WorkerReads(w) \/ Barren
    /\ \A w \in Workers : pc[w] \in Erring => Barren
    /\ \A c \in Clients : RequeueReads(c)

OverlapInv == Calm /\ ErrOnce /\ SoleReads /\ StatusIsPhase

(***************************************************************************)
(* The lock, the jobs and the callers stay calm.                           *)
(***************************************************************************)

\* The only fault that is left to a worker: a missing key, or a callback that
\* cannot write.
LEMMA NoFault ==
    ASSUME Undisturbed, NEW w, WorkerFault(w)
    PROVE  LLMValueError(w) \/ OnFailureSwallowed(w)
BY DEF Undisturbed, WorkerFault, LockError, RetryableError, KillHorse

\* Of the jobs, Calm needs their failures only; of the workers, their own job.
LEMMA CalmRest ==
    ASSUME Calm, LockOwned', post' # "error", UNCHANGED api,
           \A j \in Jobs : job'[j] = "failed" => job[j] = "failed",
           \A w \in Workers : pc'[w] # "killed" /\ (Busy(w)' => mine'[w] \in Jobs)
    PROVE  Calm'
BY DEF Calm

LEMMA MoveCalm ==
    ASSUME TypeOK, Calm, LockOwned', NEW w \in Workers, NEW from, NEW to,
           Move(w, from, to) \/ Commit(w, from, to), from # "idle", to # "killed"
    PROVE  Calm'
<1>1. \A v \in Workers : pc'[v] # "killed" /\ (Busy(v)' => mine'[v] \in Jobs)
  BY DEF TypeOK, Calm, Busy, Move, Commit, Goto
<1> QED BY <1>1, CalmRest DEF Calm, Move, Commit, queue

LEMMA WorkerCalm ==
    ASSUME Undisturbed, TypeOK, Calm, ErrOnce, LockOwned', NEW w \in Workers,
           JobStep(w) \/ WorkerFault(w)
    PROVE  Calm'
<1> USE DEF Holding, Pipeline
<1>1. CASE AcquireLock(w)
  BY <1>1, CalmRest DEF AcquireLock, TypeOK, Calm, Busy, Goto, queue
<1>2. CASE SkipLocked(w) BY <1>2, MoveCalm DEF SkipLocked
<1>3. CASE PipelineStep(w)
  <2>1. CASE SearchChunks(w)
    BY <2>1, CalmRest DEF SearchChunks, TypeOK, Calm, Busy, Goto, queue
  <2>2. CASE ~SearchChunks(w)
    <3>1. PICK from \in Holding, to \in Holding : Move(w, from, to) \/ Commit(w, from, to)
      BY <1>3, <2>2
         DEF PipelineStep, EnterPipeline, PhaseOne, StoreRetrieval, StoreConflict,
             PhaseTwo, LoadForGeneration, StoreGeneration, GenerationConflict,
             PhaseThree, LoadForJudge, Judged, CheckEvaluation, StoreEvaluation,
             EvaluationConflict, MarkFailedRead, MarkFailedWrite
    <3> QED BY <3>1, MoveCalm
  <2> QED BY <2>1, <2>2
<1>4. CASE ReleaseLock(w)
  BY <1>4, CalmRest DEF ReleaseLock, TypeOK, Calm, Busy, Goto, queue
<1>5. CASE FinishJob(w)
  BY <1>5, CalmRest DEF FinishJob, TypeOK, Calm, Busy, Goto
<1>6. CASE NoticeKilled(w) BY <1>6 DEF NoticeKilled, Move, Calm
<1>7. CASE NoCallback(w) BY <1>7, MoveCalm DEF NoCallback
<1>8. CASE OnFailureRead(w) BY <1>8, MoveCalm DEF OnFailureRead
<1>9. CASE OnFailureWrite(w) BY <1>9, MoveCalm DEF OnFailureWrite
<1>10. CASE HandleFailure(w)
  <2>1. left[mine[w]] > 0 /\ mine[w] \in Jobs
    BY <1>10 DEF HandleFailure, ErrOnce, Erring, Calm, Busy
  <2>2. job' = [job EXCEPT ![mine[w]] = "scheduled"]
    BY <1>10, <2>1 DEF HandleFailure, TypeOK
  <2> QED BY <1>10, <2>2, CalmRest DEF HandleFailure, TypeOK, Calm, Busy, Goto
<1>11. CASE LLMValueError(w) BY <1>11, MoveCalm DEF LLMValueError
<1>12. CASE OnFailureSwallowed(w) BY <1>12, MoveCalm DEF OnFailureSwallowed
<1> QED
  BY NoFault, <1>1, <1>2, <1>3, <1>4, <1>5, <1>6, <1>7, <1>8, <1>9, <1>10, <1>11, <1>12
     DEF JobStep

LEMMA NextCalm ==
    ASSUME Undisturbed, TypeOK, Calm, ErrOnce, [Next]_vars
    PROVE  Calm'
<1>1. ClearsOnlyDead BY DEF ClearsOnlyDead, Calm
<1>2. LockOwned' BY <1>1, NextLock DEF Calm
<1>3. ASSUME NEW j \in Jobs, PostEnqueue(j) \/ Promote(j) \/ Expire(j) PROVE Calm'
  BY <1>2, <1>3, CalmRest
     DEF PostEnqueue, Promote, Expire, enqueue_full_benchmark_run, TypeOK, Calm, Busy, worker
<1>4. ASSUME NEW j \in Jobs, PostLostReply(j) PROVE Calm'
  BY <1>4 DEF PostLostReply, Undisturbed
<1>5. CASE PostRedisDown BY <1>5 DEF PostRedisDown, Undisturbed
<1>6. CASE PostMarkFailed BY <1>6 DEF PostMarkFailed, Calm
<1>7. ASSUME NEW w \in Workers, NEW j \in Jobs, StartJob(w, j) PROVE Calm'
  BY <1>2, <1>7, CalmRest DEF StartJob, TypeOK, Calm, Busy, Goto
<1>8. ASSUME NEW w \in Workers, JobStep(w) \/ WorkerFault(w) PROVE Calm'
  BY <1>2, <1>8, WorkerCalm
<1>9. ASSUME NEW c \in Clients, RequestStep(c) PROVE Calm'
  <2>1. ~NewestJobFailed BY DEF Calm, NewestJobFailed, STALE_LOCK_RQ_STATUSES
  <2>2. \A d \in Clients : ~api'[d].stale
    <3>1. /\ api'[c].stale => api[c].stale
          /\ \A d \in Clients \ {c} : api'[d] = api[d]
      <4> DEFINE kept == /\ api'[c].stale => api[c].stale
                         /\ \A d \in Clients \ {c} : api'[d] = api[d]
      <4> USE DEF Handle, Request, NoRequest, At, TypeOK
      <4>1. ASSUME NEW kind, LoadRun(c, kind) PROVE kept
        BY <4>1 DEF LoadRun
      <4>2. CASE ScanJobs(c) BY <4>2, <2>1 DEF ScanJobs
      <4>3. CASE ClearStaleLock(c) BY <4>3 DEF ClearStaleLock
      <4>4. CASE CheckLock(c) BY <4>4 DEF CheckLock
      <4>5. CASE NormalizeRead(c) BY <4>5 DEF NormalizeRead
      <4>6. CASE NormalizeCommit(c) BY <4>6 DEF NormalizeCommit
      <4>7. ASSUME NEW j \in Jobs, RequeueEnqueue(c, j) PROVE kept
        BY <4>7 DEF RequeueEnqueue
      <4>8. CASE AbandonRequest(c) BY <4>8 DEF AbandonRequest
      <4> QED BY <1>9, <4>1, <4>2, <4>3, <4>4, <4>5, <4>6, <4>7, <4>8 DEF RequestStep
    <3> QED BY <3>1 DEF Calm, TypeOK
  <2>3. post' = post /\ UNCHANGED worker
    BY <1>9
       DEF RequestStep, LoadRun, ScanJobs, ClearStaleLock, CheckLock, NormalizeRead,
           NormalizeCommit, RequeueEnqueue, AbandonRequest, Handle
  <2>4. job' = job \/ \E j \in Jobs : job' = [job EXCEPT ![j] = "queued"]
    BY <1>9
       DEF RequestStep, LoadRun, ScanJobs, ClearStaleLock, CheckLock, NormalizeRead,
           NormalizeCommit, RequeueEnqueue, AbandonRequest, Handle, queue,
           enqueue_full_benchmark_run
  <2>5. \A j \in Jobs : job'[j] # "failed" BY <2>4 DEF Calm, TypeOK
  <2> QED BY <1>2, <2>2, <2>3, <2>5 DEF Calm, Busy, worker
<1>10. CASE LockExpires BY <1>2, <1>10, CalmRest DEF LockExpires, Calm, Busy, queue, worker
<1>11. CASE DeleteDocument
  BY <1>2, <1>11, CalmRest DEF DeleteDocument, Calm, Busy, queue, worker
<1>12. CASE UNCHANGED vars BY <1>2, <1>12, CalmRest DEF vars, Calm, Busy, queue, worker
<1> QED
  BY <1>3, <1>4, <1>5, <1>6, <1>7, <1>8, <1>9, <1>10, <1>11, <1>12 DEF Next

(***************************************************************************)
(* One job errs, once.                                                     *)
(***************************************************************************)

\* A step that neither begins an error nor spends a retry.
LEMMA KeepErrOnce ==
    ASSUME ErrOnce, Fertile' => Fertile, UNCHANGED left,
           \A w \in Workers : pc'[w] \in Erring => pc[w] \in Erring /\ mine'[w] = mine[w]
    PROVE  ErrOnce'
BY DEF ErrOnce

LEMMA MoveErrOnce ==
    ASSUME TypeOK, ErrOnce, NEW w \in Workers, NEW from, NEW to,
           Move(w, from, to) \/ Commit(w, from, to), indexed' = indexed,
           to # "store", to \in Erring => from \in Erring
    PROVE  ErrOnce'
<1>1. Fertile' => Fertile BY DEF Fertile, TypeOK, Move, Commit, Goto
<1>2. \A v \in Workers : pc'[v] \in Erring => pc[v] \in Erring /\ mine'[v] = mine[v]
  BY DEF TypeOK, Move, Commit, Goto
<1> QED BY <1>1, <1>2, KeepErrOnce DEF Move, Commit, queue

\* In the locked section a worker knows it is the only one there.
LEMMA Sole ==
    ASSUME Calm, NEW w \in Workers, NEW v \in Workers, pc[w] \in Holding, pc[v] \in Holding
    PROVE  v = w
BY DEF Calm, LockOwned

LEMMA PipelineErrOnce ==
    ASSUME Undisturbed, TypeOK, OverlapInv, NEW w \in Workers, PipelineStep(w)
    PROVE  ErrOnce'
<1> USE DEF Holding, Pipeline, Erring
<1> Calm /\ ErrOnce /\ SoleReads /\ StatusIsPhase BY DEF OverlapInv
<1>1. CASE SearchChunks(w)
  <2>1. Fertile' => Fertile BY <1>1 DEF SearchChunks, Fertile, TypeOK, Goto, db
  <2>2. \A v \in Workers : pc'[v] \in Erring => pc[v] \in Erring /\ mine'[v] = mine[v]
    BY <1>1 DEF SearchChunks, TypeOK, Goto
  <2> QED BY <1>1, <2>1, <2>2, KeepErrOnce DEF SearchChunks, queue
<1>2. CASE StoreConflict(w)
  <2>1. Fertile BY <1>2 DEF StoreConflict, Move, Fertile
  <2>2. ~Fertile'
    BY <1>2, Sole DEF StoreConflict, Move, Fertile, Goto, TypeOK, db
  <2>3. \A v \in Workers \ {w} : pc'[v] \notin Erring
    BY <1>2, <2>1 DEF StoreConflict, Move, ErrOnce, Goto, TypeOK
  <2>4. mine'[w] \in Jobs /\ left'[mine'[w]] > 0
    BY <1>2, <2>1, FullRunAssumption
       DEF StoreConflict, Move, ErrOnce, queue, Calm, Busy, Undisturbed
  <2> QED BY <2>2, <2>3, <2>4 DEF ErrOnce
<1>3. CASE GenerationConflict(w)
  BY <1>3 DEF GenerationConflict, Move, SoleReads, WorkerReads, Barren, StatusIsPhase
<1>4. CASE EvaluationConflict(w)
  BY <1>4 DEF EvaluationConflict, Move, SoleReads, WorkerReads, Barren, StatusIsPhase
<1>5. ASSUME NEW from, NEW to \in Holding \ {"store", "releaseErr"},
             Move(w, from, to) \/ Commit(w, from, to), indexed' = indexed
      PROVE  ErrOnce'
  BY <1>5, MoveErrOnce
<1>6. CASE EnterPipeline(w) BY <1>5, <1>6 DEF EnterPipeline, Move, db
<1>7. CASE PhaseOne(w) BY <1>5, <1>7 DEF PhaseOne, Move, db
<1>8. CASE StoreRetrieval(w) BY <1>5, <1>8 DEF StoreRetrieval
<1>9. CASE PhaseTwo(w) BY <1>5, <1>9 DEF PhaseTwo, Move, db
<1>10. CASE LoadForGeneration(w) BY <1>5, <1>10 DEF LoadForGeneration, Move, db
<1>11. CASE StoreGeneration(w) BY <1>5, <1>11 DEF StoreGeneration
<1>12. CASE PhaseThree(w) BY <1>5, <1>12 DEF PhaseThree, Move, db
<1>13. CASE LoadForJudge(w) BY <1>5, <1>13 DEF LoadForJudge, Move, db
<1>14. CASE Judged(w) BY <1>5, <1>14 DEF Judged, Move, db
<1>15. CASE CheckEvaluation(w) BY <1>5, <1>15 DEF CheckEvaluation, Move, db
<1>16. CASE StoreEvaluation(w) BY <1>5, <1>16 DEF StoreEvaluation
<1>17. CASE MarkFailedRead(w) BY <1>5, <1>17 DEF MarkFailedRead, Move, db
<1>18. CASE MarkFailedWrite(w) BY <1>5, <1>18 DEF MarkFailedWrite
<1> QED
  BY <1>1, <1>2, <1>3, <1>4, <1>6, <1>7, <1>8, <1>9, <1>10, <1>11, <1>12, <1>13,
     <1>14, <1>15, <1>16, <1>17, <1>18 DEF PipelineStep

LEMMA WorkerErrOnce ==
    ASSUME Undisturbed, TypeOK, OverlapInv, NEW w \in Workers, JobStep(w) \/ WorkerFault(w)
    PROVE  ErrOnce'
<1> USE DEF Horse, Holding, Pipeline, Erring
<1> Calm /\ ErrOnce BY DEF OverlapInv
<1>1. ASSUME NEW to \in WorkerSteps \ {"store"}, Goto(w, to), to \in Erring => pc[w] \in Erring,
             UNCHANGED <<db, hits, left>>, UNCHANGED mine \/ mine' = [mine EXCEPT ![w] = NoJob],
             to \in Erring => UNCHANGED mine
      PROVE  ErrOnce'
  <2>1. \A v \in Workers : pc'[v] = "store" => pc[v] = "store"
    BY <1>1 DEF TypeOK, Goto
  <2>2. Fertile' => Fertile BY <1>1, <2>1 DEF Fertile, db
  <2>3. \A v \in Workers : pc'[v] \in Erring => pc[v] \in Erring /\ mine'[v] = mine[v]
    BY <1>1 DEF TypeOK, Goto
  <2> QED BY <1>1, <2>2, <2>3, KeepErrOnce
<1> USE DEF WorkerSteps
<1>2. CASE AcquireLock(w) BY <1>1, <1>2 DEF AcquireLock, queue
<1>3. CASE SkipLocked(w) BY <1>1, <1>3 DEF SkipLocked, Move, queue
<1>4. CASE PipelineStep(w) BY <1>4, PipelineErrOnce
<1>5. CASE ReleaseLock(w) BY <1>1, <1>5 DEF ReleaseLock, queue
<1>6. CASE FinishJob(w) BY <1>1, <1>6 DEF FinishJob
<1>7. CASE NoticeKilled(w) BY <1>7 DEF NoticeKilled, Move, Calm
<1>8. CASE NoCallback(w) BY <1>1, <1>8 DEF NoCallback, Move, queue
<1>9. CASE OnFailureRead(w) BY <1>1, <1>9 DEF OnFailureRead, Move, queue
<1>10. CASE OnFailureWrite(w) BY <1>10, MoveErrOnce DEF OnFailureWrite
<1>11. CASE HandleFailure(w)
  <2>1. pc[w] \in Erring /\ ~Fertile BY <1>11 DEF HandleFailure, ErrOnce
  <2>2. ~Fertile' BY <1>11, <2>1 DEF HandleFailure, Fertile, TypeOK, Goto, db
  <2>3. \A v \in Workers : pc'[v] \notin Erring
    BY <1>11, <2>1 DEF HandleFailure, ErrOnce, Goto, TypeOK
  <2> QED BY <2>2, <2>3 DEF ErrOnce
<1>12. CASE LLMValueError(w) BY <1>1, <1>12 DEF LLMValueError, Move, queue
<1>13. CASE OnFailureSwallowed(w) BY <1>1, <1>13 DEF OnFailureSwallowed, Move, queue
<1> QED
  BY NoFault, <1>2, <1>3, <1>4, <1>5, <1>6, <1>7, <1>8, <1>9, <1>10, <1>11, <1>12, <1>13
     DEF JobStep

LEMMA NextErrOnce ==
    ASSUME Undisturbed, TypeOK, OverlapInv, [Next]_vars
    PROVE  ErrOnce'
<1> ErrOnce BY DEF OverlapInv
<1>1. ASSUME UNCHANGED <<indexed, left, worker>> PROVE ErrOnce'
  BY <1>1 DEF ErrOnce, Fertile, worker
<1>2. ASSUME NEW j \in Jobs, PostEnqueue(j) \/ PostLostReply(j) \/ Promote(j) \/ Expire(j)
      PROVE  ErrOnce'
  BY <1>1, <1>2
     DEF PostEnqueue, PostLostReply, Promote, Expire, enqueue_full_benchmark_run, db
<1>3. CASE PostRedisDown BY <1>1, <1>3 DEF PostRedisDown, db, queue
<1>4. CASE PostMarkFailed BY <1>1, <1>4 DEF PostMarkFailed, queue
<1>5. ASSUME NEW w \in Workers, NEW j \in Jobs, StartJob(w, j) PROVE ErrOnce'
  <2>1. Fertile' => Fertile BY <1>5 DEF StartJob, Fertile, TypeOK, Goto, db
  <2>2. \A v \in Workers : pc'[v] \in Erring => pc[v] \in Erring /\ mine'[v] = mine[v]
    BY <1>5 DEF StartJob, TypeOK, Goto, Erring
  <2> QED BY <1>5, <2>1, <2>2, KeepErrOnce DEF StartJob
<1>6. ASSUME NEW w \in Workers, JobStep(w) \/ WorkerFault(w) PROVE ErrOnce'
  BY <1>6, WorkerErrOnce
<1>7. ASSUME NEW c \in Clients, RequestStep(c) PROVE ErrOnce'
  BY <1>1, <1>7
     DEF RequestStep, LoadRun, ScanJobs, ClearStaleLock, CheckLock, NormalizeRead,
         NormalizeCommit, RequeueEnqueue, enqueue_full_benchmark_run, AbandonRequest,
         Handle, db, queue
<1>8. CASE LockExpires BY <1>1, <1>8 DEF LockExpires, db, queue
<1>9. CASE DeleteDocument
  <2>1. Fertile' => Fertile BY <1>9 DEF DeleteDocument, Fertile, worker
  <2> QED BY <1>9, <2>1, KeepErrOnce DEF DeleteDocument, queue, worker
<1>10. CASE UNCHANGED vars BY <1>1, <1>10 DEF vars, db, queue
<1> QED
  BY <1>2, <1>3, <1>4, <1>5, <1>6, <1>7, <1>8, <1>9, <1>10 DEF Next

(***************************************************************************)
(* Reads are fresh or the run is barren, and every step is a step of the   *)
(* lifecycle.                                                              *)
(***************************************************************************)

ToldRight == SoleReads /\ StatusIsPhase

\* A worker in the pipeline knows that no other is there, and that no requeue
\* is past its look at the lock with a failed run in mind.
LEMMA InPipeline ==
    ASSUME OverlapInv, NEW w \in Workers, pc[w] \in Pipeline
    PROVE  /\ \A v \in Workers \ {w} : pc[v] \notin Holding
           /\ \A c \in Clients : api[c].pc \notin {"normalize", "commit"}
<1>1. \A v \in Workers \ {w} : pc[v] \notin Holding
  BY Sole DEF OverlapInv, Holding
<1>2. \A c \in Clients : api[c].pc \notin {"normalize", "commit"}
  BY DEF OverlapInv, SoleReads, RequeueReads
<1> QED BY <1>1, <1>2

\* A worker moves on without touching the run: what it has to account for.
LEMMA StepTold ==
    ASSUME TypeOK, OverlapInv, NEW w \in Workers, NEW to, Goto(w, to),
           UNCHANGED <<db, hits, api>>,
           WorkerReads(w)' \/ Barren,
           to \in Erring => pc[w] \in Erring,
           to \in Pipeline => pc[w] \in Pipeline \/ status \notin Terminal,
           to # "store",
           Barren => to \notin {"generate", "load3", "judge", "persist", "complete"},
           Barren /\ status = "retrieval_completed" /\ pc[w] \in {"p2", "load2", "mark", "markWrite"}
             => to \in {"p2", "load2", "mark", "markWrite"}
    PROVE  ToldRight' /\ LifecycleStep
<1> SoleReads /\ StatusIsPhase BY DEF OverlapInv
<1>1. pc'[w] = to /\ \A v \in Workers \ {w} : pc'[v] = pc[v]
  BY DEF Goto, TypeOK
<1>2. Barren => Barren'
  BY <1>1 DEF Barren, Fertile, db
<1>3. \A v \in Workers : WorkerReads(v)' \/ Barren'
  BY <1>1, <1>2 DEF SoleReads, WorkerReads, db
<1>4. \A v \in Workers : pc'[v] \in Erring => Barren'
  BY <1>1, <1>2 DEF SoleReads
<1>5. ASSUME NEW c \in Clients PROVE RequeueReads(c)'
  <2> RequeueReads(c) BY DEF SoleReads
  <2>1. CASE \E v \in Workers : pc[v] \in {"p2", "load2", "mark", "markWrite"}
    BY <1>1, <1>2, <2>1 DEF RequeueReads, Open, db, Terminal, Pipeline
  <2>2. CASE ~\E v \in Workers : pc[v] \in {"p2", "load2", "mark", "markWrite"}
    BY <1>1, <1>2, <2>2 DEF RequeueReads, Open, db, Terminal
  <2> QED BY <2>1, <2>2
<1>6. StatusIsPhase' /\ LifecycleStep
  BY DEF StatusIsPhase, LifecycleStep, Lifecycle!lifecycle, db
<1> QED BY <1>3, <1>4, <1>5, <1>6 DEF ToldRight, SoleReads

\* The only worker in the pipeline commits to the run.
LEMMA CommitTold ==
    ASSUME TypeOK, OverlapInv, NEW w \in Workers, NEW from,
           NEW to \in {"p2", "p3", "releaseOk"}, Commit(w, from, to),
           StatusIsPhase', LifecycleStep,
           from \in {"store", "generate", "complete", "markWrite"},
           Barren => Barren',
           status = "failed" => \/ status' = "failed"
                                \/ Barren /\ status' = "retrieval_completed" /\ to = "p2",
           from = "markWrite" => status' = "failed"
    PROVE  ToldRight' /\ LifecycleStep
<1> SoleReads /\ StatusIsPhase BY DEF OverlapInv
<1>1. pc'[w] = to /\ pc[w] = from /\ UNCHANGED api
      /\ \A v \in Workers \ {w} : pc'[v] = pc[v] /\ pc[v] \notin Holding
  BY InPipeline DEF Commit, Goto, TypeOK, Pipeline
<1>2. \A v \in Workers : WorkerReads(v)' \/ Barren'
  BY <1>1 DEF SoleReads, WorkerReads, Holding, Pipeline, Erring
<1>3. \A v \in Workers : pc'[v] \in Erring => Barren'
  BY <1>1 DEF SoleReads, Erring
<1>4. ASSUME NEW c \in Clients PROVE RequeueReads(c)'
  <2>1. api[c].pc \notin {"normalize", "commit"} /\ RequeueReads(c)
    BY <1>1, InPipeline DEF SoleReads, Pipeline
  <2>2. ASSUME Open(c), api[c].seen = "failed", api[c].pc \in {"scan", "clear", "check"}
        PROVE  status = "failed" \/ from = "markWrite"
    BY <1>1, <2>1, <2>2 DEF RequeueReads, Holding, Pipeline
  <2> QED BY <1>1, <2>1, <2>2 DEF RequeueReads, Open
<1> QED BY <1>2, <1>3, <1>4 DEF ToldRight, SoleReads

LEMMA PipelineTold ==
    ASSUME TypeOK, OverlapInv, NEW w \in Workers, PipelineStep(w)
    PROVE  ToldRight' /\ LifecycleStep
<1> USE DEF Pipeline, Erring
<1> Calm /\ SoleReads /\ StatusIsPhase BY DEF OverlapInv
<1> WorkerReads(w) \/ Barren BY DEF SoleReads
<1>1. ASSUME NEW from \in Pipeline \cup {"enter"}, NEW to, Move(w, from, to),
             WorkerReads(w)' \/ Barren, to \notin Erring, to # "store",
             to \in Pipeline => from # "enter" \/ status \notin Terminal,
             Barren => to \notin {"generate", "load3", "judge", "persist", "complete"},
             Barren /\ status = "retrieval_completed" /\ from \in {"p2", "load2", "mark", "markWrite"}
               => to \in {"p2", "load2", "mark", "markWrite"}
      PROVE  ToldRight' /\ LifecycleStep
  BY <1>1, StepTold DEF Move
<1>2. ASSUME NEW from, NEW to, Move(w, from, to) PROVE pc'[w] = to
  BY <1>2 DEF Move, Goto, TypeOK
<1>3. CASE EnterPipeline(w)
  BY <1>1, <1>2, <1>3 DEF EnterPipeline, WorkerReads
<1>4. CASE PhaseOne(w)
  <2>1. WorkerReads(w)' BY <1>2, <1>4 DEF PhaseOne, WorkerReads, Move, db
  <2> QED BY <1>1, <1>4, <2>1 DEF PhaseOne
<1>5. CASE SearchChunks(w)
  <2>1. /\ pc[w] = "search" /\ pc'[w] = "store" /\ hits'[w] = indexed
        /\ \A v \in Workers \ {w} : pc'[v] = pc[v] /\ hits'[v] = hits[v]
        /\ UNCHANGED <<db, api>>
    BY <1>5 DEF SearchChunks, Goto, TypeOK
  <2>2. Barren => Barren'
    BY <2>1 DEF Barren, Fertile, db
  <2>3. \A v \in Workers : WorkerReads(v)' \/ Barren'
    BY <2>1, <2>2 DEF SoleReads, WorkerReads, db
  <2>4. \A v \in Workers : pc'[v] \in Erring => Barren'
    BY <2>1, <2>2 DEF SoleReads
  <2>5. ASSUME NEW c \in Clients PROVE RequeueReads(c)'
    <3> RequeueReads(c) BY DEF SoleReads
    <3> QED BY <2>1, <2>2 DEF RequeueReads, Open, db
  <2>6. StatusIsPhase' /\ LifecycleStep
    BY <2>1 DEF StatusIsPhase, LifecycleStep, Lifecycle!lifecycle, db
  <2> QED BY <2>3, <2>4, <2>5, <2>6 DEF ToldRight, SoleReads
<1>6. CASE StoreConflict(w)
  <2>1. /\ pc[w] = "store" /\ hits[w] /\ ~indexed /\ pc'[w] = "releaseErr"
        /\ \A v \in Workers \ {w} : pc'[v] = pc[v]
        /\ UNCHANGED <<db, hits, api>>
    BY <1>6 DEF StoreConflict, Move, Goto, TypeOK
  <2>2. \A v \in Workers \ {w} : pc[v] \notin Holding
    BY <2>1, InPipeline
  <2>3. status = "running"
    BY <2>1 DEF WorkerReads, Barren, Fertile
  <2>4. Barren'
    BY <2>1, <2>2, <2>3 DEF Barren, Fertile, StatusIsPhase, db, Holding
  <2>5. ASSUME NEW c \in Clients PROVE RequeueReads(c)'
    <3>1. RequeueReads(c) BY DEF SoleReads
    <3> QED BY <2>1, <2>3, <3>1 DEF RequeueReads, Open, db
  <2>6. StatusIsPhase' /\ LifecycleStep
    BY <2>1 DEF StatusIsPhase, LifecycleStep, Lifecycle!lifecycle, db
  <2> QED BY <2>4, <2>5, <2>6 DEF ToldRight, SoleReads
<1>7. CASE StoreRetrieval(w)
  <2>1. /\ pc[w] = "store" /\ pc'[w] = "p2" /\ status' = "retrieval_completed"
        /\ UNCHANGED <<generation, evaluation, indexed, hits>>
        /\ rows' = (IF hits[w] THEN rows + 1 ELSE rows)
        /\ \A v \in Workers \ {w} : pc'[v] = pc[v]
        /\ Commit(w, "store", "p2")
    BY <1>7 DEF StoreRetrieval, Commit, Goto, TypeOK
  <2>2. CASE Barren
    <3>1. rows' = 0 /\ Barren' BY <2>1, <2>2 DEF Barren, Fertile
    <3>2. StatusIsPhase' BY <2>1, <2>2, <3>1 DEF StatusIsPhase, Barren
    <3>3. LifecycleStep
      BY <2>1, <2>2, <3>1 DEF Barren, LifecycleStep, Lifecycle!Next, Lifecycle!Retrieve,
                              Lifecycle!Resume, Lifecycle!lifecycle
    <3> QED BY <2>1, <2>2, <3>1, <3>2, <3>3, CommitTold
  <2>3. CASE ~Barren
    <3>1. status = "running" /\ rows = 0 /\ ~generation /\ ~evaluation
      BY <2>1, <2>3 DEF WorkerReads, StatusIsPhase
    <3>2. rows' \in {0, 1} BY <2>1, <3>1
    <3>3. StatusIsPhase' BY <2>1, <3>1, <3>2 DEF StatusIsPhase
    <3>4. LifecycleStep
      BY <2>1, <3>1, <3>2 DEF LifecycleStep, Lifecycle!Next, Lifecycle!Retrieve
    <3> QED BY <2>1, <2>3, <3>1, <3>3, <3>4, CommitTold
  <2> QED BY <2>2, <2>3
<1>8. CASE PhaseTwo(w)
  <2>1. WorkerReads(w)' BY <1>2, <1>8 DEF PhaseTwo, WorkerReads, Move, db
  <2> QED BY <1>1, <1>8, <2>1 DEF PhaseTwo
<1>9. CASE LoadForGeneration(w)
  <2>1. WorkerReads(w)' \/ Barren
    BY <1>2, <1>9 DEF LoadForGeneration, WorkerReads, Move, db
  <2> QED BY <1>1, <1>9, <2>1 DEF LoadForGeneration, Barren
<1>10. CASE StoreGeneration(w)
  <2>1. ~Barren BY <1>10 DEF StoreGeneration, Commit, Barren
  <2>2. status = "retrieval_completed" /\ rows <= 1 /\ ~generation /\ ~evaluation
    BY <1>10, <2>1 DEF StoreGeneration, Commit, WorkerReads, StatusIsPhase
  <2>3. generation' = TRUE /\ status' = "generation_completed"
        /\ UNCHANGED <<rows, evaluation>>
    BY <1>10 DEF StoreGeneration
  <2>4. StatusIsPhase' BY <2>2, <2>3 DEF StatusIsPhase
  <2>5. LifecycleStep BY <2>2, <2>3 DEF LifecycleStep, Lifecycle!Next, Lifecycle!Generate
  <2> QED BY <1>10, <2>1, <2>2, <2>4, <2>5, CommitTold DEF StoreGeneration
<1>11. CASE GenerationConflict(w)
  BY <1>11 DEF GenerationConflict, Move, WorkerReads, Barren, StatusIsPhase
<1>12. CASE PhaseThree(w)
  <2>1. WorkerReads(w)' BY <1>2, <1>12 DEF PhaseThree, WorkerReads, Move, db
  <2> QED BY <1>1, <1>12, <2>1 DEF PhaseThree, Barren
<1>13. CASE LoadForJudge(w)
  <2>1. WorkerReads(w)' /\ ~Barren
    BY <1>2, <1>13 DEF LoadForJudge, WorkerReads, Move, Barren, db
  <2> QED BY <1>1, <1>13, <2>1 DEF LoadForJudge
<1>14. CASE Judged(w)
  <2>1. WorkerReads(w)' /\ ~Barren
    BY <1>2, <1>14 DEF Judged, WorkerReads, Move, Barren, db
  <2> QED BY <1>1, <1>14, <2>1 DEF Judged
<1>15. CASE CheckEvaluation(w)
  <2>1. WorkerReads(w)' /\ ~Barren
    BY <1>2, <1>15 DEF CheckEvaluation, WorkerReads, Move, Barren, db
  <2> QED BY <1>1, <1>15, <2>1 DEF CheckEvaluation
<1>16. CASE StoreEvaluation(w)
  <2>1. ~Barren BY <1>16 DEF StoreEvaluation, Commit, Barren
  <2>2. status = "generation_completed" /\ rows <= 1 /\ generation /\ ~evaluation
    BY <1>16, <2>1 DEF StoreEvaluation, Commit, WorkerReads, StatusIsPhase
  <2>3. evaluation' = TRUE /\ status' = "completed" /\ UNCHANGED <<rows, generation>>
    BY <1>16 DEF StoreEvaluation
  <2>4. StatusIsPhase' BY <2>2, <2>3 DEF StatusIsPhase
  <2>5. LifecycleStep BY <2>2, <2>3 DEF LifecycleStep, Lifecycle!Next, Lifecycle!Complete
  <2> QED BY <1>16, <2>1, <2>2, <2>4, <2>5, CommitTold DEF StoreEvaluation
<1>17. CASE EvaluationConflict(w)
  BY <1>17 DEF EvaluationConflict, Move, WorkerReads, Barren, StatusIsPhase
<1>18. CASE MarkFailedRead(w)
  <2>1. WorkerReads(w)' BY <1>2, <1>18 DEF MarkFailedRead, WorkerReads, Move, db
  <2> QED BY <1>1, <1>18, <2>1 DEF MarkFailedRead, Terminal
<1>19. CASE MarkFailedWrite(w)
  <2>1. /\ pc[w] = "markWrite" /\ pc'[w] = "releaseOk" /\ status' = "failed"
        /\ UNCHANGED <<rows, generation, evaluation, indexed, hits>>
        /\ \A v \in Workers \ {w} : pc'[v] = pc[v]
        /\ Commit(w, "markWrite", "releaseOk")
    BY <1>19 DEF MarkFailedWrite, Commit, Goto, TypeOK
  <2>2. Barren => Barren' BY <2>1 DEF Barren, Fertile
  <2>3. status # "completed" BY <2>1 DEF Barren, WorkerReads, Terminal
  <2>4. StatusIsPhase' BY <2>1, <2>3 DEF StatusIsPhase
  <2>5. LifecycleStep
    BY <2>1, <2>3 DEF LifecycleStep, Lifecycle!Next, Lifecycle!Fail, Lifecycle!lifecycle
  <2> QED BY <2>1, <2>2, <2>4, <2>5, CommitTold
<1> QED
  BY <1>3, <1>4, <1>5, <1>6, <1>7, <1>8, <1>9, <1>10, <1>11, <1>12, <1>13, <1>14,
     <1>15, <1>16, <1>17, <1>18, <1>19 DEF PipelineStep

LEMMA WorkerTold ==
    ASSUME Undisturbed, TypeOK, OverlapInv, NEW w \in Workers, JobStep(w) \/ WorkerFault(w)
    PROVE  ToldRight' /\ LifecycleStep
<1> USE DEF Holding, Pipeline, Erring
<1> Calm /\ ErrOnce /\ SoleReads /\ StatusIsPhase BY DEF OverlapInv
<1> WorkerReads(w) \/ Barren BY DEF SoleReads
<1>1. ASSUME NEW to \in {"enter", "returned", "errored", "idle", "handle", "failWrite", "mark"},
             Goto(w, to), UNCHANGED <<db, hits, api>>,
             to \in Erring => pc[w] \in Erring,
             to = "mark" => pc[w] \in {"generate", "judge"},
             pc[w] \notin {"p2", "load2", "mark", "markWrite"}
      PROVE  ToldRight' /\ LifecycleStep
  <2>1. WorkerReads(w)' \/ Barren
    BY <1>1 DEF SoleReads, WorkerReads, Goto, TypeOK
  <2> QED BY <1>1, <2>1, StepTold
<1>2. CASE AcquireLock(w) BY <1>1, <1>2 DEF AcquireLock
<1>3. CASE SkipLocked(w) BY <1>1, <1>3 DEF SkipLocked, Move
<1>4. CASE PipelineStep(w) BY <1>4, PipelineTold
<1>5. CASE ReleaseLock(w) BY <1>1, <1>5 DEF ReleaseLock
<1>6. CASE FinishJob(w) BY <1>1, <1>6 DEF FinishJob
<1>7. CASE NoticeKilled(w) BY <1>7 DEF NoticeKilled, Move, Calm
<1>8. CASE NoCallback(w) BY <1>1, <1>8 DEF NoCallback, Move
<1>9. CASE OnFailureRead(w) BY <1>1, <1>9 DEF OnFailureRead, Move
<1>10. CASE OnFailureWrite(w)
  <2>1. /\ pc[w] = "failWrite" /\ pc'[w] = "handle" /\ status' = "failed"
        /\ UNCHANGED <<rows, generation, evaluation, indexed, hits, api>>
        /\ \A v \in Workers \ {w} : pc'[v] = pc[v]
    BY <1>10 DEF OnFailureWrite, Commit, Goto, TypeOK
  <2>2. Barren BY <2>1 DEF SoleReads
  <2>3. Barren' BY <2>1, <2>2 DEF Barren, Fertile
  <2>4. StatusIsPhase' BY <2>1, <2>2 DEF StatusIsPhase, Barren
  <2>5. LifecycleStep
    BY <2>1, <2>2 DEF Barren, LifecycleStep, Lifecycle!Next, Lifecycle!Fail, Lifecycle!lifecycle
  <2>6. ASSUME NEW c \in Clients PROVE RequeueReads(c)'
    <3>1. RequeueReads(c) BY DEF SoleReads
    <3> QED BY <2>1, <3>1 DEF RequeueReads, Open
  <2> QED BY <2>3, <2>4, <2>5, <2>6 DEF ToldRight, SoleReads
<1>11. CASE HandleFailure(w) BY <1>1, <1>11 DEF HandleFailure
<1>12. CASE LLMValueError(w) BY <1>1, <1>12 DEF LLMValueError, Move
<1>13. CASE OnFailureSwallowed(w) BY <1>1, <1>13 DEF OnFailureSwallowed, Move
<1> QED
  BY NoFault, <1>2, <1>3, <1>4, <1>5, <1>6, <1>7, <1>8, <1>9, <1>10, <1>11, <1>12, <1>13
     DEF JobStep

\* A step of a request that leaves the run and the workers alone.
LEMMA HandleTold ==
    ASSUME TypeOK, OverlapInv, NEW c \in Clients,
           \A d \in Clients \ {c} : api'[d] = api[d],
           UNCHANGED <<db, worker>>, RequeueReads(c)'
    PROVE  ToldRight' /\ LifecycleStep
<1> SoleReads /\ StatusIsPhase BY DEF OverlapInv
<1>1. Barren' <=> Barren BY DEF Barren, Fertile, db, worker
<1>2. \A w \in Workers : /\ WorkerReads(w)' \/ Barren'
                         /\ pc'[w] \in Erring => Barren'
  BY <1>1 DEF SoleReads, WorkerReads, db, worker
<1>3. ASSUME NEW d \in Clients \ {c} PROVE RequeueReads(d)'
  BY <1>1 DEF SoleReads, RequeueReads, Open, db, worker
<1>4. StatusIsPhase' /\ LifecycleStep
  BY DEF StatusIsPhase, LifecycleStep, Lifecycle!lifecycle, db
<1> QED BY <1>2, <1>3, <1>4 DEF ToldRight, SoleReads

\* A requeue that goes on before its look at the lock has lost nothing.
LEMMA KeepReads ==
    ASSUME NEW c \in Clients, RequeueReads(c), UNCHANGED <<db, worker>>,
           api[c].pc \in {"scan", "clear"}, api'[c].pc \in {"clear", "check"},
           api'[c].kind = api[c].kind, api'[c].seen = api[c].seen,
           api'[c].pc = "check" => api[c].kind = "requeue"
    PROVE  RequeueReads(c)'
<1>1. Barren' <=> Barren BY DEF Barren, Fertile, db, worker
<1>2. UNCHANGED <<status, pc>> BY DEF db, worker
<1> QED BY <1>1, <1>2 DEF RequeueReads, Open

LEMMA RequestTold ==
    ASSUME TypeOK, OverlapInv, OneRequeue, NEW c \in Clients, RequestStep(c)
    PROVE  ToldRight' /\ LifecycleStep
<1> USE DEF Request, NoRequest, At, Handle, queue, db, worker
<1> Calm /\ SoleReads /\ StatusIsPhase BY DEF OverlapInv
<1> RequeueReads(c) BY DEF SoleReads
<1>1. ASSUME NEW r, api' = [api EXCEPT ![c] = r]
      PROVE  api'[c] = r /\ \A d \in Clients \ {c} : api'[d] = api[d]
  BY <1>1 DEF TypeOK
<1>2. ASSUME NEW kind, LoadRun(c, kind) PROVE ToldRight' /\ LifecycleStep
  <2>1. RequeueReads(c)' BY <1>1, <1>2 DEF LoadRun, RequeueReads, Open
  <2> QED BY <1>1, <1>2, <2>1, HandleTold DEF LoadRun
<1>3. CASE ScanJobs(c)
  <2> DEFINE stale == NewestJobFailed /\ api[c].seen \in {"running", "failed"}
             r == Request("clear", api[c].kind, api[c].seen, stale, api[c].target)
  <2>a. api[c].pc = "scan" /\ api' = [api EXCEPT ![c] = r] /\ UNCHANGED <<db, worker>>
    BY <1>3 DEF ScanJobs
  <2>b. r.pc = "clear" /\ r.kind = api[c].kind /\ r.seen = api[c].seen
    OBVIOUS
  <2> HIDE DEF r
  <2>1. /\ api[c].pc = "scan" /\ api'[c].pc = "clear"
        /\ api'[c].kind = api[c].kind /\ api'[c].seen = api[c].seen
        /\ UNCHANGED <<db, worker>>
    BY <1>1, <2>a, <2>b
  <2>2. RequeueReads(c)' BY <2>1, KeepReads
  <2> QED BY <1>1, <1>3, <2>2, HandleTold DEF ScanJobs
<1>4. CASE ClearStaleLock(c)
  <2>1. CASE api[c].kind = "status"
    <3>1. RequeueReads(c)' BY <1>1, <1>4, <2>1 DEF ClearStaleLock, RequeueReads, Open
    <3> QED BY <1>1, <1>4, <3>1, HandleTold DEF ClearStaleLock
  <2>2. CASE api[c].kind = "requeue"
    <3>1. /\ api[c].pc = "clear" /\ api'[c].pc = "check"
          /\ api'[c].kind = api[c].kind /\ api'[c].seen = api[c].seen
          /\ UNCHANGED <<db, worker>>
      BY <1>1, <1>4, <2>2, ZenonT(30) DEF ClearStaleLock
    <3>2. RequeueReads(c)' BY <2>2, <3>1, KeepReads
    <3> QED BY <1>1, <1>4, <3>2, HandleTold DEF ClearStaleLock
  <2> QED BY <2>1, <2>2 DEF TypeOK, Requests
<1>5. CASE CheckLock(c)
  <2>1. CASE lock # NoWorker \/ api[c].seen # "failed"
    <3> DEFINE r == IF lock # NoWorker THEN NoRequest ELSE At(api[c], "enqueue")
    <3>a. api' = [api EXCEPT ![c] = r]
      BY <1>5, <2>1 DEF CheckLock
    <3>b. r.pc = "idle" \/ (r.pc = "enqueue" /\ r.kind = api[c].kind)
      OBVIOUS
    <3> HIDE DEF r
    <3>1. \/ api'[c].pc = "idle"
          \/ api'[c].pc = "enqueue" /\ api'[c].kind = api[c].kind
      BY <1>1, <3>a, <3>b
    <3>2. RequeueReads(c)' BY <1>5, <3>1 DEF CheckLock, RequeueReads, Open
    <3> QED BY <1>1, <1>5, <3>2, HandleTold DEF CheckLock
  <2>2. CASE lock = NoWorker /\ api[c].seen = "failed"
    <3>1. \A w \in Workers : pc[w] \notin Pipeline
      BY <2>2, FullRunAssumption DEF Calm, LockOwned, Holding
    <3>2. Open(c) /\ status = "failed"
      BY <1>5, <2>2, <3>1 DEF CheckLock, RequeueReads, Open, Pipeline
    <3>3. api'[c].pc = "normalize" /\ api'[c].kind = "requeue" /\ api'[c].seen = "failed"
      BY <1>1, <1>5, <2>2, <3>2, ZenonT(30) DEF CheckLock, Open
    <3>4. RequeueReads(c)' BY <1>5, <3>1, <3>2, <3>3 DEF CheckLock, RequeueReads
    <3> QED BY <1>1, <1>5, <3>4, HandleTold DEF CheckLock
  <2> QED BY <2>1, <2>2
<1>6. CASE NormalizeRead(c)
  <2>1. \/ ResumeStatus = "running" /\ rows = 0 /\ ~generation
        \/ ResumeStatus = "retrieval_completed" /\ ~generation
        \/ ResumeStatus = "generation_completed" /\ generation
    BY DEF ResumeStatus, TypeOK
  <2>2. /\ api'[c].pc = "commit" /\ api'[c].kind = "requeue" /\ api'[c].seen = "failed"
        /\ api'[c].target = ResumeStatus
    BY <1>1, <1>6 DEF NormalizeRead, RequeueReads
  <2>3. RequeueReads(c)' BY <1>6, <2>1, <2>2 DEF NormalizeRead, RequeueReads
  <2> QED BY <1>1, <1>6, <2>3, HandleTold DEF NormalizeRead
<1>7. CASE NormalizeCommit(c)
  <2>1. /\ Open(c) /\ status = "failed" /\ status' = api[c].target
        /\ \A w \in Workers : pc[w] \notin Pipeline
        /\ \A d \in Clients \ {c} : ~Open(d) /\ api'[d] = api[d]
        /\ api'[c].pc = "enqueue" /\ api'[c].kind = "requeue"
        /\ UNCHANGED <<rows, generation, evaluation, indexed, worker>>
    BY <1>1, <1>7, ZenonT(30) DEF NormalizeCommit, RequeueReads, OneRequeue, Open
  <2>2. \/ status' = "running" /\ rows = 0 /\ ~generation
        \/ status' = "retrieval_completed" /\ ~generation
        \/ status' = "generation_completed" /\ generation
    BY <1>7, <2>1 DEF NormalizeCommit, RequeueReads
  <2>3. StatusIsPhase' /\ LifecycleStep
    BY <2>1, <2>2 DEF StatusIsPhase, LifecycleStep, Lifecycle!Next, Lifecycle!Resume
  <2>4. Barren => Barren' BY <2>1, <2>2 DEF Barren, Fertile
  <2>5. \A w \in Workers : WorkerReads(w)' \/ Barren'
    BY <2>1, <2>4 DEF SoleReads, WorkerReads, Pipeline, Erring
  <2>6. \A w \in Workers : pc'[w] \in Erring => Barren'
    BY <2>1, <2>4 DEF SoleReads
  <2>7. RequeueReads(c)' BY <2>1 DEF RequeueReads
  <2>8. ASSUME NEW d \in Clients \ {c} PROVE RequeueReads(d)'
    <3>1. RequeueReads(d) BY DEF SoleReads
    <3> QED BY <2>1, <3>1 DEF RequeueReads, Open
  <2> QED BY <2>3, <2>5, <2>6, <2>7, <2>8 DEF ToldRight, SoleReads
<1>8. ASSUME NEW j \in Jobs, RequeueEnqueue(c, j) PROVE ToldRight' /\ LifecycleStep
  <2>1. RequeueReads(c)' BY <1>1, <1>8 DEF RequeueEnqueue, RequeueReads, Open
  <2> QED BY <1>1, <1>8, <2>1, HandleTold DEF RequeueEnqueue
<1>9. CASE AbandonRequest(c)
  <2>a. api' = [api EXCEPT ![c] = NoRequest] BY <1>9 DEF AbandonRequest
  <2>b. api'[c].pc = "idle" BY <1>1, <2>a
  <2>1. RequeueReads(c)' BY <2>b DEF RequeueReads, Open
  <2> QED BY <1>1, <1>9, <2>1, HandleTold DEF AbandonRequest
<1> QED BY <1>2, <1>3, <1>4, <1>5, <1>6, <1>7, <1>8, <1>9 DEF RequestStep

LEMMA NextTold ==
    ASSUME Undisturbed, TypeOK, OverlapInv, OneRequeue, [Next]_vars
    PROVE  ToldRight' /\ LifecycleStep
<1> SoleReads /\ StatusIsPhase BY DEF OverlapInv
<1>1. ASSUME UNCHANGED <<db, worker, api>> PROVE ToldRight' /\ LifecycleStep
  BY <1>1 DEF ToldRight, SoleReads, WorkerReads, RequeueReads, Open, Barren, Fertile,
              StatusIsPhase, LifecycleStep, Lifecycle!lifecycle, db, worker
<1>2. ASSUME NEW j \in Jobs,
             PostEnqueue(j) \/ PostLostReply(j) \/ Promote(j) \/ Expire(j)
      PROVE  ToldRight' /\ LifecycleStep
  BY <1>1, <1>2 DEF PostEnqueue, PostLostReply, Promote, Expire
<1>3. CASE PostRedisDown BY <1>1, <1>3 DEF PostRedisDown
<1>4. CASE PostMarkFailed BY <1>4 DEF PostMarkFailed, OverlapInv, Calm
<1>5. ASSUME NEW w \in Workers, NEW j \in Jobs, StartJob(w, j)
      PROVE  ToldRight' /\ LifecycleStep
  <2>1. WorkerReads(w)' BY <1>5 DEF StartJob, WorkerReads, Goto, TypeOK
  <2> QED BY <1>5, <2>1, StepTold DEF StartJob, Erring, Pipeline
<1>6. ASSUME NEW w \in Workers, JobStep(w) \/ WorkerFault(w)
      PROVE  ToldRight' /\ LifecycleStep
  BY <1>6, WorkerTold
<1>7. ASSUME NEW c \in Clients, RequestStep(c) PROVE ToldRight' /\ LifecycleStep
  BY <1>7, RequestTold
<1>8. CASE LockExpires BY <1>1, <1>8 DEF LockExpires
<1>9. CASE DeleteDocument
  <2>1. /\ rows' = 0 /\ ~indexed'
        /\ UNCHANGED <<status, generation, evaluation, worker, api>>
    BY <1>9 DEF DeleteDocument
  <2>2. Barren => Barren' BY <2>1 DEF Barren, Fertile, worker
  <2>3. \A w \in Workers : /\ WorkerReads(w)' \/ Barren'
                           /\ pc'[w] \in Erring => Barren'
    BY <2>1, <2>2 DEF SoleReads, WorkerReads, worker
  <2>4. ASSUME NEW c \in Clients PROVE RequeueReads(c)'
    <3>1. RequeueReads(c) BY DEF SoleReads
    <3> QED BY <2>1, <2>2, <3>1 DEF RequeueReads, Open, worker
  <2>5. StatusIsPhase' BY <2>1 DEF StatusIsPhase
  <2>6. LifecycleStep BY <2>1 DEF LifecycleStep, Lifecycle!Next, Lifecycle!LoseRetrieval
  <2> QED BY <2>3, <2>4, <2>5, <2>6 DEF ToldRight, SoleReads
<1>10. CASE UNCHANGED vars BY <1>1, <1>10 DEF vars
<1> QED
  BY <1>2, <1>3, <1>4, <1>5, <1>6, <1>7, <1>8, <1>9, <1>10 DEF Next

(***************************************************************************)
(* The theorems.                                                           *)
(***************************************************************************)

\* The inductive invariant of an undisturbed run.
THEOREM OverlapCorrect ==
    ASSUME Undisturbed
    PROVE  Spec /\ []OneRequeue => []OverlapInv
<1>1. Init => OverlapInv
  <2> SUFFICES ASSUME Init PROVE OverlapInv
    OBVIOUS
  <2>1. Calm BY InitLock DEF Init, Calm, Busy, NoRequest, Request
  <2>2. ErrOnce /\ SoleReads
    BY DEF Init, ErrOnce, SoleReads, WorkerReads, RequeueReads, Erring, NoRequest, Request, Open
  <2>3. StatusIsPhase BY DEF Init, StatusIsPhase
  <2> QED BY <2>1, <2>2, <2>3 DEF OverlapInv
<1>2. TypeOK /\ OverlapInv /\ OneRequeue /\ [Next]_vars => OverlapInv'
  BY NextCalm, NextErrOnce, NextTold DEF OverlapInv, ToldRight
<1> QED BY <1>1, <1>2, TypeCorrect, PTL DEF Spec

\* Without a fault the lock excludes, and nothing need be assumed of the
\* requests that look for stale locks.
THEOREM OverlapExcludes ==
    ASSUME Undisturbed
    PROVE  Spec /\ []OneRequeue => []MutualExclusion
<1>1. OverlapInv => MutualExclusion
  BY DEF OverlapInv, Calm, LockOwned, MutualExclusion
<1> QED BY <1>1, OverlapCorrect, PTL

\* A requeue that overlaps with a job does not store the retrieval twice.
THEOREM OverlapRetrievesOnce ==
    ASSUME Undisturbed
    PROVE  Spec /\ []OneRequeue => []RetrievalStoredOnce
<1>1. OverlapInv => RetrievalStoredOnce
  BY DEF OverlapInv, StatusIsPhase, RetrievalStoredOnce
<1> QED BY <1>1, OverlapCorrect, PTL

\* Nor does it take completed away from a run that has its evaluation.
THEOREM OverlapKeepsCompleted ==
    ASSUME Undisturbed
    PROVE  Spec /\ []OneRequeue => []EvaluatedRunIsCompleted
<1>1. OverlapInv => EvaluatedRunIsCompleted
  BY DEF OverlapInv, StatusIsPhase, EvaluatedRunIsCompleted
<1> QED BY <1>1, OverlapCorrect, PTL

\* The run lives the life of RunLifecycle although requests overlap with jobs.
THEOREM OverlapImplements ==
    ASSUME Undisturbed
    PROVE  Spec /\ []OneRequeue => ImplementsLifecycle
<1>1. Init => Lifecycle!Init
  BY DEF Init, Lifecycle!Init
<1>2. TypeOK /\ OverlapInv /\ OneRequeue /\ [Next]_vars
        => [Lifecycle!Next]_Lifecycle!lifecycle
  BY NextTold DEF LifecycleStep
<1> QED
  BY <1>1, <1>2, TypeCorrect, OverlapCorrect, PTL
     DEF Spec, ImplementsLifecycle, Lifecycle!Spec

\* The comment of the code that two overlapping requeues refute is right here:
\* a completed run stays completed.
THEOREM OverlapCompletedIsFinal ==
    ASSUME Undisturbed
    PROVE  Spec /\ []OneRequeue => CompletedIsFinal
<1>1. TypeOK /\ OverlapInv /\ OneRequeue /\ [Next]_vars
        => [status = "completed" => status' = "completed"]_vars
  BY NextTold DEF LifecycleStep, Lifecycle!Next, Lifecycle!Retrieve, Lifecycle!Generate,
                  Lifecycle!Complete, Lifecycle!Fail, Lifecycle!Resume,
                  Lifecycle!LoseRetrieval, Lifecycle!lifecycle
<1> QED BY <1>1, TypeCorrect, OverlapCorrect, PTL DEF Spec, CompletedIsFinal

=============================================================================
