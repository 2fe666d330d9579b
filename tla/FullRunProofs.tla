--------------------------- MODULE FullRunProofs ---------------------------
(* Proofs about FullRun, for every value of its constants. *)
EXTENDS FullRun, TLAPS

\* What a step must be for the run to live the life of RunLifecycle.
LifecycleStep == [Lifecycle!Next]_Lifecycle!lifecycle

(***************************************************************************)
(* Type correctness.  One lemma per process, then the theorem.             *)
(***************************************************************************)

\* Moves and commits of a worker keep the type of everything but the database.
LEMMA MoveType ==
    ASSUME TypeOK, NEW w \in Workers, NEW from, NEW to \in WorkerSteps,
           Move(w, from, to)
    PROVE  TypeOK'
BY DEF TypeOK, Move, Goto, db, queue

LEMMA CommitType ==
    ASSUME TypeOK, NEW w \in Workers, NEW from, NEW to \in WorkerSteps,
           Commit(w, from, to),
           status' \in Statuses, rows' \in Nat, generation' \in BOOLEAN,
           evaluation' \in BOOLEAN, indexed' \in BOOLEAN
    PROVE  TypeOK'
BY DEF TypeOK, Commit, Goto, queue

LEMMA PipelineType ==
    ASSUME TypeOK, NEW w \in Workers, PipelineStep(w)
    PROVE  TypeOK'
<1> USE DEF WorkerSteps, Horse, Holding, Pipeline
<1>1. CASE EnterPipeline(w) BY <1>1, MoveType DEF EnterPipeline
<1>2. CASE PhaseOne(w) BY <1>2, MoveType DEF PhaseOne
<1>3. CASE SearchChunks(w)
  BY <1>3 DEF SearchChunks, TypeOK, Goto, db, queue
<1>4. CASE StoreRetrieval(w)
  <2>1. /\ status' \in Statuses /\ rows' \in Nat /\ generation' \in BOOLEAN
        /\ evaluation' \in BOOLEAN /\ indexed' \in BOOLEAN
    BY <1>4 DEF StoreRetrieval, TypeOK, Statuses
  <2> QED BY <1>4, <2>1, CommitType DEF StoreRetrieval
<1>5. CASE StoreConflict(w) BY <1>5, MoveType DEF StoreConflict
<1>6. CASE PhaseTwo(w) BY <1>6, MoveType DEF PhaseTwo
<1>7. CASE LoadForGeneration(w) BY <1>7, MoveType DEF LoadForGeneration
<1>8. CASE StoreGeneration(w)
  <2>1. /\ status' \in Statuses /\ rows' \in Nat /\ generation' \in BOOLEAN
        /\ evaluation' \in BOOLEAN /\ indexed' \in BOOLEAN
    BY <1>8 DEF StoreGeneration, TypeOK, Statuses
  <2> QED BY <1>8, <2>1, CommitType DEF StoreGeneration
<1>9. CASE GenerationConflict(w) BY <1>9, MoveType DEF GenerationConflict
<1>10. CASE PhaseThree(w) BY <1>10, MoveType DEF PhaseThree
<1>11. CASE LoadForJudge(w) BY <1>11, MoveType DEF LoadForJudge
<1>12. CASE Judged(w) BY <1>12, MoveType DEF Judged
<1>13. CASE CheckEvaluation(w) BY <1>13, MoveType DEF CheckEvaluation
<1>14. CASE StoreEvaluation(w)
  <2>1. /\ status' \in Statuses /\ rows' \in Nat /\ generation' \in BOOLEAN
        /\ evaluation' \in BOOLEAN /\ indexed' \in BOOLEAN
    BY <1>14 DEF StoreEvaluation, TypeOK, Statuses
  <2> QED BY <1>14, <2>1, CommitType DEF StoreEvaluation
<1>15. CASE EvaluationConflict(w) BY <1>15, MoveType DEF EvaluationConflict
<1>16. CASE MarkFailedRead(w) BY <1>16, MoveType DEF MarkFailedRead
<1>17. CASE MarkFailedWrite(w)
  <2>1. /\ status' \in Statuses /\ rows' \in Nat /\ generation' \in BOOLEAN
        /\ evaluation' \in BOOLEAN /\ indexed' \in BOOLEAN
    BY <1>17 DEF MarkFailedWrite, TypeOK, Statuses
  <2> QED BY <1>17, <2>1, CommitType DEF MarkFailedWrite
<1> QED
  BY <1>1, <1>2, <1>3, <1>4, <1>5, <1>6, <1>7, <1>8, <1>9, <1>10, <1>11, <1>12,
     <1>13, <1>14, <1>15, <1>16, <1>17 DEF PipelineStep

LEMMA JobType ==
    ASSUME TypeOK, NEW w \in Workers, JobStep(w)
    PROVE  TypeOK'
<1> USE FullRunAssumption DEF WorkerSteps, Horse, Holding, Pipeline
<1>1. CASE AcquireLock(w) BY <1>1 DEF AcquireLock, TypeOK, Goto, db, queue
<1>2. CASE SkipLocked(w) BY <1>2, MoveType DEF SkipLocked
<1>3. CASE PipelineStep(w) BY <1>3, PipelineType
<1>4. CASE ReleaseLock(w) BY <1>4 DEF ReleaseLock, TypeOK, Goto, db, queue
<1>5. CASE FinishJob(w) BY <1>5 DEF FinishJob, TypeOK, Goto, db, JobStates
<1>6. CASE NoticeKilled(w) BY <1>6, MoveType DEF NoticeKilled
<1>7. CASE NoCallback(w) BY <1>7, MoveType DEF NoCallback
<1>8. CASE OnFailureRead(w) BY <1>8, MoveType DEF OnFailureRead
<1>9. CASE OnFailureWrite(w)
  <2>1. /\ status' \in Statuses /\ rows' \in Nat /\ generation' \in BOOLEAN
        /\ evaluation' \in BOOLEAN /\ indexed' \in BOOLEAN
    BY <1>9 DEF OnFailureWrite, TypeOK, Statuses
  <2> QED BY <1>9, <2>1, CommitType DEF OnFailureWrite
<1>10. CASE HandleFailure(w)
  <2>1. left' \in [Jobs -> 0..MaxRetries]
    BY <1>10 DEF HandleFailure, TypeOK
  <2>2. job' \in [Jobs -> JobStates]
    BY <1>10 DEF HandleFailure, TypeOK, JobStates, Live
  <2> QED BY <1>10, <2>1, <2>2 DEF HandleFailure, TypeOK, Goto, db
<1> QED
  BY <1>1, <1>2, <1>3, <1>4, <1>5, <1>6, <1>7, <1>8, <1>9, <1>10 DEF JobStep

LEMMA FaultType ==
    ASSUME TypeOK, NEW w \in Workers, WorkerFault(w)
    PROVE  TypeOK'
<1> USE DEF WorkerSteps, Horse, Holding, Pipeline
<1>1. CASE LockError(w) BY <1>1, MoveType DEF LockError
<1>2. CASE LLMValueError(w) BY <1>2, MoveType DEF LLMValueError
<1>3. CASE RetryableError(w) BY <1>3, MoveType DEF RetryableError
<1>4. CASE KillHorse(w) BY <1>4, MoveType DEF KillHorse
<1>5. CASE OnFailureSwallowed(w) BY <1>5, MoveType DEF OnFailureSwallowed
<1> QED BY <1>1, <1>2, <1>3, <1>4, <1>5 DEF WorkerFault

\* Enqueueing keeps the type of the queue.
LEMMA EnqueueType ==
    ASSUME TypeOK, NEW j \in Jobs, enqueue_full_benchmark_run(j)
    PROVE  /\ job' \in [Jobs -> JobStates]
           /\ left' \in [Jobs -> 0..MaxRetries]
           /\ at' \in [Jobs -> Nat]
           /\ clock' \in Nat
BY DEF TypeOK, enqueue_full_benchmark_run, JobStates, Live

LEMMA RequestType ==
    ASSUME TypeOK, NEW c \in Clients, RequestStep(c)
    PROVE  TypeOK'
<1> USE DEF Requests, NoRequest, Request, At, Statuses
<1>1. ASSUME NEW kind \in {"requeue", "status"}, LoadRun(c, kind) PROVE TypeOK'
  BY <1>1 DEF LoadRun, Handle, TypeOK, db, queue, worker
<1>2. CASE ScanJobs(c) BY <1>2 DEF ScanJobs, Handle, TypeOK, db, queue, worker
<1>3. CASE ClearStaleLock(c)
  BY <1>3 DEF ClearStaleLock, TypeOK, db, queue, worker
<1>4. CASE CheckLock(c) BY <1>4 DEF CheckLock, Handle, TypeOK, db, queue, worker
<1>5. CASE NormalizeRead(c)
  BY <1>5 DEF NormalizeRead, ResumeStatus, Handle, TypeOK, db, queue, worker
<1>6. CASE NormalizeCommit(c)
  BY <1>6 DEF NormalizeCommit, TypeOK, queue, worker
<1>7. ASSUME NEW j \in Jobs, RequeueEnqueue(c, j) PROVE TypeOK'
  BY <1>7, EnqueueType DEF RequeueEnqueue, TypeOK, db, worker
<1>8. CASE AbandonRequest(c)
  BY <1>8 DEF AbandonRequest, Handle, TypeOK, db, queue, worker
<1> QED BY <1>1, <1>2, <1>3, <1>4, <1>5, <1>6, <1>7, <1>8 DEF RequestStep

\* Every variable keeps its type: the model never leaves the states of the code.
THEOREM TypeCorrect == Spec => []TypeOK
<1> USE FullRunAssumption
<1>1. Init => TypeOK
  <2> SUFFICES ASSUME Init PROVE TypeOK
    OBVIOUS
  <2>1. NoRequest \in Requests
    BY DEF NoRequest, Request, Requests, Statuses
  <2>2. api \in [Clients -> Requests]
    BY <2>1 DEF Init
  <2>3. job \in [Jobs -> JobStates] /\ left \in [Jobs -> 0..MaxRetries] /\ at \in [Jobs -> Nat]
    BY DEF Init, JobStates
  <2>4. /\ pc \in [Workers -> WorkerSteps]
        /\ mine \in [Workers -> Jobs \cup {NoJob}]
        /\ hits \in [Workers -> BOOLEAN]
    BY DEF Init, WorkerSteps
  <2>5. /\ status \in Statuses /\ rows \in Nat /\ clock \in Nat
        /\ lock \in Workers \cup {NoWorker} /\ post \in {"enqueue", "error", "done"}
    BY DEF Init, Statuses
  <2>6. generation \in BOOLEAN /\ evaluation \in BOOLEAN /\ indexed \in BOOLEAN
    BY DEF Init
  <2> QED BY <2>2, <2>3, <2>4, <2>5, <2>6 DEF TypeOK
<1>2. TypeOK /\ [Next]_vars => TypeOK'
  <2> SUFFICES ASSUME TypeOK, [Next]_vars PROVE TypeOK'
    OBVIOUS
  <2>1. ASSUME NEW j \in Jobs, PostEnqueue(j) PROVE TypeOK'
    BY <2>1, EnqueueType DEF PostEnqueue, TypeOK, db, worker
  <2>2. ASSUME NEW j \in Jobs, PostLostReply(j) PROVE TypeOK'
    BY <2>2, EnqueueType DEF PostLostReply, TypeOK, db, worker
  <2>3. ASSUME NEW j \in Jobs, Promote(j) PROVE TypeOK'
    BY <2>3 DEF Promote, TypeOK, db, worker, JobStates, Live
  <2>4. ASSUME NEW j \in Jobs, Expire(j) PROVE TypeOK'
    BY <2>4 DEF Expire, TypeOK, db, worker, JobStates
  <2>5. CASE PostRedisDown BY <2>5 DEF PostRedisDown, TypeOK, db, queue, worker
  <2>6. CASE PostMarkFailed
    BY <2>6 DEF PostMarkFailed, TypeOK, queue, worker, Statuses
  <2>7. ASSUME NEW w \in Workers, NEW j \in Jobs, StartJob(w, j) PROVE TypeOK'
    BY <2>7 DEF StartJob, TypeOK, Goto, db, JobStates, Live, WorkerSteps, Horse
  <2>8. ASSUME NEW w \in Workers, JobStep(w) PROVE TypeOK' BY <2>8, JobType
  <2>9. ASSUME NEW w \in Workers, WorkerFault(w) PROVE TypeOK' BY <2>9, FaultType
  <2>10. ASSUME NEW c \in Clients, RequestStep(c) PROVE TypeOK' BY <2>10, RequestType
  <2>11. CASE LockExpires BY <2>11 DEF LockExpires, TypeOK, db, queue, worker
  <2>12. CASE DeleteDocument BY <2>12 DEF DeleteDocument, TypeOK, queue, worker
  <2>13. CASE UNCHANGED vars
    BY <2>13 DEF vars, TypeOK, db, queue, worker
  <2> QED
    BY <2>1, <2>2, <2>3, <2>4, <2>5, <2>6, <2>7, <2>8, <2>9, <2>10, <2>11,
       <2>12, <2>13 DEF Next
<1> QED BY <1>1, <1>2, PTL DEF Spec

(***************************************************************************)
(* The rows behind a status.  Everything but a commit leaves the database  *)
(* alone; what a step has to show is that it reaches the judge phase only  *)
(* with a generation row, or writes a status its rows attest.              *)
(***************************************************************************)

JudgeSteps == {"judge", "persist", "complete"}

LEMMA MoveTrace ==
    ASSUME TypeOK, TraceInv, NEW w \in Workers, NEW from, NEW to,
           Move(w, from, to), to \in JudgeSteps => generation
    PROVE  TraceInv'
BY DEF TypeOK, TraceInv, TraceBacksStatus, Move, Goto, db, JudgeSteps

\* A step that leaves the database, the workers and the requests alone.
LEMMA QuietTrace ==
    ASSUME TraceInv, UNCHANGED <<db, worker, api>>
    PROVE  TraceInv'
BY DEF TraceInv, TraceBacksStatus, db, worker

LEMMA PipelineTrace ==
    ASSUME TypeOK, TraceInv, NEW w \in Workers, PipelineStep(w)
    PROVE  TraceInv'
<1> USE DEF JudgeSteps
<1>1. CASE EnterPipeline(w) BY <1>1, MoveTrace DEF EnterPipeline
<1>2. CASE PhaseOne(w) BY <1>2, MoveTrace DEF PhaseOne
<1>3. CASE SearchChunks(w)
  BY <1>3 DEF SearchChunks, TypeOK, TraceInv, TraceBacksStatus, Goto, db
<1>4. CASE StoreRetrieval(w)
  BY <1>4 DEF StoreRetrieval, Commit, TypeOK, TraceInv, TraceBacksStatus, Goto
<1>5. CASE StoreConflict(w) BY <1>5, MoveTrace DEF StoreConflict
<1>6. CASE PhaseTwo(w) BY <1>6, MoveTrace DEF PhaseTwo
<1>7. CASE LoadForGeneration(w) BY <1>7, MoveTrace DEF LoadForGeneration
<1>8. CASE StoreGeneration(w)
  BY <1>8 DEF StoreGeneration, Commit, TypeOK, TraceInv, TraceBacksStatus, Goto
<1>9. CASE GenerationConflict(w) BY <1>9, MoveTrace DEF GenerationConflict
<1>10. CASE PhaseThree(w) BY <1>10, MoveTrace DEF PhaseThree
<1>11. CASE LoadForJudge(w) BY <1>11, MoveTrace DEF LoadForJudge
<1>12. CASE Judged(w)
  <2>1. generation BY <1>12 DEF Judged, Move, TraceInv
  <2> QED BY <1>12, <2>1, MoveTrace DEF Judged
<1>13. CASE CheckEvaluation(w)
  <2>1. generation BY <1>13 DEF CheckEvaluation, Move, TraceInv
  <2> QED BY <1>13, <2>1, MoveTrace DEF CheckEvaluation
<1>14. CASE StoreEvaluation(w)
  <2>1. generation BY <1>14 DEF StoreEvaluation, Commit, TraceInv
  <2> QED
    BY <1>14, <2>1 DEF StoreEvaluation, Commit, TypeOK, TraceInv, TraceBacksStatus, Goto
<1>15. CASE EvaluationConflict(w) BY <1>15, MoveTrace DEF EvaluationConflict
<1>16. CASE MarkFailedRead(w) BY <1>16, MoveTrace DEF MarkFailedRead
<1>17. CASE MarkFailedWrite(w)
  BY <1>17 DEF MarkFailedWrite, Commit, TypeOK, TraceInv, TraceBacksStatus, Goto
<1> QED
  BY <1>1, <1>2, <1>3, <1>4, <1>5, <1>6, <1>7, <1>8, <1>9, <1>10, <1>11, <1>12,
     <1>13, <1>14, <1>15, <1>16, <1>17 DEF PipelineStep

LEMMA WorkerTrace ==
    ASSUME TypeOK, TraceInv, NEW w \in Workers, JobStep(w) \/ WorkerFault(w)
    PROVE  TraceInv'
<1> USE DEF JudgeSteps
<1>1. CASE AcquireLock(w)
  BY <1>1 DEF AcquireLock, TypeOK, TraceInv, TraceBacksStatus, Goto, db
<1>2. CASE SkipLocked(w) BY <1>2, MoveTrace DEF SkipLocked
<1>3. CASE PipelineStep(w) BY <1>3, PipelineTrace
<1>4. CASE ReleaseLock(w)
  BY <1>4 DEF ReleaseLock, TypeOK, TraceInv, TraceBacksStatus, Goto, db
<1>5. CASE FinishJob(w)
  BY <1>5 DEF FinishJob, TypeOK, TraceInv, TraceBacksStatus, Goto, db
<1>6. CASE NoticeKilled(w) BY <1>6, MoveTrace DEF NoticeKilled
<1>7. CASE NoCallback(w) BY <1>7, MoveTrace DEF NoCallback
<1>8. CASE OnFailureRead(w) BY <1>8, MoveTrace DEF OnFailureRead
<1>9. CASE OnFailureWrite(w)
  BY <1>9 DEF OnFailureWrite, Commit, TypeOK, TraceInv, TraceBacksStatus, Goto
<1>10. CASE HandleFailure(w)
  BY <1>10 DEF HandleFailure, TypeOK, TraceInv, TraceBacksStatus, Goto, db
<1>11. CASE LockError(w) BY <1>11, MoveTrace DEF LockError
<1>12. CASE LLMValueError(w) BY <1>12, MoveTrace DEF LLMValueError
<1>13. CASE RetryableError(w) BY <1>13, MoveTrace DEF RetryableError
<1>14. CASE KillHorse(w) BY <1>14, MoveTrace DEF KillHorse
<1>15. CASE OnFailureSwallowed(w) BY <1>15, MoveTrace DEF OnFailureSwallowed
<1> QED
  BY <1>1, <1>2, <1>3, <1>4, <1>5, <1>6, <1>7, <1>8, <1>9, <1>10, <1>11, <1>12,
     <1>13, <1>14, <1>15 DEF JobStep, WorkerFault

\* A request that moves on, to a step other than commit.
LEMMA HandleTrace ==
    ASSUME TypeOK, TraceInv, NEW c \in Clients, NEW request, Handle(c, request),
           request.pc # "commit"
    PROVE  TraceInv'
BY DEF TypeOK, TraceInv, TraceBacksStatus, Handle, db, worker

LEMMA RequestTrace ==
    ASSUME TypeOK, TraceInv, NEW c \in Clients, RequestStep(c)
    PROVE  TraceInv'
<1> USE DEF Request, NoRequest, At
<1>1. ASSUME NEW kind \in {"requeue", "status"}, LoadRun(c, kind) PROVE TraceInv'
  BY <1>1, HandleTrace DEF LoadRun
<1>2. CASE ScanJobs(c) BY <1>2, HandleTrace DEF ScanJobs
<1>3. CASE ClearStaleLock(c)
  BY <1>3 DEF ClearStaleLock, TypeOK, TraceInv, TraceBacksStatus, db, worker
<1>4. CASE CheckLock(c) BY <1>4, HandleTrace DEF CheckLock
<1>5. CASE NormalizeRead(c)
  BY <1>5 DEF NormalizeRead, ResumeStatus, Handle, TypeOK, TraceInv,
              TraceBacksStatus, db, worker
<1>6. CASE NormalizeCommit(c)
  BY <1>6 DEF NormalizeCommit, TypeOK, TraceInv, TraceBacksStatus, worker
<1>7. ASSUME NEW j \in Jobs, RequeueEnqueue(c, j) PROVE TraceInv'
  BY <1>7 DEF RequeueEnqueue, TypeOK, TraceInv, TraceBacksStatus, db, worker
<1>8. CASE AbandonRequest(c) BY <1>8, HandleTrace DEF AbandonRequest
<1> QED BY <1>1, <1>2, <1>3, <1>4, <1>5, <1>6, <1>7, <1>8 DEF RequestStep

\* No fault, no crash and no overlap of requests makes a status lie about the
\* rows behind it.
THEOREM TraceCorrect == Spec => []TraceBacksStatus
<1>1. Init => TraceInv
  BY DEF Init, TraceInv, TraceBacksStatus, NoRequest, Request
<1>2. TypeOK /\ TraceInv /\ [Next]_vars => TraceInv'
  <2> SUFFICES ASSUME TypeOK, TraceInv, [Next]_vars PROVE TraceInv'
    OBVIOUS
  <2>1. ASSUME NEW j \in Jobs, PostEnqueue(j) \/ PostLostReply(j) \/ Promote(j) \/ Expire(j)
        PROVE  TraceInv'
    BY <2>1, QuietTrace DEF PostEnqueue, PostLostReply, Promote, Expire
  <2>2. CASE PostRedisDown BY <2>2, QuietTrace DEF PostRedisDown
  <2>3. CASE PostMarkFailed
    BY <2>3 DEF PostMarkFailed, TraceInv, TraceBacksStatus, worker
  <2>4. ASSUME NEW w \in Workers, NEW j \in Jobs, StartJob(w, j) PROVE TraceInv'
    BY <2>4 DEF StartJob, TypeOK, TraceInv, TraceBacksStatus, Goto, db
  <2>5. ASSUME NEW w \in Workers, JobStep(w) \/ WorkerFault(w) PROVE TraceInv'
    BY <2>5, WorkerTrace
  <2>6. ASSUME NEW c \in Clients, RequestStep(c) PROVE TraceInv' BY <2>6, RequestTrace
  <2>7. CASE LockExpires BY <2>7, QuietTrace DEF LockExpires
  <2>8. CASE DeleteDocument
    BY <2>8 DEF DeleteDocument, TraceInv, TraceBacksStatus, worker
  <2>9. CASE UNCHANGED vars BY <2>9, QuietTrace DEF vars
  <2> QED
    BY <2>1, <2>2, <2>3, <2>4, <2>5, <2>6, <2>7, <2>8, <2>9 DEF Next
<1>3. TraceInv => TraceBacksStatus BY DEF TraceInv
<1> QED BY <1>1, <1>2, <1>3, TypeCorrect, PTL DEF Spec

(***************************************************************************)
(* Mutual exclusion.  The lock fails in one way only: an API handler clears *)
(* it while its owner works.                                               *)
(***************************************************************************)

\* A worker that does not enter the locked section, and leaves the lock alone.
LEMMA MoveLock ==
    ASSUME TypeOK, LockOwned, NEW w \in Workers, NEW from, NEW to,
           Move(w, from, to) \/ Commit(w, from, to), to \in Holding => from \in Holding
    PROVE  LockOwned'
BY DEF TypeOK, LockOwned, Move, Commit, Goto

LEMMA PipelineLock ==
    ASSUME TypeOK, LockOwned, NEW w \in Workers, PipelineStep(w)
    PROVE  LockOwned'
<1>1. CASE SearchChunks(w)
  BY <1>1 DEF SearchChunks, TypeOK, LockOwned, Goto, Holding, Pipeline
<1>2. CASE ~SearchChunks(w)
  <2>1. PICK from \in Holding, to \in Holding : Move(w, from, to) \/ Commit(w, from, to)
    BY <1>2 DEF PipelineStep, EnterPipeline, PhaseOne, StoreRetrieval, StoreConflict,
                PhaseTwo, LoadForGeneration, StoreGeneration, GenerationConflict,
                PhaseThree, LoadForJudge, Judged, CheckEvaluation, StoreEvaluation,
                EvaluationConflict, MarkFailedRead, MarkFailedWrite, Holding, Pipeline
  <2> QED BY <2>1, MoveLock
<1> QED BY <1>1, <1>2

LEMMA WorkerLock ==
    ASSUME TypeOK, LockOwned, NEW w \in Workers, JobStep(w) \/ WorkerFault(w)
    PROVE  LockOwned'
<1> USE DEF Holding, Pipeline
<1>1. CASE AcquireLock(w)
  BY <1>1, FullRunAssumption DEF AcquireLock, TypeOK, LockOwned, Goto
<1>2. CASE SkipLocked(w) BY <1>2, MoveLock DEF SkipLocked
<1>3. CASE PipelineStep(w) BY <1>3, PipelineLock
<1>4. CASE ReleaseLock(w) BY <1>4 DEF ReleaseLock, TypeOK, LockOwned, Goto
<1>5. CASE FinishJob(w) BY <1>5 DEF FinishJob, TypeOK, LockOwned, Goto
<1>6. CASE NoticeKilled(w) BY <1>6, MoveLock DEF NoticeKilled
<1>7. CASE NoCallback(w) BY <1>7, MoveLock DEF NoCallback
<1>8. CASE OnFailureRead(w) BY <1>8, MoveLock DEF OnFailureRead
<1>9. CASE OnFailureWrite(w) BY <1>9, MoveLock DEF OnFailureWrite
<1>10. CASE HandleFailure(w) BY <1>10 DEF HandleFailure, TypeOK, LockOwned, Goto
<1>11. CASE LockError(w) BY <1>11, MoveLock DEF LockError
<1>12. CASE LLMValueError(w) BY <1>12, MoveLock DEF LLMValueError
<1>13. CASE RetryableError(w) BY <1>13, MoveLock DEF RetryableError
<1>14. CASE KillHorse(w) BY <1>14, MoveLock DEF KillHorse
<1>15. CASE OnFailureSwallowed(w) BY <1>15, MoveLock DEF OnFailureSwallowed
<1> QED
  BY <1>1, <1>2, <1>3, <1>4, <1>5, <1>6, <1>7, <1>8, <1>9, <1>10, <1>11, <1>12,
     <1>13, <1>14, <1>15 DEF JobStep, WorkerFault

\* Workers and lock unchanged: nothing to show.
LEMMA QuietLock ==
    ASSUME LockOwned, UNCHANGED <<lock, worker>>
    PROVE  LockOwned'
BY DEF LockOwned, worker

\* What one step of an execution in which StaleLockIsDead holds may do.
ClearsOnlyDead ==
    \A c \in Clients : ClearStaleLock(c) /\ api[c].stale /\ lock # NoWorker
        => pc[lock] \notin Holding

\* So the lock stays with its owner as long as such a step is taken.
LEMMA NextLock ==
    ASSUME TypeOK, LockOwned, [Next]_vars, [ClearsOnlyDead]_vars
    PROVE  LockOwned'
<1> USE FullRunAssumption
<1>1. ASSUME NEW j \in Jobs, PostEnqueue(j) \/ PostLostReply(j) \/ Promote(j) \/ Expire(j)
      PROVE  LockOwned'
  BY <1>1, QuietLock DEF PostEnqueue, PostLostReply, Promote, Expire
<1>2. CASE PostRedisDown BY <1>2, QuietLock DEF PostRedisDown
<1>3. CASE PostMarkFailed BY <1>3, QuietLock DEF PostMarkFailed
<1>4. ASSUME NEW w \in Workers, NEW j \in Jobs, StartJob(w, j) PROVE LockOwned'
  BY <1>4 DEF StartJob, TypeOK, LockOwned, Goto, Holding, Pipeline
<1>5. ASSUME NEW w \in Workers, JobStep(w) \/ WorkerFault(w) PROVE LockOwned'
  BY <1>5, WorkerLock
<1>6. ASSUME NEW c \in Clients, RequestStep(c) PROVE LockOwned'
  <2>1. CASE ClearStaleLock(c)
    <3>1. CASE UNCHANGED vars BY <3>1, QuietLock DEF vars
    <3>2. CASE ClearsOnlyDead
      BY <2>1, <3>2 DEF ClearsOnlyDead, ClearStaleLock, LockOwned, worker
    <3> QED BY <3>1, <3>2
  <2>2. CASE ~ClearStaleLock(c)
    BY <1>6, <2>2, QuietLock
       DEF RequestStep, LoadRun, ScanJobs, CheckLock, NormalizeRead, NormalizeCommit,
           RequeueEnqueue, AbandonRequest, Handle
  <2> QED BY <2>1, <2>2
<1>7. CASE LockExpires BY <1>7 DEF LockExpires, LockOwned, worker
<1>8. CASE DeleteDocument BY <1>8, QuietLock DEF DeleteDocument
<1>9. CASE UNCHANGED vars BY <1>9, QuietLock DEF vars
<1> QED
  BY <1>1, <1>2, <1>3, <1>4, <1>5, <1>6, <1>7, <1>8, <1>9 DEF Next

LEMMA InitLock ==
    ASSUME Init
    PROVE  LockOwned
BY DEF Init, LockOwned, Holding, Pipeline

\* The lock excludes whatever the number of jobs, retries, crashes and requests,
\* and whatever Redis and RQ do, if the comment on clearing stale locks is right.
THEOREM LockExcludes == Spec /\ StaleLockIsDead => []MutualExclusion
<1>1. LockOwned => MutualExclusion BY DEF LockOwned, MutualExclusion
<1>2. StaleLockIsDead => [][ClearsOnlyDead]_vars
  BY DEF StaleLockIsDead, ClearsOnlyDead
<1> QED BY InitLock, NextLock, <1>1, <1>2, TypeCorrect, PTL DEF Spec

=============================================================================
