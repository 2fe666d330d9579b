------------------------------ MODULE FullRun ------------------------------
(***************************************************************************)
(* One full benchmark run (POST /runs with eval_mode full or full_hybrid)  *)
(* from the commit of its row on: the API handlers that enqueue, inspect   *)
(* and re-enqueue it, the RQ jobs that carry its id, the worker processes  *)
(* that take those jobs, the Redis lock and the rows of the database.      *)
(* Nothing in the code relates two runs (lock, jobs, rows are keyed by the *)
(* run id), so one run is modelled.                                        *)
(*                                                                         *)
(* A database session reads a row once and later writes the column it set, *)
(* whatever the row holds by then (no version column, READ COMMITTED):     *)
(* every read and every commit is a step of its own.  A long call (vector  *)
(* search, LLM) lies between two steps.                                    *)
(***************************************************************************)
EXTENDS Naturals, FiniteSets

CONSTANTS
    Workers,         \* processes of "rq worker contextlens_full_run"
    Jobs,            \* ids of the RQ jobs that may be created (a bound)
    Clients,         \* concurrent requests on the run after POST (a bound)
    NoWorker, NoJob, \* model values
    MaxRetries,      \* Retry(max=2)
    CallbackOnRetry, \* TRUE: RQ may call on_failure before the last attempt
    Overlap,         \* FALSE: a requeue is sent only when nothing is under way
    Faults           \* what the environment may do, a subset of FaultKinds

FaultKinds == {"error",      \* provider, database or time-out exceptions
               "crash",      \* a work-horse is killed, its finally never runs
               "redis",      \* a Redis command fails and had no effect
               "lostReply",  \* the enqueue took effect but raised RedisError
               "callback"}   \* mark_run_failed_sync cannot reach the database

ASSUME FullRunAssumption ==
    /\ NoWorker \notin Workers
    /\ NoJob \notin Jobs
    /\ MaxRetries \in Nat
    /\ CallbackOnRetry \in BOOLEAN
    /\ Overlap \in BOOLEAN
    /\ Faults \subseteq FaultKinds

VARIABLES
    status, rows, generation, evaluation,  \* the run row and its trace rows
    indexed,    \* the chunks the run searches are still in the database
    lock,       \* who set contextlens:full_run_lock (its value does not say)
    job,        \* RQ state of each job id
    left,       \* retries_left of each job
    at, clock,  \* enqueued_at of each job, and the time that stamps it
    pc, mine,   \* next step of each worker, and the job it performs
    hits,       \* whether the worker's vector search found chunks
    post,       \* the POST /runs handler after its first commit
    api         \* the handlers of POST /requeue and GET /queue-status

db == <<status, rows, generation, evaluation, indexed>>
queue == <<job, left, at, clock>>
worker == <<pc, mine, hits>>
vars == <<db, lock, queue, worker, post, api>>

Statuses == {"running", "retrieval_completed", "generation_completed",
             "completed", "failed"}
Terminal == {"completed", "failed"}
ALLOW_REQUEUE_STATUSES == Statuses \ {"completed"}
STALE_LOCK_RQ_STATUSES == {"failed"}

Live == {"queued", "started", "scheduled"}
JobStates == Live \cup {"unused", "finished", "failed", "expired"}

\* Steps of run_full_benchmark_pipeline, in program order.
Pipeline == {"p1", "search", "store", "p2", "load2", "generate",
             "p3", "load3", "judge", "persist", "complete",
             "mark", "markWrite"}
\* Between the SET NX that succeeded and the finally of the job.
Holding == Pipeline \cup {"enter", "releaseOk", "releaseErr"}
Horse == Holding \cup {"lock", "returned"}
WorkerSteps == Horse \cup {"idle", "errored", "killed", "failWrite", "handle"}

Requests == [pc : {"idle", "scan", "clear", "check", "normalize", "commit", "enqueue"},
             kind : {"requeue", "status"},
             seen : Statuses,
             stale : BOOLEAN,
             target : Statuses]

TypeOK ==
    /\ status \in Statuses
    /\ rows \in Nat
    /\ generation \in BOOLEAN
    /\ evaluation \in BOOLEAN
    /\ indexed \in BOOLEAN
    /\ lock \in Workers \cup {NoWorker}
    /\ job \in [Jobs -> JobStates]
    /\ left \in [Jobs -> 0..MaxRetries]
    /\ at \in [Jobs -> Nat]
    /\ clock \in Nat
    /\ pc \in [Workers -> WorkerSteps]
    /\ mine \in [Workers -> Jobs \cup {NoJob}]
    /\ hits \in [Workers -> BOOLEAN]
    /\ post \in {"enqueue", "error", "done"}
    /\ api \in [Clients -> Requests]

Request(step, kind, seen, stale, target) ==
    [pc |-> step, kind |-> kind, seen |-> seen, stale |-> stale, target |-> target]

NoRequest == Request("idle", "status", "running", FALSE, "running")

\* The request r at another step, with what it has found out so far.
At(r, step) == Request(step, r.kind, r.seen, r.stale, r.target)

\* create_run and its commit have put the row in the table.
Init ==
    /\ status = "running"
    /\ rows = 0
    /\ generation = FALSE
    /\ evaluation = FALSE
    /\ indexed = TRUE
    /\ lock = NoWorker
    /\ job = [j \in Jobs |-> "unused"]
    /\ left = [j \in Jobs |-> MaxRetries]
    /\ at = [j \in Jobs |-> 0]
    /\ clock = 0
    /\ pc = [w \in Workers |-> "idle"]
    /\ mine = [w \in Workers |-> NoJob]
    /\ hits = [w \in Workers |-> FALSE]
    /\ post = "enqueue"
    /\ api = [c \in Clients |-> NoRequest]

-----------------------------------------------------------------------------
(* The RQ queue, as queue/full_run.py uses it. *)

enqueue_full_benchmark_run(j) ==
    /\ job[j] = "unused"
    /\ job' = [job EXCEPT ![j] = "queued"]
    /\ at' = [at EXCEPT ![j] = clock + 1]
    /\ clock' = clock + 1
    /\ UNCHANGED left

Known(j) == job[j] \notin {"unused", "expired"}

\* Mutant: the candidates are compared the wrong way round.
FindOldestJob(j) ==
    Known(j) /\ \A k \in Jobs : Known(k) => at[j] <= at[k]

find_primary_job_for_run(j) ==
    Known(j) /\ \A k \in Jobs : Known(k) => at[k] <= at[j]

LiveJob(j) == job[j] \in Live

\* RQ's scheduler moves a job whose back-off is over to the end of the queue.
\* It runs only in a worker started --with-scheduler, which neither
\* scripts/rq_worker.sh nor the deployment does: it may happen, never must.
Promote(j) ==
    /\ job[j] = "scheduled"
    /\ job' = [job EXCEPT ![j] = "queued"]
    /\ at' = [at EXCEPT ![j] = clock + 1]
    /\ clock' = clock + 1
    /\ UNCHANGED <<left, db, lock, worker, post, api>>

\* result_ttl and failure_ttl: the job leaves the registries.
Expire(j) ==
    /\ job[j] \in {"finished", "failed"}
    /\ job' = [job EXCEPT ![j] = "expired"]
    /\ UNCHANGED <<left, at, clock, db, lock, worker, post, api>>

\* LOCK_TTL_SEC equals job_timeout, and the time-out stops the pipeline first:
\* the key outlives its owner or is deleted, it never expires under a live one.
LockExpires ==
    /\ lock # NoWorker
    /\ pc[lock] \notin Holding
    /\ lock' = NoWorker
    /\ UNCHANGED <<db, queue, worker, post, api>>

-----------------------------------------------------------------------------
(* The worker: workers/full_run_worker.py, services/run_create.py and the  *)
(* phase functions.                                                        *)

Goto(w, step) == pc' = [pc EXCEPT ![w] = step]

\* A step that only moves the worker on.
Move(w, from, to) ==
    /\ pc[w] = from
    /\ Goto(w, to)
    /\ UNCHANGED <<mine, hits, lock, db, queue, post, api>>

\* A step that also commits to the database; db' is the caller's.
Commit(w, from, to) ==
    /\ pc[w] = from
    /\ Goto(w, to)
    /\ UNCHANGED <<mine, hits, lock, queue, post, api>>

\* RQ takes the oldest queued job and forks a work-horse for it.
StartJob(w, j) ==
    /\ pc[w] = "idle"
    /\ job[j] = "queued"
    /\ \A k \in Jobs : job[k] = "queued" => at[j] <= at[k]
    /\ job' = [job EXCEPT ![j] = "started"]
    /\ mine' = [mine EXCEPT ![w] = j]
    /\ Goto(w, "lock")
    /\ UNCHANGED <<left, at, clock, hits, lock, db, post, api>>

\* Mutant: SET without nx.
AcquireLockShared(w) ==
    /\ pc[w] = "lock"
    /\ lock' = w
    /\ Goto(w, "enter")
    /\ UNCHANGED <<mine, hits, db, queue, post, api>>

AcquireLock(w) ==
    /\ pc[w] = "lock"
    /\ lock = NoWorker
    /\ lock' = w
    /\ Goto(w, "enter")
    /\ UNCHANGED <<mine, hits, db, queue, post, api>>

\* Mutant: the result of SET is not looked at.
SkipLockedEnters(w) == lock # NoWorker /\ Move(w, "lock", "enter")

\* The key exists: the job returns, which RQ counts as a success.
SkipLocked(w) == lock # NoWorker /\ Move(w, "lock", "returned")

LockError(w) == "redis" \in Faults /\ Move(w, "lock", "errored")

EnterPipeline(w) == Move(w, "enter", IF status \in Terminal THEN "releaseOk" ELSE "p1")

\* Mutant: a resumed run searches again.
PhaseOneAlways(w) == Move(w, "p1", "search")

PhaseOne(w) == Move(w, "p1", IF status = "running" THEN "search" ELSE "p2")

SearchChunks(w) ==
    /\ pc[w] = "search"
    /\ hits' = [hits EXCEPT ![w] = indexed]
    /\ Goto(w, "store")
    /\ UNCHANGED <<mine, lock, db, queue, post, api>>

\* Mutant: the rows are committed without the status.
StoreRetrievalNoStatus(w) ==
    /\ hits[w] => indexed
    /\ rows' = IF hits[w] THEN rows + 1 ELSE rows
    /\ UNCHANGED <<status, generation, evaluation, indexed>>
    /\ Commit(w, "store", "p2")

\* Mutant: a repeated retrieval drops the generation made from the earlier one.
StoreRetrievalResets(w) ==
    /\ hits[w] => indexed
    /\ rows' = IF hits[w] THEN 1 ELSE 0
    /\ generation' = FALSE
    /\ status' = "retrieval_completed"
    /\ UNCHANGED <<evaluation, indexed>>
    /\ Commit(w, "store", "p2")

\* execute_retrieval_for_existing_run does not look at the run again.
StoreRetrieval(w) ==
    /\ hits[w] => indexed
    /\ rows' = IF hits[w] THEN rows + 1 ELSE rows
    /\ status' = "retrieval_completed"
    /\ UNCHANGED <<generation, evaluation, indexed>>
    /\ Commit(w, "store", "p2")

\* The chunks were deleted after the search: the foreign key refuses the rows.
StoreConflict(w) == hits[w] /\ ~indexed /\ Move(w, "store", "releaseErr")

PhaseTwo(w) == Move(w, "p2", IF status = "retrieval_completed" THEN "load2" ELSE "p3")

LoadForGeneration(w) ==
    Move(w, "load2", IF generation \/ rows = 0 THEN "mark" ELSE "generate")

StoreGeneration(w) ==
    /\ ~generation
    /\ generation' = TRUE
    /\ status' = "generation_completed"
    /\ UNCHANGED <<rows, evaluation, indexed>>
    /\ Commit(w, "generate", "p3")

\* Another session inserted the row since load2: IntegrityError, retryable.
GenerationConflict(w) == generation /\ Move(w, "generate", "releaseErr")

PhaseThree(w) ==
    Move(w, "p3", IF status = "generation_completed" THEN "load3" ELSE "releaseOk")

LoadForJudge(w) == Move(w, "load3", IF generation THEN "judge" ELSE "mark")

\* The judge answered, or the hybrid gate made it unnecessary.
Judged(w) == Move(w, "judge", "persist")

\* A missing provider key is a ValueError of either LLM call.
LLMValueError(w) == \E from \in {"generate", "judge"} : Move(w, from, "mark")

CheckEvaluation(w) == Move(w, "persist", IF evaluation THEN "mark" ELSE "complete")

\* persist_evaluation_and_complete_run and the instrumentation: one commit.
StoreEvaluation(w) ==
    /\ ~evaluation
    /\ evaluation' = TRUE
    /\ status' = "completed"
    /\ UNCHANGED <<rows, generation, indexed>>
    /\ Commit(w, "complete", "releaseOk")

EvaluationConflict(w) == evaluation /\ Move(w, "complete", "releaseErr")

\* _mark_run_failed_safe on a fresh session; the same status is no UPDATE.
MarkFailedRead(w) ==
    Move(w, "mark", IF status \in Terminal THEN "releaseOk" ELSE "markWrite")

MarkFailedWrite(w) ==
    /\ status' = "failed"
    /\ UNCHANGED <<rows, generation, evaluation, indexed>>
    /\ Commit(w, "markWrite", "releaseOk")

RetryableError(w) ==
    /\ "error" \in Faults
    /\ \E from \in Pipeline \cup {"enter"} : Move(w, from, "releaseErr")

\* The finally: the key is deleted whoever set it.
ReleaseLock(w) ==
    /\ pc[w] \in {"releaseOk", "releaseErr"}
    /\ Goto(w, IF pc[w] = "releaseOk" THEN "returned" ELSE "errored")
    /\ \/ lock' = NoWorker
       \/ "redis" \in Faults /\ lock' = lock
    /\ UNCHANGED <<mine, hits, db, queue, post, api>>

FinishJob(w) ==
    /\ pc[w] = "returned"
    /\ job' = [job EXCEPT ![mine[w]] = "finished"]
    /\ mine' = [mine EXCEPT ![w] = NoJob]
    /\ Goto(w, "idle")
    /\ UNCHANGED <<left, at, clock, hits, lock, db, post, api>>

\* The kernel or a redeploy kills the work-horse; RQ notices later.
KillHorse(w) ==
    /\ "crash" \in Faults
    /\ \E from \in Horse : Move(w, from, "killed")

\* After a kill RQ may run the callback of the job or leave it out.
NoticeKilled(w) == \E to \in {"errored", "handle"} : Move(w, "killed", to)

\* Mutant: enqueued without on_failure.
CallbackDueNever(w) == w = NoWorker

CallbackDue(w) == mine[w] # NoJob /\ left[mine[w]] = 0

NoCallback(w) == ~CallbackDue(w) /\ Move(w, "errored", "handle")

\* Mutant: the callback does not spare a completed run.
OnFailureReadBlind(w) ==
    /\ CallbackDue(w) \/ CallbackOnRetry
    /\ Move(w, "errored", IF status = "failed" THEN "handle" ELSE "failWrite")

\* full_run_on_failure, mark_run_failed_sync: read, then write.
OnFailureRead(w) ==
    /\ CallbackDue(w) \/ CallbackOnRetry
    /\ Move(w, "errored", IF status \in Terminal THEN "handle" ELSE "failWrite")

OnFailureWrite(w) ==
    /\ status' = "failed"
    /\ UNCHANGED <<rows, generation, evaluation, indexed>>
    /\ Commit(w, "failWrite", "handle")

\* Every exception of mark_run_failed_sync is logged and dropped.
OnFailureSwallowed(w) ==
    /\ "callback" \in Faults
    /\ CallbackDue(w) \/ CallbackOnRetry
    /\ \E from \in {"errored", "failWrite"} : Move(w, from, "handle")

\* Mutant: retry without max: the job goes back to the queue uncounted.
HandleFailureForever(w) ==
    /\ pc[w] = "handle"
    /\ job' = [job EXCEPT ![mine[w]] = "queued"]
    /\ mine' = [mine EXCEPT ![w] = NoJob]
    /\ Goto(w, "idle")
    /\ UNCHANGED <<left, at, clock, hits, lock, db, post, api>>

\* RQ schedules the retry, or the job is failed.
HandleFailure(w) ==
    /\ pc[w] = "handle"
    /\ LET j == mine[w] IN
         \/ /\ left[j] > 0
            /\ left' = [left EXCEPT ![j] = left[j] - 1]
            /\ job' = [job EXCEPT ![j] = "scheduled"]
         \/ /\ left[j] = 0
            /\ job' = [job EXCEPT ![j] = "failed"]
            /\ UNCHANGED left
    /\ mine' = [mine EXCEPT ![w] = NoJob]
    /\ Goto(w, "idle")
    /\ UNCHANGED <<at, clock, hits, lock, db, post, api>>

PipelineStep(w) ==
    \/ EnterPipeline(w) \/ PhaseOne(w) \/ SearchChunks(w) \/ StoreRetrieval(w)
    \/ StoreConflict(w) \/ PhaseTwo(w) \/ LoadForGeneration(w)
    \/ StoreGeneration(w) \/ GenerationConflict(w) \/ PhaseThree(w)
    \/ LoadForJudge(w) \/ Judged(w) \/ CheckEvaluation(w) \/ StoreEvaluation(w)
    \/ EvaluationConflict(w) \/ MarkFailedRead(w) \/ MarkFailedWrite(w)

JobStep(w) ==
    \/ AcquireLock(w) \/ SkipLocked(w) \/ PipelineStep(w) \/ ReleaseLock(w)
    \/ FinishJob(w) \/ NoticeKilled(w) \/ NoCallback(w) \/ OnFailureRead(w)
    \/ OnFailureWrite(w) \/ HandleFailure(w)

WorkerFault(w) ==
    \/ LockError(w) \/ LLMValueError(w) \/ RetryableError(w) \/ KillHorse(w)
    \/ OnFailureSwallowed(w)

-----------------------------------------------------------------------------
(* The API process: api/runs.py, services/run_requeue.py,                  *)
(* services/run_queue_status.py.  One event loop runs every handler, and   *)
(* the Redis section of a handler (scan, clear, check) has no await: no    *)
(* other handler calls Redis inside it.  Database steps are awaited.       *)

EventLoopFree(c) == \A d \in Clients \ {c} : api[d].pc \notin {"clear", "check"}

HandlersFree == \A c \in Clients : api[c].pc \notin {"clear", "check"}

\* An operator who waits: every job is over and no other request is open.
Quiescent(c) ==
    /\ \A j \in Jobs : ~LiveJob(j)
    /\ post = "done"
    /\ \A d \in Clients \ {c} : api[d].pc = "idle" \/ api[d].kind = "status"

PostEnqueue(j) ==
    /\ post = "enqueue"
    /\ HandlersFree
    /\ enqueue_full_benchmark_run(j)
    /\ post' = "done"
    /\ UNCHANGED <<db, lock, worker, api>>

PostRedisDown ==
    /\ "redis" \in Faults
    /\ post = "enqueue"
    /\ HandlersFree
    /\ post' = "error"
    /\ UNCHANGED <<db, lock, queue, worker, api>>

PostLostReply(j) ==
    /\ "lostReply" \in Faults
    /\ post = "enqueue"
    /\ HandlersFree
    /\ enqueue_full_benchmark_run(j)
    /\ post' = "error"
    /\ UNCHANGED <<db, lock, worker, api>>

\* The handler writes failed over the row it read before the enqueue.
PostMarkFailed ==
    /\ post = "error"
    /\ status' = "failed"
    /\ post' = "done"
    /\ UNCHANGED <<rows, generation, evaluation, indexed, lock, queue, worker, api>>

\* A step of a request that changes nothing but the request.
Handle(c, request) ==
    /\ api' = [api EXCEPT ![c] = request]
    /\ UNCHANGED <<db, lock, queue, worker, post>>

evaluate_structural_requeue_eligibility(seen) == seen \in ALLOW_REQUEUE_STATUSES

\* session.get(Run) and the eligibility rules; a 409 leaves nothing behind.
\* A full run has no evaluation without a generation, so the rule on
\* heuristic runs never applies to it.
LoadRun(c, kind) ==
    /\ api[c].pc = "idle"
    /\ kind = "requeue" => /\ evaluate_structural_requeue_eligibility(status)
                           /\ Overlap \/ Quiescent(c)
    /\ Handle(c, Request("scan", kind, status, FALSE, "running"))

\* The first half of clear_stale_full_run_lock_if_applicable: the newest job
\* failed and the run, as read, is running or failed.
NewestJobFailed ==
    \E j \in Jobs : find_primary_job_for_run(j) /\ job[j] \in STALE_LOCK_RQ_STATUSES

\* The scan is one step here and many commands in the code.  Registries are read
\* in the order in which jobs move through them, the state of the newest job
\* last; no other request enqueues in between (EventLoopFree).  A job could be
\* missed only if a scheduler puts it back to the queue meanwhile, or while RQ
\* has popped it and not yet registered it as started.
ScanJobs(c) ==
    /\ api[c].pc = "scan"
    /\ EventLoopFree(c)
    /\ Handle(c, Request("clear", api[c].kind, api[c].seen,
                         NewestJobFailed /\ api[c].seen \in {"running", "failed"},
                         api[c].target))

\* Mutant: the lock goes whatever the newest job is doing.
ClearStaleLockAlways(c) ==
    /\ api[c].pc = "clear"
    /\ lock' = NoWorker
    /\ api' = [api EXCEPT ![c] = IF api[c].kind = "status" THEN NoRequest
                                 ELSE At(api[c], "check")]
    /\ UNCHANGED <<db, queue, worker, post>>

\* The second half; GET /queue-status then only reports what it sees.
ClearStaleLock(c) ==
    /\ api[c].pc = "clear"
    /\ lock' = IF api[c].stale THEN NoWorker ELSE lock
    /\ api' = [api EXCEPT ![c] = IF api[c].kind = "status" THEN NoRequest
                                 ELSE At(api[c], "check")]
    /\ UNCHANGED <<db, queue, worker, post>>

\* 409 while the key exists.
CheckLock(c) ==
    /\ api[c].pc = "check"
    /\ Handle(c, IF lock # NoWorker THEN NoRequest
                 ELSE IF api[c].seen = "failed" THEN At(api[c], "normalize")
                 ELSE At(api[c], "enqueue"))

\* Mutants: resume to a status no worker knows, or by the retrieval rows before
\* the generation row.
ResumeStatusPending == IF generation THEN "generation_completed" ELSE "pending"
ResumeStatusRowsFirst ==
    IF rows = 0 THEN "running"
    ELSE IF generation THEN "generation_completed"
    ELSE "retrieval_completed"

\* _normalize_failed_run_for_resume: what the rows say now ...
ResumeStatus ==
    IF generation THEN "generation_completed"
    ELSE IF rows > 0 THEN "retrieval_completed"
    ELSE "running"

NormalizeRead(c) ==
    /\ api[c].pc = "normalize"
    /\ Handle(c, Request("commit", api[c].kind, api[c].seen, api[c].stale, ResumeStatus))

\* ... becomes the status of the run, whatever the run is by now.
NormalizeCommit(c) ==
    /\ api[c].pc = "commit"
    /\ status' = api[c].target
    /\ api' = [api EXCEPT ![c] = At(api[c], "enqueue")]
    /\ UNCHANGED <<rows, generation, evaluation, indexed, lock, queue, worker, post>>

RequeueEnqueue(c, j) ==
    /\ api[c].pc = "enqueue"
    /\ EventLoopFree(c)
    /\ enqueue_full_benchmark_run(j)
    /\ api' = [api EXCEPT ![c] = NoRequest]
    /\ UNCHANGED <<db, lock, worker, post>>

\* 503: no provider key, or Redis refuses a command.  A request that finds the
\* bound Jobs used up ends here too.
AbandonRequest(c) ==
    /\ "redis" \in Faults \/ \A j \in Jobs : job[j] # "unused"
    /\ api[c].pc # "idle"
    /\ Handle(c, NoRequest)

\* DELETE /documents: chunks go, and with them the retrieval rows that name them.
DeleteDocument ==
    /\ indexed
    /\ indexed' = FALSE
    /\ rows' = 0
    /\ UNCHANGED <<status, generation, evaluation, lock, queue, worker, post, api>>

RequestStep(c) ==
    \/ \E kind \in {"requeue", "status"} : LoadRun(c, kind)
    \/ ScanJobs(c) \/ ClearStaleLock(c) \/ CheckLock(c)
    \/ NormalizeRead(c) \/ NormalizeCommit(c)
    \/ \E j \in Jobs : RequeueEnqueue(c, j)
    \/ AbandonRequest(c)

-----------------------------------------------------------------------------
Next ==
    \/ \E j \in Jobs : PostEnqueue(j) \/ PostLostReply(j) \/ Promote(j) \/ Expire(j)
    \/ PostRedisDown
    \/ PostMarkFailed
    \/ \E w \in Workers, j \in Jobs : StartJob(w, j)
    \/ \E w \in Workers : JobStep(w) \/ WorkerFault(w)
    \/ \E c \in Clients : RequestStep(c)
    \/ LockExpires
    \/ DeleteDocument

Spec == Init /\ [][Next]_vars

\* A worker process keeps taking jobs and running their code, Redis keeps its
\* clock, and the API answers the POST.  Nobody is obliged to send a request,
\* and nobody to promote a retry.
Fairness ==
    /\ \A j \in Jobs : WF_vars(PostEnqueue(j))
    /\ WF_vars(PostMarkFailed)
    /\ \A w \in Workers, j \in Jobs : WF_vars(StartJob(w, j))
    /\ \A w \in Workers : WF_vars(JobStep(w))
    /\ WF_vars(LockExpires)

FairSpec == Spec /\ Fairness

-----------------------------------------------------------------------------
(* Correctness. *)

\* A status attests its rows: a run said to be generated has a generation, a
\* completed run has both an evaluation and the generation it evaluates, and
\* no evaluation exists without one.  It holds under every fault and every
\* overlap of requests, stale writes and stolen locks included.
TraceBacksStatus ==
    /\ status = "generation_completed" => generation
    /\ status = "completed" => evaluation
    /\ evaluation => generation

\* Why TraceBacksStatus is kept: a worker past its look at the generation row,
\* and a requeue about to write a status, know of rows that are never deleted.
TraceInv ==
    /\ TraceBacksStatus
    /\ \A w \in Workers : pc[w] \in {"judge", "persist", "complete"} => generation
    /\ \A c \in Clients : api[c].pc = "commit" =>
         /\ api[c].target # "completed"
         /\ api[c].target = "generation_completed" => generation

\* The Redis lock does what it is for: at most one work-horse is between
\* taking the lock and its finally.
MutualExclusion ==
    \A v, w \in Workers : pc[v] \in Holding /\ pc[w] \in Holding => v = w

\* Why it does, as long as no live lock is cleared: the key a worker set is
\* still there, and is still its own.
LockOwned == \A w \in Workers : pc[w] \in Holding => lock = w

\* No resume, retry or duplicate job stores the retrieval of a run twice
\* (retrieval_results has no unique constraint; ranks would repeat).
RetrievalStoredOnce == rows <= 1

\* A run that has its evaluation is completed.  A status written over it by a
\* session that read the run earlier would leave a run no pipeline can
\* complete: the judge phase refuses a run that is already evaluated.
EvaluatedRunIsCompleted == evaluation => status = "completed"

\* The run lives the life of RunLifecycle, whatever the queue does.
Lifecycle == INSTANCE RunLifecycle WITH status <- status, rows <- rows,
                                        generation <- generation, evaluation <- evaluation
ImplementsLifecycle == Lifecycle!Spec

\* Every job that enters the queue leaves it, or waits for ever for the
\* scheduler to retry it: no attempt and no lock keeps a job alive for ever.
JobsSettle ==
    \A j \in Jobs : LiveJob(j) ~> (~LiveJob(j) \/ [](job[j] = "scheduled"))

\* If no work-horse is ever killed, every job takes the run to completed or
\* failed, whatever step its attempts end in: when the retries run out the
\* callback reports it.  The one other end is a retry no scheduler promotes; the
\* run then stays in the middle of its phases.
Parked == \E j \in Jobs : job[j] = "scheduled"

RunSettles ==
    [](\A w \in Workers : pc[w] # "killed")
        => \A j \in Jobs : LiveJob(j) ~> (status \in Terminal \/ []Parked)

\* Why, when requests wait and no enqueue fails after it took effect: one thing
\* at a time is under way ...
Waits == ~Overlap /\ "lostReply" \notin Faults

Busy(w) == pc[w] # "idle"
Open(c) == api[c].pc # "idle" /\ api[c].kind = "requeue"

OneAtATime ==
    /\ \A w \in Workers : Busy(w) => mine[w] \in Jobs /\ job[mine[w]] = "started"
    /\ \A v, w \in Workers : Busy(v) /\ Busy(w) => v = w
    /\ \A j, k \in Jobs : LiveJob(j) /\ LiveJob(k) => j = k
    /\ \A c, d \in Clients : Open(c) /\ Open(d) => c = d
    /\ \A c \in Clients : api[c].pc \in {"check", "normalize", "commit", "enqueue"}
                            => api[c].kind = "requeue"
    /\ \A c \in Clients, j \in Jobs : Open(c) => ~LiveJob(j)
    /\ \A c \in Clients : Open(c) => post = "done"
    /\ \A j \in Jobs : post # "done" => ~LiveJob(j)

\* ... so what a session read of the run is still so when it writes ...
WorkerReads(w) ==
    /\ pc[w] \in {"search", "store"} => status = "running"
    /\ pc[w] \in {"load2", "generate"} => status = "retrieval_completed"
    /\ pc[w] \in {"load3", "judge", "persist", "complete"}
         => status = "generation_completed"
    /\ pc[w] \in {"markWrite", "failWrite"} => status \notin Terminal

RequestReads(c) ==
    /\ Open(c) /\ api[c].seen = "failed" /\ api[c].pc # "enqueue" => status = "failed"
    /\ api[c].pc \in {"normalize", "commit"} => api[c].seen = "failed"
    /\ api[c].pc = "commit" =>
         \/ api[c].target = "running" /\ rows = 0 /\ ~generation
         \/ api[c].target = "retrieval_completed" /\ ~generation
         \/ api[c].target = "generation_completed" /\ generation

ReadsAreFresh ==
    /\ \A w \in Workers : WorkerReads(w)
    /\ \A c \in Clients : RequestReads(c)
    /\ post # "done" => status = "running"

\* ... and the status says which rows exist.
StatusIsPhase ==
    /\ rows <= 1
    /\ status = "running" => rows = 0 /\ ~generation
    /\ status = "retrieval_completed" => ~generation
    /\ status = "generation_completed" => generation
    /\ status = "completed" <=> evaluation
    /\ evaluation => generation

WaitInv == OneAtATime /\ ReadsAreFresh /\ StatusIsPhase

-----------------------------------------------------------------------------
(* What comments of the code say and overlapping requests refute. *)

\* run_full_benchmark_pipeline: "completed / failed: no-op (safe if job is
\* duplicated or re-queued)".  A completed run keeps its status.
CompletedIsFinal == [][status = "completed" => status' = "completed"]_vars

\* clear_stale_full_run_lock_if_applicable: when the newest job failed, "the
\* lock cannot be held by live work".  Clearing never frees a lock in use.
StaleLockIsDead ==
    [][\A c \in Clients : ClearStaleLock(c) /\ api[c].stale /\ lock # NoWorker
         => pc[lock] \notin Holding]_vars

=============================================================================
