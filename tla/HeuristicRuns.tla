--------------------------- MODULE HeuristicRuns ---------------------------
(***************************************************************************)
(* Heuristic runs of one query case and one pipeline configuration: the    *)
(* handlers of POST /runs with eval_mode heuristic, the processes that     *)
(* execute run_batch_benchmark, and POST /requeue.  Every actor works in a *)
(* database session of its own; a batch opens a second one to mark a run   *)
(* failed.  What matters is which session has an uncommitted UPDATE of     *)
(* which row: PostgreSQL makes every other UPDATE of that row wait.        *)
(*                                                                         *)
(* A requeued run gets a full job beside its own actor.  The job's phases  *)
(* are those of FullRun, taken more coarsely: one step reads what a phase  *)
(* reads of the database, another commits.  DELETE /documents takes the    *)
(* retrieval rows that name its chunks from any number of runs.            *)
(*                                                                         *)
(* Runs of other query cases or configurations touch none of these rows.   *)
(***************************************************************************)
EXTENDS Naturals, FiniteSets, Functions

CONSTANTS
    Posts,      \* handlers of POST /runs
    Batches,    \* processes in run_batch_benchmark, evaluator_type heuristic
    Cells,      \* of each batch: its cells of the query case and configuration
    EmptyFor,   \* actors whose search may find nothing: no chunk is indexed
                \* yet, or the realism profile of a batch drops every hit
    MaxRequeues, \* bound: full jobs enqueued for these runs
    Deletions   \* TRUE: documents may be deleted

Actors == Posts \cup Batches
MaxRuns == Cardinality(Posts) + FoldFunction(+, 0, Cells)
Ids == 1..MaxRuns
NoRun == 0

ASSUME HeuristicRunsAssumption ==
    /\ IsFiniteSet(Actors)
    /\ Posts \cap Batches = {}
    /\ Cells \in [Batches -> Nat]
    /\ EmptyFor \subseteq Actors
    /\ MaxRequeues \in Nat
    /\ Deletions \in BOOLEAN
    /\ MaxRuns \in Nat     \* a sum over Cells: no prover unfolds the fold

VARIABLES
    status, rows,   \* the committed run, and whether it has retrieval rows
    generation, evaluation, \* its generation row, and whose evaluation row it has
    lost,       \* history: runs whose rows went with a document
    owner,      \* the actor that created each run
    last,       \* the newest run id
    job, found, \* next step of the full job of each run, and its search result
    pc, mine,   \* next step of each actor, and its run
    hits,       \* what its search found; with dirty, what it flushed
    dirty,      \* the run its session has updated and not committed
    victim,     \* the run the batch's second session is about to mark failed
    cells, successes, failures  \* of each batch: cells left, and the counters

runs == <<status, rows, generation, evaluation, lost, owner, last>>
jobs == <<job, found>>
session == <<mine, hits, dirty>>
tally == <<cells, successes, failures>>
vars == <<runs, jobs, pc, session, victim, tally>>

Statuses == {"running", "retrieval_completed", "generation_completed",
             "completed", "failed"}
Terminal == {"completed", "failed"}

TypeOK ==
    /\ status \in [Ids -> Statuses \cup {"absent"}]
    /\ rows \in [Ids -> BOOLEAN]
    /\ generation \in [Ids -> BOOLEAN]
    /\ evaluation \in [Ids -> {"none", "heuristic", "llm"}]
    /\ lost \subseteq Ids
    /\ owner \in [Ids -> Actors \cup {NoRun}]
    /\ last \in Ids \cup {NoRun}
    /\ job \in [Ids -> {"none", "enter", "retrieve", "store", "generate", "answer",
                        "judge", "score", "mark", "markWrite", "over"}]
    /\ found \in [Ids -> BOOLEAN]
    /\ pc \in [Actors -> {"create", "search", "store", "refresh", "persist", "failed", "mark", "done"}]
    /\ mine \in [Actors -> Ids \cup {NoRun}]
    /\ hits \in [Actors -> BOOLEAN]
    /\ dirty \in [Actors -> Ids \cup {NoRun}]
    /\ victim \in [Actors -> Ids \cup {NoRun}]
    /\ cells \in [Batches -> Nat]
    /\ successes \in [Batches -> Nat]
    /\ failures \in [Batches -> Nat]

Init ==
    /\ status = [i \in Ids |-> "absent"]
    /\ rows = [i \in Ids |-> FALSE]
    /\ generation = [i \in Ids |-> FALSE]
    /\ evaluation = [i \in Ids |-> "none"]
    /\ lost = {}
    /\ owner = [i \in Ids |-> NoRun]
    /\ last = NoRun
    /\ job = [i \in Ids |-> "none"]
    /\ found = [i \in Ids |-> FALSE]
    /\ pc = [p \in Actors |-> "create"]
    /\ mine = [p \in Actors |-> NoRun]
    /\ hits = [p \in Actors |-> FALSE]
    /\ dirty = [p \in Actors |-> NoRun]
    /\ victim = [p \in Actors |-> NoRun]
    /\ cells = Cells
    /\ successes = [b \in Batches |-> 0]
    /\ failures = [b \in Batches |-> 0]

-----------------------------------------------------------------------------
Goto(p, step) == pc' = [pc EXCEPT ![p] = step]

\* No open transaction has updated the row: an UPDATE need not wait.
Free(i) == \A q \in Actors : dirty[q] # i

\* The session of p has nothing open, and the function that ran the cell has
\* returned.
CloseSession(p) ==
    /\ mine' = [mine EXCEPT ![p] = NoRun]
    /\ hits' = [hits EXCEPT ![p] = FALSE]
    /\ dirty' = [dirty EXCEPT ![p] = NoRun]

\* The cell is over for the batch.
NextCell(b) ==
    /\ cells' = [cells EXCEPT ![b] = cells[b] - 1]
    /\ Goto(b, "create")

\* Mutant: a failed cell counts as a success too.
RaiseCountsBoth(p) ==
    /\ IF p \in Batches
       THEN /\ Goto(p, "failed")
            /\ failures' = [failures EXCEPT ![p] = failures[p] + 1]
            /\ successes' = [successes EXCEPT ![p] = (successes[p] + 1) % (Cells[p] + 1)]
            /\ mine' = [mine EXCEPT ![p] = NoRun]
            /\ UNCHANGED <<hits, dirty>>
       ELSE Goto(p, "done") /\ CloseSession(p) /\ UNCHANGED <<failures, successes>>
    /\ UNCHANGED <<runs, jobs, victim, cells>>

\* An exception leaves the try of the batch's loop, which counts it; the
\* session is not rolled back.  A handler answers 500 and closes its session.
Raise(p) ==
    /\ IF p \in Batches
       THEN /\ Goto(p, "failed")
            /\ failures' = [failures EXCEPT ![p] = failures[p] + 1]
            /\ mine' = [mine EXCEPT ![p] = NoRun]
            /\ UNCHANGED <<hits, dirty>>
       ELSE Goto(p, "done") /\ CloseSession(p) /\ UNCHANGED failures
    /\ UNCHANGED <<runs, jobs, victim, cells, successes>>

\* The database refuses a flush, which rolls the session back and expires what
\* it had loaded: the except clause of the loop raises on qc.id, and the batch
\* ends with the cell neither counted nor marked.  A handler answers 500.
FlushFails(p) ==
    /\ Goto(p, "done")
    /\ CloseSession(p)
    /\ UNCHANGED <<runs, jobs, victim, tally>>

\* What the session of p has flushed: an UPDATE of the run dirty[p], and the
\* retrieval rows of its hits.
Flushed(p, i) == dirty[p] = i /\ hits[p]

\* The row is inserted and committed as running, and with it whatever the
\* session of a batch had left uncommitted in a failed cell.
CreateRun(p) ==
    /\ pc[p] = "create"
    /\ p \in Batches => cells[p] > 0
    /\ last < MaxRuns
    /\ last' = last + 1
    /\ owner' = [owner EXCEPT ![last + 1] = p]
    /\ status' = [i \in Ids |-> IF i = last + 1 THEN "running"
                                ELSE IF i = dirty[p] THEN "retrieval_completed"
                                ELSE status[i]]
    /\ rows' = [i \in Ids |-> rows[i] \/ Flushed(p, i)]
    /\ mine' = [mine EXCEPT ![p] = last + 1]
    /\ hits' = [hits EXCEPT ![p] = FALSE]
    /\ dirty' = [dirty EXCEPT ![p] = NoRun]
    /\ Goto(p, "search")
    /\ UNCHANGED <<generation, evaluation, lost, jobs, victim, tally>>

\* validate_run_create_prerequisites refuses: a registry row is gone.
RefuseRun(p) ==
    /\ pc[p] = "create"
    /\ p \in Batches => cells[p] > 0
    /\ Raise(p)


SearchChunks(p) ==
    /\ pc[p] = "search"
    /\ \E find \in {TRUE, p \notin EmptyFor} : hits' = [hits EXCEPT ![p] = find]
    /\ Goto(p, "store")
    /\ UNCHANGED <<runs, jobs, mine, dirty, victim, tally>>

\* The embedder or the search raises; nothing has been written in this cell.
SearchError(p) == pc[p] = "search" /\ Raise(p)

\* A handler commits rows and status, whatever the status is by now ...
StoreAndCommit(p) ==
    /\ status' = [status EXCEPT ![mine[p]] = "retrieval_completed"]
    /\ rows' = [rows EXCEPT ![mine[p]] = rows[mine[p]] \/ hits[p]]
    /\ hits' = [hits EXCEPT ![p] = FALSE]
    /\ UNCHANGED dirty

\* ... a batch only flushes them: the UPDATE holds the row from here on.
StoreAndFlush(p) ==
    /\ dirty' = [dirty EXCEPT ![p] = mine[p]]
    /\ UNCHANGED <<status, rows, hits>>

StoreRetrieval(p) ==
    /\ pc[p] = "store"
    /\ Free(mine[p])
    /\ IF p \in Batches
       THEN StoreAndFlush(p) /\ Goto(p, "persist")
       ELSE StoreAndCommit(p) /\ Goto(p, "refresh")
    /\ UNCHANGED <<generation, evaluation, lost, owner, last, jobs, mine, victim, tally>>

\* The rows name a chunk whose document was deleted after the search.
StoreConflict(p) == Deletions /\ pc[p] = "store" /\ hits[p] /\ FlushFails(p)

\* A handler reads its run again after that commit, and the evaluation insists
\* on what it read: a run that is something else by now is a ValueError.
RefreshRun(p) ==
    /\ pc[p] = "refresh"
    /\ status[mine[p]] = "retrieval_completed"
    /\ Goto(p, "persist")
    /\ UNCHANGED <<runs, jobs, session, victim, tally>>

RefreshMovedRun(p) ==
    pc[p] = "refresh" /\ status[mine[p]] # "retrieval_completed" /\ Raise(p)

\* Rows of the run that the session of p counts, its own and those of others.
SeesRows(p) == rows[mine[p]] \/ Flushed(p, mine[p])

\* Mutant: neither the evaluation row nor the retrieval rows are looked for.
CompleteBlind(p) ==
    /\ pc[p] = "persist"
    /\ status' = [status EXCEPT ![mine[p]] = "completed"]
    /\ rows' = [rows EXCEPT ![mine[p]] = SeesRows(p)]
    /\ evaluation' = [evaluation EXCEPT ![mine[p]] = "heuristic"]
    /\ IF p \in Batches
       THEN successes' = [successes EXCEPT ![p] = successes[p] + 1] /\ NextCell(p)
       ELSE Goto(p, "done") /\ UNCHANGED <<successes, cells>>
    /\ CloseSession(p)
    /\ UNCHANGED <<generation, lost, owner, last, jobs, victim, failures>>

\* persist_evaluation_and_complete_run counts the rows in the database, stores
\* the evaluation and completes the run: one commit, over any status.
Complete(p) ==
    /\ pc[p] = "persist"
    /\ evaluation[mine[p]] = "none"
    /\ SeesRows(p)
    /\ status' = [status EXCEPT ![mine[p]] = "completed"]
    /\ rows' = [rows EXCEPT ![mine[p]] = TRUE]
    /\ evaluation' = [evaluation EXCEPT ![mine[p]] = "heuristic"]
    /\ IF p \in Batches
       THEN successes' = [successes EXCEPT ![p] = successes[p] + 1] /\ NextCell(p)
       ELSE Goto(p, "done") /\ UNCHANGED <<successes, cells>>
    /\ CloseSession(p)
    /\ UNCHANGED <<generation, lost, owner, last, jobs, victim, failures>>

\* "Evaluation already exists", "has no retrieval_results rows": ValueError.
RefuseCompletion(p) ==
    pc[p] = "persist" /\ (evaluation[mine[p]] # "none" \/ ~SeesRows(p)) /\ Raise(p)

\* The evaluation came between that look and the INSERT: IntegrityError.
CompleteConflict(p) == pc[p] = "persist" /\ evaluation[mine[p]] # "none" /\ FlushFails(p)

\* The second session looks for the newest run of the pair, its own or not.
FindLast(b) ==
    /\ pc[b] = "failed"
    /\ IF last # NoRun /\ status[last] \notin Terminal
       THEN /\ victim' = [victim EXCEPT ![b] = last]
            /\ Goto(b, "mark")
            /\ UNCHANGED cells
       ELSE UNCHANGED victim /\ NextCell(b)
    /\ UNCHANGED <<runs, jobs, session, successes, failures>>

\* Its UPDATE waits for every other session, the batch's own first one included,
\* and then writes over what that session committed.
MarkFailed(b) ==
    /\ pc[b] = "mark"
    /\ Free(victim[b])
    /\ status' = [status EXCEPT ![victim[b]] = "failed"]
    /\ victim' = [victim EXCEPT ![b] = NoRun]
    /\ NextCell(b)
    /\ UNCHANGED <<rows, generation, evaluation, lost, owner, last, jobs, session,
                   successes, failures>>

\* The script closes the session: what is uncommitted is rolled back.
EndBatch(b) ==
    /\ pc[b] = "create"
    /\ cells[b] = 0
    /\ CloseSession(b)
    /\ Goto(b, "done")
    /\ UNCHANGED <<runs, jobs, victim, tally>>

-----------------------------------------------------------------------------
(* POST /requeue, the full job it enqueues, and DELETE /documents.         *)

\* Mutant: a failed run is put back to its status at creation.
ResumeStatusPending(i) == "pending"

ResumeStatus(i) ==
    IF status[i] # "failed" THEN status[i]
    ELSE IF generation[i] THEN "generation_completed"
    ELSE IF rows[i] THEN "retrieval_completed" ELSE "running"

requeued == {i \in Ids : job[i] # "none"}

\* requeue_full_run: refused are completed runs and runs that have a heuristic
\* evaluation and no generation.  Once per run: competing jobs and requests of
\* one run are the subject of FullRun.
RequeueRun(i) ==
    /\ i \notin requeued
    /\ Cardinality(requeued) < MaxRequeues
    /\ status[i] \in Statuses \ {"completed"}
    /\ ~(evaluation[i] = "heuristic" /\ ~generation[i])
    /\ status[i] = "failed" => Free(i)
    /\ status' = [status EXCEPT ![i] = ResumeStatus(i)]
    /\ job' = [job EXCEPT ![i] = "enter"]
    /\ UNCHANGED <<rows, generation, evaluation, lost, owner, last, found, pc,
                   session, victim, tally>>

\* The job of run i goes on to a step, and has read or committed what it did.
JobGoto(i, from, to) ==
    /\ job[i] = from
    /\ job' = [job EXCEPT ![i] = to]
    /\ UNCHANGED <<lost, owner, last, pc, session, victim, tally>>

JobReads(i, from, to) ==
    JobGoto(i, from, to) /\ UNCHANGED <<found, status, rows, generation, evaluation>>

JobEnter(i) == JobReads(i, "enter", IF status[i] \in Terminal THEN "over" ELSE "retrieve")

JobRetrieve(i) ==
    IF status[i] = "running"
    THEN /\ JobGoto(i, "retrieve", "store")
         /\ \E find \in BOOLEAN : found' = [found EXCEPT ![i] = find]
         /\ UNCHANGED <<status, rows, generation, evaluation>>
    ELSE JobReads(i, "retrieve", "generate")

\* Its UPDATEs wait for the batch that holds the row, and then write over what
\* that batch committed.
JobStore(i) ==
    /\ Free(i)
    /\ JobGoto(i, "store", "generate")
    /\ rows' = [rows EXCEPT ![i] = rows[i] \/ found[i]]
    /\ status' = [status EXCEPT ![i] = "retrieval_completed"]
    /\ found' = [found EXCEPT ![i] = FALSE]
    /\ UNCHANGED <<generation, evaluation>>

JobGenerate(i) ==
    JobReads(i, "generate", IF status[i] # "retrieval_completed" THEN "judge"
                            ELSE IF generation[i] \/ ~rows[i] THEN "mark"
                            ELSE "answer")

JobAnswer(i) ==
    /\ Free(i)
    /\ JobGoto(i, "answer", "judge")
    /\ generation' = [generation EXCEPT ![i] = TRUE]
    /\ status' = [status EXCEPT ![i] = "generation_completed"]
    /\ UNCHANGED <<found, rows, evaluation>>

JobJudge(i) ==
    JobReads(i, "judge", IF status[i] = "generation_completed" THEN "score" ELSE "over")

JobScore(i) ==
    /\ evaluation[i] = "none"
    /\ Free(i)
    /\ JobGoto(i, "score", "over")
    /\ evaluation' = [evaluation EXCEPT ![i] = "llm"]
    /\ status' = [status EXCEPT ![i] = "completed"]
    /\ UNCHANGED <<found, rows, generation>>

JobRefused(i) == evaluation[i] # "none" /\ JobReads(i, "score", "mark")

\* An attempt raises: it is retried, or the callback marks the run.
JobRaises(i) ==
    /\ \E from \in {"enter", "retrieve", "store", "generate", "answer", "judge", "score"},
          to \in {"enter", "mark"} : JobGoto(i, from, to)
    /\ found' = [found EXCEPT ![i] = FALSE]
    /\ UNCHANGED <<status, rows, generation, evaluation>>

\* A ValueError, or the callback: read, then write.
JobMark(i) == JobReads(i, "mark", IF status[i] \in Terminal THEN "over" ELSE "markWrite")

JobMarkWrite(i) ==
    /\ Free(i)
    /\ JobGoto(i, "markWrite", "over")
    /\ status' = [status EXCEPT ![i] = "failed"]
    /\ UNCHANGED <<found, rows, generation, evaluation>>

JobStep(i) ==
    \/ JobEnter(i) \/ JobRetrieve(i) \/ JobStore(i) \/ JobGenerate(i) \/ JobAnswer(i)
    \/ JobJudge(i) \/ JobScore(i) \/ JobRefused(i) \/ JobRaises(i)
    \/ JobMark(i) \/ JobMarkWrite(i)

\* The chunks of a document go, and with them the committed rows that name
\* them: some runs lose all theirs.  Flushed rows hold their chunks, so the
\* DELETE waits for that session.
DeleteDocument ==
    /\ Deletions
    /\ \E taken \in SUBSET {i \in Ids : rows[i]} :
         /\ rows' = [i \in Ids |-> rows[i] /\ i \notin taken]
         /\ lost' = lost \cup taken
    /\ UNCHANGED <<status, generation, evaluation, owner, last, jobs, pc, session,
                   victim, tally>>

-----------------------------------------------------------------------------
Work(p) ==
    \/ CreateRun(p) \/ SearchChunks(p) \/ StoreRetrieval(p) \/ Complete(p)
    \/ RefreshRun(p) \/ RefreshMovedRun(p) \/ RefuseCompletion(p)

Mishap(p) == RefuseRun(p) \/ SearchError(p) \/ StoreConflict(p) \/ CompleteConflict(p)

Cleanup(b) == FindLast(b) \/ MarkFailed(b) \/ EndBatch(b)

Done == \A p \in Actors : pc[p] = "done"

Next ==
    \/ \E p \in Actors : Work(p) \/ Mishap(p)
    \/ \E b \in Batches : Cleanup(b)
    \/ \E i \in Ids : RequeueRun(i) \/ JobStep(i)
    \/ DeleteDocument

Spec == Init /\ [][Next]_vars

\* Every process keeps executing its code; the database answers a statement
\* that need not wait.
Fairness ==
    /\ \A p \in Actors : WF_vars(Work(p))
    /\ \A b \in Batches : WF_vars(Cleanup(b))

FairSpec == Spec /\ Fairness

-----------------------------------------------------------------------------
(* Correctness. *)

\* A completed run has an evaluation; an evaluation has the retrieval rows it
\* scored, unless a document was deleted, and one by the LLM judge the answer
\* it judged: however batches mark each other's runs, and a requeued job works
\* on the run its own actor is still working on.
CompletedHasTrace ==
    \A i \in Ids :
        /\ status[i] = "completed" => evaluation[i] # "none"
        /\ evaluation[i] # "none" => rows[i] \/ i \in lost
        /\ evaluation[i] = "llm" => generation[i]

\* The counters a batch reports agree with the database: its successes are the
\* runs it created that hold a heuristic evaluation, so a run that a requeued
\* job completed in its place is none, and every cell it has left counts once.
BatchAccounts ==
    \A b \in Batches :
        /\ successes[b] = Cardinality({i \in Ids : owner[i] = b /\ evaluation[i] = "heuristic"})
        /\ successes[b] + failures[b] + cells[b]
             = Cells[b] + (IF pc[b] \in {"failed", "mark"} THEN 1 ELSE 0)


-----------------------------------------------------------------------------
(* What texts of the code say and the code does not do. *)

\* BenchmarkRealismProfile: an empty hit list takes the "RETRIEVAL_MISS path":
\* the cell is evaluated as a retrieval miss and the batch goes on.
EmptyIsAMiss ==
    \A b \in Batches, i \in Ids :
        pc[b] = "store" /\ ~hits[b] /\ mine[b] = i ~> evaluation[i] # "none"

\* requeue_full_run_endpoint: "409 if the run is not eligible (completed,
\* heuristic-only, ...)".  Every run of this module is heuristic.
HeuristicIsNotRequeued == requeued = {}

=============================================================================
