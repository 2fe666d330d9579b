---------------------------- MODULE RunLifecycle ----------------------------
(***************************************************************************)
(* What one full benchmark run promises to whoever reads its row and its   *)
(* trace: services/run_lifecycle.py names the states, and the phase        *)
(* functions of services/ say what each of them attests.  There is no      *)
(* worker, no queue and no request here: FullRun implements this module.   *)
(***************************************************************************)
EXTENDS Naturals

VARIABLES
    status,      \* runs.status
    rows,        \* batches of retrieval_results stored for the run
    generation,  \* a generation_results row exists (run_id is UNIQUE)
    evaluation   \* an evaluation_results row exists (run_id is UNIQUE)

lifecycle == <<status, rows, generation, evaluation>>

Statuses == {"running", "retrieval_completed", "generation_completed",
             "completed", "failed"}

Init ==
    /\ status = "running"
    /\ rows = 0
    /\ generation = FALSE
    /\ evaluation = FALSE

\* Retrieval happens to a run that has no retrieval rows; it may find nothing.
Retrieve ==
    /\ status = "running"
    /\ rows = 0
    /\ rows' \in {0, 1}
    /\ status' = "retrieval_completed"
    /\ UNCHANGED <<generation, evaluation>>

Generate ==
    /\ status = "retrieval_completed"
    /\ ~generation
    /\ generation' = TRUE
    /\ status' = "generation_completed"
    /\ UNCHANGED <<rows, evaluation>>

\* Judged or gated by the hybrid heuristics: one evaluation row completes the run.
Complete ==
    /\ status = "generation_completed"
    /\ generation
    /\ ~evaluation
    /\ evaluation' = TRUE
    /\ status' = "completed"
    /\ UNCHANGED <<rows, generation>>

Fail ==
    /\ status \notin {"completed", "failed"}
    /\ status' = "failed"
    /\ UNCHANGED <<rows, generation, evaluation>>

\* Only a failed run goes back, and only to a phase its trace does not contradict.
Resume ==
    /\ status = "failed"
    /\ \/ generation /\ status' = "generation_completed"
       \/ ~generation /\ status' = "retrieval_completed"
       \/ ~generation /\ rows = 0 /\ status' = "running"
    /\ UNCHANGED <<rows, generation, evaluation>>

\* retrieval_results.chunk_id is ON DELETE CASCADE.
LoseRetrieval ==
    /\ rows' = 0
    /\ UNCHANGED <<status, generation, evaluation>>

Next == Retrieve \/ Generate \/ Complete \/ Fail \/ Resume \/ LoseRetrieval

Spec == Init /\ [][Next]_lifecycle
=============================================================================
