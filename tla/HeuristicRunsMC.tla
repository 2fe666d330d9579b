-------------------------- MODULE HeuristicRunsMC --------------------------
(* Instances of HeuristicRuns for TLC. *)
EXTENDS HeuristicRuns, TLC

CONSTANT b1, b2

\* One batch has a cell after its first, the other a single cell.
TwoBatches == b1 :> 2 @@ b2 :> 1
OneBatch == b1 :> 1

\* A bound: a full job, and the loss of rows, are explored with two of the
\* three actors and two runs; no step is taken from a state beyond.
Started(p) == pc[p] # "create" \/ (p \in Batches /\ cells[p] < Cells[p])
Paired ==
    requeued # {} \/ lost # {} => last <= 2 /\ \E p \in Actors : ~Started(p)

=============================================================================
