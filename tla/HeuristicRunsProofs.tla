------------------------ MODULE HeuristicRunsProofs ------------------------
(***************************************************************************)
(* Proofs about HeuristicRuns, for every number of handlers, batches,      *)
(* cells and requeues.  The invariant has five parts: the counters of each *)
(* batch add up; only runs that were created are written to; a run is      *)
(* evaluated heuristically by the actor that created it, and then no more  *)
(* worked on; every row rests on the rows it was made from; and a batch    *)
(* counts as successes the runs it evaluated.                              *)
(***************************************************************************)
EXTENDS HeuristicRuns, FiniteSetTheorems, TLAPS

\* Every cell a batch has left is counted once; a batch in a cell has that cell left.
Tallied ==
    \A b \in Batches :
        /\ successes[b] + failures[b] + cells[b]
             = Cells[b] + (IF pc[b] \in {"failed", "mark"} THEN 1 ELSE 0)
        /\ pc[b] \notin {"create", "done"} => cells[b] > 0

\* Sessions and jobs name runs that exist; nothing is known of the others.
Created ==
    /\ \A p \in Actors : /\ mine[p] # NoRun => mine[p] <= last
                         /\ dirty[p] # NoRun => dirty[p] <= last
                         /\ victim[p] # NoRun => victim[p] <= last
                         /\ pc[p] \in {"search", "store", "refresh", "persist"} => mine[p] # NoRun
                         /\ pc[p] = "mark" => victim[p] # NoRun
    /\ \A i \in Ids : /\ status[i] # "absent" => i <= last
                      /\ evaluation[i] # "none" => i <= last
                      /\ job[i] # "none" => i <= last

\* An actor's run is one it created and has not evaluated.
Owned ==
    \A p \in Actors : mine[p] # NoRun =>
        owner[mine[p]] = p /\ evaluation[mine[p]] # "heuristic"

\* Retrieval rows are there, or went with a document.
Retrieved(i) == rows[i] \/ i \in lost

\* An answer was generated from rows, a judge asked about an answer.
Backed ==
    \A i \in Ids : /\ status[i] = "generation_completed" => generation[i]
                   /\ generation[i] => Retrieved(i)
                   /\ job[i] = "answer" => Retrieved(i)
                   /\ job[i] = "score" => generation[i]

Evaluated(b) == {i \in Ids : owner[i] = b /\ evaluation[i] = "heuristic"}
Counted == \A b \in Batches : successes[b] = Cardinality(Evaluated(b))

HeuristicInv ==
    TypeOK /\ Tallied /\ Created /\ Owned /\ CompletedHasTrace /\ Backed /\ Counted

\* The places where an exception leaves a cell or a handler, and where a flush
\* is refused.
Raises(p) ==
    /\ pc[p] \in {"create", "search", "refresh", "persist"}
    /\ p \in Batches => cells[p] > 0
    /\ Raise(p)

Fails(p) == pc[p] \in {"store", "persist"} /\ FlushFails(p)

\* What a session or a job that only reads leaves alone.
database == <<status, rows, generation, evaluation, lost, owner, last>>

\* A step of the job of run i that stores nothing; it goes on to generate an
\* answer or to judge one only after a look at the run.
JobQuiet(i) ==
    /\ UNCHANGED <<database, pc, session, victim, tally>>
    /\ job[i] # "none"
    /\ \E to \in {"over", "retrieve", "store", "generate", "mark", "judge", "enter",
                  "markWrite", "answer", "score"} :
           /\ job' = [job EXCEPT ![i] = to]
           /\ to = "answer" => rows[i]
           /\ to = "score" => status[i] = "generation_completed"
    /\ found' \in [Ids -> BOOLEAN]

LEMMA Numbers ==
    /\ MaxRuns \in Nat
    /\ Cells \in [Batches -> Nat]
    /\ IsFiniteSet(Ids)
    /\ \A i \in Ids : i \in Nat /\ i # NoRun
    /\ \A p \in Posts : p \notin Batches
    /\ Batches \subseteq Actors
BY HeuristicRunsAssumption, FS_Interval DEF Ids, NoRun, Actors

\* A job stores rows, an answer, an evaluation or a failure, or is quiet.
LEMMA JobSteps ==
    ASSUME TypeOK, NEW i \in Ids, JobStep(i)
    PROVE  JobQuiet(i) \/ JobStore(i) \/ JobAnswer(i) \/ JobScore(i) \/ JobMarkWrite(i)
<1> USE DEF TypeOK, JobQuiet, database
<1>1. CASE JobEnter(i) BY <1>1 DEF JobEnter, JobReads, JobGoto
<1>2. CASE JobRetrieve(i)
  <2>1. CASE status[i] = "running" BY <1>2, <2>1 DEF JobRetrieve, JobGoto
  <2>2. CASE status[i] # "running" BY <1>2, <2>2 DEF JobRetrieve, JobReads, JobGoto
  <2> QED BY <2>1, <2>2
<1>3. CASE JobGenerate(i) BY <1>3 DEF JobGenerate, JobReads, JobGoto
<1>4. CASE JobJudge(i) BY <1>4 DEF JobJudge, JobReads, JobGoto
<1>5. CASE JobRefused(i) BY <1>5 DEF JobRefused, JobReads, JobGoto
<1>6. CASE JobRaises(i) BY <1>6 DEF JobRaises, JobGoto
<1>7. CASE JobMark(i) BY <1>7 DEF JobMark, JobReads, JobGoto
<1> QED BY <1>1, <1>2, <1>3, <1>4, <1>5, <1>6, <1>7 DEF JobStep

\* Every step is one of these kinds, or changes nothing.
LEMMA Steps ==
    ASSUME TypeOK, Tallied, [Next]_vars
    PROVE  \/ UNCHANGED vars
           \/ \E p \in Actors : \/ CreateRun(p) \/ SearchChunks(p) \/ StoreRetrieval(p)
                                \/ RefreshRun(p) \/ Complete(p) \/ Raises(p) \/ Fails(p)
           \/ \E b \in Batches : FindLast(b) \/ MarkFailed(b) \/ EndBatch(b)
           \/ \E i \in Ids : \/ RequeueRun(i) \/ JobQuiet(i) \/ JobStore(i)
                             \/ JobAnswer(i) \/ JobScore(i) \/ JobMarkWrite(i)
           \/ DeleteDocument
<1>1. ASSUME NEW p \in Actors, Mishap(p) PROVE Raises(p) \/ Fails(p)
  BY <1>1 DEF Mishap, RefuseRun, SearchError, StoreConflict, CompleteConflict,
              Raises, Fails, Tallied
<1>2. ASSUME NEW p \in Actors, Work(p)
      PROVE  \/ CreateRun(p) \/ SearchChunks(p) \/ StoreRetrieval(p)
             \/ RefreshRun(p) \/ Complete(p) \/ Raises(p)
  BY <1>2 DEF Work, RefreshMovedRun, RefuseCompletion, Raises, Tallied
<1> QED BY <1>1, <1>2, JobSteps DEF Next, Cleanup

-----------------------------------------------------------------------------
(* Types. *)

LEMMA TypeStep ==
    ASSUME TypeOK, Tallied, Created, [Next]_vars
    PROVE  TypeOK'
<1> USE Numbers DEF TypeOK, runs, jobs, session, tally
<1>1. CASE UNCHANGED vars BY <1>1 DEF vars
<1>2. ASSUME NEW p \in Actors, CreateRun(p) PROVE TypeOK'
  <2>1. last + 1 \in Ids BY <1>2 DEF CreateRun, Ids, NoRun
  <2>2. /\ status' \in [Ids -> Statuses \cup {"absent"}]
        /\ rows' \in [Ids -> BOOLEAN]
    BY <1>2 DEF CreateRun, Statuses
  <2> QED BY <1>2, <2>1, <2>2 DEF CreateRun, Goto
<1>3. ASSUME NEW p \in Actors, SearchChunks(p) PROVE TypeOK'
  BY <1>3, ZenonT(30) DEF SearchChunks, Goto
<1>4. ASSUME NEW p \in Actors, StoreRetrieval(p) PROVE TypeOK'
  <2>1. mine[p] \in Ids BY <1>4 DEF StoreRetrieval, Created
  <2>2. /\ pc' \in [Actors -> {"create", "search", "store", "refresh", "persist",
                              "failed", "mark", "done"}]
        /\ UNCHANGED <<generation, evaluation, lost, owner, last, job, found, mine, victim,
                       cells, successes, failures>>
    BY <1>4 DEF StoreRetrieval, Goto
  <2>3. CASE p \in Batches
    <3>1. UNCHANGED <<status, rows, hits>> /\ dirty' = [dirty EXCEPT ![p] = mine[p]]
      BY <1>4, <2>3 DEF StoreRetrieval, StoreAndFlush
    <3>2. dirty' \in [Actors -> Ids \cup {NoRun}] BY <2>1, <3>1
    <3> QED BY <2>2, <3>1, <3>2
  <2>4. CASE p \notin Batches
    <3>1. status' \in [Ids -> Statuses \cup {"absent"}]
      BY <1>4, <2>4 DEF StoreRetrieval, StoreAndCommit, Statuses
    <3>2. rows' \in [Ids -> BOOLEAN] /\ hits' \in [Actors -> BOOLEAN] /\ dirty' = dirty
      BY <1>4, <2>4, ZenonT(30) DEF StoreRetrieval, StoreAndCommit
    <3> QED BY <2>2, <3>1, <3>2
  <2> QED BY <2>3, <2>4
<1>5. ASSUME NEW p \in Actors, RefreshRun(p) PROVE TypeOK'
  BY <1>5 DEF RefreshRun, Goto
<1>6. ASSUME NEW p \in Actors, Complete(p) PROVE TypeOK'
  <2>1. /\ status' \in [Ids -> Statuses \cup {"absent"}]
        /\ rows' \in [Ids -> BOOLEAN]
        /\ evaluation' \in [Ids -> {"none", "heuristic", "llm"}]
        /\ UNCHANGED <<generation, lost, owner, last, job, found, victim, failures>>
    BY <1>6 DEF Complete, Statuses
  <2>2. /\ dirty' \in [Actors -> Ids \cup {NoRun}]
        /\ mine' \in [Actors -> Ids \cup {NoRun}]
        /\ hits' \in [Actors -> BOOLEAN]
    BY <1>6 DEF Complete, CloseSession
  <2>3. CASE p \in Batches
    <3>1. cells[p] - 1 \in Nat BY <1>6, <2>3 DEF Complete, Tallied
    <3>a. /\ cells' = [cells EXCEPT ![p] = cells[p] - 1]
          /\ successes' = [successes EXCEPT ![p] = successes[p] + 1]
      BY <1>6, <2>3 DEF Complete, NextCell
    <3>2. cells' \in [Batches -> Nat] /\ successes' \in [Batches -> Nat]
      BY <2>3, <3>1, <3>a
    <3>3. pc' \in [Actors -> {"create", "search", "store", "refresh", "persist",
                              "failed", "mark", "done"}]
      BY <1>6, <2>3 DEF Complete, NextCell, Goto
    <3> QED BY <2>1, <2>2, <3>2, <3>3
  <2>4. CASE p \notin Batches
    <3>1. UNCHANGED <<cells, successes>> BY <1>6, <2>4 DEF Complete
    <3>2. pc' \in [Actors -> {"create", "search", "store", "refresh", "persist",
                              "failed", "mark", "done"}]
      BY <1>6, <2>4 DEF Complete, Goto
    <3> QED BY <2>1, <2>2, <3>1, <3>2
  <2> QED BY <2>3, <2>4
<1>7. ASSUME NEW p \in Actors, Raises(p) PROVE TypeOK'
  <2>1. CASE p \in Batches
    BY <1>7, <2>1 DEF Raises, Raise, Goto
  <2>2. CASE p \notin Batches
    BY <1>7, <2>2 DEF Raises, Raise, Goto, CloseSession
  <2> QED BY <2>1, <2>2
<1>8. ASSUME NEW p \in Actors, Fails(p) PROVE TypeOK'
  BY <1>8 DEF Fails, FlushFails, CloseSession, Goto
<1>9. ASSUME NEW b \in Batches, FindLast(b) PROVE TypeOK'
  <2>1. pc[b] = "failed" /\ cells[b] - 1 \in Nat BY <1>9 DEF FindLast, Tallied
  <2> QED BY <1>9, <2>1 DEF FindLast, NextCell, Goto
<1>10. ASSUME NEW b \in Batches, MarkFailed(b) PROVE TypeOK'
  <2>1. pc[b] = "mark" /\ cells[b] - 1 \in Nat BY <1>10 DEF MarkFailed, Tallied
  <2> QED BY <1>10, <2>1 DEF MarkFailed, NextCell, Goto, Statuses
<1>11. ASSUME NEW b \in Batches, EndBatch(b) PROVE TypeOK'
  BY <1>11 DEF EndBatch, CloseSession, Goto
<1>12. ASSUME NEW i \in Ids, RequeueRun(i) PROVE TypeOK'
  BY <1>12 DEF RequeueRun, ResumeStatus, Statuses
<1>13. ASSUME NEW i \in Ids, JobQuiet(i) PROVE TypeOK'
  <2>1. job' \in [Ids -> {"none", "enter", "retrieve", "store", "generate", "answer",
                          "judge", "score", "mark", "markWrite", "over"}]
    BY <1>13 DEF JobQuiet
  <2>2. found' \in [Ids -> BOOLEAN] /\ UNCHANGED <<runs, pc, session, victim, tally>>
    BY <1>13 DEF JobQuiet, database
  <2> QED BY <2>1, <2>2
<1>14. ASSUME NEW i \in Ids, JobStore(i) PROVE TypeOK'
  <2>1. rows' \in [Ids -> BOOLEAN] /\ found' \in [Ids -> BOOLEAN]
    BY <1>14, ZenonT(30) DEF JobStore
  <2>2. status' \in [Ids -> Statuses \cup {"absent"}]
    BY <1>14 DEF JobStore, Statuses
  <2>3. job' \in [Ids -> {"none", "enter", "retrieve", "store", "generate", "answer",
                          "judge", "score", "mark", "markWrite", "over"}]
    BY <1>14 DEF JobStore, JobGoto
  <2>4. UNCHANGED <<generation, evaluation, lost, owner, last, pc, session, victim, tally>>
    BY <1>14 DEF JobStore, JobGoto
  <2> QED BY <2>1, <2>2, <2>3, <2>4
<1>15. ASSUME NEW i \in Ids, JobAnswer(i) \/ JobScore(i) \/ JobMarkWrite(i) PROVE TypeOK'
  <2>1. /\ generation' \in [Ids -> BOOLEAN]
        /\ evaluation' \in [Ids -> {"none", "heuristic", "llm"}]
    BY <1>15 DEF JobAnswer, JobScore, JobMarkWrite
  <2>2. status' \in [Ids -> Statuses \cup {"absent"}]
    BY <1>15 DEF JobAnswer, JobScore, JobMarkWrite, Statuses
  <2>3. job' \in [Ids -> {"none", "enter", "retrieve", "store", "generate", "answer",
                          "judge", "score", "mark", "markWrite", "over"}]
    BY <1>15 DEF JobAnswer, JobScore, JobMarkWrite, JobGoto
  <2>4. UNCHANGED <<found, rows, lost, owner, last, pc, session, victim, tally>>
    BY <1>15 DEF JobAnswer, JobScore, JobMarkWrite, JobGoto
  <2> QED BY <2>1, <2>2, <2>3, <2>4
<1>16. CASE DeleteDocument BY <1>16 DEF DeleteDocument
<1> QED BY <1>1, <1>2, <1>3, <1>4, <1>5, <1>6, <1>7, <1>8, <1>9, <1>10, <1>11, <1>12,
           <1>13, <1>14, <1>15, <1>16, Steps

-----------------------------------------------------------------------------
(* The counters. *)

LEMMA TalliedStep ==
    ASSUME TypeOK, Tallied, [Next]_vars
    PROVE  Tallied'
<1> USE Numbers DEF TypeOK, Tallied, runs, jobs, tally
<1>1. CASE UNCHANGED vars BY <1>1 DEF vars
<1>2. ASSUME NEW p \in Actors,
             CreateRun(p) \/ SearchChunks(p) \/ StoreRetrieval(p) \/ RefreshRun(p)
      PROVE  Tallied'
  <2>1. UNCHANGED tally
    BY <1>2 DEF CreateRun, SearchChunks, StoreRetrieval, RefreshRun
  <2>2. /\ pc[p] \notin {"failed", "mark", "done"}
        /\ p \in Batches => cells[p] > 0
        /\ \E step \in {"search", "store", "persist", "refresh"} :
               pc' = [pc EXCEPT ![p] = step]
    BY <1>2 DEF CreateRun, SearchChunks, StoreRetrieval, RefreshRun, Goto
  <2> QED BY <2>1, <2>2
<1>3. ASSUME NEW p \in Actors, Complete(p) PROVE Tallied'
  <2>1. CASE p \in Batches
    BY <1>3, <2>1 DEF Complete, NextCell, Goto
  <2>2. CASE p \notin Batches
    BY <1>3, <2>2 DEF Complete, Goto
  <2> QED BY <2>1, <2>2
<1>4. ASSUME NEW p \in Actors, Raises(p) PROVE Tallied'
  <2>1. CASE p \in Batches
    <3>1. /\ pc[p] \notin {"failed", "mark"} /\ cells[p] > 0
          /\ pc' = [pc EXCEPT ![p] = "failed"]
          /\ failures' = [failures EXCEPT ![p] = failures[p] + 1]
          /\ UNCHANGED <<cells, successes>>
      BY <1>4, <2>1 DEF Raises, Raise, Goto
    <3>2. \A b \in Batches : b # p =>
              pc'[b] = pc[b] /\ failures'[b] = failures[b]
      BY <3>1
    <3>3. pc'[p] = "failed" /\ failures'[p] = failures[p] + 1
      BY <2>1, <3>1
    <3>4. successes[p] \in Nat /\ failures[p] \in Nat /\ cells[p] \in Nat /\ Cells[p] \in Nat
      BY <2>1
    <3>5. successes[p] + failures[p] + cells[p] = Cells[p]
      BY <2>1, <3>1
    <3> QED BY <3>1, <3>2, <3>3, <3>4, <3>5
  <2>2. CASE p \notin Batches
    <3>1. pc' = [pc EXCEPT ![p] = "done"] /\ UNCHANGED tally
      BY <1>4, <2>2 DEF Raises, Raise, Goto
    <3> QED BY <2>2, <3>1
  <2> QED BY <2>1, <2>2
<1>5. ASSUME NEW p \in Actors, Fails(p) PROVE Tallied'
  BY <1>5 DEF Fails, FlushFails, Goto
<1>6. ASSUME NEW b \in Batches, FindLast(b) PROVE Tallied'
  BY <1>6 DEF FindLast, NextCell, Goto
<1>7. ASSUME NEW b \in Batches, MarkFailed(b) PROVE Tallied'
  BY <1>7 DEF MarkFailed, NextCell, Goto
<1>8. ASSUME NEW b \in Batches, EndBatch(b) PROVE Tallied'
  BY <1>8 DEF EndBatch, Goto
<1>9. ASSUME NEW i \in Ids, \/ RequeueRun(i) \/ JobQuiet(i) \/ JobStore(i)
                            \/ JobAnswer(i) \/ JobScore(i) \/ JobMarkWrite(i)
      PROVE  Tallied'
  BY <1>9 DEF RequeueRun, JobQuiet, JobStore, JobAnswer, JobScore, JobMarkWrite, JobGoto
<1>10. CASE DeleteDocument BY <1>10 DEF DeleteDocument
<1> QED BY <1>1, <1>2, <1>3, <1>4, <1>5, <1>6, <1>7, <1>8, <1>9, <1>10, Steps

-----------------------------------------------------------------------------
(* Only runs that were created are written to. *)

LEMMA CreatedStep ==
    ASSUME TypeOK, Tallied, Created, [Next]_vars
    PROVE  Created'
<1> USE Numbers DEF TypeOK, Created, runs, jobs, session
<1>1. CASE UNCHANGED vars BY <1>1 DEF vars
<1>2. ASSUME NEW p \in Actors, CreateRun(p) PROVE Created'
  <2>1. last + 1 \in Ids /\ last \in Nat BY <1>2 DEF CreateRun, Ids, NoRun
  <2>2. \A i \in Ids : status'[i] # "absent" => i <= last + 1
    <3> SUFFICES ASSUME NEW i \in Ids, status'[i] # "absent" PROVE i <= last + 1
      OBVIOUS
    <3>1. i = last + 1 \/ i = dirty[p] \/ status[i] # "absent"
      BY <1>2 DEF CreateRun
    <3>2. i \in Nat /\ i # NoRun OBVIOUS
    <3>3. i <= last \/ i = last + 1 BY <3>1, <3>2
    <3> HIDE DEF TypeOK, Created
    <3> QED BY <2>1, <3>2, <3>3
  <2>3. /\ last' = last + 1
        /\ mine' = [mine EXCEPT ![p] = last + 1]
        /\ dirty' = [dirty EXCEPT ![p] = NoRun]
        /\ pc' = [pc EXCEPT ![p] = "search"]
        /\ UNCHANGED <<evaluation, job, victim>>
    BY <1>2 DEF CreateRun, Goto
  <2>4. \A i \in Ids : i <= last => i <= last'
    BY <2>1, <2>3 DEF Ids
  <2> QED BY <2>1, <2>2, <2>3, <2>4 DEF NoRun, Ids
<1>3. ASSUME NEW p \in Actors, SearchChunks(p) \/ RefreshRun(p) PROVE Created'
  BY <1>3 DEF SearchChunks, RefreshRun, Goto
<1>4. ASSUME NEW p \in Actors, StoreRetrieval(p) PROVE Created'
  <2>1. mine[p] \in Ids /\ mine[p] <= last BY <1>4 DEF StoreRetrieval
  <2>2. /\ UNCHANGED <<evaluation, job, last, mine, victim>>
        /\ \E step \in {"persist", "refresh"} : pc' = [pc EXCEPT ![p] = step]
    BY <1>4 DEF StoreRetrieval, Goto
  <2>3. CASE p \in Batches
    BY <1>4, <2>1, <2>2, <2>3 DEF StoreRetrieval, StoreAndFlush
  <2>4. CASE p \notin Batches
    BY <1>4, <2>1, <2>2, <2>4 DEF StoreRetrieval, StoreAndCommit
  <2> QED BY <2>3, <2>4
<1>5. ASSUME NEW p \in Actors, Complete(p) PROVE Created'
  <2>1. mine[p] \in Ids /\ mine[p] <= last BY <1>5 DEF Complete
  <2>2. /\ UNCHANGED <<job, last, victim>>
        /\ \E step \in {"create", "done"} : pc' = [pc EXCEPT ![p] = step]
        /\ mine' = [mine EXCEPT ![p] = NoRun]
        /\ dirty' = [dirty EXCEPT ![p] = NoRun]
    BY <1>5 DEF Complete, NextCell, Goto, CloseSession
  <2>3. \A i \in Ids : /\ status'[i] # "absent" => i <= last'
                       /\ evaluation'[i] # "none" => i <= last'
    BY <1>5, <2>1, <2>2 DEF Complete
  <2>4. \A q \in Actors : /\ mine'[q] # NoRun => mine'[q] <= last'
                          /\ dirty'[q] # NoRun => dirty'[q] <= last'
                          /\ victim'[q] # NoRun => victim'[q] <= last'
    BY <2>2
  <2>5. \A q \in Actors :
           /\ pc'[q] \in {"search", "store", "refresh", "persist"} => mine'[q] # NoRun
           /\ pc'[q] = "mark" => victim'[q] # NoRun
    BY <2>2
  <2>6. \A i \in Ids : job'[i] # "none" => i <= last' BY <2>2
  <2> HIDE DEF TypeOK
  <2> QED BY <2>3, <2>4, <2>5, <2>6
<1>6. ASSUME NEW p \in Actors, Raises(p) \/ Fails(p) PROVE Created'
  <2>1. /\ UNCHANGED <<status, evaluation, job, last, victim>>
        /\ mine' = [mine EXCEPT ![p] = NoRun]
        /\ \E step \in {"failed", "done"} : pc' = [pc EXCEPT ![p] = step]
        /\ dirty' = dirty \/ dirty' = [dirty EXCEPT ![p] = NoRun]
    BY <1>6 DEF Raises, Raise, Fails, FlushFails, Goto, CloseSession
  <2> QED BY <2>1
<1>7. ASSUME NEW b \in Batches, FindLast(b) PROVE Created'
  <2>1. \/ pc' = [pc EXCEPT ![b] = "create"] /\ victim' = victim
        \/ pc' = [pc EXCEPT ![b] = "mark"] /\ victim' = [victim EXCEPT ![b] = last] /\ last # NoRun
    BY <1>7 DEF FindLast, NextCell, Goto
  <2>2. UNCHANGED <<status, evaluation, job, last, mine, dirty>>
    BY <1>7 DEF FindLast
  <2>3. last # NoRun => last <= last BY DEF NoRun, Ids
  <2> QED BY <2>1, <2>2, <2>3
<1>8. ASSUME NEW b \in Batches, MarkFailed(b) PROVE Created'
  <2>1. victim[b] \in Ids /\ victim[b] <= last BY <1>8 DEF MarkFailed
  <2>2. /\ UNCHANGED <<evaluation, job, last, mine, dirty>>
        /\ pc' = [pc EXCEPT ![b] = "create"]
        /\ victim' = [victim EXCEPT ![b] = NoRun]
        /\ status' = [status EXCEPT ![victim[b]] = "failed"]
    BY <1>8 DEF MarkFailed, NextCell, Goto
  <2> QED BY <2>1, <2>2
<1>9. ASSUME NEW b \in Batches, EndBatch(b) PROVE Created'
  BY <1>9 DEF EndBatch, CloseSession, Goto
<1>10. ASSUME NEW i \in Ids, RequeueRun(i) PROVE Created'
  <2>1. i <= last BY <1>10 DEF RequeueRun, Statuses
  <2> QED BY <1>10, <2>1 DEF RequeueRun
<1>11. ASSUME NEW i \in Ids, JobQuiet(i) PROVE Created'
  BY <1>11 DEF JobQuiet, database
<1>12. ASSUME NEW i \in Ids, \/ JobStore(i) \/ JobAnswer(i) \/ JobScore(i)
                             \/ JobMarkWrite(i)
      PROVE  Created'
  <2>1. i <= last BY <1>12 DEF JobStore, JobAnswer, JobScore, JobMarkWrite, JobGoto
  <2> QED BY <1>12, <2>1 DEF JobStore, JobAnswer, JobScore, JobMarkWrite, JobGoto
<1>13. CASE DeleteDocument BY <1>13 DEF DeleteDocument
<1> QED BY <1>1, <1>2, <1>3, <1>4, <1>5, <1>6, <1>7, <1>8, <1>9, <1>10, <1>11, <1>12,
           <1>13, Steps

-----------------------------------------------------------------------------
(* Who evaluates a run. *)

LEMMA OwnedStep ==
    ASSUME TypeOK, Tallied, Created, Owned, [Next]_vars
    PROVE  Owned'
<1> USE Numbers DEF TypeOK, Owned, runs, jobs, session
<1>1. CASE UNCHANGED vars BY <1>1 DEF vars
<1>2. ASSUME NEW p \in Actors, CreateRun(p) PROVE Owned'
  <2>1. last + 1 \in Ids /\ last \in Nat BY <1>2 DEF CreateRun, Ids, NoRun
  <2>2. evaluation[last + 1] = "none"
    BY <2>1 DEF Ids, Created
  <2>3. /\ evaluation' = evaluation
        /\ owner' = [owner EXCEPT ![last + 1] = p]
        /\ mine' = [mine EXCEPT ![p] = last + 1]
    BY <1>2 DEF CreateRun
  <2>4. \A q \in Actors : mine[q] # last + 1
    <3> SUFFICES ASSUME NEW q \in Actors, mine[q] = last + 1 PROVE FALSE OBVIOUS
    <3>1. mine[q] # NoRun BY <2>1 DEF NoRun
    <3>2. mine[q] <= last BY <3>1 DEF Created
    <3> QED BY <2>1, <3>2
  <2> QED BY <2>1, <2>2, <2>3, <2>4
<1>3. ASSUME NEW p \in Actors, SearchChunks(p) \/ StoreRetrieval(p) \/ RefreshRun(p)
      PROVE  Owned'
  BY <1>3 DEF SearchChunks, StoreRetrieval, RefreshRun
<1>4. ASSUME NEW p \in Actors, Complete(p) PROVE Owned'
  <2>1. /\ owner' = owner
        /\ evaluation' = [evaluation EXCEPT ![mine[p]] = "heuristic"]
        /\ mine' = [mine EXCEPT ![p] = NoRun]
        /\ mine[p] \in Ids
    BY <1>4 DEF Complete, CloseSession, Created
  <2>2. \A q \in Actors \ {p} : mine[q] # mine[p]
    BY <2>1
  <2> QED BY <2>1, <2>2
<1>5. ASSUME NEW p \in Actors, Raises(p) \/ Fails(p) PROVE Owned'
  <2>1. UNCHANGED <<owner, evaluation>> /\ mine' = [mine EXCEPT ![p] = NoRun]
    BY <1>5 DEF Raises, Raise, Fails, FlushFails, CloseSession
  <2> QED BY <2>1
<1>6. ASSUME NEW b \in Batches, FindLast(b) \/ MarkFailed(b) \/ EndBatch(b) PROVE Owned'
  <2>1. /\ UNCHANGED <<owner, evaluation>>
        /\ mine' = mine \/ mine' = [mine EXCEPT ![b] = NoRun]
    BY <1>6 DEF FindLast, MarkFailed, EndBatch, CloseSession
  <2> QED BY <2>1
<1>7. ASSUME NEW i \in Ids, \/ RequeueRun(i) \/ JobQuiet(i) \/ JobStore(i)
                            \/ JobAnswer(i) \/ JobScore(i) \/ JobMarkWrite(i)
      PROVE  Owned'
  <2>1. UNCHANGED <<owner, mine>>
    BY <1>7 DEF RequeueRun, JobQuiet, database, JobStore, JobAnswer, JobScore,
                JobMarkWrite, JobGoto
  <2>2. evaluation' = evaluation \/ evaluation' = [evaluation EXCEPT ![i] = "llm"]
    BY <1>7 DEF RequeueRun, JobQuiet, database, JobStore, JobAnswer, JobScore, JobMarkWrite
  <2> QED BY <2>1, <2>2
<1>8. CASE DeleteDocument BY <1>8 DEF DeleteDocument
<1> QED BY <1>1, <1>2, <1>3, <1>4, <1>5, <1>6, <1>7, <1>8, Steps

-----------------------------------------------------------------------------
(* The trace of a run. *)

\* Rows are lost to a deletion or kept.
LEMMA RetrievedStep ==
    ASSUME TypeOK, Tallied, Created, [Next]_vars, NEW i \in Ids, Retrieved(i)
    PROVE  Retrieved(i)'
<1> USE Numbers DEF TypeOK, Retrieved, runs, jobs, session
<1>1. CASE UNCHANGED vars BY <1>1 DEF vars
<1>2. ASSUME NEW p \in Actors, CreateRun(p) PROVE Retrieved(i)'
  BY <1>2 DEF CreateRun
<1>3. ASSUME NEW p \in Actors, SearchChunks(p) \/ RefreshRun(p) \/ Raises(p) \/ Fails(p)
      PROVE  Retrieved(i)'
  BY <1>3 DEF SearchChunks, RefreshRun, Raises, Raise, Fails, FlushFails
<1>4. ASSUME NEW p \in Actors, StoreRetrieval(p) PROVE Retrieved(i)'
  <2>1. CASE p \in Batches BY <1>4, <2>1 DEF StoreRetrieval, StoreAndFlush
  <2>2. CASE p \notin Batches
    BY <1>4, <2>2, ZenonT(30) DEF StoreRetrieval, StoreAndCommit
  <2> QED BY <2>1, <2>2
<1>5. ASSUME NEW p \in Actors, Complete(p) PROVE Retrieved(i)'
  BY <1>5 DEF Complete
<1>6. ASSUME NEW b \in Batches, FindLast(b) \/ MarkFailed(b) \/ EndBatch(b)
      PROVE  Retrieved(i)'
  BY <1>6 DEF FindLast, MarkFailed, EndBatch
<1>7. ASSUME NEW j \in Ids, \/ RequeueRun(j) \/ JobQuiet(j)
                            \/ JobAnswer(j) \/ JobScore(j) \/ JobMarkWrite(j)
      PROVE  Retrieved(i)'
  BY <1>7 DEF RequeueRun, JobQuiet, database, JobAnswer, JobScore, JobMarkWrite, JobGoto
<1>8. ASSUME NEW j \in Ids, JobStore(j) PROVE Retrieved(i)'
  BY <1>8, ZenonT(30) DEF JobStore, JobGoto
<1>9. CASE DeleteDocument BY <1>9 DEF DeleteDocument
<1> QED BY <1>1, <1>2, <1>3, <1>4, <1>5, <1>6, <1>7, <1>8, <1>9, Steps

LEMMA TraceStep ==
    ASSUME TypeOK, Tallied, Created, Owned, CompletedHasTrace, Backed, [Next]_vars
    PROVE  CompletedHasTrace' /\ Backed'
<1>0. \A i \in Ids : Retrieved(i) => Retrieved(i)' BY RetrievedStep
<1> DEFINE Fact(i) ==
        /\ status[i] = "completed" => evaluation[i] # "none"
        /\ evaluation[i] # "none" => Retrieved(i)
        /\ evaluation[i] = "llm" => generation[i]
        /\ status[i] = "generation_completed" => generation[i]
        /\ generation[i] => Retrieved(i)
        /\ job[i] = "answer" => Retrieved(i)
        /\ job[i] = "score" => generation[i]
<1>a. ASSUME NEW i \in Ids PROVE Fact(i)
  <2>1. /\ status[i] = "completed" => evaluation[i] # "none"
        /\ evaluation[i] # "none" => Retrieved(i)
        /\ evaluation[i] = "llm" => generation[i]
    BY DEF CompletedHasTrace, Retrieved
  <2>2. /\ status[i] = "generation_completed" => generation[i]
        /\ generation[i] => Retrieved(i)
        /\ job[i] = "answer" => Retrieved(i)
        /\ job[i] = "score" => generation[i]
    BY DEF Backed
  <2> QED BY <2>1, <2>2
<1> SUFFICES ASSUME NEW i \in Ids PROVE Fact(i)'
  BY DEF CompletedHasTrace, Backed, Retrieved
<1>b. Fact(i) /\ (Retrieved(i) => Retrieved(i)') BY <1>0, <1>a
<1> USE Numbers DEF TypeOK, runs, jobs, session
<1>1. CASE UNCHANGED <<status, evaluation, generation, job>> BY <1>b, <1>1
<1>2. ASSUME NEW p \in Actors, CreateRun(p) PROVE Fact(i)'
  <2>1. /\ UNCHANGED <<evaluation, generation, job>>
        /\ status'[i] \in {"running", "retrieval_completed", status[i]}
    BY <1>2 DEF CreateRun
  <2> QED BY <1>b, <2>1
<1>3. ASSUME NEW p \in Actors, StoreRetrieval(p) PROVE Fact(i)'
  <2>1. /\ UNCHANGED <<evaluation, generation, job>>
        /\ status'[i] \in {"retrieval_completed", status[i]}
    BY <1>3 DEF StoreRetrieval, StoreAndFlush, StoreAndCommit
  <2> QED BY <1>b, <2>1
<1>4. ASSUME NEW p \in Actors, Complete(p) PROVE Fact(i)'
  <2>1. mine[p] \in Ids /\ UNCHANGED <<generation, job>>
    BY <1>4 DEF Complete, Created
  <2>2. CASE i = mine[p]
    <3>1. status'[i] = "completed" /\ evaluation'[i] = "heuristic" /\ Retrieved(i)'
      BY <1>4, <2>2 DEF Complete, Retrieved
    <3> QED BY <1>b, <2>1, <3>1
  <2>3. CASE i # mine[p]
    <3>1. status'[i] = status[i] /\ evaluation'[i] = evaluation[i]
      BY <1>4, <2>1, <2>3 DEF Complete
    <3> QED BY <1>b, <2>1, <3>1
  <2> QED BY <2>2, <2>3
<1>5. ASSUME NEW b \in Batches, MarkFailed(b) PROVE Fact(i)'
  <2>1. UNCHANGED <<evaluation, generation, job>> /\ status'[i] \in {"failed", status[i]}
    BY <1>5 DEF MarkFailed
  <2> QED BY <1>b, <2>1
<1>6. ASSUME NEW j \in Ids, RequeueRun(j) PROVE Fact(i)'
  <2>1. /\ UNCHANGED <<evaluation, generation>>
        /\ job'[i] \in {"enter", job[i]}
        /\ \/ status'[i] \in {"running", "retrieval_completed", status[i]}
           \/ status'[i] = "generation_completed" /\ generation[i]
    BY <1>6 DEF RequeueRun, ResumeStatus
  <2> QED BY <1>b, <2>1
<1>7. ASSUME NEW j \in Ids, JobQuiet(j) PROVE Fact(i)'
  <2>1. UNCHANGED <<status, rows, evaluation, generation>> BY <1>7 DEF JobQuiet, database
  <2>2. /\ job'[i] = "answer" => job[i] = "answer" \/ rows[i]
        /\ job'[i] = "score" => job[i] = "score" \/ status[i] = "generation_completed"
    BY <1>7 DEF JobQuiet
  <2>3. rows[i] => Retrieved(i)' BY <2>1 DEF Retrieved
  <2> QED BY <1>b, <2>1, <2>2, <2>3
<1>8. ASSUME NEW j \in Ids, JobStore(j) \/ JobMarkWrite(j) PROVE Fact(i)'
  <2>1. /\ UNCHANGED <<evaluation, generation>>
        /\ status'[i] \in {"retrieval_completed", "failed", status[i]}
        /\ job'[i] \in {"generate", "over", job[i]}
    BY <1>8 DEF JobStore, JobMarkWrite, JobGoto
  <2> QED BY <1>b, <2>1
<1>9. ASSUME NEW j \in Ids, JobAnswer(j) PROVE Fact(i)'
  <2>1. UNCHANGED evaluation BY <1>9 DEF JobAnswer
  <2>2. CASE i = j
    <3>1. /\ job[i] = "answer" /\ job'[i] = "judge" /\ generation'[i]
          /\ status'[i] = "generation_completed"
      BY <1>9, <2>2 DEF JobAnswer, JobGoto
    <3> QED BY <1>b, <2>1, <3>1
  <2>3. CASE i # j
    <3>1. job'[i] = job[i] /\ generation'[i] = generation[i] /\ status'[i] = status[i]
      BY <1>9, <2>3 DEF JobAnswer, JobGoto
    <3> QED BY <1>b, <2>1, <3>1
  <2> QED BY <2>2, <2>3
<1>10. ASSUME NEW j \in Ids, JobScore(j) PROVE Fact(i)'
  <2>1. UNCHANGED generation BY <1>10 DEF JobScore
  <2>2. CASE i = j
    <3>1. /\ job[i] = "score" /\ job'[i] = "over" /\ evaluation'[i] = "llm"
          /\ status'[i] = "completed"
      BY <1>10, <2>2 DEF JobScore, JobGoto
    <3> QED BY <1>b, <2>1, <3>1
  <2>3. CASE i # j
    <3>1. job'[i] = job[i] /\ evaluation'[i] = evaluation[i] /\ status'[i] = status[i]
      BY <1>10, <2>3 DEF JobScore, JobGoto
    <3> QED BY <1>b, <2>1, <3>1
  <2> QED BY <2>2, <2>3
<1>11. ASSUME NEW p \in Actors, SearchChunks(p) \/ RefreshRun(p) \/ Raises(p) \/ Fails(p)
       PROVE  Fact(i)'
  <2>1. UNCHANGED <<status, evaluation, generation, job>>
    BY <1>11 DEF SearchChunks, RefreshRun, Raises, Raise, Fails, FlushFails
  <2> QED BY <1>1, <2>1
<1>12. ASSUME NEW b \in Batches, FindLast(b) \/ EndBatch(b) PROVE Fact(i)'
  <2>1. UNCHANGED <<status, evaluation, generation, job>> BY <1>12 DEF FindLast, EndBatch
  <2> QED BY <1>1, <2>1
<1>13. CASE DeleteDocument
  <2>1. UNCHANGED <<status, evaluation, generation, job>> BY <1>13 DEF DeleteDocument
  <2> QED BY <1>1, <2>1
<1>14. CASE UNCHANGED vars
  <2>1. UNCHANGED <<status, evaluation, generation, job>> BY <1>14 DEF vars
  <2> QED BY <1>1, <2>1
<1> HIDE DEF Fact
<1> QED BY <1>2, <1>3, <1>4, <1>5, <1>6, <1>7, <1>8, <1>9, <1>10, <1>11, <1>12, <1>13,
           <1>14, Steps

-----------------------------------------------------------------------------
(* A batch counts the runs it completed. *)

LEMMA CountedStep ==
    ASSUME TypeOK, Tallied, Created, Owned, Counted, [Next]_vars
    PROVE  Counted'
<1> USE Numbers DEF TypeOK, Owned, runs, jobs, tally
<1>0. \A b \in Batches : IsFiniteSet(Evaluated(b))
  BY FS_Subset DEF Evaluated
<1>1. ASSUME UNCHANGED <<owner, evaluation, successes>> PROVE Counted'
  BY <1>1 DEF Counted, Evaluated
<1>2. CASE UNCHANGED vars BY <1>1, <1>2 DEF vars
<1>3. ASSUME NEW p \in Actors, CreateRun(p) PROVE Counted'
  <2>1. last + 1 \in Ids /\ evaluation[last + 1] = "none"
    BY <1>3 DEF CreateRun, Ids, NoRun, Created
  <2>2. /\ UNCHANGED <<evaluation, successes>>
        /\ owner' = [owner EXCEPT ![last + 1] = p]
    BY <1>3 DEF CreateRun
  <2>3. \A b \in Batches : Evaluated(b)' = Evaluated(b)
    BY <2>1, <2>2 DEF Evaluated
  <2> QED BY <2>2, <2>3 DEF Counted
<1>4. ASSUME NEW p \in Actors, \/ SearchChunks(p) \/ StoreRetrieval(p) \/ RefreshRun(p)
                               \/ Raises(p) \/ Fails(p)
      PROVE  Counted'
  BY <1>1, <1>4 DEF SearchChunks, StoreRetrieval, RefreshRun, Raises, Raise, Fails, FlushFails
<1>5. ASSUME NEW p \in Actors, Complete(p) PROVE Counted'
  <2>1. /\ mine[p] \in Ids /\ owner[mine[p]] = p /\ evaluation[mine[p]] # "heuristic"
        /\ UNCHANGED owner
        /\ evaluation' = [evaluation EXCEPT ![mine[p]] = "heuristic"]
    BY <1>5 DEF Complete, Created
  <2>2. p \in Batches => successes' = [successes EXCEPT ![p] = successes[p] + 1]
    BY <1>5 DEF Complete
  <2>3. p \notin Batches => UNCHANGED successes
    BY <1>5 DEF Complete
  <2>4. ASSUME NEW b \in Batches, b # p
        PROVE  successes'[b] = Cardinality(Evaluated(b)')
    <3>1. Evaluated(b)' = Evaluated(b) BY <2>1, <2>4 DEF Evaluated
    <3> QED BY <2>2, <2>3, <2>4, <3>1 DEF Counted
  <2>5. ASSUME p \in Batches
        PROVE  successes'[p] = Cardinality(Evaluated(p)')
    <3>1. Evaluated(p)' = Evaluated(p) \cup {mine[p]} /\ mine[p] \notin Evaluated(p)
      BY <2>1 DEF Evaluated
    <3>2. Cardinality(Evaluated(p)') = Cardinality(Evaluated(p)) + 1
      BY <1>0, <2>5, <3>1, FS_AddElement, ZenonT(30)
    <3> QED BY <2>2, <2>5, <3>2 DEF Counted
  <2> QED BY <2>4, <2>5 DEF Counted
<1>6. ASSUME NEW b \in Batches, FindLast(b) \/ MarkFailed(b) \/ EndBatch(b) PROVE Counted'
  BY <1>1, <1>6 DEF FindLast, MarkFailed, EndBatch
<1>7. ASSUME NEW i \in Ids, \/ RequeueRun(i) \/ JobQuiet(i) \/ JobStore(i)
                            \/ JobAnswer(i) \/ JobMarkWrite(i)
      PROVE  Counted'
  BY <1>1, <1>7 DEF RequeueRun, JobQuiet, database, JobStore, JobAnswer, JobMarkWrite, JobGoto
<1>8. ASSUME NEW i \in Ids, JobScore(i) PROVE Counted'
  <2>1. /\ UNCHANGED <<owner, successes>>
        /\ evaluation[i] = "none"
        /\ evaluation' = [evaluation EXCEPT ![i] = "llm"]
    BY <1>8 DEF JobScore, JobGoto
  <2>2. \A b \in Batches : Evaluated(b)' = Evaluated(b)
    BY <2>1 DEF Evaluated
  <2> QED BY <2>1, <2>2 DEF Counted
<1>9. CASE DeleteDocument BY <1>1, <1>9 DEF DeleteDocument
<1> QED BY <1>2, <1>3, <1>4, <1>5, <1>6, <1>7, <1>8, <1>9, Steps

-----------------------------------------------------------------------------
(* The invariant. *)

LEMMA InitInv == Init => HeuristicInv
<1> SUFFICES ASSUME Init PROVE HeuristicInv OBVIOUS
<1> USE Numbers DEF Init
<1>1. TypeOK BY DEF TypeOK, Statuses
<1>2. Tallied BY DEF Tallied
<1>3. Created BY DEF Created
<1>4. Owned BY DEF Owned
<1>5. CompletedHasTrace /\ Backed BY DEF CompletedHasTrace, Backed
<1>6. Counted
  <2>1. \A b \in Batches : Evaluated(b) = {} BY DEF Evaluated
  <2> QED BY <2>1, FS_EmptySet DEF Counted
<1> QED BY <1>1, <1>2, <1>3, <1>4, <1>5, <1>6 DEF HeuristicInv

LEMMA NextInv == HeuristicInv /\ [Next]_vars => HeuristicInv'
BY TypeStep, TalliedStep, CreatedStep, OwnedStep, TraceStep, CountedStep DEF HeuristicInv

LEMMA Inductive == Spec => []HeuristicInv
BY InitInv, NextInv, PTL DEF Spec

\* The type invariant holds for all handlers, batches, cells and requeues.
THEOREM HeuristicTypeCorrect == Spec => []TypeOK
<1>1. HeuristicInv => TypeOK BY DEF HeuristicInv
<1> QED BY <1>1, Inductive, PTL

\* No interleaving of handlers, batches that mark each other's runs failed,
\* requeued jobs and deleted documents completes a run without an evaluation,
\* or evaluates one that has no rows for another reason than a deletion.
THEOREM CompletedBacked == Spec => []CompletedHasTrace
<1>1. HeuristicInv => CompletedHasTrace BY DEF HeuristicInv
<1> QED BY <1>1, Inductive, PTL

\* The counters run_batch_benchmark reports agree with the database at every
\* step: its successes are the runs it created and evaluated heuristically,
\* also when a requeued job works on the same run.
THEOREM BatchesAccount == Spec => []BatchAccounts
<1>1. HeuristicInv => BatchAccounts
  BY DEF HeuristicInv, Tallied, Counted, Evaluated, BatchAccounts
<1> QED BY <1>1, Inductive, PTL

=============================================================================
