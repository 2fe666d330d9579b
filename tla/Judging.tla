------------------------------ MODULE Judging -------------------------------
(***************************************************************************)
(* The evaluation of runs: calls of execute_llm_judge_and_complete_run for *)
(* one run with what the provider answered, and of a heuristic cell with   *)
(* what its realism profile drew.                                          *)
(***************************************************************************)
EXTENDS Evaluation, Calls

CONSTANTS
    Words,          \* what questions, answers and chunks are made of
    JudgedRuns,     \* [hybrid, reads, query, expected], see Evaluate
    Generations,    \* [answer, input, output]: answers and their token counts
    Answers,        \* [raw, data, input, output]: of one call of the judge
    Rates,          \* [input, output]: prices of tokens
    Cells           \* [hits, query, expected, realism], see HeuristicCell

\* What a call of a provider used, if it tells.
Billed(call) == Optional(call.input) /\ Optional(call.output)

Raw == [fence : {"object", "invalid", "none"}, brace : {"object", "invalid", "none"},
        whole : {"object", "other", "invalid", "none"}]
Data == [scores : [SCORE_KEYS -> [kind : {"absent", "null", "bad", "number"}, n : Int]],
         label : [form : {"missing", "exact", "loose", "alias", "other"}, of : FailureTypes]]

ASSUME WordsAssumption == IsFiniteSet(Words)

\* A hit of a search, and a row that keeps it.
HitSet == [chunk : Nat, score : -100..100, text : SUBSET Words]

\* Between two reads documents may be deleted: the rows of their chunks go
\* along, the others stay in their order.
ASSUME RunsAssumption ==
    \A run \in JudgedRuns :
        /\ run.hybrid \in BOOLEAN /\ run.query \in SUBSET Words /\ run.expected \in SUBSET Words
        /\ run.reads \in [1..4 -> Seq(HitSet)]
        /\ \A i \in 1..3 : \E gone \in SUBSET {run.reads[i][j].chunk : j \in DOMAIN run.reads[i]} :
               run.reads[i + 1] = SelectSeq(run.reads[i], LAMBDA hit : hit.chunk \notin gone)

ASSUME CallsAssumption ==
    /\ \A gen \in Generations : Billed(gen)
    /\ \A answer \in Answers : Billed(answer) /\ answer.raw \in Raw /\ answer.data \in Data
    /\ \A rates \in Rates : rates.input \in Int /\ rates.output \in Int

\* The hits of a search are different chunks; what a profile draws is the order
\* of the hits it keeps, the first staying first, and a noise for each score.
Kept(cell, drawn) == Len(cell.hits) - IF drawn.drop THEN 1 ELSE 0
ASSUME CellsAssumption ==
    \A cell \in Cells :
        /\ cell.hits \in Seq(HitSet) /\ cell.hits # << >>
        /\ \A i, j \in DOMAIN cell.hits : cell.hits[i].chunk = cell.hits[j].chunk => i = j
        /\ cell.query \in SUBSET Words /\ cell.expected \in SUBSET Words
        /\ \A drawn, other \in cell.realism : drawn = other
        /\ \A drawn \in cell.realism :
             /\ drawn.empty \in BOOLEAN /\ drawn.drop \in BOOLEAN
             /\ drawn.order \in [1..Kept(cell, drawn) -> 1..Kept(cell, drawn)]
             /\ \A i, j \in DOMAIN drawn.order : drawn.order[i] = drawn.order[j] => i = j
             /\ Kept(cell, drawn) > 0 => drawn.order[1] = 1
             /\ drawn.noise \in [relevance : Int, coverage : Int, completeness : Int]

-----------------------------------------------------------------------------
CallJudge ==
    \E run \in JudgedRuns, gen \in Generations, first, second \in Answers, rates \in Rates :
        input' = [call |-> "judge", run |-> run, gen |-> gen, first |-> first, second |-> second,
                  rates |-> rates]

CallCell == \E cell \in Cells : input' = [call |-> "cell", cell |-> cell]

-----------------------------------------------------------------------------
(* The judge. *)

Judged == Evaluate(input.run, input.gen, input.first, input.second, input.rates)

\* What is known and what was paid of one side of the bills, for n calls of the
\* judge.  A negative price is none.
Known(n, of) == \/ input.gen[of] # None
                \/ n > 0 /\ input.first[of] # None
                \/ n > 1 /\ input.second[of] # None
Paid(n, of) == ValueOf(input.gen[of]) + (IF n > 0 THEN ValueOf(input.first[of]) ELSE 0)
                                      + (IF n > 1 THEN ValueOf(input.second[of]) ELSE 0)
Exactly(n, of, stored) == stored = IF Known(n, of) THEN {Paid(n, of)} ELSE None
Charged(rate) == IF rate > 0 THEN rate ELSE 0
Price(of) == Charged(input.rates[of])

(* Every token of the generation and of each call of the judge is counted once, a retry's    *)
(* too; the cost is theirs to a millionth, and unknown only when there is no price or no     *)
(* count; and the counters agree with each other and with the bucket of the row, in Python   *)
(* and in SQL (full_rag_evaluation.py:98-192, trace_instrumentation.py:34-102).              *)
TokensAndCostAddUp ==
    input.call = "judge" => \A o \in {Judged} :
        LET c == o.counters
            exact == Price("input") * Paid(o.calls, "input") + Price("output") * Paid(o.calls, "output")
        IN  /\ Exactly(o.calls, "input", c.input) /\ Exactly(o.calls, "output", c.output)
            /\ o.cost = None <=> \/ Price("input") = 0 /\ Price("output") = 0
                                 \/ ~Known(o.calls, "input") /\ ~Known(o.calls, "output")
            /\ \A usd \in o.cost : usd * 10 - exact \in -10..10
            /\ c.cost = o.cost
            /\ c.attempted = c.skipped + c.used /\ (c.skipped = 1 <=> o.calls = 0)
            /\ c.llm + c.heuristic = c.total
            /\ c.llm = 1 <=> resolved_evaluator_type(o.llm, {o.type}) = "llm"
            /\ sql_is_llm_bucket(o.llm, {o.type}) = {c.llm = 1}
            /\ sql_is_heuristic_bucket(o.llm, {o.type}) = {c.heuristic = 1}

\* Where an object is looked for in an answer, in this order.
Places(raw) == <<raw.fence, raw.brace, raw.whole>>
HoldsObject(raw) == raw.whole # "none" /\ \E i \in 1..3 : Places(raw)[i] = "object"
Clean(raw) == raw.whole # "none" /\ \E i \in 1..3 : /\ Places(raw)[i] = "object"
                                                    /\ \A j \in 1..(i - 1) : Places(raw)[j] = "none"

(* At most two calls, the second exactly after an answer that is not clean; the stored scores *)
(* and label are those of one answer, the last, or none at all; scores lie between 0 and 1    *)
(* and the label is one of the taxonomy, whatever the model wrote                              *)
(* (llm_judge_parse.py:97-200, llm_judge_evaluation.py:166-270).                               *)
StoredAnswerIsSound ==
    input.call = "judge" => \A o \in {Judged} :
        LET kept == IF o.calls = 2 THEN input.second ELSE input.first
        IN  /\ o.failure \in FailureTypes
            /\ o.calls > 0 =>
                 /\ o.calls = IF Clean(input.first.raw) THEN 1 ELSE 2
                 /\ \A k \in SCORE_KEYS : \A given \in {kept.data.scores[k]} :
                      /\ o.ev.scores[k] \subseteq 0..100
                      /\ o.ev.scores[k] = None <=> ~HoldsObject(kept.raw) \/ given.kind # "number"
                      /\ given.n \in 0..100 => o.ev.scores[k] \subseteq {given.n}
                 /\ ~HoldsObject(kept.raw) => o.failure = "UNKNOWN"

LowScore(failure, ev) ==
    CASE failure = "RETRIEVAL_PARTIAL" -> \E f \in ev.relevance : f[1] * 10 < 3 * f[2]
      [] failure = "CONTEXT_INSUFFICIENT" -> \E f \in ev.coverage : f[1] * 10 < 4 * f[2]
      [] failure = "ANSWER_INCOMPLETE" -> \E f \in ev.completeness : f[1] * 10 < 5 * f[2]

Blamed == <<"RETRIEVAL_PARTIAL", "CONTEXT_INSUFFICIENT", "ANSWER_INCOMPLETE">>

\* The first label that the scores of an evaluation ask for.
Asked(ev) == LET low == {i \in DOMAIN Blamed : LowScore(Blamed[i], ev)}
             IN  IF low = {} THEN "NO_FAILURE" ELSE Blamed[Min(low)]

(* A judge is skipped only in hybrid mode, for a run with a question and rows.  A run that   *)
(* was spared the judge because its retrieval is good is labelled a failure of the retrieval  *)
(* only if rows went with their documents between the gate and the evaluation, and then as    *)
(* the rows that are left ask for: a miss if none is left, else by the scores stored beside   *)
(* the label (full_rag_evaluation.py:70-108): three thresholds of the gate, and a score of    *)
(* another read, against the four of the label.                                               *)
SkippedJudgeFindsNoMiss ==
    input.call = "judge" => \A o \in {Judged} : o.calls = 0 =>
        LET reads == input.run.reads
        IN  /\ input.run.hybrid /\ input.run.query # {} /\ reads[2] # << >>
            /\ reads[3] = reads[2] => o.failure \in {"NO_FAILURE", "ANSWER_INCOMPLETE"}
            /\ o.failure = IF reads[3] = << >> THEN "RETRIEVAL_MISS" ELSE Asked(o.ev)

-----------------------------------------------------------------------------
(* Heuristic cells. *)

Cell == HeuristicCell(input.cell.hits, input.cell.query, input.cell.expected, input.cell.realism)

(* Whatever a realism profile disturbs, the run still tells one story: its hits are hits of  *)
(* the search, none twice, its scores lie between 0 and 1, and its label is the first that    *)
(* its stored scores ask for; only an undisturbed relevance may be negative, as a mean of     *)
(* cosines (batch_runner.py:129-180, benchmark_realism.py:46-109).                             *)
DisturbedAsReported ==
    input.call = "cell" => \A o \in {Cell} :
        /\ \A i \in DOMAIN o.rows : \E j \in DOMAIN input.cell.hits : o.rows[i] = input.cell.hits[j]
        /\ \A i, j \in DOMAIN o.rows : o.rows[i].chunk = o.rows[j].chunk => i = j
        /\ input.cell.realism = None => o.rows = input.cell.hits
        /\ \A f \in o.ev.coverage \cup o.ev.completeness : f[1] \in 0..f[2]
        /\ \A f \in o.ev.relevance : f[1] \in (IF input.cell.realism = None THEN -f[2] ELSE 0)..f[2]
        /\ o.ev.failure = IF o.rows = << >> THEN "RETRIEVAL_MISS" ELSE Asked(o.ev)
=============================================================================
