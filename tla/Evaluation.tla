----------------------------- MODULE Evaluation -----------------------------
(***************************************************************************)
(* How a run is judged: the heuristic scores, the answer of the LLM judge  *)
(* with its one retry, the gate of hybrid runs, the failure type, and the  *)
(* tokens, costs and counters that are stored.                             *)
(*                                                                         *)
(* A value that may be None is a set: {} or one element.  Scores that are  *)
(* computed are fractions <<n, d>>, thresholds and scores the judge gives  *)
(* are hundredths.  A text is the set of its words.                        *)
(***************************************************************************)
EXTENDS Integers, FiniteSets, Sequences, SequencesExt, FiniteSetsExt

None == {}
The(x) == CHOOSE v \in x : TRUE
ValueOf(x) == IF x = None THEN 0 ELSE The(x)
Below(f, hundredths) == f[1] * 100 < hundredths * f[2]
Clamp(n, top) == IF n < 0 THEN 0 ELSE IF n > top THEN top ELSE n

-----------------------------------------------------------------------------
(* Failure types.  A label is [form, of]: written exactly, in another case  *)
(* or with spaces, as an alias of NO_FAILURE, something else, or missing.   *)

FailureTypes ==
    {"NO_FAILURE", "RETRIEVAL_MISS", "RETRIEVAL_PARTIAL", "CHUNK_FRAGMENTATION",
     "CONTEXT_INSUFFICIENT", "CONTEXT_TRUNCATION", "ANSWER_UNSUPPORTED",
     "ANSWER_INCOMPLETE", "MIXED_FAILURE", "UNKNOWN"}

normalize_failure_type(label) ==
    CASE label.form = "missing" -> None
      [] label.form \in {"exact", "loose"} -> {label.of}
      [] label.form = "alias" -> {"NO_FAILURE"}
      [] label.form = "other" -> {"UNKNOWN"}

failure_type_for_storage(label) ==
    IF normalize_failure_type(label) = None THEN "UNKNOWN"
    ELSE The(normalize_failure_type(label))

-----------------------------------------------------------------------------
(* Heuristic scores. *)

RelevancePartial == 30
ContextInsufficient == 40
CompletenessIncomplete == 50

classify_heuristic_failure_from_scores(miss, relevance, coverage, completeness) ==
    IF miss THEN "RETRIEVAL_MISS"
    ELSE IF \E f \in relevance : Below(f, RelevancePartial) THEN "RETRIEVAL_PARTIAL"
    ELSE IF \E f \in coverage : Below(f, ContextInsufficient) THEN "CONTEXT_INSUFFICIENT"
    ELSE IF \E f \in completeness : Below(f, CompletenessIncomplete) THEN "ANSWER_INCOMPLETE"
    ELSE "NO_FAILURE"

ShortWords == {"a"}     \* words of one character are not significant
significant_tokens(text) == text \ ShortWords

token_recall(tokens, corpus) ==
    IF tokens = {} THEN None
    ELSE {<<Cardinality(tokens \cap significant_tokens(corpus)), Cardinality(tokens)>>}

ScoreSum(scores) == FoldLeft(+, 0, scores)

\* found is the retrieval of the run: the scores of its rows in rank order,
\* in hundredths, and the text of their chunks.
compute_minimal_retrieval_evaluation(found, query, expected) ==
    IF found.scores = << >>
    THEN [faithfulness |-> None, completeness |-> None, relevance |-> None,
          coverage |-> None, failure |-> "RETRIEVAL_MISS", llm |-> FALSE, type |-> "heuristic"]
    ELSE LET relevance == {<<ScoreSum(found.scores), 100 * Len(found.scores)>>}
             coverage == token_recall(significant_tokens(query), found.text)
             completeness == token_recall(significant_tokens(expected), found.text)
         IN  [faithfulness |-> None, completeness |-> completeness, relevance |-> relevance,
              coverage |-> coverage, llm |-> FALSE, type |-> "heuristic",
              failure |-> classify_heuristic_failure_from_scores(FALSE, relevance, coverage, completeness)]

\* Mutant: the gate looks at the best chunk only.
GateMaxOnly(best, relevance, coverage) == best >= 88

hybrid_retrieval_gate_passes(best, relevance, coverage) ==
    /\ relevance # None /\ coverage # None
    /\ best >= 88
    /\ \A f \in relevance : ~Below(f, 55)
    /\ \A f \in coverage : ~Below(f, 42)

\* The rows are read twice more after the gate, last for the answer's tokens:
\* documents may go in between and take rows along.
compute_hybrid_skipped_evaluation(found, last, query, expected, answer) ==
    LET base == compute_minimal_retrieval_evaluation(found, query, expected)
    IN  IF last.scores = << >> THEN base
        ELSE [base EXCEPT !.faithfulness = token_recall(significant_tokens(answer), last.text)]

-----------------------------------------------------------------------------
(* Batches may disturb the hits and the scores. *)

perturb_search_chunk_hits(hits, empty, drop, order) ==
    LET kept == IF drop THEN Tail(hits) ELSE hits
    IN  IF hits = << >> \/ empty THEN << >>
        ELSE [i \in DOMAIN kept |-> IF i = 1 THEN kept[1] ELSE kept[order[i]]]

Nudged(score, noise) ==
    {<<Clamp(f[1] * 100 + noise * f[2], 100 * f[2]), 100 * f[2]>> : f \in score}

-----------------------------------------------------------------------------
(* The judge.  A raw answer is described by what each attempt to read it    *)
(* meets: fence and whole are "object", "invalid" or "none" (no such text;  *)
(* for whole, valid JSON that is no object is "other"), brace is the text   *)
(* from the first brace to the one that balances it.                        *)

SCORE_KEYS == {"faithfulness", "completeness", "groundedness", "retrieval_relevance",
               "context_coverage"}

extract_judge_json_object(raw) ==
    LET fence == IF raw.fence = "invalid" THEN {"fenced_json_invalid"} ELSE {}
        brace == IF raw.brace = "invalid" THEN {"balanced_brace_json_invalid"} ELSE {}
        whole == CASE raw.whole = "object" -> {}
                   [] raw.whole = "other" -> {"json_root_not_object"}
                   [] OTHER -> {"json_decode_failed"}
    IN  IF raw.whole = "none" THEN [found |-> FALSE, warnings |-> {"empty_judge_response"}]
        ELSE IF raw.fence = "object" THEN [found |-> TRUE, warnings |-> {}]
        ELSE IF raw.brace = "object" THEN [found |-> TRUE, warnings |-> fence]
        ELSE [found |-> raw.whole = "object", warnings |-> fence \cup brace \cup whole]

\* A value is [kind, n]: "absent", "null", "bad" (no number, or NaN) or a number.
Number(v) == IF v.kind = "number" THEN {v.n} ELSE None

\* Mutant: scores are stored as they came.
ScoreUnclamped(v) == Number(v)
_clamp01_val(v) == {Clamp(n, 100) : n \in Number(v)}

parse_judge_payload(data, extracted) ==
    LET present == {k \in SCORE_KEYS : extracted /\ data.scores[k].kind # "absent"}
        label == IF extracted THEN data.label ELSE [form |-> "missing", of |-> "UNKNOWN"]
        failure == failure_type_for_storage(label)
    IN  [scores |-> [k \in SCORE_KEYS |-> IF k \in present THEN _clamp01_val(data.scores[k]) ELSE None],
         failure |-> failure,
         warnings |-> {"invalid_numeric" : k \in {j \in present : data.scores[j].kind = "bad"}}
             \cup (IF label.form = "missing" THEN {"failure_type_missing_default_unknown"}
                   ELSE IF label.form = "other"
                   THEN {"failure_type_unrecognized_normalized_to_unknown"} ELSE {}),
         clamped |-> \E k \in present : \E n \in Number(data.scores[k]) : n < 0 \/ n > 100]

Critical == {"empty_judge_response", "json_decode_failed", "json_root_not_object",
             "balanced_brace_json_invalid", "fenced_json_invalid"}
_compute_judge_parse_ok(warnings) == warnings \cap Critical = {}

\* _build_result_from_raw: answer is [raw, data, input, output], as of one call.
BuildResult(answer) ==
    LET x == extract_judge_json_object(answer.raw)
        p == parse_judge_payload(answer.data, x.found)
    IN  [scores |-> p.scores, failure |-> p.failure, type |-> "llm",
         ok |-> _compute_judge_parse_ok(x.warnings \cup p.warnings),
         input |-> answer.input, output |-> answer.output]

SumTokens(a, b) == IF a \cup b = None THEN None ELSE {ValueOf(a) + ValueOf(b)}

WithRetry(result, calls, initial, attempted, succeeded, input, output) ==
    [scores |-> result.scores, failure |-> result.failure, type |-> result.type, ok |-> result.ok,
     calls |-> calls, initial |-> initial, attempted |-> attempted, succeeded |-> succeeded,
     input |-> input, output |-> output]

\* Mutant: the tokens are those of the call whose answer is kept.
JudgeForgetsTokens(first, second) ==
    LET r1 == BuildResult(first)  r2 == BuildResult(second)
    IN  IF r1.ok THEN WithRetry(r1, 1, TRUE, FALSE, FALSE, r1.input, r1.output)
        ELSE WithRetry(r2, 2, FALSE, TRUE, r2.ok, r2.input, r2.output)

\* The second answer is asked for only after a first that does not parse, and
\* is kept whatever it is; calls is the number of calls made.
evaluate_with_llm_judge(first, second) ==
    LET r1 == BuildResult(first)  r2 == BuildResult(second)
    IN  IF r1.ok THEN WithRetry(r1, 1, TRUE, FALSE, FALSE, r1.input, r1.output)
        ELSE WithRetry(r2, 2, FALSE, TRUE, r2.ok,
                       SumTokens(r1.input, r2.input), SumTokens(r1.output, r2.output))

-----------------------------------------------------------------------------
(* Costs, in millionths of a dollar; rates are tenths of a dollar per       *)
(* million tokens.                                                          *)

\* Decimal.quantize: halves go to the even neighbour.
HalfEven(n, d) ==
    LET q == n \div d  r == 2 * (n % d)
    IN  IF r > d \/ (r = d /\ q % 2 = 1) THEN q + 1 ELSE q

estimate_usd_from_tokens(rates, input, output) ==
    IF (rates.input <= 0 /\ rates.output <= 0) \/ (input = None /\ output = None) THEN None
    ELSE {HalfEven((IF rates.input > 0 THEN rates.input * ValueOf(input) ELSE 0)
                   + (IF rates.output > 0 THEN rates.output * ValueOf(output) ELSE 0), 10)}

-----------------------------------------------------------------------------
(* The counters kept on the run. *)

Counters(mode, heuristic, generations, attempted, skipped, used, input, output, cost) ==
    [mode |-> mode, total |-> 1, heuristic |-> heuristic, llm |-> 1 - heuristic,
     generations |-> generations, attempted |-> attempted, skipped |-> skipped, used |-> used,
     input |-> input, output |-> output, cost |-> cost]

heuristic_run_instrumentation == Counters("heuristic_only", 1, 0, 0, 0, 0, None, None, None)

full_llm_run_instrumentation(judge, gen, cost) ==
    Counters("llm_only", 0, 1, 1, 0, 1,
             SumTokens(gen.input, judge.input), SumTokens(gen.output, judge.output), cost)

hybrid_skipped_judge_instrumentation(gen, cost) ==
    Counters("hybrid", 1, 1, 1, 1, 0, gen.input, gen.output, cost)

\* The evaluator bucket of a row, in Python and in SQL.  type is the optional
\* metadata_json->>'evaluator_type'; a truth value of SQL is {TRUE}, {FALSE} or,
\* for NULL, {}.  WHERE and FILTER keep the rows whose condition is {TRUE}.
resolved_evaluator_type(llm, type) == IF llm \/ type = {"llm"} THEN "llm" ELSE "heuristic"

Or3(a, b) == IF TRUE \in a \cup b THEN {TRUE} ELSE IF a = {} \/ b = {} THEN {} ELSE {FALSE}
sql_is_llm_bucket(llm, type) == Or3({llm}, {t = "llm" : t \in type})
sql_is_heuristic_bucket(llm, type) == {~b : b \in sql_is_llm_bucket(llm, type)}

-----------------------------------------------------------------------------
(* A heuristic cell of a batch. *)

classify_low_quality_failure(relevance, coverage, completeness, current) ==
    IF current = "RETRIEVAL_MISS" THEN current
    ELSE classify_heuristic_failure_from_scores(FALSE, relevance, coverage, completeness)

Retrieved(hits) == [scores |-> [i \in DOMAIN hits |-> hits[i].score],
                    text |-> UNION {hits[i].text : i \in DOMAIN hits}]

\* Mutant: the label stays the one of the scores before the noise.
DisturbQuietly(ev, noise) ==
    [ev EXCEPT !.relevance = Nudged(ev.relevance, noise.relevance),
               !.coverage = Nudged(ev.coverage, noise.coverage),
               !.completeness = Nudged(ev.completeness, noise.completeness)]

Disturbed(ev, noise) ==
    LET relevance == Nudged(ev.relevance, noise.relevance)
        coverage == Nudged(ev.coverage, noise.coverage)
        completeness == Nudged(ev.completeness, noise.completeness)
    IN  [ev EXCEPT !.relevance = relevance, !.coverage = coverage, !.completeness = completeness,
                   !.failure = classify_low_quality_failure(relevance, coverage, completeness, @)]

\* A heuristic cell of a batch: realism is {} or one record of what the random
\* numbers chose.  A cell without hits gets no further (see HeuristicRuns).
HeuristicCell(hits, query, expected, realism) ==
    LET kept == IF realism = None THEN hits
                ELSE LET r == The(realism)
                     IN  perturb_search_chunk_hits(hits, r.empty, r.drop, r.order)
        ev == compute_minimal_retrieval_evaluation(Retrieved(kept), query, expected)
    IN  [rows |-> kept, counters |-> heuristic_run_instrumentation,
         ev |-> IF realism = None THEN ev ELSE Disturbed(ev, The(realism).noise)]

-----------------------------------------------------------------------------
(* execute_llm_judge_and_complete_run, as far as values go.  run is [hybrid,*)
(* reads, query, expected], where reads are the rows found by its four reads*)
(* of them, in order; gen is [answer, input, output].                       *)

generate_rag_answer(words) == IF words = {} THEN {"empty", "model", "response"} ELSE words

Best(found) == FoldLeft(LAMBDA x, y : IF x >= y THEN x ELSE y, 0, found.scores)

\* The best chunk is of the first read, the scores are of the second.
GatePasses(run) ==
    LET pre == compute_minimal_retrieval_evaluation(Retrieved(run.reads[2]), run.query, run.expected)
    IN  /\ run.hybrid
        /\ hybrid_retrieval_gate_passes(Best(Retrieved(run.reads[1])), pre.relevance, pre.coverage)

SkippedJudge(run, gen, rates) ==
    LET ev == compute_hybrid_skipped_evaluation(
                  Retrieved(run.reads[3]), Retrieved(run.reads[4]), run.query, run.expected,
                  generate_rag_answer(gen.answer))
        cost == estimate_usd_from_tokens(rates, gen.input, gen.output)
    IN  [ev |-> ev, failure |-> ev.failure, llm |-> FALSE, type |-> ev.type, calls |-> 0, cost |-> cost,
         gateFailed |-> FALSE, counters |-> hybrid_skipped_judge_instrumentation(gen, cost)]

FullJudge(run, gen, first, second, rates) ==
    LET ev == evaluate_with_llm_judge(first, second)
        cost == SumTokens(estimate_usd_from_tokens(rates, gen.input, gen.output),
                          estimate_usd_from_tokens(rates, ev.input, ev.output))
    IN  [ev |-> ev, failure |-> ev.failure, llm |-> TRUE, type |-> ev.type, calls |-> ev.calls, cost |-> cost,
         gateFailed |-> run.hybrid, counters |-> full_llm_run_instrumentation(ev, gen, cost)]

Evaluate(run, gen, first, second, rates) ==
    IF GatePasses(run) THEN SkippedJudge(run, gen, rates)
    ELSE FullJudge(run, gen, first, second, rates)
=============================================================================
