----------------------------- MODULE Dashboards -----------------------------
(***************************************************************************)
(* The dashboards and the run list: what each of their queries answers for *)
(* one set of runs (see Aggregates).  The code sends them one after the    *)
(* other; the operators read one state of the database.                    *)
(***************************************************************************)
EXTENDS Aggregates

Status(runs, statuses) == {r \in runs : r.status \in statuses}
IsFailure(r) == r.ev # None /\ Failure(r) \ {"NO_FAILURE"} # {}
FailureOf(r) == Failure(r) \ {"NO_FAILURE"}

NewestFirst(runs) == Ordered(runs, LAMBDA a, b : a.day > b.day \/ (a.day = b.day /\ a.id > b.id))
FirstOf(n, s) == SubSeq(s, 1, IF Len(s) < n THEN Len(s) ELSE n)
EvaluatorType(r) == IF r.ev = None THEN "none" ELSE resolved_evaluator_type(Row(r).llm, Row(r).type)

-----------------------------------------------------------------------------
(* GET /runs and GET /runs/{id}. *)

Filtered(runs, query) ==
    {r \in runs : /\ query.dataset \subseteq {r.dataset} /\ query.config \subseteq {r.config}
                  /\ query.status \subseteq {r.status} /\ \A b \in query.evaluator : InBucket(r, b)}

count_runs(runs, query) == Cardinality(Filtered(runs, query))

list_runs(runs, query) ==
    [total |-> count_runs(runs, query),
     items |-> LET all == NewestFirst(Filtered(runs, query))
                   page == FirstOf(query.limit, SubSeq(all, query.offset + 1, Len(all)))
               IN  [i \in DOMAIN page |-> [run_id |-> page[i].id, status |-> page[i].status,
                                           evaluator_type |-> EvaluatorType(page[i]),
                                           has_evaluation |-> page[i].ev # None]]]

get_run_detail(runs, id) ==
    {[run |-> r, evaluator_type |-> EvaluatorType(r),
      generation |-> r.gen, evaluation |-> r.ev] : r \in {s \in runs : s.id = id}}

-----------------------------------------------------------------------------
(* The summary. *)

Costed(rows) == {r \in rows : r.ev # None /\ CostRow(r) # None}
MeanCost(rows) == [avg |-> Mean(Costed(rows), CostRow), count |-> Cardinality(Costed(rows))]

TotalCost(rows) == SumFunction([r \in Costed(rows) |-> The(CostRow(r))])

StatusCounts(slice) ==
    [completed |-> Cardinality(Status(slice, {"completed"})),
     failed |-> Cardinality(Status(slice, {"failed"})),
     in_progress |-> Cardinality({r \in slice : r.status \notin {"completed", "failed"}})]

EvaluatorCounts(slice) ==
    [heuristic_runs |-> Cardinality(Bucket(slice, "heuristic")),
     llm_runs |-> Cardinality(Bucket(slice, "llm")),
     runs_without_evaluation |-> Cardinality({r \in slice : r.ev = None})]

ScaleMetrics(slice) ==
    [unique_query_cases_with_runs |-> Cardinality({r.case : r \in slice}),
     total_traced_runs |-> Cardinality(Evaluated(slice)),
     configs_tested |-> Cardinality({r.config : r \in slice})]

CostSummary(slice) ==
    LET rows == Evaluated(slice)  llm == Bucket(slice, "llm")
    IN  [total |-> TotalCost(rows), all |-> MeanCost(rows),
         not_available |-> Cardinality(rows \ Costed(rows)), llm |-> MeanCost(llm),
         full_rag |-> MeanCost({r \in llm : r.gen})]

RecentRuns(slice) ==
    LET recent == FirstOf(20, NewestFirst(slice))
    IN  [i \in DOMAIN recent |->
            [run_id |-> recent[i].id, status |-> recent[i].status,
             evaluator_type |-> EvaluatorType(recent[i]),
             failure_type |-> IF recent[i].ev = None THEN None ELSE Failure(recent[i])]]

get_dashboard_summary(runs, dataset) ==
    LET slice == dashboard_aggregate_run_scope(runs, dataset)
    IN  [total_runs |-> Cardinality(slice), status |-> StatusCounts(slice),
         evaluator |-> EvaluatorCounts(slice), scale |-> ScaleMetrics(slice),
         latency |-> [phase \in {"retrieval", "total"} |-> get_phase_latency_distribution(slice, phase)],
         avg_latency |-> [phase \in {"generation", "evaluation"} |->
                             LET value(r) == LatencyOf(r, phase) IN Mean(slice, value)],
         cost |-> CostSummary(slice), failure_type_counts |-> Count(Evaluated(slice), Failure),
         model_failures |-> Cardinality({r \in slice : IsFailure(r)}),
         recent_runs |-> RecentRuns(slice)]

-----------------------------------------------------------------------------
(* The analytics. *)

_time_series(slice) ==
    LET days == FirstOf(90, Ordered({r.day : r \in slice}, LAMBDA a, b : a > b))
        on(day) == {r \in slice : r.day = day}
        total(r) == LatencyOf(r, "total")
    IN  [i \in DOMAIN days |->
            LET rows == on(days[Len(days) + 1 - i])
            IN  [day |-> days[Len(days) + 1 - i], runs |-> Cardinality(rows),
                 completed |-> Cardinality(Status(rows, {"completed"})),
                 failed |-> Cardinality(Status(rows, {"failed"})),
                 latency |-> Mean(rows, total), cost |-> MeanCost(rows).avg,
                 failure_count |-> Cardinality({r \in rows : IsFailure(r)})]]

\* Tenths of a percent.
Percentages(counts) ==
    LET total == SumFunction(counts)
    IN  [f \in DOMAIN counts |-> HalfEven(1000 * counts[f], total)]

_failure_analysis(slice) ==
    LET failures == {r \in slice : IsFailure(r)}
        of(config) == {r \in failures : r.config = config}
        recent == FirstOf(10, NewestFirst(Status(slice, {"failed"})))
    IN  [overall_counts |-> Count(failures, FailureOf),
         overall_percentages |-> Percentages(Count(failures, FailureOf)),
         by_config |-> [config \in {r.config : r \in failures} |->
                           [counts |-> Count(of(config), FailureOf), total |-> Cardinality(of(config))]],
         recent_failed |-> [i \in DOMAIN recent |-> recent[i].id]]

\* The most frequent failure; of several any, as the database orders them.
TopFailures(rows) ==
    LET counts == Count({r \in rows : IsFailure(r)}, FailureOf)
    IN  {f \in DOMAIN counts : \A g \in DOMAIN counts : counts[g] <= counts[f]}

_config_insights_for_bucket(slice, bucket) ==
    LET of(config) == {r \in Bucket(slice, bucket) : r.config = config}
    IN  [config \in {r.config : r \in Bucket(slice, bucket)} |->
            LET rows == of(config)
                total(r) == LatencyOf(r, "total")
                score(key) == LET value(r) == ScoreOf(r, key) IN Mean(rows, value)
            IN  [traced_runs |-> Cardinality(rows),
                 completed |-> Cardinality(Status(rows, {"completed"})),
                 failed |-> Cardinality(Status(rows, {"failed"})),
                 latency |-> Mean(rows, total),
                 least |-> Least(rows, "total"), most |-> Most(rows, "total"),
                 cost |-> MeanCost(rows).avg, total_cost |-> TotalCost(rows),
                 scores |-> [key \in SCORE_KEYS \ {"groundedness"} |-> score(key)],
                 top_failure |-> TopFailures(rows)]]

get_dashboard_analytics(runs, dataset) ==
    LET slice == dashboard_aggregate_run_scope(runs, dataset)
    IN  [time_series |-> _time_series(slice),
         latency |-> [phase \in Phases |-> get_phase_latency_distribution(slice, phase)],
         failures |-> _failure_analysis(slice),
         insights |-> [b \in Buckets |-> _config_insights_for_bucket(slice, b)]]

-----------------------------------------------------------------------------
(* Evidence: diagnosis sessions and matched workloads. *)

Median(rows, Value(_)) == percentile_cont(50, rows, Value)

\* Mutant: the fifth session is not enough.
TierOffByOne(manual, assisted) ==
    IF manual <= 5 \/ assisted <= 5 THEN "insufficient"
    ELSE IF manual < 10 \/ assisted < 10 THEN "limited" ELSE "normal"

_diagnosis_tier(manual, assisted) ==
    IF manual < 5 \/ assisted < 5 THEN "insufficient"
    ELSE IF manual < 10 \/ assisted < 10 THEN "limited" ELSE "normal"

_llm_reduction_tier(pairs) ==
    IF pairs < 3 THEN "sparse" ELSE IF pairs < 10 THEN "directional" ELSE "normal"

\* A timing session is [id, run, mode, synthetic, start, insight, end].
build_diagnosis_timing_evidence(runs, sessions, dataset) ==
    LET slice == {r.id : r \in dashboard_aggregate_run_scope(runs, dataset)}
        rows == {s \in sessions : s.run \in slice /\ ~s.synthetic}
        ended(s) == {t - s.start : t \in {e \in s.end : e >= s.start}}
        insight(s) == {t - s.start : t \in {e \in s.insight : e >= s.start}}
        done(mode) == {s \in rows : s.mode = mode /\ ended(s) # None}
        median(mode) == Median(done(mode), ended)
        first(mode) == Median({s \in rows : s.mode = mode /\ insight(s) # None}, insight)
        m == median("manual")  a == median("assisted")
    IN  [sessions |-> Cardinality(rows),
         completed |-> [mode \in {"manual", "assisted"} |-> Cardinality(done(mode))],
         median |-> [mode \in {"manual", "assisted"} |-> median(mode)],
         first |-> [mode \in {"manual", "assisted"} |-> first(mode)],
         delta |-> IF a # None /\ m # None /\ The(m)[1] > 0
                   THEN {<<The(m)[1] - The(a)[1], 100>>} ELSE None,
         tier |-> _diagnosis_tier(Cardinality(done("manual")), Cardinality(done("assisted")))]

\* Mutant: workloads with one arm are compared with nothing.
MatchedHalf(lo, hy) == lo # {} \/ hy # {}
Matched(lo, hy) == lo # {} /\ hy # {}

\* Reductions are fractions of the judge calls of the llm_only arm.
build_llm_reduction_evidence(runs, dataset) ==
    LET rows == {r \in dashboard_aggregate_run_scope(runs, dataset) :
                    r.ev # None /\ r.gen /\ r.used # None /\ r.workload # None /\ r.arm \in {"llm_only", "hybrid"}}
        arm(w, a) == {r \in rows : r.workload = {w} /\ r.arm = a}
        calls(w, a) == SumFunction([r \in arm(w, a) |-> The(r.used)])
        kept == {w \in UNION {r.workload : r \in rows} :
                    Matched(arm(w, "llm_only"), arm(w, "hybrid")) /\ calls(w, "llm_only") > 0}
        runsOf(a) == SumFunction([w \in kept |-> Cardinality(arm(w, a))])
        least == IF runsOf("llm_only") < runsOf("hybrid") THEN runsOf("llm_only") ELSE runsOf("hybrid")
        reduction(w) ==
            LET lo == calls(w, "llm_only") * Cardinality(arm(w, "hybrid"))
                hy == calls(w, "hybrid") * Cardinality(arm(w, "llm_only"))
            IN  <<lo - hy, lo>>
    IN  [workloads |-> [w \in kept |-> [llm_only |-> Cardinality(arm(w, "llm_only")),
                                        hybrid |-> Cardinality(arm(w, "hybrid")),
                                        reduction |-> reduction(w)]],
         tier |-> _llm_reduction_tier(least)]
=============================================================================
