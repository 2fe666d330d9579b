----------------------------- MODULE Comparison -----------------------------
(***************************************************************************)
(* The comparison of pipeline configurations: the SQL aggregates as        *)
(* operators on a set of runs (see Aggregates), the integrity checks of a   *)
(* strict comparison, the ranking and the confidence.                       *)
(***************************************************************************)
EXTENDS Aggregates

resolve_include_benchmark_realism_for_comparison(dataset, realism) == realism \/ dataset # None

\* run_base: what a comparison may look at.
RunBase(runs, pids, dataset, realism) ==
    {r \in IF realism THEN runs ELSE Organic(runs) :
        r.traced /\ r.config \in ToSet(pids) /\ (dataset # None => r.dataset \in dataset)}

Of(base, pid) == {r \in base : r.config = pid}

\* Mutant: the join with the evaluations forgets the bucket.
EvalInAny(r, bucket) == r.ev # None
\* eval_agg: a run counts in a bucket's averages if its row is in the bucket.
EvalIn(r, bucket) == InBucket(r, bucket)

_query_query_case_sets(base, pids) == [pid \in ToSet(pids) |-> {r.case : r \in Of(base, pid)}]

FailureLabel(r) ==
    IF Row(r).failure \subseteq {"", " "} THEN {"UNKNOWN"} ELSE Row(r).failure
_query_failures(base, bucket, pid) == Count({r \in Of(base, pid) : EvalIn(r, bucket)}, FailureLabel)

\* _query_main and _build_metrics_list: averages in thousandths; deviations
\* are given by their squares, not rounded.
MetricsOf(base, bucket, pid) ==
    LET rows == Of(base, pid)
        score(key) == LET Value(r) == IF EvalIn(r, bucket) THEN ScoreOf(r, key) ELSE None
                      IN  [avg |-> round_metric_float(Mean(rows, Value), 100),
                           variance |-> VarianceSamp(rows, Value)]
        latency(phase) == LET Value(r) == LatencyOf(r, phase)
                          IN  [avg |-> round_metric_float(Mean(rows, Value), 1),
                               p95 |-> round_metric_float(percentile_cont(95, rows, Value), 1),
                               variance |-> VarianceSamp(rows, Value)]
        cost(r) == IF EvalIn(r, bucket) THEN CostRow(r) ELSE None
    IN  [id |-> pid, traced_runs |-> Cardinality(rows),
         unique_query_count |-> Cardinality({r.case : r \in rows}),
         latency |-> [phase \in {"retrieval", "evaluation", "total"} |-> latency(phase)],
         score |-> [key \in SCORE_KEYS |-> score(key)],
         cost |-> round_metric_float(Mean(rows, cost), 1000000),
         failures |-> _query_failures(base, bucket, pid)]

_build_metrics_list(base, bucket, pids) ==
    [i \in DOMAIN pids |-> MetricsOf(base, bucket, pids[i])]

-----------------------------------------------------------------------------
(* Ranking. *)

\* Mutant: the last configuration with the extreme value wins the tie, and
\* configurations without a value count as zero.
RankZero(rows, key) ==
    LET value(m) == ValueOf(m.score[key].avg)
        all == ToSet(rows)
        best == CHOOSE m \in all : \A n \in all : value(n) <= value(m)
        worst == CHOOSE m \in all : \A n \in all : value(m) <= value(n)
    IN  {[best |-> best.id, worst |-> worst.id, bv |-> value(best), wv |-> value(worst)]}

_rank_avg_dimension(rows, key) ==
    LET eligible == {m \in ToSet(rows) : m.traced_runs > 0 /\ m.score[key].avg # None}
        value(m) == The(m.score[key].avg)
        before(m, n, better) == better \/ (value(m) = value(n) /\ m.id <= n.id)
        best == CHOOSE m \in eligible : \A n \in eligible : before(m, n, value(m) > value(n))
        worst == CHOOSE m \in eligible : \A n \in eligible : before(m, n, value(m) < value(n))
    IN  IF eligible = {} THEN None
        ELSE {[best |-> best.id, worst |-> worst.id, bv |-> value(best), wv |-> value(worst)]}

_delta_pct(best, worst) ==
    IF best = worst THEN {<<0, 1>>}
    ELSE IF worst > 0 THEN {<<100 * (best - worst), worst>>}
    ELSE None

build_config_score_comparison(rows) ==
    [key \in {"faithfulness", "completeness"} |->
        {[best |-> k.best, worst |-> k.worst,
          delta |-> round_metric_float(_delta_pct(k.bv, k.wv), 1)] : k \in _rank_avg_dimension(rows, key)}]

-----------------------------------------------------------------------------
(* Confidence. *)

confidence_tier_from_effective_sample_size(n) ==
    IF n < 8 THEN "LOW" ELSE IF n < 15 THEN "MEDIUM" ELSE "HIGH"
comparison_statistically_reliable_by_effective_sample(n) == n >= 10

_comparison_confidence_fields(rows) ==
    LET unique == Min({m.unique_query_count : m \in rows})
    IN  [confidence |-> confidence_tier_from_effective_sample_size(unique),
         reliable |-> comparison_statistically_reliable_by_effective_sample(unique),
         min_traced |-> Min({m.traced_runs : m \in rows}), effective |-> unique]

-----------------------------------------------------------------------------
(* Integrity, and the whole comparison. *)

\* Mutant: configurations without any run are not looked at.
IntegritySkipsEmpty(rows, sets, min, same) ==
    LET some == {pid \in DOMAIN sets : sets[pid] # {}}
    IN  /\ same => Cardinality({sets[pid] : pid \in some}) <= 1
        /\ \A n \in min, m \in {r \in ToSet(rows) : r.traced_runs > 0} : m.traced_runs >= n

_enforce_integrity(rows, sets, min, same) ==
    /\ same => Cardinality({sets[pid] : pid \in DOMAIN sets}) <= 1
    /\ \A n \in min, m \in ToSet(rows) : m.traced_runs >= n

Distinct(ids) == FoldLeft(LAMBDA s, x : IF Contains(s, x) THEN s ELSE Append(s, x), << >>, ids)

\* query is [ids, type, dataset, min, strict, realism]; the answer is {} when
\* the request is refused.
compare_pipeline_configs(runs, query) ==
    LET pids == Distinct(query.ids)
        min == IF query.strict THEN {IF ValueOf(query.min) > 2 THEN The(query.min) ELSE 2}
               ELSE query.min
        base == RunBase(runs, pids, query.dataset,
                        resolve_include_benchmark_realism_for_comparison(query.dataset, query.realism))
        of == IF query.type = "both" THEN Buckets ELSE {query.type}
        rows == [b \in of |-> _build_metrics_list(base, b, pids)]
        sets == _query_query_case_sets(base, pids)
    IN  IF \/ pids = << >> \/ Len(pids) > 64
           \/ query.strict /\ query.dataset = None
           \/ \E b \in of : ~_enforce_integrity(rows[b], sets, min, query.strict)
        THEN None
        ELSE {[pids |-> pids, rows |-> rows, min |-> min,
               scores |-> [b \in of |-> build_config_score_comparison(rows[b])],
               conf |-> _comparison_confidence_fields(UNION {ToSet(rows[b]) : b \in of})]}
=============================================================================
