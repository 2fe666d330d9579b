----------------------------- MODULE Aggregates -----------------------------
(***************************************************************************)
(* What the reports count and average: scopes, evaluator buckets, averages, *)
(* percentiles, and aggregate_all_metrics.                                  *)
(*                                                                         *)
(* A run is a record [id, config, case, dataset, realism, day, status,     *)
(* traced, gen, lat, ev, workload, arm, used]: traced and gen say whether it *)
(* has retrieval rows and a generation row, lat maps a phase to an optional *)
(* number of milliseconds, ev is {} or its evaluation row [llm, type, score, *)
(* failure, cost], where score maps a score to an optional number of        *)
(* hundredths and failure, type and cost are optional too.                  *)
(***************************************************************************)
EXTENDS Evaluation

Phases == {"retrieval", "generation", "evaluation", "total"}
Buckets == {"heuristic", "llm"}

\* A mean is an optional fraction.
Mean(rows, Value(_)) ==
    LET known == {r \in rows : Value(r) # None}
    IN  IF known = {} THEN None
        ELSE {<<SumFunction([r \in known |-> The(Value(r))]), Cardinality(known)>>}

\* The elements of a finite set in a strict total order.
Ordered(S, before(_, _)) ==
    [n \in 1..Cardinality(S) |-> CHOOSE x \in S : Cardinality({y \in S : before(y, x)}) = n - 1]

Sorted(rows, Value(_)) ==
    Ordered({r \in rows : Value(r) # None},
            LAMBDA a, b : \/ The(Value(a)) < The(Value(b))
                          \/ Value(a) = Value(b) /\ a.id < b.id)

\* percentile_cont: linear between the neighbours of position p * (n - 1).
percentile_cont(p, rows, Value(_)) ==
    LET s == Sorted(rows, Value)
        place == p * (Len(s) - 1)
        at(i) == The(Value(s[i + 1]))
        low == at(place \div 100)
        high == at((place + 99) \div 100)
    IN  IF s = << >> THEN None ELSE {<<100 * low + (high - low) * (place % 100), 100>>}

\* The square of stddev_samp.
VarianceSamp(rows, Value(_)) ==
    LET known == {r \in rows : Value(r) # None}
        n == Cardinality(known)
        sum == SumFunction([r \in known |-> The(Value(r))])
        squares == SumFunction([r \in known |-> The(Value(r)) * The(Value(r))])
    IN  IF n < 2 THEN None ELSE {<<n * squares - sum * sum, n * (n - 1)>>}

\* Thousandths of a fraction (round halves to even).
round_metric_float(f, scale) == {HalfEven(x[1] * 1000, x[2] * scale) : x \in f}

-----------------------------------------------------------------------------
(* Scopes and buckets. *)

Organic(runs) == {r \in runs : ~r.realism}

\* Mutant: a dataset's slice leaves the disturbed runs out.
ScopeOrganic(runs, dataset) == {r \in Organic(runs) : dataset \subseteq {r.dataset}}

dashboard_aggregate_run_scope(runs, dataset) ==
    IF dataset = None THEN Organic(runs) ELSE {r \in runs : r.dataset \in dataset}

Evaluated(runs) == {r \in runs : r.ev # None}
Row(r) == The(r.ev)

InBucket(r, bucket) ==
    /\ r.ev # None
    /\ TRUE \in IF bucket = "llm" THEN sql_is_llm_bucket(Row(r).llm, Row(r).type)
                ELSE sql_is_heuristic_bucket(Row(r).llm, Row(r).type)

Bucket(runs, bucket) == {r \in runs : InBucket(r, bucket)}

Count(rows, Value(_)) ==    \* GROUP BY Value, COUNT(*)
    [v \in UNION {Value(r) : r \in rows} |-> Cardinality({r \in rows : v \in Value(r)})]

-----------------------------------------------------------------------------
(* phase_latency_distribution *)

LatencyOf(r, phase) == r.lat[phase]

Measured(runs, phase) == UNION {LatencyOf(r, phase) : r \in runs}
Least(runs, phase) == {n \in Measured(runs, phase) : \A m \in Measured(runs, phase) : n <= m}
Most(runs, phase) == {n \in Measured(runs, phase) : \A m \in Measured(runs, phase) : m <= n}

get_phase_latency_distribution(runs, phase) ==
    LET Value(r) == LatencyOf(r, phase)
        count == Cardinality({r \in runs : Value(r) # None})
    IN  IF count = 0 THEN [count |-> 0]
        ELSE [count |-> count, min |-> Least(runs, phase), max |-> Most(runs, phase), avg |-> Mean(runs, Value),
              median |-> percentile_cont(50, runs, Value), p95 |-> percentile_cont(95, runs, Value)]

-----------------------------------------------------------------------------
(* aggregate_all_metrics *)

Failure(r) == Row(r).failure \ {""}
ScoreOf(r, key) == Row(r).score[key]
CostRow(r) == Row(r).cost

_failure_counts_for_bucket(runs, bucket) == Count(Bucket(Organic(runs), bucket), Failure)

Counts(runs) ==
    LET organic == Organic(runs)
        traced == {r \in organic : r.traced}
    IN  [configs_tested |-> Cardinality({r.config : r \in organic}),
         total_traced_runs |-> Cardinality(Evaluated(traced)),
         traced |-> [b \in Buckets |-> Cardinality(Bucket(traced, b))],
         evaluation_rows |-> [b \in Buckets |-> Cardinality(Bucket(organic, b))]]

Latencies(runs) ==
    LET stats(rows, phase) ==
            LET Value(r) == LatencyOf(r, phase)
            IN  [avg |-> Mean(rows, Value), p95 |-> percentile_cont(95, rows, Value)]
    IN  [all |-> [phase \in Phases |-> stats(Organic(runs), phase)],
         of |-> [b \in Buckets |-> [phase \in {"evaluation", "total"} |->
                                        stats(Bucket(Organic(runs), b), phase)]]]

Scores(runs) ==
    [b \in Buckets |-> [key \in SCORE_KEYS |->
        LET Value(r) == ScoreOf(r, key) IN Mean(Bucket(Organic(runs), b), Value)]]

Failures(runs) ==
    [of |-> [b \in Buckets |-> _failure_counts_for_bucket(runs, b)],
     all |-> Count(Evaluated(runs), Failure)]

Costs(runs) == [b \in Buckets |-> Mean(Bucket(Organic(runs), b), CostRow)]

CallRate(runs) ==
    LET rows == Evaluated(Organic(runs))
    IN  IF rows = {} THEN None
        ELSE {<<Cardinality({r \in rows : Row(r).llm}), Cardinality(rows)>>}

aggregate_all_metrics(runs) ==
    [counts |-> Counts(runs), latencies |-> Latencies(runs), scores |-> Scores(runs),
     failures |-> Failures(runs), costs |-> Costs(runs), llm_judge_call_rate |-> CallRate(runs)]
=============================================================================
