----------------------------- MODULE Comparing ------------------------------
(***************************************************************************)
(* The comparison of configurations: calls of compare_pipeline_configs on  *)
(* a database, and of the ranking and the confidence on rows of averages.  *)
(***************************************************************************)
EXTENDS Comparison, Calls

CONSTANTS
    Databases,      \* sets of runs, see Aggregates
    Queries,        \* [ids, type, dataset, min, strict, realism]
    Rankings        \* [id, traced_runs, unique_query_count, score] of each configuration

\* Latencies are milliseconds, scores hundredths (a mean of cosines may be
\* negative), costs millionths of a dollar.
RunRow(r) ==
    /\ {"id", "config", "case", "dataset", "realism", "traced", "lat", "ev"} \subseteq DOMAIN r
    /\ r.id \in Nat /\ r.config \in Nat /\ r.case \in Nat /\ r.dataset \in Nat
    /\ r.realism \in BOOLEAN /\ r.traced \in BOOLEAN
    /\ \A phase \in Phases : Optional(r.lat[phase])
    /\ \A row, other \in r.ev : row = other
    /\ \A row \in r.ev :
         /\ row.llm \in BOOLEAN /\ row.type \in {None, {"heuristic"}, {"llm"}} /\ Optional(row.cost)
         /\ \A key \in SCORE_KEYS : /\ row.score[key] \subseteq -100..100
                                    /\ \A n, m \in row.score[key] : n = m

Database(runs) ==
    /\ IsFiniteSet(runs) /\ \A r \in runs : RunRow(r)
    /\ \A r, s \in runs : r.id = s.id => r = s

ASSUME DatabasesAssumption == \A runs \in Databases : Database(runs)

ASSUME QueriesAssumption ==
    \A q \in Queries :
        /\ q.ids \in Seq(Nat) /\ q.type \in {"heuristic", "llm", "both"}
        /\ Optional(q.dataset) /\ Optional(q.min) /\ q.strict \in BOOLEAN /\ q.realism \in BOOLEAN

RankedKeys == {"faithfulness", "completeness"}

\* Averages of completeness and faithfulness are between 0 and 1, in thousandths.
ConfigRow(m) ==
    /\ m.id \in Nat /\ m.traced_runs \in Nat /\ m.unique_query_count \in Nat
    /\ \A key \in RankedKeys : m.score[key].avg \subseteq 0..1000 /\ Optional(m.score[key].avg)

ASSUME RankingsAssumption ==
    \A rows \in Rankings :
        /\ rows # << >> /\ DOMAIN rows = 1..Len(rows) /\ Len(rows) \in Nat
        /\ \A i \in DOMAIN rows : ConfigRow(rows[i])
        /\ \A i, j \in DOMAIN rows : rows[i].id = rows[j].id => i = j

-----------------------------------------------------------------------------
CallCompare == \E runs \in Databases, query \in Queries :
    input' = [call |-> "compare", runs |-> runs, query |-> query]

CallRank == \E rows \in Rankings : input' = [call |-> "rank", rows |-> rows]

Compared == compare_pipeline_configs(input.runs, input.query)

\* The runs of a configuration that the query compares.
Compares(pid) ==
    LET q == input.query
    IN  {r \in input.runs : /\ r.traced /\ r.config = pid
                            /\ IF q.dataset = None THEN q.realism \/ ~r.realism ELSE r.dataset \in q.dataset}

\* The runs with the evaluations of one bucket only.
Alone(runs, bucket) == {IF InBucket(r, bucket) THEN r ELSE [r EXCEPT !.ev = None] : r \in runs}

(* Buckets are never blended: what the comparison says of a bucket is what it would say if   *)
(* the rows of the other bucket did not exist, and every average lies between a score and a   *)
(* score of that bucket, configuration and slice (config_comparison.py:41-103, :357-403).      *)
NeverBlends ==
    input.call = "compare" =>
        \A answer \in Compared : \A b \in DOMAIN answer.rows :
            /\ answer.rows[b] = (The(compare_pipeline_configs(Alone(input.runs, b), input.query))).rows[b]
            /\ \A i \in DOMAIN answer.rows[b], key \in SCORE_KEYS :
                 LET m == answer.rows[b][i]
                     scored == {r \in Compares(m.id) : InBucket(r, b) /\ ScoreOf(r, key) # None}
                 IN  \A avg \in m.score[key].avg :
                        \E lo, hi \in scored : /\ 10 * The(ScoreOf(lo, key)) <= avg
                                               /\ avg <= 10 * The(ScoreOf(hi, key))

(* A strict comparison is answered only when each configuration asked for, also one without  *)
(* any run, has the least number of traced runs in the dataset and the same query cases as    *)
(* the others; with nothing demanded it is always answered.  The cases are those of all these *)
(* runs: :421-423 promises the same cases within each bucket, but the query for them (:121-129)*)
(* looks at no evaluation, so that it holds of a bucket which all the runs are in.             *)
(* (config_comparison.py:330-354, :406-447).                                                  *)
StrictIsEnforced ==
    input.call = "compare" =>
        LET q == input.query
            least == IF q.strict /\ ValueOf(q.min) < 2 THEN 2 ELSE ValueOf(q.min)
            cases(pid) == {r.case : r \in Compares(pid)}
            casesIn(b, pid) == {r.case : r \in {s \in Compares(pid) : InBucket(s, b)}}
            all(b) == \A i \in DOMAIN q.ids : \A r \in Compares(q.ids[i]) : InBucket(r, b)
        IN  /\ Compared # None <=>
                /\ Cardinality(ToSet(q.ids)) \in 1..64
                /\ \A i \in DOMAIN q.ids : Cardinality(Compares(q.ids[i])) >= least
                /\ q.strict => /\ q.dataset # None
                               /\ \A i, j \in DOMAIN q.ids : cases(q.ids[i]) = cases(q.ids[j])
            /\ Compared # None /\ q.strict =>
                \A b \in Buckets : all(b) =>
                    \A i, j \in DOMAIN q.ids : casesIn(b, q.ids[i]) = casesIn(b, q.ids[j])

(* The best and the worst configuration really have the greatest and the least average of    *)
(* those that have one, the smallest id among equals; the difference is zero only between    *)
(* equals, and what is called reliable is not of low confidence, nor is anything of high      *)
(* confidence unreliable (config_comparison.py:157-238).                                       *)
RankingIsTrue ==
    input.call = "rank" =>
        LET rows == ToSet(input.rows)
            conf == _comparison_confidence_fields(rows)
        IN  /\ \A key \in RankedKeys :
                 LET known == {m \in rows : m.traced_runs > 0 /\ m.score[key].avg # None}
                     avg(m) == The(m.score[key].avg)
                     first(pick) == Min({m.id : m \in {n \in known : avg(n) = pick}})
                     best == Max({avg(m) : m \in known})  worst == Min({avg(m) : m \in known})
                     ranking == build_config_score_comparison(input.rows)[key]
                 IN  /\ ranking = None <=> known = {}
                     /\ \A k \in ranking :
                          /\ k.best = first(best) /\ k.worst = first(worst)
                          /\ k.delta = None <=> worst = 0 /\ best > 0
                          /\ \A d \in k.delta : d >= 0 /\ (d = 0 <=> best = worst)
            /\ conf.reliable => conf.confidence # "LOW"
            /\ conf.confidence = "HIGH" => conf.reliable
            /\ \A m \in rows : conf.effective <= m.unique_query_count
=============================================================================
