-------------------------- MODULE AlgorithmsProofs --------------------------
(***************************************************************************)
(* What the algorithms promise, for every input that their assumptions     *)
(* admit: the ranking, the integrity of a strict comparison, buckets that  *)
(* are not blended, fixed windows, the plan of the diagnosis experiment,   *)
(* the reduction of judge calls, the sessions that a tier asks for, and    *)
(* the figures of a dashboard, which add up.                               *)
(***************************************************************************)
EXTENDS JudgingProofs

-----------------------------------------------------------------------------
(* Rounding. *)

LEMMA Division ==
    ASSUME NEW n \in Int, NEW d \in Nat, d > 0
    PROVE  /\ n \div d \in Int /\ n % d \in Nat /\ n % d < d
           /\ n = d * (n \div d) + (n % d)
OBVIOUS

\* A fraction is rounded to no less than a whole number below it, and to no
\* more than one above it.
LEMMA HalfEvenIsBetween ==
    ASSUME NEW n \in Int, NEW d \in Nat, d > 0, NEW q \in Int
    PROVE  /\ HalfEven(n, d) \in Int
           /\ q * d <= n => q <= HalfEven(n, d)
           /\ n <= q * d => HalfEven(n, d) <= q
<1> DEFINE w == n \div d
           r == n % d
           h == HalfEven(n, d)
<1>1. w \in Int /\ r \in Nat /\ r < d /\ n = d * w + r
  BY Division
<1>2. h = w \/ (h = w + 1 /\ r > 0)
  BY <1>1 DEF HalfEven
<1>. HIDE DEF w, r, h
<1>3. ASSUME q * d <= n  PROVE q <= w
  <2>1. CASE q > w
    <3>1. (q - w) * d >= d
      BY <1>1, <2>1
    <3>2. q * d = w * d + (q - w) * d
      BY <1>1
    <3>. QED  BY <1>1, <1>3, <3>1, <3>2
  <2>. QED  BY <1>1, <2>1
<1>4. ASSUME n <= q * d  PROVE w <= q /\ (r > 0 => w < q)
  <2>1. CASE w > q
    <3>1. (w - q) * d >= d
      BY <1>1, <2>1
    <3>2. w * d = q * d + (w - q) * d
      BY <1>1
    <3>. QED  BY <1>1, <1>4, <3>1, <3>2
  <2>2. CASE w = q /\ r > 0
    BY <1>1, <1>4, <2>2
  <2>. QED  BY <1>1, <2>1, <2>2
<1>. QED  BY <1>1, <1>2, <1>3, <1>4 DEF h

-----------------------------------------------------------------------------
(* The ranking. *)

\* The first of the best: some element has the greatest value and, of those,
\* the least number.
LEMMA FirstOfTheBest ==
    ASSUME NEW S, IsFiniteSet(S), S # {}, NEW v \in [S -> Int], NEW id \in [S -> Int]
    PROVE  \E b \in S : \A n \in S : v[b] > v[n] \/ (v[b] = v[n] /\ id[b] <= id[n])
<1>1. PICK lo, hi \in S : \A x \in S : v[lo] <= v[x] /\ v[x] <= v[hi]
  BY Extremes
<1> DEFINE Ties == {x \in S : v[x] = v[hi]}
           of == [x \in Ties |-> id[x]]
<1>2. IsFiniteSet(Ties) /\ Ties # {} /\ of \in [Ties -> Int]
  BY FS_Subset
<1>3. PICK b, c \in Ties : \A x \in Ties : of[b] <= of[x] /\ of[x] <= of[c]
  <2>. HIDE DEF Ties, of
  <2>. QED  BY <1>2, Extremes
<1>4. \A x \in Ties : id[b] <= id[x]
  BY <1>3
<1>. QED  BY <1>1, <1>4

WithAverage(rows, key) == {m \in ToSet(rows) : m.traced_runs > 0 /\ m.score[key].avg # None}
AverageOf(m, key) == The(m.score[key].avg)
AveragesOf(rows, key) == {AverageOf(m, key) : m \in WithAverage(rows, key)}
FirstWith(rows, key, pick) == Min({m.id : m \in {n \in WithAverage(rows, key) : AverageOf(n, key) = pick}})

\* What _rank_avg_dimension answers: without an average there is no ranking; with
\* one, the best and the worst have the extreme values and the first of their numbers.
RanksTruly(rows, key) ==
    LET best == Max(AveragesOf(rows, key))  worst == Min(AveragesOf(rows, key))
    IN  /\ WithAverage(rows, key) = {} => _rank_avg_dimension(rows, key) = None
        /\ WithAverage(rows, key) # {} =>
             /\ _rank_avg_dimension(rows, key) =
                    {[best |-> FirstWith(rows, key, best), worst |-> FirstWith(rows, key, worst),
                      bv |-> best, wv |-> worst]}
             /\ best \in AveragesOf(rows, key) /\ worst \in AveragesOf(rows, key)
             /\ worst <= best

LEMMA RankedTrue ==
    ASSUME NEW rows, IsFiniteSet(ToSet(rows)), NEW key \in RankedKeys, \A m \in ToSet(rows) : ConfigRow(m)
    PROVE  RanksTruly(rows, key)
<1> DEFINE known == {m \in ToSet(rows) : m.traced_runs > 0 /\ m.score[key].avg # None}
           avg(m) == The(m.score[key].avg)
           values == {avg(m) : m \in known}
           first(pick) == Min({m.id : m \in {n \in known : avg(n) = pick}})
           before(m, n, better) == better \/ (avg(m) = avg(n) /\ m.id <= n.id)
           Foremost(m) == \A n \in known : before(m, n, avg(m) > avg(n))
           Worst(m) == \A n \in known : before(m, n, avg(m) < avg(n))
           b == CHOOSE m \in known : Foremost(m)
           w == CHOOSE m \in known : Worst(m)
<1>1. IsFiniteSet(known) /\ \A m \in known : avg(m) \in Nat /\ m.id \in Nat
  <2>1. IsFiniteSet(known)
    BY FS_Subset
  <2>2. \A m \in known : /\ m.score[key].avg \subseteq 0..1000 /\ m.id \in Nat
                         /\ avg(m) \in m.score[key].avg
    BY DEF ConfigRow, The, None
  <2>. HIDE DEF known, avg
  <2>3. ASSUME NEW m \in known  PROVE avg(m) \in Nat /\ m.id \in Nat
    <3>1. avg(m) \in 0..1000
      BY <2>2
    <3>. QED  BY <2>2, <3>1
  <2>. QED  BY <2>1, <2>3
<1>2. /\ known = {} => _rank_avg_dimension(rows, key) = None
      /\ known # {} => _rank_avg_dimension(rows, key) =
                           {[best |-> b.id, worst |-> w.id, bv |-> avg(b), wv |-> avg(w)]}
  BY DEF _rank_avg_dimension
<1>. HIDE DEF known, avg
<1>3. SUFFICES ASSUME known # {}
               PROVE  /\ [best |-> b.id, worst |-> w.id, bv |-> avg(b), wv |-> avg(w)] =
                         [best |-> first(Max(values)), worst |-> first(Min(values)),
                          bv |-> Max(values), wv |-> Min(values)]
                      /\ Max(values) \in values /\ Min(values) \in values /\ Min(values) <= Max(values)
  <2>1. /\ WithAverage(rows, key) = known /\ AveragesOf(rows, key) = values
        /\ \A pick : FirstWith(rows, key, pick) = first(pick)
    BY DEF WithAverage, AverageOf, AveragesOf, FirstWith, known, avg
  <2>. HIDE DEF values, first, b, w
  <2>. QED  BY <1>2, <2>1 DEF RanksTruly
<1> DEFINE id == [m \in known |-> m.id]
           v == [m \in known |-> avg(m)]
           minus == [m \in known |-> 0 - avg(m)]
<1>4. id \in [known -> Int] /\ v \in [known -> Int] /\ minus \in [known -> Int]
  BY <1>1
<1>5. \E m \in known : Foremost(m)
  <2>1. PICK m \in known : \A n \in known : v[m] > v[n] \/ (v[m] = v[n] /\ id[m] <= id[n])
    <3>. HIDE DEF id, v
    <3>. QED  BY <1>1, <1>3, <1>4, FirstOfTheBest
  <2>. QED  BY <2>1
<1>6. \E m \in known : Worst(m)
  <2>1. PICK m \in known : \A n \in known : minus[m] > minus[n] \/ (minus[m] = minus[n] /\ id[m] <= id[n])
    <3>. HIDE DEF id, minus
    <3>. QED  BY <1>1, <1>3, <1>4, FirstOfTheBest
  <2>2. \A n \in known : minus[n] = 0 - avg(n) /\ avg(n) \in Nat /\ id[n] = n.id
    BY <1>1
  <2>. HIDE DEF minus, id
  <2>3. \A n \in known : before(m, n, avg(m) < avg(n))
    BY <2>1, <2>2
  <2>. QED  BY <2>3
<1>7. b \in known /\ Foremost(b) /\ w \in known /\ Worst(w)
  <2>. HIDE DEF Foremost, Worst
  <2>. QED  BY <1>5, <1>6
<1>. HIDE DEF b, w
<1>8. IsFiniteSet(values) /\ values # {} /\ values \subseteq Int
  <2>1. values = {v[m] : m \in known}
    BY <1>1
  <2>2. IsFiniteSet(values)
    <3>. HIDE DEF values, v
    <3>. QED  BY <1>1, <2>1, ImageIsFinite
  <2>. QED  BY <1>1, <1>3, <2>2
<1>9. /\ Max(values) \in values /\ \A x \in values : x <= Max(values)
      /\ Min(values) \in values /\ \A x \in values : Min(values) <= x
  <2>. HIDE DEF values
  <2>. QED  BY <1>8, MaxOfNumbers
<1>10. avg(b) = Max(values) /\ avg(w) = Min(values)
  <2>1. /\ \A n \in known : avg(n) <= avg(b) /\ avg(w) <= avg(n)
        /\ avg(b) \in values /\ avg(w) \in values
    BY <1>1, <1>7
  <2>2. \A x \in values : x \in Int /\ x <= avg(b) /\ avg(w) <= x
    BY <1>1, <2>1
  <2>. HIDE DEF values
  <2>3. avg(b) <= Max(values) /\ Max(values) <= avg(b) /\ Min(values) <= avg(w) /\ avg(w) <= Min(values)
    BY <1>9, <2>1, <2>2
  <2>4. Max(values) \in Int /\ Min(values) \in Int /\ avg(b) \in Int /\ avg(w) \in Int
    BY <1>9, <2>1, <2>2
  <2>. QED  BY <2>3, <2>4
<1>11. ASSUME NEW m \in known, \A n \in known : avg(n) = avg(m) => m.id <= n.id
       PROVE  first(avg(m)) = m.id
  <2> DEFINE ids == {n.id : n \in {x \in known : avg(x) = avg(m)}}
  <2>1. ids \subseteq Int /\ m.id \in ids /\ \A i \in ids : m.id <= i
    BY <1>1, <1>11
  <2>2. IsFiniteSet(ids)
    <3> DEFINE ties == {x \in known : avg(x) = avg(m)}
    <3>1. IsFiniteSet(ties)
      BY <1>1, FS_Subset
    <3>2. ids = {id[x] : x \in ties}
      BY <1>1
    <3>. HIDE DEF ids, ties, id
    <3>. QED  BY <3>1, <3>2, ImageIsFinite
  <2>3. Min(ids) = m.id
    <3>. HIDE DEF ids
    <3>1. Min(ids) \in ids /\ \A i \in ids : Min(ids) <= i
      BY <2>1, <2>2, MaxOfNumbers
    <3>2. Min(ids) <= m.id /\ m.id <= Min(ids) /\ Min(ids) \in Int /\ m.id \in Int
      BY <2>1, <3>1
    <3>. QED  BY <3>2
  <2>. QED  BY <2>3
<1>12. first(avg(b)) = b.id /\ first(avg(w)) = w.id
  <2>1. /\ \A n \in known : avg(n) = avg(b) => b.id <= n.id
        /\ \A n \in known : avg(n) = avg(w) => w.id <= n.id
    BY <1>1, <1>7
  <2>. HIDE DEF first
  <2>. QED  BY <1>7, <1>11, <2>1
<1>. HIDE DEF first, values
<1>. QED  BY <1>8, <1>9, <1>10, <1>12

\* The input of a call of Comparing or of the chunker is one of its pool.
CompareInput == \E runs \in Databases, query \in Queries :
    input = [call |-> "compare", runs |-> runs, query |-> query]
RankInput == \E rows \in Rankings : input = [call |-> "rank", rows |-> rows]
ChunkInput == \E text \in Texts, window \in Windows, strategy \in {"fixed", "recursive"} :
    input = [call |-> "chunk", text |-> text, strategy |-> strategy, window |-> window]
PlanInput == \E p \in Plans :
    input = [call |-> "plan", runs |-> p.runs, sessions |-> p.sessions, targets |-> p.targets, limit |-> p.limit]
SummaryInput == \E runs \in Databases, dataset \in Datasets :
    input = [call |-> "summary", runs |-> runs, dataset |-> dataset]
ReductionInput == \E runs \in Workloads : input = [call |-> "reduction", runs |-> runs]
SessionsInput == \E e \in Experiments :
    input = [call |-> "sessions", runs |-> e.runs, sessions |-> e.sessions, free |-> e.free, next |-> e.next]
Given == /\ input.call = "compare" => CompareInput
         /\ input.call = "rank" => RankInput
         /\ input.call = "chunk" => ChunkInput
         /\ input.call = "plan" => PlanInput
         /\ input.call = "summary" => SummaryInput
         /\ input.call = "reduction" => ReductionInput
         /\ input.call = "sessions" => SessionsInput

LEMMA GivenInvariant == Spec => []Given
<1>1. Init => Given
  BY DEF Init, Idle, Given
<1>2. Given /\ [Next]_input => Given'
  BY DEF Given, Next, CompareInput, RankInput, ChunkInput, PlanInput, SummaryInput, ReductionInput, SessionsInput,
         CallJudge, CallCell, CallChunker, CallCompare, CallRank, CallSummary, CallReduction, CallPlan, CallSessions
<1>. QED  BY <1>1, <1>2, PTL DEF Spec

\* The difference in percent, rounded, of numbers up to 1000.
Signed(delta, best, worst) ==
    /\ delta = None <=> worst = 0 /\ best > 0
    /\ \A d \in delta : d \in Int /\ d >= 0 /\ (d = 0 <=> best = worst)

Delta(best, worst) == round_metric_float(_delta_pct(best, worst), 1)

LEMMA DeltaIsSigned ==
    ASSUME NEW best \in Nat, NEW worst \in Nat, worst <= best, worst <= 1000
    PROVE  Signed(Delta(best, worst), best, worst)
<1> DEFINE delta == Delta(best, worst)
<1>1. CASE best = worst
  <2>1. delta = {HalfEven(0 * 1000, 1 * 1)}
    BY <1>1 DEF Delta, round_metric_float, _delta_pct
  <2>2. HalfEven(0 * 1000, 1 * 1) = 0
    BY DEF HalfEven
  <2>. QED  BY <1>1, <2>1, <2>2 DEF None, Signed
<1>2. CASE best # worst /\ worst > 0
  <2> DEFINE n == (100 * (best - worst)) * 1000
             d == worst * 1
  <2>1. delta = {HalfEven(n, d)}
    BY <1>2 DEF Delta, round_metric_float, _delta_pct
  <2>2. n \in Int /\ d \in Nat /\ d > 0 /\ 100 * d <= n
    BY <1>2
  <2>. HIDE DEF n, d
  <2>3. HalfEven(n, d) \in Int /\ 100 <= HalfEven(n, d)
    BY <2>2, HalfEvenIsBetween
  <2>. QED  BY <1>2, <2>1, <2>3 DEF None, Signed
<1>3. CASE best # worst /\ worst = 0
  BY <1>3 DEF Delta, round_metric_float, _delta_pct, None, Signed
<1>. QED  BY <1>1, <1>2, <1>3 DEF Signed

\* A ranking with its differences, of configurations as Comparing assumes them.
LEMMA RankedKey ==
    ASSUME NEW ranked, IsFiniteSet(ToSet(ranked)), \A m \in ToSet(ranked) : ConfigRow(m),
           NEW key \in RankedKeys
    PROVE  LET known == {m \in ToSet(ranked) : m.traced_runs > 0 /\ m.score[key].avg # None}
               avg(m) == The(m.score[key].avg)
               first(pick) == Min({m.id : m \in {n \in known : avg(n) = pick}})
               best == Max({avg(m) : m \in known})  worst == Min({avg(m) : m \in known})
               ranking == build_config_score_comparison(ranked)[key]
           IN  /\ ranking = None <=> known = {}
               /\ \A k \in ranking :
                    /\ k.best = first(best) /\ k.worst = first(worst)
                    /\ k.delta = None <=> worst = 0 /\ best > 0
                    /\ \A d \in k.delta : d >= 0 /\ (d = 0 <=> best = worst)
<1> DEFINE known == {m \in ToSet(ranked) : m.traced_runs > 0 /\ m.score[key].avg # None}
           avg(m) == The(m.score[key].avg)
           first(pick) == Min({m.id : m \in {n \in known : avg(n) = pick}})
           best == Max({avg(m) : m \in known})
           worst == Min({avg(m) : m \in known})
           ranking == build_config_score_comparison(ranked)[key]
           delta == Delta(best, worst)
           ranks == _rank_avg_dimension(ranked, key)
           values == {avg(m) : m \in known}
<1>1. \A m \in ToSet(ranked) : /\ m.id \in Nat /\ m.score[key].avg \subseteq 0..1000
                              /\ Optional(m.score[key].avg)
  BY DEF ConfigRow
<1>2. /\ known = {} => ranks = None
      /\ known # {} =>
           /\ ranks = {[best |-> first(best), worst |-> first(worst), bv |-> best, wv |-> worst]}
           /\ best \in values /\ worst \in values
           /\ worst <= best
  <2>1. RanksTruly(ranked, key)
    BY RankedTrue
  <2>2. /\ WithAverage(ranked, key) = known /\ AveragesOf(ranked, key) = values
        /\ \A pick : FirstWith(ranked, key, pick) = first(pick)
    BY DEF WithAverage, AverageOf, AveragesOf, FirstWith
  <2>3. best = Max(values) /\ worst = Min(values)
    OBVIOUS
  <2>. HIDE DEF known, values, first, ranks, best, worst
  <2>. QED  BY <2>1, <2>2, <2>3 DEF RanksTruly, ranks
<1>3. ASSUME NEW m \in known  PROVE avg(m) \in Nat /\ avg(m) <= 1000
  <2>1. avg(m) \in m.score[key].avg
    BY DEF The, None
  <2>2. m.score[key].avg \subseteq 0..1000
    BY <1>1
  <2>. HIDE DEF known, avg
  <2>. QED  BY <2>1, <2>2, SMTT(30)
<1>4. ranking = {[best |-> k.best, worst |-> k.worst,
                  delta |-> Delta(k.bv, k.wv)] : k \in ranks}
  BY DEF Delta, build_config_score_comparison, RankedKeys
<1>. HIDE DEF known, avg, ranks, ranking, best, worst, first
<1>5. \A x \in values : x \in Nat /\ x <= 1000
  BY <1>3
<1>. HIDE DEF values
<1>6. known # {} => best \in Nat /\ worst \in Nat /\ worst <= best /\ worst <= 1000
  BY <1>2, <1>5
<1>7. ASSUME known # {}  PROVE Signed(delta, best, worst)
  <2>1. best \in Nat /\ worst \in Nat /\ worst <= best /\ worst <= 1000
    BY <1>6, <1>7
  <2>. QED  BY <2>1, DeltaIsSigned
<1>8. /\ known = {} => ranking = None
      /\ known # {} => ranking = {[best |-> first(best), worst |-> first(worst), delta |-> delta]}
  <2>1. CASE known = {}
    BY <1>2, <1>4, <2>1 DEF None
  <2>2. CASE known # {}
    <3> DEFINE k == [best |-> first(best), worst |-> first(worst), bv |-> best, wv |-> worst]
    <3>1. ranks = {k} /\ k.best = first(best) /\ k.worst = first(worst) /\ k.bv = best /\ k.wv = worst
      BY <1>2, <2>2
    <3>. HIDE DEF k
    <3>. QED  BY <1>4, <2>2, <3>1
  <2>. QED  BY <2>1, <2>2
<1>. HIDE DEF delta
<1>9. /\ ranking = None <=> known = {}
      /\ \A k \in ranking :
           /\ k.best = first(best) /\ k.worst = first(worst)
           /\ k.delta = None <=> worst = 0 /\ best > 0
           /\ \A d \in k.delta : d >= 0 /\ (d = 0 <=> best = worst)
  <2>1. CASE known = {}
    BY <1>8, <2>1 DEF None
  <2>2. CASE known # {}
    <3> DEFINE k == [best |-> first(best), worst |-> first(worst), delta |-> delta]
    <3>1. ranking = {k} /\ k.best = first(best) /\ k.worst = first(worst) /\ k.delta = delta
      BY <1>8, <2>2
    <3>. HIDE DEF k
    <3>. QED  BY <1>7, <2>2, <3>1 DEF None, Signed
  <2>. QED  BY <2>1, <2>2
<1>. QED  BY <1>9 DEF known, avg, first, best, worst, ranking

(* RankingIsTrue (Comparing): the best and the worst configuration have the extreme averages,  *)
(* the smallest id among equals, the difference has the sign it should, and confidence and      *)
(* reliability do not contradict each other, for every list of configurations.                  *)
THEOREM Ranked == Spec => []RankingIsTrue
<1>1. ASSUME NEW ranked \in Rankings
      PROVE  /\ IsFiniteSet(ToSet(ranked)) /\ ToSet(ranked) # {}
             /\ \A m \in ToSet(ranked) : ConfigRow(m)
  <2> DEFINE D == 1..Len(ranked)
  <2>1. /\ Len(ranked) \in Nat /\ DOMAIN ranked = D /\ ranked # << >>
        /\ \A i \in D : ConfigRow(ranked[i])
    BY RankingsAssumption
  <2>2. IsFiniteSet(D)
    BY <2>1, FS_Interval
  <2>3. 1 \in D
    <3>1. CASE Len(ranked) = 0
      BY <2>1, <3>1
    <3>. QED  BY <2>1, <3>1
  <2>. HIDE DEF D
  <2>4. ToSet(ranked) = {ranked[i] : i \in D}
    BY <2>1 DEF ToSet
  <2>5. IsFiniteSet({ranked[i] : i \in D})
    BY <2>2, ImageIsFinite
  <2>. QED  BY <2>1, <2>3, <2>4, <2>5
<1>2. ASSUME Given, input.call = "rank"
      PROVE  RankingIsTrue
  <2> DEFINE ranked == input.rows
             conf == _comparison_confidence_fields(ToSet(ranked))
  <2>1. ranked \in Rankings
    BY <1>2 DEF Given, CompareInput, RankInput, ChunkInput, PlanInput
  <2>. HIDE DEF ranked
  <2>2. /\ IsFiniteSet(ToSet(ranked)) /\ ToSet(ranked) # {}
        /\ \A m \in ToSet(ranked) : ConfigRow(m)
    BY <1>1, <2>1
  <2>3. /\ conf.reliable => conf.confidence # "LOW"
        /\ conf.confidence = "HIGH" => conf.reliable
        /\ \A m \in ToSet(ranked) : conf.effective <= m.unique_query_count
    <3> DEFINE rows == ToSet(ranked)
               counts == {m.unique_query_count : m \in rows}
               of == [m \in rows |-> m.unique_query_count]
    <3>1. IsFiniteSet(counts)
      <4>1. counts = {of[m] : m \in rows}
        OBVIOUS
      <4>. HIDE DEF counts, of
      <4>. QED  BY <2>2, <4>1, ImageIsFinite
    <3>2. counts # {} /\ counts \subseteq Int
      BY <2>2 DEF ConfigRow
    <3>3. Min(counts) \in Int /\ \A n \in counts : Min(counts) <= n
      <4>. HIDE DEF counts
      <4>. QED  BY <3>1, <3>2, MaxOfNumbers
    <3>4. /\ conf.effective = Min(counts)
          /\ conf.reliable <=> Min(counts) >= 10
          /\ conf.confidence = IF Min(counts) < 8 THEN "LOW" ELSE IF Min(counts) < 15 THEN "MEDIUM" ELSE "HIGH"
      BY DEF _comparison_confidence_fields, confidence_tier_from_effective_sample_size,
             comparison_statistically_reliable_by_effective_sample
    <3>5. \A m \in rows : m.unique_query_count \in counts
      OBVIOUS
    <3>. HIDE DEF counts, conf
    <3>. QED  BY <3>3, <3>4, <3>5
  <2>4. \A key \in RankedKeys :
          LET known == {m \in ToSet(ranked) : m.traced_runs > 0 /\ m.score[key].avg # None}
              avg(m) == The(m.score[key].avg)
              first(pick) == Min({m.id : m \in {n \in known : avg(n) = pick}})
              best == Max({avg(m) : m \in known})  worst == Min({avg(m) : m \in known})
              ranking == build_config_score_comparison(ranked)[key]
          IN  /\ ranking = None <=> known = {}
              /\ \A k \in ranking :
                   /\ k.best = first(best) /\ k.worst = first(worst)
                   /\ k.delta = None <=> worst = 0 /\ best > 0
                   /\ \A d \in k.delta : d >= 0 /\ (d = 0 <=> best = worst)
    BY <2>2, RankedKey
  <2>. QED  BY <2>3, <2>4, Zenon DEF RankingIsTrue, ranked
<1>3. Given => RankingIsTrue
  BY <1>2 DEF RankingIsTrue
<1>. QED  BY <1>3, GivenInvariant, PTL

-----------------------------------------------------------------------------
(* The integrity of a strict comparison. *)

Added(s, x) == IF Contains(s, x) THEN s ELSE Append(s, x)

Gathered(ids) ==
    LET iter[s \in SUBSET DOMAIN ids] ==
            IF s = {} THEN << >> ELSE Added(iter[s \ {Max(s)}], ids[Max(s)])
    IN  iter

\* The distinct elements of a sequence are those of one element less, and the
\* last one if it is new.
LEMMA DistinctOfPrefixes ==
    ASSUME NEW ids \in Seq(Nat)
    PROVE  /\ Distinct(ids) = Gathered(ids)[1..Len(ids)]
           /\ Gathered(ids)[1..0] = << >>
           /\ \A k \in 1..Len(ids) : Gathered(ids)[1..k] = Added(Gathered(ids)[1..(k - 1)], ids[k])
<1> DEFINE n == Len(ids)
<1>1. n \in Nat /\ DOMAIN ids = 1..n /\ \A i \in 1..n : ids[i] \in Nat
  OBVIOUS
<1>2. Distinct(ids) = Gathered(ids)[DOMAIN ids]
  BY DEF Distinct, FoldLeft, MapThenFoldSet, Gathered, Added
<1> DEFINE next == [i \in 1..n |-> [s \in Seq(Nat) |-> Added(s, ids[i])]]
           Good(f) == f = [s \in SUBSET (1..n) |-> IF s = {} THEN << >> ELSE Added(f[s \ {Max(s)}], ids[Max(s)])]
<1>. HIDE DEF n
<1>3. PICK g \in [SUBSET (1..n) -> Seq(Nat)] :
          \A s \in SUBSET (1..n) : g[s] = IF s = {} THEN << >> ELSE next[Max(s)][g[s \ {Max(s)}]]
  <2>1. Steps(n, Seq(Nat), << >>, next)
    <3>1. \A s \in Seq(Nat), x \in Nat : Added(s, x) \in Seq(Nat)
      BY DEF Added
    <3>. QED  BY <1>1, <3>1 DEF Steps
  <2>. HIDE DEF next, Good
  <2>2. \E g \in [SUBSET (1..n) -> Seq(Nat)] : FoldsUp(g, n, << >>, next)
    BY <2>1, PrefixFoldExists
  <2>. QED  BY <2>2 DEF FoldsUp
<1>4. \A s \in SUBSET (1..n) : s # {} => Max(s) \in 1..n /\ s \ {Max(s)} \in SUBSET (1..n)
  BY <1>1, MaxIsPicked
<1>5. Good(g)
  <2>1. \A s \in SUBSET (1..n) : g[s] = IF s = {} THEN << >> ELSE Added(g[s \ {Max(s)}], ids[Max(s)])
    BY <1>3, <1>4
  <2>. QED  BY <2>1
<1>6. Good(Gathered(ids))
  <2>1. Gathered(ids) = CHOOSE f : Good(f)
    BY <1>1 DEF Gathered
  <2>. HIDE DEF Good
  <2>. QED  BY <1>5, <2>1
<1>7. \A s \in SUBSET (1..n) :
          Gathered(ids)[s] = IF s = {} THEN << >> ELSE Added(Gathered(ids)[s \ {Max(s)}], ids[Max(s)])
  BY <1>6
<1>8. Gathered(ids)[1..0] = << >>
  <2>1. 1..0 = {} /\ {} \in SUBSET (1..n)
    OBVIOUS
  <2>. QED  BY <1>7, <2>1
<1>9. ASSUME NEW k \in 1..n
      PROVE  Gathered(ids)[1..k] = Added(Gathered(ids)[1..(k - 1)], ids[k])
  <2>0. k \in Nat /\ k > 0 /\ k <= n
    BY <1>1
  <2>1. 1..k \in SUBSET (1..n) /\ 1..k # {}
    <3>1. k \in 1..k /\ \A i \in 1..k : i \in 1..n
      BY <1>1, <2>0
    <3>. QED  BY <3>1
  <2>2. Max(1..k) = k /\ (1..k) \ {k} = 1..(k - 1)
    BY <2>0, LastIsMax
  <2> DEFINE s == 1..k
  <2>3. Gathered(ids)[s] = Added(Gathered(ids)[s \ {Max(s)}], ids[Max(s)])
    BY <1>7, <2>1
  <2>. QED  BY <2>2, <2>3
<1>. QED  BY <1>1, <1>2, <1>8, <1>9 DEF n

\* Each element once: no more are kept than there are, and no fewer.
LEMMA DistinctIsSet ==
    ASSUME NEW ids \in Seq(Nat)
    PROVE  /\ Distinct(ids) \in Seq(Nat)
           /\ ToSet(Distinct(ids)) = ToSet(ids)
           /\ IsFiniteSet(ToSet(ids)) /\ Len(Distinct(ids)) = Cardinality(ToSet(ids))
<1> DEFINE n == Len(ids)
           part(k) == Gathered(ids)[1..k]
           Once(s) == \A i, j \in 1..Len(s) : s[i] = s[j] => i = j
           Good(k) == /\ part(k) \in Seq(Nat) /\ Once(part(k))
                      /\ \A x : Contains(part(k), x) <=> \E i \in 1..k : ids[i] = x
           T == {k \in Nat : k <= n => Good(k)}
<1>1. n \in Nat /\ DOMAIN ids = 1..n /\ \A i \in 1..n : ids[i] \in Nat
  OBVIOUS
<1>2. /\ Distinct(ids) = part(n) /\ part(0) = << >>
      /\ \A k \in 1..n : part(k) = Added(part(k - 1), ids[k])
  BY <1>1, DistinctOfPrefixes
<1>. HIDE DEF n, part
<1>3. Good(0)
  <2>1. << >> \in Seq(Nat) /\ Len(<< >>) = 0 /\ 1..0 = {}
    OBVIOUS
  <2>2. part(0) \in Seq(Nat) /\ Len(part(0)) = 0
    BY <1>2, <2>1
  <2>. QED  BY <2>1, <2>2 DEF Contains
<1>4. ASSUME NEW k \in Nat, Good(k), k + 1 <= n
      PROVE  Good(k + 1)
  <2> DEFINE s == part(k)
             x == ids[k + 1]
  <2>1. part(k + 1) = Added(s, x) /\ x \in Nat
    BY <1>1, <1>2, <1>4
  <2>2. s \in Seq(Nat) /\ Once(s) /\ \A y : Contains(s, y) <=> \E i \in 1..k : ids[i] = y
    BY <1>4
  <2>3. \A y : (\E i \in 1..(k + 1) : ids[i] = y) <=> y = x \/ \E i \in 1..k : ids[i] = y
    OBVIOUS
  <2>. HIDE DEF s, x
  <2>4. CASE Contains(s, x)
    BY <2>1, <2>2, <2>3, <2>4 DEF Added
  <2>5. CASE ~Contains(s, x)
    <3> DEFINE t == Append(s, x)
    <3>1. /\ t \in Seq(Nat) /\ Len(t) = Len(s) + 1 /\ Len(s) \in Nat
          /\ \A i \in 1..Len(s) : t[i] = s[i]
          /\ t[Len(s) + 1] = x
      BY <2>1, <2>2
    <3>2. \A i \in 1..Len(s) : s[i] # x
      BY <2>5 DEF Contains
    <3>. HIDE DEF t
    <3>3. Once(t)
      <4>1. ASSUME NEW i \in 1..Len(t), NEW j \in 1..Len(t), t[i] = t[j]
            PROVE  i = j
        <5>1. /\ i \in 1..Len(s) \/ i = Len(s) + 1
              /\ j \in 1..Len(s) \/ j = Len(s) + 1
          BY <3>1
        <5>2. i \in 1..Len(s) /\ j \in 1..Len(s) => i = j
          BY <2>2, <3>1, <4>1
        <5>3. CASE i = Len(s) + 1 /\ j \in 1..Len(s)
          BY <3>1, <3>2, <4>1, <5>3
        <5>4. CASE j = Len(s) + 1 /\ i \in 1..Len(s)
          BY <3>1, <3>2, <4>1, <5>4
        <5>. QED  BY <5>1, <5>2, <5>3, <5>4
      <4>. QED  BY <4>1
    <3>4. \A y : Contains(t, y) <=> y = x \/ Contains(s, y)
      <4>1. \A i : i \in 1..Len(t) <=> i \in 1..Len(s) \/ i = Len(s) + 1
        BY <3>1
      <4>2. ASSUME NEW y  PROVE (\E i \in 1..Len(t) : t[i] = y) <=> y = x \/ \E i \in 1..Len(s) : s[i] = y
        BY <3>1, <4>1
      <4>3. /\ Len(t) \in Nat /\ Len(s) \in Nat
            /\ \A y : Contains(t, y) <=> \E i \in 1..Len(t) : t[i] = y
            /\ \A y : Contains(s, y) <=> \E i \in 1..Len(s) : s[i] = y
        BY <3>1 DEF Contains
      <4>. QED  BY <4>2, <4>3
    <3>5. part(k + 1) = t
      BY <2>1, <2>5 DEF Added, t
    <3>. HIDE DEF Once
    <3>. QED  BY <2>2, <2>3, <3>1, <3>3, <3>4, <3>5
  <2>. QED  BY <2>4, <2>5
<1>. HIDE DEF Good
<1>5. n \in T
  <2>1. 0 \in T /\ \A k \in Nat : k \in T => k + 1 \in T
    BY <1>1, <1>3, <1>4
  <2>. HIDE DEF T
  <2>. QED  BY <1>1, <2>1, InductiveSet
<1> DEFINE d == Distinct(ids)
<1>6. d \in Seq(Nat) /\ Once(d) /\ \A x : Contains(d, x) <=> \E i \in 1..n : ids[i] = x
  BY <1>1, <1>2, <1>5 DEF Good
<1>. HIDE DEF d
<1>7. ToSet(d) = ToSet(ids)
  <2>1. ToSet(d) = {d[i] : i \in 1..Len(d)} /\ ToSet(ids) = {ids[i] : i \in 1..n}
    BY <1>1, <1>6 DEF ToSet
  <2>2. ASSUME NEW x
        PROVE  x \in ToSet(d) <=> x \in ToSet(ids)
    <3>1. x \in ToSet(d) <=> Contains(d, x)
      BY <2>1 DEF Contains
    <3>2. x \in ToSet(ids) <=> \E i \in 1..n : ids[i] = x
      BY <2>1
    <3>. QED  BY <1>6, <3>1, <3>2
  <2>. QED  BY <2>2
<1>8. IsFiniteSet(ToSet(d)) /\ Cardinality(ToSet(d)) = Len(d)
  <2> DEFINE D == 1..Len(d)
  <2>1. IsFiniteSet(D) /\ Cardinality(D) = Len(d)
    BY <1>6, FS_Interval
  <2>2. DOMAIN d = D /\ \A i, j \in D : d[i] = d[j] => i = j
    BY <1>6
  <2>. HIDE DEF D
  <2>3. ToSet(d) = {d[i] : i \in D}
    BY <2>2 DEF ToSet
  <2>4. /\ IsFiniteSet({d[i] : i \in D})
        /\ (\A i, j \in D : d[i] = d[j] => i = j) => Cardinality({d[i] : i \in D}) = Cardinality(D)
    BY <2>1, ImageIsFinite
  <2>. QED  BY <2>1, <2>2, <2>3, <2>4
<1>. QED  BY <1>6, <1>7, <1>8 DEF d

\* What a comparison looks at, by the names compare_pipeline_configs gives it.
Base == RunBase(input.runs, Distinct(input.query.ids), input.query.dataset,
                resolve_include_benchmark_realism_for_comparison(input.query.dataset, input.query.realism))
MinOf(q) == IF q.strict THEN {IF ValueOf(q.min) > 2 THEN The(q.min) ELSE 2} ELSE q.min
BucketsOf(q) == IF q.type = "both" THEN Buckets ELSE {q.type}
RowsOf(b) == _build_metrics_list(Base, b, Distinct(input.query.ids))
CasesOf == _query_query_case_sets(Base, Distinct(input.query.ids))

\* What the assumptions say of the arguments of a comparison.
LEMMA ComparedInput ==
    ASSUME Given, input.call = "compare"
    PROVE  /\ input.query.ids \in Seq(Nat) /\ input.query.type \in {"heuristic", "llm", "both"}
           /\ Optional(input.query.dataset) /\ Optional(input.query.min)
           /\ input.query.strict \in BOOLEAN /\ input.query.realism \in BOOLEAN
           /\ IsFiniteSet(input.runs) /\ (\A r \in input.runs : RunRow(r))
           /\ \A r, s \in input.runs : r.id = s.id => r = s
<1>1. input.query \in Queries /\ input.runs \in Databases
  BY DEF Given, CompareInput, RankInput, ChunkInput, PlanInput
<1>. QED  BY <1>1, QueriesAssumption, DatabasesAssumption DEF Database

\* The runs of a configuration asked for are those that the query compares.
LEMMA OfIsCompares ==
    ASSUME Given, input.call = "compare"
    PROVE  /\ \A pid \in ToSet(input.query.ids) :
                Of(Base, pid) = Compares(pid) /\ IsFiniteSet(Compares(pid))
           /\ ToSet(Distinct(input.query.ids)) = ToSet(input.query.ids)
<1> DEFINE q == input.query
<1>1. q.ids \in Seq(Nat) /\ q.realism \in BOOLEAN /\ IsFiniteSet(input.runs)
      /\ (\A r \in input.runs : r.realism \in BOOLEAN)
  BY ComparedInput DEF RunRow
<1>2. ToSet(Distinct(q.ids)) = ToSet(q.ids)
  BY <1>1, DistinctIsSet
<1>. HIDE DEF q
<1>3. ASSUME NEW pid \in ToSet(q.ids)
      PROVE  Of(Base, pid) = Compares(pid) /\ IsFiniteSet(Compares(pid))
  <2>1. Base = {r \in IF q.realism \/ q.dataset # None THEN input.runs ELSE Organic(input.runs) :
                   r.traced /\ r.config \in ToSet(q.ids) /\ (q.dataset # None => r.dataset \in q.dataset)}
    BY <1>2 DEF Base, RunBase, q, resolve_include_benchmark_realism_for_comparison
  <2>2. Compares(pid) = {r \in input.runs : /\ r.traced /\ r.config = pid
                                           /\ IF q.dataset = None THEN q.realism \/ ~r.realism
                                              ELSE r.dataset \in q.dataset}
    BY DEF Compares, q
  <2>3. Of(Base, pid) = {r \in Base : r.config = pid}
    BY DEF Of
  <2>4. ASSUME NEW r
        PROVE  r \in Of(Base, pid) <=> r \in Compares(pid)
    BY <2>1, <2>2, <2>3 DEF Organic
  <2>5. Of(Base, pid) = Compares(pid)
    BY <2>4
  <2>6. Compares(pid) \in SUBSET input.runs
    BY <2>2
  <2>. QED  BY <1>1, <2>5, <2>6, FS_Subset
<1>. QED  BY <1>2, <1>3 DEF q

(* StrictIsEnforced (Comparing): for every database and query, a comparison is answered exactly *)
(* when the integrity that it demands is given, duplicate ids and configurations without runs   *)
(* included; a strict one has the same cases in a bucket that all its runs belong to.            *)
THEOREM Strict == Spec => []StrictIsEnforced
<1>1. ASSUME Given, input.call = "compare"
      PROVE  StrictIsEnforced
  <2> DEFINE q == input.query
             ids == q.ids
             pids == Distinct(ids)
             min == MinOf(q)
             of == BucketsOf(q)
             least == IF q.strict /\ ValueOf(q.min) < 2 THEN 2 ELSE ValueOf(q.min)
             cases(pid) == {r.case : r \in Compares(pid)}
             some == CHOOSE b : b \in of
             Refused == \/ pids = << >> \/ Len(pids) > 64
                        \/ q.strict /\ q.dataset = None
                        \/ \E b \in of : ~_enforce_integrity(RowsOf(b), CasesOf, min, q.strict)
  <2>1. Compared = None <=> Refused
    BY DEF Compared, compare_pipeline_configs, Base, MinOf, BucketsOf, RowsOf, CasesOf, None
  <2>2. /\ ids \in Seq(Nat) /\ q.strict \in BOOLEAN /\ Optional(q.min)
        /\ q.type \in {"heuristic", "llm", "both"}
    BY <1>1, ComparedInput
  <2>3. /\ \A pid \in ToSet(ids) : Of(Base, pid) = Compares(pid) /\ IsFiniteSet(Compares(pid))
        /\ ToSet(pids) = ToSet(ids)
    BY <1>1, OfIsCompares
  <2>4. /\ pids \in Seq(Nat) /\ IsFiniteSet(ToSet(ids)) /\ Len(pids) = Cardinality(ToSet(ids))
    BY <2>2, DistinctIsSet
  <2>. HIDE DEF q
  <2>5. (pids = << >> \/ Len(pids) > 64) <=> ~(Cardinality(ToSet(ids)) \in 1..64)
    <3> DEFINE c == Cardinality(ToSet(ids))
    <3>. HIDE DEF pids
    <3>1. /\ pids = << >> <=> Len(pids) = 0
          /\ Len(pids) = c /\ c \in Nat
      BY <2>4, FS_CardinalityType
    <3>. HIDE DEF c
    <3>2. (pids = << >> \/ Len(pids) > 64) <=> ~(c \in 1..64)
      BY <3>1
    <3>. QED  BY <3>2 DEF c
  <2>6. /\ \A n \in min : n \in Nat
        /\ \A k \in Nat : (\A n \in min : k >= n) <=> k >= least
    <3>1. ValueOf(q.min) \in Nat /\ (q.min # None => q.min = {ValueOf(q.min)})
          /\ (q.min = None => ValueOf(q.min) = 0)
      BY <2>2, OptionalValue
    <3>2. ValueOf(q.min) > 2 => The(q.min) = ValueOf(q.min)
      BY <3>1 DEF ValueOf
    <3> DEFINE v == ValueOf(q.min)
    <3>. HIDE DEF v
    <3>3. CASE q.strict
      <4>1. min = {IF v > 2 THEN v ELSE 2}
        BY <3>2, <3>3 DEF MinOf, v
      <4>. QED  BY <3>1, <3>3, <4>1 DEF v
    <3>4. CASE ~q.strict /\ q.min = None
      BY <3>1, <3>4 DEF MinOf, None, v
    <3>5. CASE ~q.strict /\ q.min # None
      <4>1. min = {v}
        BY <3>1, <3>5 DEF MinOf, v
      <4>. QED  BY <3>1, <3>5, <4>1 DEF v
    <3>. QED  BY <3>3, <3>4, <3>5
  <2>7. ASSUME NEW b
        PROVE  (\A n \in min, m \in ToSet(RowsOf(b)) : m.traced_runs >= n)
                   <=> \A i \in DOMAIN ids : Cardinality(Compares(ids[i])) >= least
    <3>1. ToSet(RowsOf(b)) = {MetricsOf(Base, b, pid) : pid \in ToSet(ids)}
      <4>1. RowsOf(b) = [i \in DOMAIN pids |-> MetricsOf(Base, b, pids[i])]
        BY DEF RowsOf, _build_metrics_list, q
      <4>. HIDE DEF pids
      <4>2. ToSet(RowsOf(b)) = {MetricsOf(Base, b, pids[i]) : i \in DOMAIN pids}
        BY <4>1 DEF ToSet
      <4>3. ToSet(pids) = {pids[i] : i \in DOMAIN pids}
        BY DEF ToSet
      <4>. QED  BY <2>3, <4>2, <4>3
    <3>2. \A pid \in ToSet(ids) : /\ MetricsOf(Base, b, pid).traced_runs = Cardinality(Compares(pid))
                                  /\ Cardinality(Compares(pid)) \in Nat
      BY <2>3, FS_CardinalityType DEF MetricsOf
    <3>3. (\A n \in min, m \in ToSet(RowsOf(b)) : m.traced_runs >= n)
              <=> \A pid \in ToSet(ids) : \A n \in min : Cardinality(Compares(pid)) >= n
      BY <3>1, <3>2
    <3>4. (\A pid \in ToSet(ids) : \A n \in min : Cardinality(Compares(pid)) >= n)
              <=> \A pid \in ToSet(ids) : Cardinality(Compares(pid)) >= least
      BY <2>6, <3>2
    <3>5. ToSet(ids) = {ids[i] : i \in DOMAIN ids}
      BY DEF ToSet
    <3>. QED  BY <3>3, <3>4, <3>5
  <2>8. Cardinality({CasesOf[pid] : pid \in DOMAIN CasesOf}) <= 1
            <=> \A i, j \in DOMAIN ids : cases(ids[i]) = cases(ids[j])
    <3> DEFINE all == {CasesOf[pid] : pid \in DOMAIN CasesOf}
    <3>1. DOMAIN CasesOf = ToSet(ids) /\ \A pid \in ToSet(ids) : CasesOf[pid] = cases(pid)
      BY <2>3 DEF CasesOf, _query_query_case_sets, q
    <3>2. IsFiniteSet(all)
      BY <2>4, <3>1, ImageIsFinite
    <3>. HIDE DEF all
    <3>3. Cardinality(all) \in Nat /\ (Cardinality(all) = 0 <=> all = {})
          /\ (Cardinality(all) = 1 <=> \E x : all = {x})
      BY <3>2, FS_CardinalityType, FS_EmptySet, FS_Singleton
    <3>4. Cardinality(all) <= 1 <=> \A x, y \in all : x = y
      <4>1. (\A x, y \in all : x = y) => all = {} \/ \E x : all = {x}
        OBVIOUS
      <4>. QED  BY <3>3, <4>1
    <3>. HIDE DEF cases
    <3>5. all = {cases(ids[i]) : i \in DOMAIN ids}
      BY <3>1 DEF all, ToSet
    <3>. QED  BY <3>4, <3>5 DEF all
  <2>9. of # {}
    BY <2>2 DEF BucketsOf, Buckets
  <2>10. ASSUME NEW b
         PROVE  _enforce_integrity(RowsOf(b), CasesOf, min, q.strict)
                    <=> /\ q.strict => \A i, j \in DOMAIN ids : cases(ids[i]) = cases(ids[j])
                        /\ \A i \in DOMAIN ids : Cardinality(Compares(ids[i])) >= least
    BY <2>7, <2>8 DEF _enforce_integrity
  <2>11. Compared # None <=>
             /\ Cardinality(ToSet(ids)) \in 1..64
             /\ \A i \in DOMAIN ids : Cardinality(Compares(ids[i])) >= least
             /\ q.strict => /\ q.dataset # None
                            /\ \A i, j \in DOMAIN ids : cases(ids[i]) = cases(ids[j])
    <3>1. Refused <=> ~ /\ Cardinality(ToSet(ids)) \in 1..64
                        /\ \A i \in DOMAIN ids : Cardinality(Compares(ids[i])) >= least
                        /\ q.strict => /\ q.dataset # None
                                       /\ \A i, j \in DOMAIN ids : cases(ids[i]) = cases(ids[j])
      <4>. HIDE DEF pids, min, of, least, cases
      <4>. QED  BY <2>2, <2>5, <2>9, <2>10
    <3>. QED  BY <2>1, <3>1
  <2>12. ASSUME Compared # None, q.strict, NEW b \in Buckets,
                \A i \in DOMAIN ids : \A r \in Compares(ids[i]) : InBucket(r, b),
                NEW i \in DOMAIN ids, NEW j \in DOMAIN ids
         PROVE  {r.case : r \in {s \in Compares(ids[i]) : InBucket(s, b)}}
                    = {r.case : r \in {s \in Compares(ids[j]) : InBucket(s, b)}}
    <3>1. \A k \in DOMAIN ids : {s \in Compares(ids[k]) : InBucket(s, b)} = Compares(ids[k])
      BY <2>12
    <3>2. cases(ids[i]) = cases(ids[j])
      BY <2>11, <2>12
    <3>. QED  BY <3>1, <3>2
  <2>. QED  BY <2>11, <2>12 DEF StrictIsEnforced, q
<1>2. Given => StrictIsEnforced
  BY <1>1 DEF StrictIsEnforced
<1>. QED  BY <1>2, GivenInvariant, PTL

-----------------------------------------------------------------------------
(* The order of runs by a latency. *)

\* How many come before x in the order of v and, among equals, of id.
Rank(S, v, id, x) == Cardinality({y \in S : v[y] < v[x] \/ (v[y] = v[x] /\ id[y] < id[x])})
Nth(S, v, id, n) == CHOOSE x \in S : Rank(S, v, id, x) = n - 1

\* Elements of the same rank have the same value.
LEMMA RankIsSharp ==
    ASSUME NEW S, IsFiniteSet(S), NEW v \in [S -> Int], NEW id \in [S -> Int], NEW x \in S, NEW y \in S,
           v[x] < v[y]
    PROVE  Rank(S, v, id, x) < Rank(S, v, id, y)
<1> DEFINE below(z) == {w \in S : v[w] < v[z] \/ (v[w] = v[z] /\ id[w] < id[z])}
<1>1. \A w \in S : v[w] \in Int /\ id[w] \in Int
  OBVIOUS
<1>2. below(x) \in SUBSET below(y) /\ x \in below(y) /\ x \notin below(x)
  BY <1>1
<1>3. IsFiniteSet(below(x)) /\ IsFiniteSet(below(y))
  BY FS_Subset
<1>4. Rank(S, v, id, x) = Cardinality(below(x)) /\ Rank(S, v, id, y) = Cardinality(below(y))
  BY DEF Rank
<1>. HIDE DEF below
<1>5. Cardinality(below(x)) <= Cardinality(below(y)) /\ Cardinality(below(x)) # Cardinality(below(y))
  BY <1>2, <1>3, FS_Subset
<1>6. Cardinality(below(x)) \in Nat /\ Cardinality(below(y)) \in Nat
  BY <1>3, FS_CardinalityType
<1>. QED  BY <1>4, <1>5, <1>6

\* The elements of S under other names, with their values and numbers.
Renames(h, S, v, id, R, w, jd) == IsFiniteSet(S) /\ Moved(h, S, v, R, w) /\ Moved(h, S, id, R, jd)

LEMMA NthMoves ==
    ASSUME NEW h, NEW S, NEW v, NEW id, NEW R, NEW w, NEW jd, Renames(h, S, v, id, R, w, jd), NEW n
    PROVE  \/ Nth(R, w, jd, n) = Nth(S, v, id, n)
           \/ /\ Nth(R, w, jd, n) \in R /\ Nth(S, v, id, n) \in S
              /\ w[Nth(R, w, jd, n)] = v[Nth(S, v, id, n)]
<1>1. /\ IsFiniteSet(S) /\ v \in [S -> Int] /\ id \in [S -> Int]
      /\ R = {h[x] : x \in S} /\ w \in [R -> Int] /\ jd \in [R -> Int]
      /\ \A x, y \in S : h[x] = h[y] => x = y
      /\ \A x \in S : h[x] \in R /\ w[h[x]] = v[x] /\ jd[h[x]] = id[x]
  BY DEF Renames, Moved
<1>2. ASSUME NEW x \in S
      PROVE  Rank(R, w, jd, h[x]) = Rank(S, v, id, x)
  <2> DEFINE B == {y \in S : v[y] < v[x] \/ (v[y] = v[x] /\ id[y] < id[x])}
             C == {y \in R : w[y] < w[h[x]] \/ (w[y] = w[h[x]] /\ jd[y] < jd[h[x]])}
  <2>1. C = {h[y] : y \in B}
    <3>1. ASSUME NEW c  PROVE c \in C <=> c \in {h[y] : y \in B}
      BY <1>1
    <3>. QED  BY <3>1
  <2>2. IsFiniteSet(B) /\ \A y, z \in B : h[y] = h[z] => y = z
    BY <1>1, FS_Subset
  <2>3. Rank(S, v, id, x) = Cardinality(B) /\ Rank(R, w, jd, h[x]) = Cardinality(C)
    BY DEF Rank
  <2>. HIDE DEF B, C
  <2>4. Cardinality({h[y] : y \in B}) = Cardinality(B)
    BY <2>2, ImageIsFinite
  <2>. QED  BY <2>1, <2>3, <2>4
<1> DEFINE At(x) == Rank(S, v, id, x) = n - 1
           AtR(x) == Rank(R, w, jd, x) = n - 1
           p == Nth(S, v, id, n)
           q == Nth(R, w, jd, n)
<1>3. p = CHOOSE x \in S : At(x)
  BY DEF Nth
<1>4. q = CHOOSE x \in R : AtR(x)
  BY DEF Nth
<1>5. \A x \in S : AtR(h[x]) <=> At(x)
  BY <1>2
<1>6. \A y \in R : \E x \in S : y = h[x]
  BY <1>1
<1>. HIDE DEF At, AtR, p, q
<1>7. CASE \E x \in S : At(x)
  <2>1. p \in S /\ At(p)
    BY <1>3, <1>7
  <2>2. q \in R /\ AtR(q)
    BY <1>1, <1>4, <1>5, <1>7
  <2>3. PICK z \in S : q = h[z]
    BY <1>6, <2>2
  <2>4. At(z)
    BY <1>5, <2>2, <2>3
  <2>5. Rank(S, v, id, z) = Rank(S, v, id, p)
    BY <2>1, <2>4 DEF At
  <2>6. v[z] = v[p]
    <3> DEFINE a == Rank(S, v, id, z)
               b == Rank(S, v, id, p)
    <3>1. a \in Nat /\ b \in Nat
      BY <1>1, FS_Subset, FS_CardinalityType DEF Rank
    <3>2. (v[z] < v[p] => a < b) /\ (v[p] < v[z] => b < a)
      BY <1>1, <2>1, RankIsSharp
    <3>3. v[z] \in Int /\ v[p] \in Int
      BY <1>1, <2>1
    <3>. HIDE DEF a, b
    <3>4. a = b
      BY <2>5 DEF a, b
    <3>. QED  BY <3>1, <3>2, <3>3, <3>4
  <2>. QED  BY <1>1, <2>1, <2>2, <2>3, <2>6 DEF p, q
<1>8. CASE ~\E x \in S : At(x)
  <2>1. \A x : ~(x \in S /\ At(x))
    BY <1>8
  <2>2. \A x : ~(x \in R /\ AtR(x))
    BY <1>5, <1>6, <1>8
  <2>3. p = q
    BY <1>3, <1>4, <2>1, <2>2
  <2>. QED  BY <2>3 DEF p, q
<1>. QED  BY <1>7, <1>8

-----------------------------------------------------------------------------
(* Latencies: their mean, variance and percentile know of a run no more    *)
(* than its latency and its number.                                        *)

Lasting(rows, phase) == {r \in rows : LatencyOf(r, phase) # None}
Millis(rows, phase) == [r \in Lasting(rows, phase) |-> The(LatencyOf(r, phase))]
Squares(rows, phase) == [r \in Lasting(rows, phase) |-> The(LatencyOf(r, phase)) * The(LatencyOf(r, phase))]
Ids(rows, phase) == [r \in Lasting(rows, phase) |-> r.id]

MeanLatency(rows, phase) == LET Value(r) == LatencyOf(r, phase) IN Mean(rows, Value)
LatencyVariance(rows, phase) == LET Value(r) == LatencyOf(r, phase) IN VarianceSamp(rows, Value)
SortedLatencies(rows, phase) == LET Value(r) == LatencyOf(r, phase) IN Sorted(rows, Value)
Latency95(rows, phase) == LET Value(r) == LatencyOf(r, phase) IN percentile_cont(95, rows, Value)

\* h changes neither the latencies nor the numbers of runs.
Relabels(h, rows, phase) ==
    /\ IsFiniteSet(rows) /\ \A r, s \in rows : h[r] = h[s] => r = s
    /\ \A r \in rows : h[r].lat = r.lat /\ h[r].id = r.id /\ r.id \in Nat /\ Optional(r.lat[phase])

LEMMA KnownMoves ==
    ASSUME NEW h, NEW rows, NEW phase, Relabels(h, rows, phase), NEW R, R = {h[r] : r \in rows}
    PROVE  /\ Renames(h, Lasting(rows, phase), Millis(rows, phase), Ids(rows, phase),
                      Lasting(R, phase), Millis(R, phase), Ids(R, phase))
           /\ Renames(h, Lasting(rows, phase), Squares(rows, phase), Ids(rows, phase),
                      Lasting(R, phase), Squares(R, phase), Ids(R, phase))
           /\ Cardinality(Lasting(R, phase)) = Cardinality(Lasting(rows, phase))
           /\ Lasting(R, phase) = None <=> Lasting(rows, phase) = None
<1> DEFINE K == Lasting(rows, phase)
           L == Lasting(R, phase)
<1>1. /\ IsFiniteSet(rows) /\ \A r, s \in rows : h[r] = h[s] => r = s
      /\ \A r \in rows : h[r].lat = r.lat /\ h[r].id = r.id /\ r.id \in Nat /\ Optional(r.lat[phase])
  BY DEF Relabels
<1>2. L = {h[r] : r \in K}
  <2>1. ASSUME NEW s  PROVE s \in L <=> s \in {h[r] : r \in K}
    BY <1>1 DEF Lasting, LatencyOf
  <2>. QED  BY <2>1
<1>3. IsFiniteSet(K) /\ K \in SUBSET rows /\ \A r, s \in K : h[r] = h[s] => r = s
  BY <1>1, FS_Subset DEF Lasting
<1>4. ASSUME NEW r \in K
      PROVE  The(LatencyOf(r, phase)) \in Nat /\ LatencyOf(h[r], phase) = LatencyOf(r, phase) /\ h[r].id = r.id
             /\ r.id \in Nat /\ h[r] \in L
  <2>1. LatencyOf(r, phase) # None /\ Optional(LatencyOf(r, phase))
    BY <1>1, <1>3 DEF Lasting, LatencyOf
  <2>2. The(LatencyOf(r, phase)) \in Nat
    BY <2>1, OptionalValue DEF ValueOf
  <2>. QED  BY <1>1, <1>2, <1>3, <2>2 DEF LatencyOf
<1>. HIDE DEF K, L
<1>5. \A s \in L : \E r \in K : s = h[r]
  BY <1>2
<1>6. /\ Millis(rows, phase) \in [K -> Int] /\ Squares(rows, phase) \in [K -> Int] /\ Ids(rows, phase) \in [K -> Int]
      /\ \A r \in K : /\ Millis(rows, phase)[r] = The(LatencyOf(r, phase))
                      /\ Squares(rows, phase)[r] = The(LatencyOf(r, phase)) * The(LatencyOf(r, phase))
                      /\ Ids(rows, phase)[r] = r.id
  <2>1. \A r \in K : The(LatencyOf(r, phase)) * The(LatencyOf(r, phase)) \in Int
    BY <1>4
  <2>. QED  BY <1>4, <2>1 DEF Millis, Squares, Ids, K
<1>7. /\ Millis(R, phase) \in [L -> Int] /\ Squares(R, phase) \in [L -> Int] /\ Ids(R, phase) \in [L -> Int]
      /\ \A r \in L : /\ Millis(R, phase)[r] = The(LatencyOf(r, phase))
                      /\ Squares(R, phase)[r] = The(LatencyOf(r, phase)) * The(LatencyOf(r, phase))
                      /\ Ids(R, phase)[r] = r.id
  <2>1. \A r \in L : The(LatencyOf(r, phase)) \in Nat /\ r.id \in Nat
    BY <1>4, <1>5
  <2>2. \A r \in L : The(LatencyOf(r, phase)) * The(LatencyOf(r, phase)) \in Int
    BY <2>1
  <2>. QED  BY <2>1, <2>2 DEF Millis, Squares, Ids, L
<1>8. Cardinality(L) = Cardinality(K) /\ (L = None <=> K = None)
  BY <1>2, <1>3, ImageIsFinite DEF None
<1>9. /\ Renames(h, K, Millis(rows, phase), Ids(rows, phase), L, Millis(R, phase), Ids(R, phase))
      /\ Renames(h, K, Squares(rows, phase), Ids(rows, phase), L, Squares(R, phase), Ids(R, phase))
  <2>1. ASSUME NEW r \in K
        PROVE  /\ Millis(R, phase)[h[r]] = Millis(rows, phase)[r]
               /\ Squares(R, phase)[h[r]] = Squares(rows, phase)[r]
               /\ Ids(R, phase)[h[r]] = Ids(rows, phase)[r]
    BY <1>4, <1>6, <1>7
  <2>. QED  BY <1>2, <1>3, <1>6, <1>7, <2>1 DEF Renames, Moved
<1>. QED  BY <1>8, <1>9 DEF K, L

\* A latency at each place of the order is that of the run with this rank.
LEMMA SortedByRank ==
    ASSUME NEW rows, NEW phase, \A r \in rows : Optional(r.lat[phase])
    PROVE  SortedLatencies(rows, phase)
               = [n \in 1..Cardinality(Lasting(rows, phase)) |->
                      Nth(Lasting(rows, phase), Millis(rows, phase), Ids(rows, phase), n)]
<1> DEFINE K == Lasting(rows, phase)
           v == Millis(rows, phase)
           id == Ids(rows, phase)
           before(a, b) == \/ The(LatencyOf(a, phase)) < The(LatencyOf(b, phase))
                           \/ LatencyOf(a, phase) = LatencyOf(b, phase) /\ a.id < b.id
           Place(x) == Cardinality({y \in K : before(y, x)})
<1>1. SortedLatencies(rows, phase) = [n \in 1..Cardinality(K) |-> CHOOSE x \in K : Place(x) = n - 1]
  BY DEF SortedLatencies, Sorted, Ordered, Lasting
<1>2. ASSUME NEW x \in K, NEW y \in K
      PROVE  before(y, x) <=> (v[y] < v[x] \/ (v[y] = v[x] /\ id[y] < id[x]))
  <2>1. \A r \in K : v[r] = The(LatencyOf(r, phase)) /\ id[r] = r.id /\ LatencyOf(r, phase) = {v[r]}
    <3>1. \A r \in K : LatencyOf(r, phase) # None /\ Optional(LatencyOf(r, phase))
      BY DEF Lasting, LatencyOf
    <3>2. \A r \in K : LatencyOf(r, phase) = {The(LatencyOf(r, phase))}
      BY <3>1, OptionalValue DEF ValueOf
    <3>. QED  BY <3>2 DEF Millis, Ids
  <2>. HIDE DEF K, v, id
  <2>2. LatencyOf(x, phase) = LatencyOf(y, phase) <=> v[x] = v[y]
    BY <2>1
  <2>. QED  BY <2>1, <2>2
<1>3. \A x \in K : Place(x) = Rank(K, v, id, x)
  <2>1. ASSUME NEW x \in K
        PROVE  {y \in K : before(y, x)} = {y \in K : v[y] < v[x] \/ (v[y] = v[x] /\ id[y] < id[x])}
    <3>. HIDE DEF before, K, v, id
    <3>. QED  BY <1>2
  <2>. HIDE DEF before, K, v, id
  <2>. QED  BY <2>1 DEF Rank
<1>. HIDE DEF Place, K, v, id
<1>4. \A n : (CHOOSE x \in K : Place(x) = n - 1) = Nth(K, v, id, n)
  <2>1. ASSUME NEW n
        PROVE  (CHOOSE x \in K : Place(x) = n - 1) = CHOOSE x \in K : Rank(K, v, id, x) = n - 1
    <3>1. \A x : (x \in K /\ Place(x) = n - 1) <=> (x \in K /\ Rank(K, v, id, x) = n - 1)
      BY <1>3
    <3>. QED  BY <3>1
  <2>. QED  BY <2>1 DEF Nth
<1>. QED  BY <1>1, <1>4 DEF K, v, id

\* The places that the percentile looks at are places of the order.
LEMMA PlaceIsInside ==
    ASSUME NEW n \in Nat, n > 0
    PROVE  /\ (95 * (n - 1)) \div 100 + 1 \in 1..n
           /\ (95 * (n - 1) + 99) \div 100 + 1 \in 1..n
<1> DEFINE p == 95 * (n - 1)
           w == p \div 100
           u == (p + 99) \div 100
<1>1. p \in Nat /\ p <= 100 * (n - 1)
  OBVIOUS
<1>. HIDE DEF p
<1>2. /\ w \in Int /\ u \in Int
      /\ p = 100 * w + (p % 100) /\ p % 100 \in 0..99
      /\ p + 99 = 100 * u + ((p + 99) % 100) /\ (p + 99) % 100 \in 0..99
  BY <1>1
<1>. HIDE DEF w, u
<1>3. w >= 0 /\ u >= 0 /\ w <= n - 1 /\ u <= n - 1
  BY <1>1, <1>2
<1>. QED  BY <1>2, <1>3 DEF p, w, u

LEMMA LatenciesMove ==
    ASSUME NEW h, NEW rows, NEW phase, Relabels(h, rows, phase), NEW R, R = {h[r] : r \in rows}
    PROVE  /\ MeanLatency(R, phase) = MeanLatency(rows, phase)
           /\ LatencyVariance(R, phase) = LatencyVariance(rows, phase)
           /\ Latency95(R, phase) = Latency95(rows, phase)
<1> DEFINE K == Lasting(rows, phase)
           L == Lasting(R, phase)
<1>1. /\ Renames(h, K, Millis(rows, phase), Ids(rows, phase), L, Millis(R, phase), Ids(R, phase))
      /\ Renames(h, K, Squares(rows, phase), Ids(rows, phase), L, Squares(R, phase), Ids(R, phase))
      /\ Cardinality(L) = Cardinality(K) /\ (L = None <=> K = None)
  BY KnownMoves
<1>. HIDE DEF K, L
<1>2. /\ SumFunction(Millis(R, phase)) = SumFunction(Millis(rows, phase))
      /\ SumFunction(Squares(R, phase)) = SumFunction(Squares(rows, phase))
  BY <1>1, SumMoves DEF Renames
<1>3. MeanLatency(R, phase) = MeanLatency(rows, phase)
  <2>1. \A all : MeanLatency(all, phase) = IF Lasting(all, phase) = None THEN None
            ELSE {<<SumFunction(Millis(all, phase)), Cardinality(Lasting(all, phase))>>}
    BY DEF MeanLatency, Mean, Lasting, Millis, None
  <2>. QED  BY <1>1, <1>2, <2>1 DEF K, L
<1>4. LatencyVariance(R, phase) = LatencyVariance(rows, phase)
  <2> DEFINE Formula(n, sum, squares) == IF n < 2 THEN None ELSE {<<n * squares - sum * sum, n * (n - 1)>>}
  <2>1. \A all : LatencyVariance(all, phase)
            = Formula(Cardinality(Lasting(all, phase)), SumFunction(Millis(all, phase)), SumFunction(Squares(all, phase)))
    BY DEF LatencyVariance, VarianceSamp, Lasting, Millis, Squares
  <2>. HIDE DEF Formula
  <2>. QED  BY <1>1, <1>2, <2>1 DEF K, L
<1>5. Latency95(R, phase) = Latency95(rows, phase)
  <2> DEFINE s == SortedLatencies(rows, phase)
             t == SortedLatencies(R, phase)
             n == Cardinality(K)
             Formula(len, none, low, high) ==
                 IF none THEN None ELSE {<<100 * low + (high - low) * ((95 * (len - 1)) % 100), 100>>}
             low(x) == The(LatencyOf(x[(95 * (Len(x) - 1)) \div 100 + 1], phase))
             high(x) == The(LatencyOf(x[(95 * (Len(x) - 1) + 99) \div 100 + 1], phase))
  <2>1. /\ Latency95(rows, phase) = Formula(Len(s), s = << >>, low(s), high(s))
        /\ Latency95(R, phase) = Formula(Len(t), t = << >>, low(t), high(t))
    BY DEF Latency95, percentile_cont, SortedLatencies
  <2>2. /\ IsFiniteSet(K) /\ n \in Nat
        /\ s = [i \in 1..n |-> Nth(K, Millis(rows, phase), Ids(rows, phase), i)]
        /\ t = [i \in 1..n |-> Nth(L, Millis(R, phase), Ids(R, phase), i)]
    <3>1. IsFiniteSet(K) /\ n \in Nat
      BY <1>1, FS_CardinalityType DEF Renames
    <3>2. /\ \A r \in rows : Optional(r.lat[phase])
          /\ \A r \in R : Optional(r.lat[phase])
      BY DEF Relabels
    <3>. QED  BY <1>1, <3>1, <3>2, SortedByRank DEF K, L
  <2>3. ASSUME NEW i \in 1..n
        PROVE  The(LatencyOf(t[i], phase)) = The(LatencyOf(s[i], phase))
    <3> DEFINE x == Nth(K, Millis(rows, phase), Ids(rows, phase), i)
               y == Nth(L, Millis(R, phase), Ids(R, phase), i)
    <3>1. s[i] = x /\ t[i] = y
      BY <2>2
    <3>2. \/ y = x
          \/ y \in L /\ x \in K /\ Millis(R, phase)[y] = Millis(rows, phase)[x]
      BY <1>1, NthMoves
    <3>. HIDE DEF x, y, s, t
    <3>3. /\ x \in K => Millis(rows, phase)[x] = The(LatencyOf(x, phase))
          /\ y \in L => Millis(R, phase)[y] = The(LatencyOf(y, phase))
      BY DEF Millis, K, L
    <3>. QED  BY <3>1, <3>2, <3>3
  <2>4. Len(s) = n /\ Len(t) = n /\ (s = << >> <=> n = 0) /\ (t = << >> <=> n = 0)
    BY <2>2
  <2>. HIDE DEF s, t, n
  <2>5. CASE n = 0
    BY <2>1, <2>4, <2>5
  <2>6. CASE n # 0
    <3>1. /\ (95 * (n - 1)) \div 100 + 1 \in 1..n
          /\ (95 * (n - 1) + 99) \div 100 + 1 \in 1..n
      BY <2>2, <2>6, PlaceIsInside
    <3>2. low(s) = low(t) /\ high(s) = high(t)
      BY <2>3, <2>4, <3>1
    <3>. HIDE DEF low, high, Formula
    <3>. QED  BY <2>1, <2>4, <3>2
  <2>. QED  BY <2>5, <2>6
<1>. QED  BY <1>3, <1>4, <1>5

-----------------------------------------------------------------------------
(* Buckets are not blended. *)

\* The parts of the metrics of a configuration.
LatencyPart(rows) ==
    [phase \in {"retrieval", "evaluation", "total"} |->
        [avg |-> round_metric_float(MeanLatency(rows, phase), 1),
         p95 |-> round_metric_float(Latency95(rows, phase), 1),
         variance |-> LatencyVariance(rows, phase)]]
MeanScore(rows, b, key) ==
    LET Value(r) == IF EvalIn(r, b) THEN ScoreOf(r, key) ELSE None IN Mean(rows, Value)
ScoreVariance(rows, b, key) ==
    LET Value(r) == IF EvalIn(r, b) THEN ScoreOf(r, key) ELSE None IN VarianceSamp(rows, Value)
ScorePart(rows, b) ==
    [key \in SCORE_KEYS |-> [avg |-> round_metric_float(MeanScore(rows, b, key), 100),
                             variance |-> ScoreVariance(rows, b, key)]]
BucketCost(rows, b) == LET cost(r) == IF EvalIn(r, b) THEN CostRow(r) ELSE None IN Mean(rows, cost)
CostPart(rows, b) == round_metric_float(BucketCost(rows, b), 1000000)
FailurePart(rows, b) == Count({r \in rows : EvalIn(r, b)}, FailureLabel)

LEMMA MetricsByPart ==
    ASSUME NEW base, NEW b, NEW pid
    PROVE  MetricsOf(base, b, pid) =
               [id |-> pid, traced_runs |-> Cardinality(Of(base, pid)),
                unique_query_count |-> Cardinality({r.case : r \in Of(base, pid)}),
                latency |-> LatencyPart(Of(base, pid)), score |-> ScorePart(Of(base, pid), b),
                cost |-> CostPart(Of(base, pid), b), failures |-> FailurePart(Of(base, pid), b)]
BY DEF MetricsOf, _query_failures, LatencyPart, ScorePart, CostPart, FailurePart, MeanScore, ScoreVariance,
       BucketCost, MeanLatency, Latency95, LatencyVariance

\* h leaves the rows of the bucket alone, and takes from the others the evaluation.
Strips(h, rows, b) ==
    /\ IsFiniteSet(rows) /\ \A r, s \in rows : h[r] = h[s] => r = s
    /\ \A r \in rows : /\ h[r] = r \/ (~InBucket(r, b) /\ h[r].ev = None)
                       /\ InBucket(r, b) => h[r] = r
                       /\ h[r].id = r.id /\ h[r].lat = r.lat /\ h[r].case = r.case
                       /\ r.id \in Nat /\ \A phase \in Phases : Optional(r.lat[phase])

SameParts(R, S, b) ==
    /\ Cardinality(R) = Cardinality(S) /\ {r.case : r \in R} = {r.case : r \in S}
    /\ LatencyPart(R) = LatencyPart(S) /\ ScorePart(R, b) = ScorePart(S, b)
    /\ CostPart(R, b) = CostPart(S, b) /\ FailurePart(R, b) = FailurePart(S, b)

\* What the comparison says of a bucket is not changed by that.
LEMMA PartsMove ==
    ASSUME NEW h, NEW rows, NEW b, Strips(h, rows, b)
    PROVE  SameParts({h[r] : r \in rows}, rows, b)
<1> DEFINE R == {h[r] : r \in rows}
<1>1. /\ IsFiniteSet(rows) /\ \A r, s \in rows : h[r] = h[s] => r = s
      /\ \A r \in rows : /\ h[r] = r \/ (~InBucket(r, b) /\ h[r].ev = None)
                         /\ InBucket(r, b) => h[r] = r
                         /\ h[r].id = r.id /\ h[r].lat = r.lat /\ h[r].case = r.case
                         /\ r.id \in Nat /\ \A phase \in Phases : Optional(r.lat[phase])
  BY DEF Strips
<1>2. Cardinality(R) = Cardinality(rows)
  <2>0. IsFiniteSet(rows) /\ \A r, s \in rows : h[r] = h[s] => r = s
    BY <1>1
  <2>1. Cardinality({h[r] : r \in rows}) = Cardinality(rows)
    BY <2>0, ImageIsFinite
  <2>. QED  BY <2>1
<1>3. {r.case : r \in R} = {r.case : r \in rows}
  <2>1. ASSUME NEW c  PROVE c \in {r.case : r \in R} <=> c \in {r.case : r \in rows}
    BY <1>1
  <2>. QED  BY <2>1
<1>4. ASSUME NEW phase \in {"retrieval", "evaluation", "total"}
      PROVE  /\ MeanLatency(R, phase) = MeanLatency(rows, phase)
             /\ LatencyVariance(R, phase) = LatencyVariance(rows, phase)
             /\ Latency95(R, phase) = Latency95(rows, phase)
  <2>1. Relabels(h, rows, phase)
    BY <1>1 DEF Relabels, Phases
  <2>. QED  BY <2>1, LatenciesMove
<1>5. LatencyPart(R) = LatencyPart(rows)
  BY <1>4 DEF LatencyPart
<1>6. \A r : (r \in R /\ EvalIn(r, b)) <=> (r \in rows /\ EvalIn(r, b))
  <2>1. \A r : EvalIn(r, b) => r.ev # None
    BY DEF EvalIn, InBucket
  <2>2. \A r \in rows : EvalIn(r, b) => h[r] = r
    BY <1>1 DEF EvalIn
  <2>3. \A r \in rows : h[r] = r \/ h[r].ev = None
    BY <1>1
  <2>. QED  BY <2>1, <2>2, <2>3
<1>7. {r \in R : EvalIn(r, b)} = {r \in rows : EvalIn(r, b)}
  BY <1>6
<1>8. ASSUME NEW key
      PROVE  {r \in R : (IF EvalIn(r, b) THEN ScoreOf(r, key) ELSE None) # None}
                 = {r \in rows : (IF EvalIn(r, b) THEN ScoreOf(r, key) ELSE None) # None}
  BY <1>6
<1>9. ASSUME NEW key
      PROVE  MeanScore(R, b, key) = MeanScore(rows, b, key) /\ ScoreVariance(R, b, key) = ScoreVariance(rows, b, key)
  BY <1>8 DEF MeanScore, ScoreVariance, Mean, VarianceSamp
<1>10. ScorePart(R, b) = ScorePart(rows, b)
  BY <1>9 DEF ScorePart
<1>11. CostPart(R, b) = CostPart(rows, b)
  <2>1. {r \in R : (IF EvalIn(r, b) THEN CostRow(r) ELSE None) # None}
                 = {r \in rows : (IF EvalIn(r, b) THEN CostRow(r) ELSE None) # None}
    BY <1>6
  <2>2. BucketCost(R, b) = BucketCost(rows, b)
    BY <2>1 DEF BucketCost, Mean
  <2>. QED  BY <2>2 DEF CostPart
<1>12. FailurePart(R, b) = FailurePart(rows, b)
  BY <1>7 DEF FailurePart
<1>. HIDE DEF R
<1>13. SameParts(R, rows, b)
  BY <1>2, <1>3, <1>5, <1>10, <1>11, <1>12 DEF SameParts
<1>. QED  BY <1>13 DEF R

\* What takes the evaluation of the other bucket from each run.
Emptied(b) == [r \in input.runs |-> IF InBucket(r, b) THEN r ELSE [r EXCEPT !.ev = None]]
Based(runs) == RunBase(runs, Distinct(input.query.ids), input.query.dataset,
                       resolve_include_benchmark_realism_for_comparison(input.query.dataset, input.query.realism))

LEMMA EmptiedRun ==
    ASSUME NEW r, RunRow(r), NEW e, e = [r EXCEPT !.ev = None]
    PROVE  /\ e.ev = None /\ e.id = r.id /\ e.lat = r.lat /\ e.case = r.case /\ e.config = r.config
           /\ e.dataset = r.dataset /\ e.realism = r.realism /\ e.traced = r.traced
BY DEF RunRow

LEMMA AloneIsEmptied ==
    ASSUME Given, input.call = "compare", NEW b
    PROVE  /\ Alone(input.runs, b) = {Emptied(b)[r] : r \in input.runs}
           /\ Strips(Emptied(b), input.runs, b)
           /\ \A r \in input.runs : /\ Emptied(b)[r].config = r.config /\ Emptied(b)[r].dataset = r.dataset
                                    /\ Emptied(b)[r].realism = r.realism /\ Emptied(b)[r].traced = r.traced
<1> DEFINE h == Emptied(b)
<1>1. IsFiniteSet(input.runs) /\ (\A r \in input.runs : RunRow(r))
      /\ \A r, s \in input.runs : r.id = s.id => r = s
  BY ComparedInput
<1>2. ASSUME NEW r \in input.runs
      PROVE  /\ h[r] = r \/ (~InBucket(r, b) /\ h[r].ev = None)
             /\ InBucket(r, b) => h[r] = r
             /\ h[r].id = r.id /\ h[r].lat = r.lat /\ h[r].case = r.case /\ h[r].config = r.config
             /\ h[r].dataset = r.dataset /\ h[r].realism = r.realism /\ h[r].traced = r.traced
  <2>1. h[r] = IF InBucket(r, b) THEN r ELSE [r EXCEPT !.ev = None]
    BY DEF Emptied
  <2>. HIDE DEF h
  <2>2. CASE InBucket(r, b)
    BY <2>1, <2>2
  <2>3. CASE ~InBucket(r, b)
    <3>1. h[r] = [r EXCEPT !.ev = None]
      BY <2>1, <2>3
    <3>. QED  BY <1>1, <2>3, <3>1, EmptiedRun
  <2>. QED  BY <2>2, <2>3
<1>3. Alone(input.runs, b) = {h[r] : r \in input.runs}
  BY DEF Alone, Emptied
<1>. HIDE DEF h
<1>4. \A r, s \in input.runs : h[r] = h[s] => r = s
  BY <1>1, <1>2
<1>5. \A r \in input.runs : r.id \in Nat /\ \A phase \in Phases : Optional(r.lat[phase])
  BY <1>1 DEF RunRow
<1>6. Strips(h, input.runs, b)
  BY <1>1, <1>2, <1>4, <1>5 DEF Strips
<1>. QED  BY <1>2, <1>3, <1>6 DEF h

\* The runs of each configuration are those of the whole database, without it.
LEMMA AloneOfConfig ==
    ASSUME Given, input.call = "compare", NEW b, NEW pid
    PROVE  /\ Of(Based(Alone(input.runs, b)), pid) = {Emptied(b)[r] : r \in Of(Based(input.runs), pid)}
           /\ Strips(Emptied(b), Of(Based(input.runs), pid), b)
<1> DEFINE h == Emptied(b)
           q == input.query
           pids == ToSet(Distinct(q.ids))
           wide == resolve_include_benchmark_realism_for_comparison(q.dataset, q.realism)
           Looked(r) == (wide \/ ~r.realism) /\ r.traced /\ r.config \in pids /\ (q.dataset # None => r.dataset \in q.dataset)
                        /\ r.config = pid
<1>1. \A runs : Of(Based(runs), pid) = {r \in runs : Looked(r)}
  <2>1. ASSUME NEW runs, NEW r
        PROVE  r \in Of(Based(runs), pid) <=> r \in runs /\ Looked(r)
    BY DEF Of, Based, RunBase, Organic
  <2>. QED  BY <2>1
<1>2. /\ Alone(input.runs, b) = {h[r] : r \in input.runs}
      /\ Strips(h, input.runs, b)
      /\ \A r \in input.runs : h[r].config = r.config /\ h[r].dataset = r.dataset
                               /\ h[r].realism = r.realism /\ h[r].traced = r.traced
  BY AloneIsEmptied
<1>. HIDE DEF h
<1>3. \A r \in input.runs : Looked(h[r]) <=> Looked(r)
  BY <1>2
<1>. HIDE DEF Looked
<1>4. {r \in Alone(input.runs, b) : Looked(r)} = {h[r] : r \in {s \in input.runs : Looked(s)}}
  BY <1>2, <1>3
<1>5. Strips(h, {r \in input.runs : Looked(r)}, b)
  <2>1. {r \in input.runs : Looked(r)} \in SUBSET input.runs
    OBVIOUS
  <2>2. IsFiniteSet({r \in input.runs : Looked(r)})
    BY <1>2, <2>1, FS_Subset DEF Strips
  <2>. QED  BY <1>2, <2>2 DEF Strips
<1>. QED  BY <1>1, <1>4, <1>5 DEF h

LEMMA AloneMetrics ==
    ASSUME Given, input.call = "compare", NEW b, NEW pid
    PROVE  /\ MetricsOf(Based(Alone(input.runs, b)), b, pid) = MetricsOf(Based(input.runs), b, pid)
           /\ \A a : MetricsOf(Based(Alone(input.runs, b)), a, pid).traced_runs
                         = MetricsOf(Based(input.runs), a, pid).traced_runs
           /\ {r.case : r \in Of(Based(Alone(input.runs, b)), pid)} = {r.case : r \in Of(Based(input.runs), pid)}
<1> DEFINE R == Of(Based(Alone(input.runs, b)), pid)
           S == Of(Based(input.runs), pid)
           h == Emptied(b)
<1>1. R = {h[r] : r \in S} /\ Strips(h, S, b)
  BY AloneOfConfig
<1>. HIDE DEF R, S, h
<1>2. /\ Cardinality(R) = Cardinality(S)
      /\ {r.case : r \in R} = {r.case : r \in S}
      /\ LatencyPart(R) = LatencyPart(S) /\ ScorePart(R, b) = ScorePart(S, b)
      /\ CostPart(R, b) = CostPart(S, b) /\ FailurePart(R, b) = FailurePart(S, b)
  <2>1. Strips(h, S, b) => SameParts({h[r] : r \in S}, S, b)
    BY PartsMove
  <2>2. SameParts(R, S, b)
    BY <1>1, <2>1
  <2>. QED  BY <2>2 DEF SameParts
<1>3. MetricsOf(Based(Alone(input.runs, b)), b, pid) = MetricsOf(Based(input.runs), b, pid)
  <2>1. /\ MetricsOf(Based(Alone(input.runs, b)), b, pid) =
               [id |-> pid, traced_runs |-> Cardinality(R), unique_query_count |-> Cardinality({r.case : r \in R}),
                latency |-> LatencyPart(R), score |-> ScorePart(R, b), cost |-> CostPart(R, b),
                failures |-> FailurePart(R, b)]
        /\ MetricsOf(Based(input.runs), b, pid) =
               [id |-> pid, traced_runs |-> Cardinality(S), unique_query_count |-> Cardinality({r.case : r \in S}),
                latency |-> LatencyPart(S), score |-> ScorePart(S, b), cost |-> CostPart(S, b),
                failures |-> FailurePart(S, b)]
    BY MetricsByPart DEF R, S
  <2>. QED  BY <1>2, <2>1
<1>4. \A a : MetricsOf(Based(Alone(input.runs, b)), a, pid).traced_runs
                         = MetricsOf(Based(input.runs), a, pid).traced_runs
  <2>1. \A base, a : MetricsOf(base, a, pid).traced_runs = Cardinality(Of(base, pid))
    BY MetricsByPart
  <2>. QED  BY <1>2, <2>1 DEF R, S
<1>. QED  BY <1>2, <1>3, <1>4 DEF R, S

RowsIn(runs, b) == _build_metrics_list(Based(runs), b, Distinct(input.query.ids))
CasesIn(runs) == _query_query_case_sets(Based(runs), Distinct(input.query.ids))
RefusedIn(runs) ==
    LET q == input.query
    IN  \/ Distinct(q.ids) = << >> \/ Len(Distinct(q.ids)) > 64
        \/ q.strict /\ q.dataset = None
        \/ \E b \in BucketsOf(q) : ~_enforce_integrity(RowsIn(runs, b), CasesIn(runs), MinOf(q), q.strict)

LEMMA AnswerOf ==
    ASSUME NEW runs
    PROVE  /\ RefusedIn(runs) => compare_pipeline_configs(runs, input.query) = None
           /\ ~RefusedIn(runs) =>
                  \E answer : /\ compare_pipeline_configs(runs, input.query) = {answer}
                              /\ answer.rows = [b \in BucketsOf(input.query) |-> RowsIn(runs, b)]
<1> DEFINE q == input.query
           rows == [b \in BucketsOf(q) |-> RowsIn(runs, b)]
           refused == \/ Distinct(q.ids) = << >> \/ Len(Distinct(q.ids)) > 64
                      \/ q.strict /\ q.dataset = None
                      \/ \E b \in BucketsOf(q) : ~_enforce_integrity(rows[b], CasesIn(runs), MinOf(q), q.strict)
           answer == [pids |-> Distinct(q.ids), rows |-> rows, min |-> MinOf(q),
                      scores |-> [b \in BucketsOf(q) |-> build_config_score_comparison(rows[b])],
                      conf |-> _comparison_confidence_fields(UNION {ToSet(rows[b]) : b \in BucketsOf(q)})]
<1>1. compare_pipeline_configs(runs, q) = IF refused THEN None ELSE {answer}
  BY DEF compare_pipeline_configs, RowsIn, CasesIn, Based, MinOf, BucketsOf
<1>2. \A b \in BucketsOf(q) : rows[b] = RowsIn(runs, b)
  OBVIOUS
<1>3. answer.rows = rows
  OBVIOUS
<1>. HIDE DEF answer, rows, q
<1>4. refused <=> RefusedIn(runs)
  BY <1>2 DEF RefusedIn, q
<1>. HIDE DEF refused
<1>. QED  BY <1>1, <1>3, <1>4 DEF q, rows

\* A comparison is refused for the database as for one bucket of it.
LEMMA AloneIsRefused ==
    ASSUME Given, input.call = "compare", NEW b
    PROVE  /\ RefusedIn(Alone(input.runs, b)) <=> RefusedIn(input.runs)
           /\ RowsIn(Alone(input.runs, b), b) = RowsIn(input.runs, b)
<1> DEFINE A == Alone(input.runs, b)
           pids == Distinct(input.query.ids)
<1>1. /\ \A pid : MetricsOf(Based(A), b, pid) = MetricsOf(Based(input.runs), b, pid)
      /\ \A a, pid : MetricsOf(Based(A), a, pid).traced_runs = MetricsOf(Based(input.runs), a, pid).traced_runs
      /\ \A pid : {r.case : r \in Of(Based(A), pid)} = {r.case : r \in Of(Based(input.runs), pid)}
  <2>1. ASSUME NEW pid
        PROVE  /\ MetricsOf(Based(A), b, pid) = MetricsOf(Based(input.runs), b, pid)
               /\ \A a : MetricsOf(Based(A), a, pid).traced_runs = MetricsOf(Based(input.runs), a, pid).traced_runs
               /\ {r.case : r \in Of(Based(A), pid)} = {r.case : r \in Of(Based(input.runs), pid)}
    BY AloneMetrics
  <2>. HIDE DEF A
  <2>. QED  BY <2>1
<1>. HIDE DEF A, pids
<1>2. RowsIn(A, b) = RowsIn(input.runs, b)
  BY <1>1 DEF RowsIn, _build_metrics_list
<1>3. CasesIn(A) = CasesIn(input.runs)
  BY <1>1 DEF CasesIn, _query_query_case_sets
<1>4. ASSUME NEW a, NEW min
      PROVE  (\A n \in min, m \in ToSet(RowsIn(A, a)) : m.traced_runs >= n)
                 <=> \A n \in min, m \in ToSet(RowsIn(input.runs, a)) : m.traced_runs >= n
  <2>1. \A runs : ToSet(RowsIn(runs, a)) = {MetricsOf(Based(runs), a, pids[i]) : i \in DOMAIN pids}
    BY DEF ToSet, RowsIn, _build_metrics_list, pids
  <2>. QED  BY <1>1, <2>1
<1>5. \A a, min, same : _enforce_integrity(RowsIn(A, a), CasesIn(A), min, same)
                            <=> _enforce_integrity(RowsIn(input.runs, a), CasesIn(input.runs), min, same)
  BY <1>3, <1>4 DEF _enforce_integrity
<1>6. RefusedIn(A) <=> RefusedIn(input.runs)
  BY <1>5 DEF RefusedIn
<1>. QED  BY <1>2, <1>6 DEF A

\* A mean of hundredths, in thousandths, lies between the least and the greatest of them.
LEMMA MeanIsBetween ==
    ASSUME NEW v \in Int, NEW n \in Nat, n > 0, NEW sum \in Int
    PROVE  /\ v * n <= sum => 10 * v <= HalfEven(sum * 1000, n * 100)
           /\ sum <= v * n => HalfEven(sum * 1000, n * 100) <= 10 * v
<1> DEFINE p == v * n
           d == n * 100
           m == sum * 1000
<1>1. p \in Int /\ (10 * v) * d = 1000 * p
  OBVIOUS
<1>2. d \in Nat /\ d > 0 /\ m \in Int /\ 10 * v \in Int
  OBVIOUS
<1>3. (v * n <= sum => (10 * v) * d <= m) /\ (sum <= v * n => m <= (10 * v) * d)
  <2>1. (p <= sum => 1000 * p <= m) /\ (sum <= p => m <= 1000 * p)
    <3>. HIDE DEF p
    <3>. QED  BY <1>1
  <2>. HIDE DEF d, m
  <2>. QED  BY <1>1, <2>1 DEF p
<1>. DEFINE q == 10 * v
<1>. HIDE DEF d, m, q, p
<1>4. (q * d <= m => q <= HalfEven(m, d)) /\ (m <= q * d => HalfEven(m, d) <= q)
  BY <1>2, HalfEvenIsBetween DEF q
<1>. QED  BY <1>3, <1>4 DEF q, d, m

ScoredIn(rows, b, key) == {r \in rows : InBucket(r, b) /\ ScoreOf(r, key) # None}

\* So does an average of scores of one bucket.
LEMMA AverageIsBetween ==
    ASSUME NEW rows, IsFiniteSet(rows), \A r \in rows : RunRow(r), NEW b, NEW key \in SCORE_KEYS
    PROVE  \A avg \in round_metric_float(MeanScore(rows, b, key), 100) :
               \E lo, hi \in ScoredIn(rows, b, key) : /\ 10 * The(ScoreOf(lo, key)) <= avg
                                                      /\ avg <= 10 * The(ScoreOf(hi, key))
<1> DEFINE V(r) == IF EvalIn(r, b) THEN ScoreOf(r, key) ELSE None
           known == {r \in rows : V(r) # None}
           val == [r \in known |-> The(V(r))]
           n == Cardinality(known)
           sum == SumFunction(val)
<1>1. known = ScoredIn(rows, b, key) /\ \A r \in known : V(r) = ScoreOf(r, key)
  BY DEF EvalIn, ScoredIn
<1>2. \A r \in known : The(V(r)) \in Int
  <2>1. ASSUME NEW r \in known  PROVE The(V(r)) \in Int
    <3>1. r.ev # None /\ r \in rows /\ ScoreOf(r, key) # None /\ V(r) = ScoreOf(r, key)
      BY <1>1 DEF EvalIn, InBucket, ScoredIn
    <3>2. Row(r) \in r.ev
      BY <3>1 DEF Row, The, None
    <3>3. ScoreOf(r, key) \subseteq Int
      BY <3>1, <3>2 DEF RunRow, ScoreOf
    <3>. HIDE DEF V
    <3>. QED  BY <3>1, <3>3 DEF The, None
  <2>. QED  BY <2>1
<1>3. IsFiniteSet(known) /\ n \in Nat
  BY FS_Subset, FS_CardinalityType
<1>4. MeanScore(rows, b, key) = IF known = {} THEN None ELSE {<<sum, n>>}
  BY DEF MeanScore, Mean
<1>5. val \in [known -> Int] /\ \A r \in known : val[r] = The(ScoreOf(r, key))
  BY <1>1, <1>2
<1>. HIDE DEF val, n, sum, known
<1>6. CASE known = {}
  BY <1>4, <1>6 DEF round_metric_float, None
<1>7. CASE known # {}
  <2>1. PICK lo \in known, hi \in known : \A r \in known : val[lo] <= val[r] /\ val[r] <= val[hi]
    BY <1>3, <1>5, <1>7, Extremes
  <2>2. val[lo] \in Int /\ val[hi] \in Int /\ n > 0
    <3>1. n # 0
      BY <1>3, <1>7, FS_EmptySet DEF n
    <3>. QED  BY <1>3, <1>5, <3>1
  <2>3. sum \in Int /\ val[lo] * n <= sum /\ sum <= val[hi] * n
    BY <1>3, <1>5, <2>1, <2>2, SumIsBetween DEF n, sum
  <2>4. 10 * val[lo] <= HalfEven(sum * 1000, n * 100) /\ HalfEven(sum * 1000, n * 100) <= 10 * val[hi]
    <3> DEFINE u == val[lo]
               w == val[hi]
    <3>. HIDE DEF u, w
    <3>1. u \in Int /\ w \in Int /\ u * n <= sum /\ sum <= w * n
      BY <2>2, <2>3 DEF u, w
    <3>2. 10 * u <= HalfEven(sum * 1000, n * 100)
      BY <1>3, <2>2, <2>3, <3>1, MeanIsBetween
    <3>3. HalfEven(sum * 1000, n * 100) <= 10 * w
      BY <1>3, <2>2, <2>3, <3>1, MeanIsBetween
    <3>. QED  BY <3>2, <3>3 DEF u, w
  <2>5. round_metric_float(MeanScore(rows, b, key), 100) = {HalfEven(sum * 1000, n * 100)}
    <3> DEFINE x == <<sum, n>>
    <3>1. x[1] = sum /\ x[2] = n
      OBVIOUS
    <3>. HIDE DEF x
    <3>2. round_metric_float({x}, 100) = {HalfEven(x[1] * 1000, x[2] * 100)}
      BY DEF round_metric_float
    <3>3. MeanScore(rows, b, key) = {x}
      BY <1>4, <1>7 DEF x
    <3>. QED  BY <3>1, <3>2, <3>3
  <2>6. lo \in ScoredIn(rows, b, key) /\ hi \in ScoredIn(rows, b, key)
        /\ val[lo] = The(ScoreOf(lo, key)) /\ val[hi] = The(ScoreOf(hi, key))
    BY <1>1, <1>5
  <2>. QED  BY <2>4, <2>5, <2>6
<1>. QED  BY <1>6, <1>7

(* NeverBlends (Comparing): what a comparison says of a bucket is what it would say if the     *)
(* rows of the other bucket did not exist, and each average lies between two scores of that    *)
(* bucket, configuration and slice, for every database and query of the assumptions.           *)
THEOREM Unblended == Spec => []NeverBlends
<1>1. ASSUME Given, input.call = "compare", NEW answer \in Compared, NEW b \in DOMAIN answer.rows
      PROVE  /\ answer.rows[b] = (The(compare_pipeline_configs(Alone(input.runs, b), input.query))).rows[b]
             /\ answer.rows[b] = RowsIn(input.runs, b)
  <2>1. ~RefusedIn(input.runs)
    BY <1>1, AnswerOf DEF Compared, None
  <2>2. /\ Compared = {answer} /\ answer.rows = [a \in BucketsOf(input.query) |-> RowsIn(input.runs, a)]
        /\ b \in BucketsOf(input.query)
    BY <1>1, <2>1, AnswerOf DEF Compared
  <2>3. ~RefusedIn(Alone(input.runs, b)) /\ RowsIn(Alone(input.runs, b), b) = RowsIn(input.runs, b)
    BY <1>1, <2>1, AloneIsRefused
  <2>4. PICK alone : /\ compare_pipeline_configs(Alone(input.runs, b), input.query) = {alone}
                     /\ alone.rows = [a \in BucketsOf(input.query) |-> RowsIn(Alone(input.runs, b), a)]
    BY <2>3, AnswerOf
  <2>5. The(compare_pipeline_configs(Alone(input.runs, b), input.query)) = alone
    BY <2>4 DEF The
  <2>6. answer.rows[b] = RowsIn(input.runs, b) /\ alone.rows[b] = RowsIn(Alone(input.runs, b), b)
    BY <2>2, <2>4
  <2>. QED  BY <2>3, <2>5, <2>6
<1>2. ASSUME Given, input.call = "compare", NEW b, NEW i \in DOMAIN RowsIn(input.runs, b), NEW key \in SCORE_KEYS
      PROVE  LET m == RowsIn(input.runs, b)[i]
             IN  \A avg \in m.score[key].avg :
                    \E lo, hi \in ScoredIn(Compares(m.id), b, key) : /\ 10 * The(ScoreOf(lo, key)) <= avg
                                                                     /\ avg <= 10 * The(ScoreOf(hi, key))
  <2> DEFINE pids == Distinct(input.query.ids)
             pid == pids[i]
             m == RowsIn(input.runs, b)[i]
             S == Compares(pid)
  <2>1. i \in DOMAIN pids /\ m = MetricsOf(Based(input.runs), b, pid)
    BY <1>2 DEF RowsIn, _build_metrics_list
  <2>2. pid \in ToSet(input.query.ids)
    <3>1. pid \in ToSet(pids)
      BY <2>1 DEF ToSet
    <3>. HIDE DEF pid
    <3>. QED  BY <1>2, <3>1, OfIsCompares
  <2>. HIDE DEF pid, pids
  <2>3. Of(Based(input.runs), pid) = S /\ IsFiniteSet(S)
    BY <1>2, <2>2, OfIsCompares DEF Base, Based
  <2>4. \A r \in S : RunRow(r)
    BY <1>2, ComparedInput DEF Compares
  <2>. HIDE DEF m
  <2>5. m.id = pid /\ m.score = ScorePart(S, b)
    <3>1. /\ MetricsOf(Based(input.runs), b, pid).id = pid
          /\ MetricsOf(Based(input.runs), b, pid).score = ScorePart(Of(Based(input.runs), pid), b)
      BY MetricsByPart
    <3>. QED  BY <2>1, <2>3, <3>1
  <2>. HIDE DEF S
  <2>6. m.score[key].avg = round_metric_float(MeanScore(S, b, key), 100)
    BY <2>5 DEF ScorePart
  <2>7. \A avg \in m.score[key].avg :
            \E lo, hi \in ScoredIn(S, b, key) : 10 * The(ScoreOf(lo, key)) <= avg /\ avg <= 10 * The(ScoreOf(hi, key))
    BY <2>3, <2>4, <2>6, AverageIsBetween
  <2>8. S = Compares(m.id)
    BY <2>5 DEF S
  <2>. QED  BY <2>7, <2>8 DEF m
<1>3. Given => NeverBlends
  <2>1. SUFFICES ASSUME Given, input.call = "compare", NEW answer \in Compared, NEW b \in DOMAIN answer.rows
                 PROVE  /\ answer.rows[b] = (The(compare_pipeline_configs(Alone(input.runs, b), input.query))).rows[b]
                        /\ \A i \in DOMAIN answer.rows[b], key \in SCORE_KEYS :
                             \A avg \in answer.rows[b][i].score[key].avg :
                                \E lo, hi \in ScoredIn(Compares(answer.rows[b][i].id), b, key) :
                                    10 * The(ScoreOf(lo, key)) <= avg /\ avg <= 10 * The(ScoreOf(hi, key))
    BY DEF NeverBlends, ScoredIn
  <2>2. answer.rows[b] = RowsIn(input.runs, b)
    BY <1>1, <2>1
  <2>3. answer.rows[b] = (The(compare_pipeline_configs(Alone(input.runs, b), input.query))).rows[b]
    BY <1>1, <2>1
  <2>4. \A i \in DOMAIN answer.rows[b], key \in SCORE_KEYS :
             \A avg \in answer.rows[b][i].score[key].avg :
                \E lo, hi \in ScoredIn(Compares(answer.rows[b][i].id), b, key) :
                    10 * The(ScoreOf(lo, key)) <= avg /\ avg <= 10 * The(ScoreOf(hi, key))
    BY <1>2, <2>1, <2>2
  <2>. QED  BY <2>3, <2>4
<1>. QED  BY <1>3, GivenInvariant, PTL

-----------------------------------------------------------------------------
(* The fixed strategy of the chunker. *)

\* What is stripped is part of the text, and nothing is left only of blanks.
LEMMA Stripped ==
    ASSUME NEW C, NEW s \in Seq(C)
    PROVE  /\ strip(s) \in Seq(C) /\ Len(strip(s)) <= Len(s)
           /\ strip(s) = << >> => \A i \in 1..Len(s) : s[i] \in Blanks
<1> DEFINE solid == {i \in DOMAIN s : s[i] \notin Blanks}
           first == CHOOSE i \in solid : \A j \in solid : i <= j
           last == CHOOSE i \in solid : \A j \in solid : j <= i
           D == 1..Len(s)
<1>1. strip(s) = IF solid = {} THEN << >> ELSE SubSeq(s, first, last)
  BY DEF strip
<1>2. CASE solid = {}
  BY <1>1, <1>2
<1>3. CASE solid # {}
  <2>1. IsFiniteSet(D) /\ D \subseteq Int /\ solid \subseteq D /\ Len(s) \in Nat
    BY FS_Interval
  <2>. HIDE DEF D
  <2>2. IsFiniteSet(solid) /\ solid \subseteq Int
    BY <2>1, FS_Subset
  <2>. HIDE DEF solid
  <2>3. /\ \E i \in solid : \A j \in solid : i <= j
        /\ \E i \in solid : \A j \in solid : j <= i
    BY <1>3, <2>2, MaxOfNumbers
  <2>4. first \in solid /\ last \in solid /\ first <= last
    BY <2>3
  <2>. HIDE DEF first, last
  <2>5. first \in 1..Len(s) /\ last \in 1..Len(s)
    BY <2>1, <2>4 DEF D
  <2> DEFINE part == SubSeq(s, first, last)
  <2>6. part \in Seq(C) /\ Len(part) = last - first + 1
    BY <2>4, <2>5, SubSeqProperties
  <2>7. strip(s) = part
    BY <1>1, <1>3 DEF solid, first, last
  <2>. HIDE DEF part
  <2>8. Len(part) > 0 /\ Len(part) <= Len(s)
    BY <2>4, <2>5, <2>6
  <2>9. part # << >>
    BY <2>8
  <2>. QED  BY <2>6, <2>7, <2>8, <2>9
<1>. QED  BY <1>2, <1>3

\* A window of a text: no longer than it is wide, and empty only of blanks.
LEMMA WindowOfText ==
    ASSUME NEW C, NEW s \in Seq(C), NEW start \in Nat, NEW end \in Nat, start < end, end <= Len(s)
    PROVE  /\ strip(Slice(s, start, end)) \in Seq(C)
           /\ Len(strip(Slice(s, start, end))) <= end - start
           /\ strip(Slice(s, start, end)) = << >> => \A i \in 1..Len(s) : start < i /\ i <= end => s[i] \in Blanks
<1> DEFINE w == SubSeq(s, start + 1, end)
<1>1. Slice(s, start, end) = w
  BY DEF Slice
<1>2. /\ w \in Seq(C) /\ Len(w) = end - start
      /\ \A i \in 1..(end - start) : w[i] = s[start + i]
  BY SubSeqProperties
<1>. HIDE DEF w
<1>3. strip(w) \in Seq(C) /\ Len(strip(w)) <= Len(w) /\ (strip(w) = << >> => \A i \in 1..Len(w) : w[i] \in Blanks)
  BY <1>2, Stripped
<1>4. ASSUME strip(w) = << >>, NEW i \in 1..Len(s), start < i, i <= end
      PROVE  s[i] \in Blanks
  <2>1. i - start \in 1..(end - start) /\ start + (i - start) = i
    BY <1>4
  <2>2. w[i - start] = s[i]
    BY <1>2, <2>1
  <2>. QED  BY <1>2, <1>3, <1>4, <2>1, <2>2
<1>. QED  BY <1>1, <1>2, <1>3, <1>4

\* What the loop of ChunkFixed does with window k, and the chunks so far.
Windowed(text, size, overlap, chunks, k) ==
    LET start == k * (size - overlap)
        end == IF start + size < Len(text) THEN start + size ELSE Len(text)
        content == strip(Slice(text, start, end))
    IN  IF start >= Len(text) \/ (chunks # << >> /\ Last(chunks).end = Len(text)) \/ content = << >> THEN chunks
        ELSE Append(chunks, ChunkData(content, Len(chunks), start, end))

Starts(n) == [k \in 1..n |-> k - 1]

SoFar(text, size, overlap) ==
    LET iter[s \in SUBSET DOMAIN Starts(Len(text))] ==
            IF s = {} THEN << >>
            ELSE Windowed(text, size, overlap, iter[s \ {Max(s)}], Starts(Len(text))[Max(s)])
    IN  iter

Chunk(C) == [content : Seq(C), index : Int, start : Int, end : Int]

LEMMA WindowIsChunk ==
    ASSUME NEW C, NEW text \in Seq(C), NEW size \in Nat, NEW overlap \in Nat, overlap < size,
           NEW chunks \in Seq(Chunk(C)), NEW k \in Nat
    PROVE  Windowed(text, size, overlap, chunks, k) \in Seq(Chunk(C))
<1> DEFINE start == k * (size - overlap)
           end == IF start + size < Len(text) THEN start + size ELSE Len(text)
           content == strip(Slice(text, start, end))
           chunk == ChunkData(content, Len(chunks), start, end)
<1>1. \/ Windowed(text, size, overlap, chunks, k) = chunks
      \/ start < Len(text) /\ Windowed(text, size, overlap, chunks, k) = Append(chunks, chunk)
  <2>1. start \in Int /\ Len(text) \in Nat
    OBVIOUS
  <2>. QED  BY <2>1 DEF Windowed
<1>2. start \in Nat
  OBVIOUS
<1>. HIDE DEF start
<1>3. ASSUME start < Len(text)
      PROVE  chunk \in Chunk(C)
  <2>1. end \in Nat /\ start < end /\ end <= Len(text)
    BY <1>2, <1>3
  <2>. HIDE DEF end
  <2>2. content \in Seq(C)
    BY <1>2, <2>1, WindowOfText
  <2>. HIDE DEF content
  <2>. QED  BY <1>2, <2>1, <2>2 DEF Chunk, ChunkData
<1>. HIDE DEF chunk
<1>. QED  BY <1>1, <1>3

LEMMA FixedOfPrefixes ==
    ASSUME NEW C, NEW text \in Seq(C), NEW size \in Nat, NEW overlap \in Nat, overlap < size
    PROVE  /\ ChunkFixed(text, size, overlap) = SoFar(text, size, overlap)[1..Len(text)]
           /\ SoFar(text, size, overlap)[1..0] = << >>
           /\ \A k \in 1..Len(text) : SoFar(text, size, overlap)[1..k]
                  = Windowed(text, size, overlap, SoFar(text, size, overlap)[1..(k - 1)], k - 1)
<1> DEFINE n == Len(text)
           X == Seq(Chunk(C))
           Add(chunks, i) == Windowed(text, size, overlap, chunks, Starts(n)[i])
           Good(f) == f = [s \in SUBSET (1..n) |-> IF s = {} THEN << >> ELSE Add(f[s \ {Max(s)}], Max(s))]
           next == [i \in 1..n |-> [chunks \in X |-> Add(chunks, i)]]
           f == SoFar(text, size, overlap)
<1>1. ChunkFixed(text, size, overlap) = SoFar(text, size, overlap)[DOMAIN Starts(Len(text))]
  BY DEF ChunkFixed, FoldLeft, MapThenFoldSet, SoFar, Windowed, Starts
<1>2. n \in Nat /\ DOMAIN Starts(n) = 1..n /\ \A i \in 1..n : Starts(n)[i] = i - 1
  BY DEF Starts
<1>3. f = CHOOSE g : Good(g)
  BY <1>2 DEF SoFar
<1>4. \A chunks \in X, i \in 1..n : Add(chunks, i) \in X
  <2>1. ASSUME NEW chunks \in X, NEW i \in 1..n  PROVE Add(chunks, i) \in X
    <3>1. i - 1 \in Nat /\ Starts(n)[i] = i - 1
      BY <1>2
    <3>. QED  BY <3>1, WindowIsChunk
  <2>. QED  BY <2>1
<1>5. << >> \in X
  OBVIOUS
<1>. HIDE DEF n, X, Add, f
<1>6. PICK g \in [SUBSET (1..n) -> X] :
          \A s \in SUBSET (1..n) : g[s] = IF s = {} THEN << >> ELSE next[Max(s)][g[s \ {Max(s)}]]
  <2>1. Steps(n, X, << >>, next)
    BY <1>2, <1>4, <1>5 DEF Steps
  <2>. HIDE DEF next, Good
  <2>2. \E g \in [SUBSET (1..n) -> X] : FoldsUp(g, n, << >>, next)
    BY <2>1, PrefixFoldExists
  <2>. QED  BY <2>2 DEF FoldsUp
<1>7. \A s \in SUBSET (1..n) : s # {} => Max(s) \in 1..n /\ s \ {Max(s)} \in SUBSET (1..n)
  BY <1>2, MaxIsPicked
<1>8. Good(g)
  <2>1. \A s \in SUBSET (1..n) : g[s] = IF s = {} THEN << >> ELSE Add(g[s \ {Max(s)}], Max(s))
    BY <1>6, <1>7
  <2>. QED  BY <2>1
<1>. HIDE DEF next
<1>9. Good(f)
  <2>. HIDE DEF Good
  <2>. QED  BY <1>3, <1>8
<1>10. \A s \in SUBSET (1..n) : f[s] = IF s = {} THEN << >> ELSE Add(f[s \ {Max(s)}], Max(s))
  BY <1>9
<1>11. f[1..0] = << >>
  <2>1. 1..0 = {} /\ {} \in SUBSET (1..n)
    OBVIOUS
  <2>. QED  BY <1>10, <2>1
<1>12. ASSUME NEW k \in 1..n
       PROVE  f[1..k] = Windowed(text, size, overlap, f[1..(k - 1)], k - 1)
  <2>0. k \in Nat /\ k > 0 /\ k <= n
    BY <1>2
  <2>1. 1..k \in SUBSET (1..n) /\ 1..k # {}
    <3>1. k \in 1..k /\ \A i \in 1..k : i \in 1..n
      BY <1>2, <2>0
    <3>. QED  BY <3>1
  <2>2. Max(1..k) = k /\ (1..k) \ {k} = 1..(k - 1)
    BY <2>0, LastIsMax
  <2> DEFINE s == 1..k
  <2>3. f[s] = Add(f[s \ {Max(s)}], Max(s))
    BY <1>10, <2>1
  <2>4. f[s] = Add(f[1..(k - 1)], k)
    BY <2>2, <2>3
  <2>. QED  BY <1>2, <2>4 DEF Add
<1>. QED  BY <1>1, <1>2, <1>11, <1>12 DEF n, f

\* The windows follow each other by size - overlap, so that each begins where
\* what the ones before it cover has not ended.
LEMMA FixedChunks ==
    ASSUME NEW C, NEW text \in Seq(C), NEW size \in Nat, NEW overlap \in Nat, overlap < size
    PROVE  LET chunks == ChunkFixed(text, size, overlap)
           IN  /\ InOrder(chunks) /\ Covered(text, chunks) /\ Located(text, chunks)
               /\ \A k \in DOMAIN chunks : Len(chunks[k].content) <= size
<1> DEFINE n == Len(text)
           step == size - overlap
<1>0. n \in Nat /\ step \in Nat /\ step > 0 /\ step <= size
  OBVIOUS
<1>. HIDE DEF n, step
<1> DEFINE at == [k \in Nat |-> k * step]
           f(k) == SoFar(text, size, overlap)[1..k]
           Fit(chunk, i, k) ==
               /\ chunk.index = i - 1 /\ chunk.start \in Nat /\ chunk.start < at[k]
               /\ chunk.start < chunk.end /\ chunk.end <= n /\ chunk.end \in Nat
               /\ chunk.end < n => chunk.end = chunk.start + size
               /\ chunk.content = strip(Slice(text, chunk.start, chunk.end)) /\ chunk.content # << >>
               /\ Len(chunk.content) <= size
           Fits(chunks, k) == \A i \in 1..Len(chunks) : Fit(chunks[i], i, k)
           Rising(chunks) == \A i, j \in 1..Len(chunks) :
               i < j => chunks[i].start < chunks[j].start /\ chunks[i].end < chunks[j].end
           Reached(chunks, k) == \A i \in 1..n : i <= at[k] =>
               text[i] \in Blanks \/ \E m \in 1..Len(chunks) : chunks[m].start < i /\ i <= chunks[m].end
           Good(k) == f(k) \in Seq(Chunk(C)) /\ Fits(f(k), k) /\ Rising(f(k)) /\ Reached(f(k), k)
           T == {k \in Nat : k <= n => Good(k)}
<1>1. ASSUME NEW k \in Nat
      PROVE  at[k] \in Nat /\ at[k + 1] = at[k] + step /\ at[k] >= k
  <2>1. k * step \in Nat /\ (k + 1) * step = k * step + step /\ k * step >= k
    BY <1>0
  <2>. QED  BY <2>1
<1>2. /\ ChunkFixed(text, size, overlap) = f(n) /\ f(0) = << >>
      /\ \A k \in 1..n : f(k) = Windowed(text, size, overlap, f(k - 1), k - 1)
  BY FixedOfPrefixes DEF n
<1>3. \A k \in Nat : at[k] = k * (size - overlap)
  BY DEF step
<1>4. at[0] = 0
  BY <1>0
<1>. HIDE DEF n, step, at, f
<1>5. Good(0)
  <2>0. << >> \in Seq(Chunk(C)) /\ Len(<< >>) = 0
    OBVIOUS
  <2>1. f(0) \in Seq(Chunk(C)) /\ Len(f(0)) = 0
    BY <1>2, <2>0
  <2>. QED  BY <1>4, <2>1
<1>6. ASSUME NEW k \in Nat, Good(k), k + 1 <= n
      PROVE  Good(k + 1)
  <2> DEFINE chunks == f(k)
             start == at[k]
             end == IF start + size < n THEN start + size ELSE n
             content == strip(Slice(text, start, end))
             chunk == ChunkData(content, Len(chunks), start, end)
             done == chunks # << >> /\ Last(chunks).end = n
  <2>1. f(k + 1) = IF start >= n \/ done \/ content = << >> THEN chunks ELSE Append(chunks, chunk)
    <3>1. k + 1 \in 1..n /\ (k + 1) - 1 = k
      BY <1>1, <1>6
    <3>2. f(k + 1) = Windowed(text, size, overlap, chunks, k)
      BY <1>2, <3>1
    <3>3. start = k * (size - overlap)
      BY <1>3
    <3>. HIDE DEF chunks, start
    <3>. QED  BY <3>2, <3>3 DEF Windowed, n
  <2>2. chunks \in Seq(Chunk(C)) /\ Fits(chunks, k) /\ Rising(chunks) /\ Reached(chunks, k)
    BY <1>6
  <2>3. start \in Nat /\ at[k + 1] \in Nat /\ at[k + 1] = start + step
    <3>1. at[k] \in Nat /\ at[k + 1] = at[k] + step
      BY <1>1
    <3>. HIDE DEF done, chunk, content, end, chunks
    <3>. QED  BY <1>0, <3>1
  <2>. HIDE DEF chunks, start, done
  <2>4. /\ end \in Nat /\ end <= n /\ end <= start + size
        /\ end < n => end = start + size
        /\ start < n => start < end
        /\ at[k + 1] <= n => at[k + 1] <= end
        /\ n <= at[k + 1] => end = n
    BY <1>0, <2>3
  <2>5. Fits(chunks, k + 1)
    <3>1. ASSUME NEW i \in 1..Len(chunks)  PROVE Fit(chunks[i], i, k + 1)
      <4>1. Fit(chunks[i], i, k)
        BY <2>2
      <4>2. chunks[i].start \in Nat /\ chunks[i].start < start
        BY <4>1 DEF start
      <4>3. chunks[i].start < at[k + 1]
        BY <1>0, <2>3, <4>2
      <4>. QED  BY <4>1, <4>3
    <3>. QED  BY <3>1
  <2>. HIDE DEF end
  <2>6. CASE start >= n \/ content = << >>
    <3>1. f(k + 1) = chunks
      BY <2>1, <2>6
    <3>2. ASSUME start < n, NEW i \in 1..n, start < i, i <= end
          PROVE  text[i] \in Blanks
      <4>1. content = << >>
        BY <1>0, <2>3, <2>6, <3>2
      <4>2. \A j \in 1..Len(text) : start < j /\ j <= end => text[j] \in Blanks
        BY <2>3, <2>4, <3>2, <4>1, WindowOfText DEF n
      <4>. QED  BY <3>2, <4>2 DEF n
    <3>3. Reached(chunks, k + 1)
      <4>1. ASSUME NEW i \in 1..n, i <= at[k + 1], text[i] \notin Blanks
            PROVE  \E m \in 1..Len(chunks) : chunks[m].start < i /\ i <= chunks[m].end
        <5>1. i <= start
          BY <1>0, <2>3, <2>4, <3>2, <4>1
        <5>. QED  BY <2>2, <4>1, <5>1 DEF start
      <4>. QED  BY <4>1
    <3>. QED  BY <2>2, <2>5, <3>1, <3>3
  <2>7. CASE done
    <3>1. f(k + 1) = chunks
      BY <2>1, <2>7
    <3> DEFINE l == Len(chunks)
    <3>2. l \in Nat /\ l > 0 /\ l \in 1..l /\ chunks[l].end = n
      BY <2>2, <2>7 DEF Last, done
    <3>3. Fit(chunks[l], l, k)
      BY <2>2, <3>2
    <3>4. chunks[l].start \in Nat /\ chunks[l].start < start
      BY <3>3 DEF start
    <3>. HIDE DEF l
    <3>5. Reached(chunks, k + 1)
      <4>1. ASSUME NEW i \in 1..n, i <= at[k + 1], text[i] \notin Blanks
            PROVE  \E m \in 1..Len(chunks) : chunks[m].start < i /\ i <= chunks[m].end
        <5>1. CASE i <= start
          BY <2>2, <4>1, <5>1 DEF start
        <5>2. CASE i > start
          <6>1. chunks[l].start < i /\ i <= chunks[l].end
            BY <1>0, <2>3, <3>2, <3>4, <5>2
          <6>. QED  BY <3>2, <6>1 DEF l
        <5>. QED  BY <2>3, <5>1, <5>2
      <4>. QED  BY <4>1
    <3>. QED  BY <2>2, <2>5, <3>1, <3>5
  <2>8. CASE start < n /\ content # << >> /\ ~done
    <3> DEFINE more == Append(chunks, chunk)
               l == Len(chunks)
    <3>1. f(k + 1) = more
      <4>1. ~(start >= n)
        BY <1>0, <2>3, <2>8
      <4>. HIDE DEF content, chunk
      <4>. QED  BY <2>1, <2>8, <4>1
    <3>2. start < end
      BY <2>4, <2>8
    <3>3. content \in Seq(C) /\ Len(content) <= end - start
      BY <2>3, <2>4, <3>2, WindowOfText DEF n
    <3>4. Len(content) <= size
      BY <1>0, <2>3, <2>4, <3>3
    <3>5. /\ chunk.content = content /\ chunk.index = l /\ chunk.start = start /\ chunk.end = end
      BY DEF ChunkData
    <3>6. chunk \in Chunk(C)
      BY <2>2, <2>3, <2>4, <3>3 DEF Chunk, ChunkData
    <3>. HIDE DEF chunk
    <3>7. /\ more \in Seq(Chunk(C)) /\ l \in Nat /\ Len(more) = l + 1 /\ more[l + 1] = chunk
          /\ \A i \in 1..l : more[i] = chunks[i]
      BY <2>2, <3>6
    <3>. HIDE DEF more, l
    <3>8. \A i \in 1..Len(more) : i \in 1..l \/ i = l + 1
      BY <3>7
    <3>9. Fits(more, k + 1)
      <4>1. Fit(chunk, l + 1, k + 1)
        <5>1. (l + 1) - 1 = l /\ start < at[k + 1]
          BY <1>0, <2>3, <3>7
        <5>. HIDE DEF content
        <5>. QED  BY <2>3, <2>4, <2>8, <3>2, <3>4, <3>5, <5>1 DEF content
      <4>. HIDE DEF Fit
      <4>. QED  BY <2>5, <3>7, <3>8, <4>1 DEF l
    <3>10. \A i \in 1..l : chunks[i].start < chunk.start /\ chunks[i].end < chunk.end
      <4>1. ASSUME NEW i \in 1..l
            PROVE  chunks[i].start < chunk.start /\ chunks[i].end < chunk.end
        <5>0. l \in 1..l /\ i <= l
          BY <3>7
        <5>1. Fit(chunks[i], i, k) /\ Fit(chunks[l], l, k)
          BY <2>2, <5>0 DEF l
        <5>2. chunks[l].end # n
          BY <2>2, <2>8, <3>7 DEF Last, l, done
        <5>3. chunks[i].start < start /\ chunks[i].start \in Nat /\ chunks[i].end \in Nat
          BY <5>1 DEF start
        <5>4. chunks[i].end <= chunks[l].end
          <6>1. i < l => chunks[i].end < chunks[l].end
            BY <2>2, <5>0 DEF l
          <6>2. i = l \/ i < l
            BY <3>7, <5>0
          <6>. HIDE DEF Fit
          <6>3. chunks[i].end \in Nat /\ chunks[l].end \in Nat
            BY <5>1 DEF Fit
          <6>. QED  BY <6>1, <6>2, <6>3
        <5>5. chunks[l].end < n /\ chunks[l].end = chunks[l].start + size /\ chunks[l].start < start
              /\ chunks[l].start \in Nat /\ chunks[l].end \in Nat
          BY <1>0, <5>1, <5>2 DEF start
        <5>6. chunks[l].end < end
          BY <1>0, <2>3, <2>4, <5>5, SMTT(30)
        <5>7. chunks[i].end < end
          BY <2>4, <5>3, <5>4, <5>5, <5>6
        <5>. QED  BY <3>5, <5>3, <5>7
      <4>. QED  BY <4>1
    <3>11. Rising(more)
      <4>1. ASSUME NEW i \in 1..Len(more), NEW j \in 1..Len(more), i < j
            PROVE  more[i].start < more[j].start /\ more[i].end < more[j].end
        <5>1. i \in 1..l
          BY <3>7, <4>1
        <5>2. CASE j \in 1..l
          BY <2>2, <3>7, <4>1, <5>1, <5>2 DEF l
        <5>3. CASE j = l + 1
          BY <3>7, <3>10, <5>1, <5>3
        <5>. QED  BY <3>8, <5>2, <5>3
      <4>. QED  BY <4>1
    <3>12. Reached(more, k + 1)
      <4>1. ASSUME NEW i \in 1..n, i <= at[k + 1], text[i] \notin Blanks
            PROVE  \E m \in 1..Len(more) : more[m].start < i /\ i <= more[m].end
        <5>1. CASE i <= start
          <6>1. PICK m \in 1..Len(chunks) : chunks[m].start < i /\ i <= chunks[m].end
            BY <2>2, <4>1, <5>1 DEF start
          <6>2. m \in 1..Len(more) /\ more[m] = chunks[m]
            BY <3>7 DEF l
          <6>. QED  BY <6>1, <6>2
        <5>2. CASE i > start
          <6>1. i <= end
            BY <1>0, <2>3, <2>4, <4>1
          <6>2. l + 1 \in 1..Len(more)
            BY <3>7
          <6>. QED  BY <3>5, <3>7, <5>2, <6>1, <6>2
        <5>. QED  BY <2>3, <5>1, <5>2
      <4>. QED  BY <4>1
    <3>. QED  BY <3>1, <3>7, <3>9, <3>11, <3>12
  <2>9. start >= n \/ start < n
    BY <1>0, <2>3
  <2>. QED  BY <2>6, <2>7, <2>8, <2>9
<1>. HIDE DEF Good
<1>7. Good(n)
  <2>1. 0 \in T /\ \A k \in Nat : k \in T => k + 1 \in T
    BY <1>0, <1>5, <1>6
  <2>. HIDE DEF T
  <2>2. n \in T
    BY <1>0, <2>1, InductiveSet
  <2>. QED  BY <1>0, <2>2 DEF T
<1> DEFINE chunks == ChunkFixed(text, size, overlap)
<1>8. chunks \in Seq(Chunk(C)) /\ Fits(chunks, n) /\ Rising(chunks) /\ Reached(chunks, n)
  BY <1>2, <1>7 DEF Good
<1>. HIDE DEF chunks
<1>9. DOMAIN chunks = 1..Len(chunks) /\ DOMAIN text = 1..n
  BY <1>8 DEF n
<1>10. InOrder(chunks)
  BY <1>8, <1>9 DEF InOrder
<1>11. Covered(text, chunks)
  <2>1. \A i \in 1..n : i <= at[n]
    <3>1. at[n] \in Nat /\ at[n] >= n
      BY <1>0, <1>1
    <3>. QED  BY <1>0, <3>1
  <2>. QED  BY <1>8, <1>9, <2>1 DEF Covered
<1>12. Located(text, chunks) /\ \A k \in DOMAIN chunks : Len(chunks[k].content) <= size
  BY <1>8, <1>9 DEF Located
<1>. QED  BY <1>10, <1>11, <1>12 DEF chunks

(* Fixed windows stand in the text where their offsets say, follow each other and miss no *)
(* character but blanks: chunk_text with the fixed strategy (services/chunker.py:56-86).   *)
THEOREM Windowing == Spec => []FixedWindows
<1>1. ASSUME ChunkInput, input.strategy = "fixed"
      PROVE  FixedWindows
  <2>1. PICK text \in Texts, window \in Windows :
            /\ input.text = text /\ input.window = window /\ input.call = "chunk"
    BY <1>1 DEF ChunkInput
  <2> DEFINE s == strip(text)
             chunks == ChunkFixed(s, window.size, window.overlap)
  <2>2. s \in Seq(Characters)
    BY TextsAssumption, Stripped
  <2>3. window.size \in Nat /\ window.overlap \in Nat /\ window.overlap < window.size
    BY WindowsAssumption
  <2>4. Chunks.chunks = IF s = << >> THEN << >> ELSE chunks
    BY <1>1, <2>1 DEF Chunks, ChunkText
  <2> DEFINE made == IF s = << >> THEN << >> ELSE chunks
  <2>5. InOrder(made) /\ Covered(s, made) /\ Located(s, made)
        /\ \A k \in DOMAIN made : Len(made[k].content) <= window.size
    <3>1. CASE s = << >>
      BY <3>1 DEF InOrder, Covered, Located
    <3>2. CASE s # << >>
      <4>1. InOrder(chunks) /\ Covered(s, chunks) /\ Located(s, chunks)
            /\ \A k \in DOMAIN chunks : Len(chunks[k].content) <= window.size
        BY <2>2, <2>3, FixedChunks
      <4>. QED  BY <3>2, <4>1
    <3>. QED  BY <3>1, <3>2
  <2>. HIDE DEF s, chunks, made
  <2>6. Chunks.chunks = made
    BY <2>4 DEF made
  <2>. QED  BY <2>1, <2>5, <2>6 DEF FixedWindows, s
<1>2. Given => FixedWindows
  BY <1>1 DEF Given, FixedWindows, Split
<1>. QED  BY <1>2, GivenInvariant, PTL

-----------------------------------------------------------------------------
(* The groups of a plan. *)

NoGroups == [manual |-> << >>, assisted |-> << >>]
GroupsOver(R) == [manual : Seq(R), assisted : Seq(R)]

\* What one candidate does to the groups: it goes to one that is not full,
\* unless both are; if neither has its query case, to the smaller one; and if
\* only one has it, to the other, unless that is full.
PicksRightly(g, sc, t, h) ==
    LET m == Len(g.manual)  a == Len(g.assisted)
        inM == sc.c.case \in Cases(g, "manual")
        inA == sc.c.case \in Cases(g, "assisted")
        new == sc.c.case \notin Cases(g, "manual") \cup Cases(g, "assisted")
    IN  \/ m = t /\ a = t /\ h = g
        \/ /\ m < t /\ h = [g EXCEPT !.manual = Append(@, sc)]
           /\ new => a = t \/ a >= m
           /\ inM /\ ~inA => a = t
        \/ /\ a < t /\ h = [g EXCEPT !.assisted = Append(@, sc)]
           /\ new => m = t \/ m > a
           /\ inA /\ ~inM => m = t

LEMMA GroupsGrow ==
    ASSUME NEW R, NEW g \in GroupsOver(R), NEW sc \in R
    PROVE  /\ [g EXCEPT !.manual = Append(@, sc)] \in GroupsOver(R)
           /\ [g EXCEPT !.assisted = Append(@, sc)] \in GroupsOver(R)
<1> DEFINE Q == Seq(R)
<1>1. g \in [manual : Q, assisted : Q]
  BY DEF GroupsOver
<1>2. \A x \in Q : Append(x, sc) \in Q
  OBVIOUS
<1>. HIDE DEF Q
<1>3. Append(g.manual, sc) \in Q /\ Append(g.assisted, sc) \in Q
  BY <1>1, <1>2
<1>4. /\ [g EXCEPT !.manual = Append(g.manual, sc)] \in [manual : Q, assisted : Q]
      /\ [g EXCEPT !.assisted = Append(g.assisted, sc)] \in [manual : Q, assisted : Q]
  BY <1>1, <1>3
<1>. QED  BY <1>4 DEF GroupsOver, Q

LEMMA PickIsRight ==
    ASSUME NEW R, NEW g \in GroupsOver(R), NEW sc \in R, NEW t \in Nat, Len(g.manual) <= t, Len(g.assisted) <= t
    PROVE  PicksRightly(g, sc, t, Pick(g, sc, t)) /\ Pick(g, sc, t) \in GroupsOver(R)
<1> DEFINE m == Len(g.manual)
           a == Len(g.assisted)
           inM == sc.c.case \in Cases(g, "manual")
           inA == sc.c.case \in Cases(g, "assisted")
           M == [g EXCEPT !.manual = Append(@, sc)]
           A == [g EXCEPT !.assisted = Append(@, sc)]
           canM == t - m > 0 /\ ~inM
           canA == t - a > 0 /\ ~inA
           h == Pick(g, sc, t)
<1>1. m \in Nat /\ a \in Nat /\ m <= t /\ a <= t /\ M \in GroupsOver(R) /\ A \in GroupsOver(R)
  <2>1. M \in GroupsOver(R) /\ A \in GroupsOver(R)
    BY GroupsGrow
  <2>2. g.manual \in Seq(R) /\ g.assisted \in Seq(R)
    BY DEF GroupsOver
  <2>. QED  BY <2>1, <2>2
<1>2. h = IF canM /\ (canA => t - m >= t - a) THEN M
          ELSE IF canA THEN A
          ELSE IF t - m > 0 THEN M ELSE IF t - a > 0 THEN A ELSE g
  BY DEF Pick, PickFor
<1>3. PicksRightly(g, sc, t, h) <=>
        \/ m = t /\ a = t /\ h = g
        \/ m < t /\ h = M /\ (~inM /\ ~inA => a = t \/ a >= m) /\ (inM /\ ~inA => a = t)
        \/ a < t /\ h = A /\ (~inM /\ ~inA => m = t \/ m > a) /\ (inA /\ ~inM => m = t)
  BY DEF PicksRightly
<1>. HIDE DEF m, a, inM, inA, M, A, h
<1>. QED  BY <1>1, <1>2, <1>3 DEF h

Joins(s, b, t, g, i) == IF s[i].bucket = b THEN Pick(g, s[i], t) ELSE g

Grouped(s, b, t) ==
    LET iter[S \in SUBSET DOMAIN s] == IF S = {} THEN NoGroups ELSE Joins(s, b, t, iter[S \ {Max(S)}], Max(S))
    IN  iter

LEMMA GroupsOfPrefixes ==
    ASSUME NEW s, NEW n \in Nat, DOMAIN s = 1..n, NEW b, NEW t
    PROVE  /\ GroupsOf(s, b, t) = Grouped(s, b, t)[1..n]
           /\ Grouped(s, b, t)[1..0] = NoGroups
           /\ \A k \in 1..n : Grouped(s, b, t)[1..k] = Joins(s, b, t, Grouped(s, b, t)[1..(k - 1)], k)
<1> DEFINE R == {s[i] : i \in 1..n}
           X == GroupsOver(R)
           Add(g, i) == Joins(s, b, t, g, i)
           next == [i \in 1..n |-> [g \in X |-> Add(g, i)]]
           Good(f) == f = [S \in SUBSET (1..n) |-> IF S = {} THEN NoGroups ELSE Add(f[S \ {Max(S)}], Max(S))]
           f == Grouped(s, b, t)
<1>1. GroupsOf(s, b, t) = f[1..n]
  BY DEF GroupsOf, FoldLeft, MapThenFoldSet, Grouped, Joins, NoGroups
<1>2. f = CHOOSE g : Good(g)
  BY DEF Grouped
<1>3. NoGroups \in X
  BY DEF GroupsOver, NoGroups
<1>4. \A g \in X, i \in 1..n : Add(g, i) \in X
  <2>1. ASSUME NEW g \in X, NEW sc \in R
        PROVE  Pick(g, sc, t) \in X
    <3>1. Pick(g, sc, t) \in {g, PickFor(g, "manual", sc), PickFor(g, "assisted", sc)}
      BY DEF Pick
    <3>2. PickFor(g, "manual", sc) \in X /\ PickFor(g, "assisted", sc) \in X
      <4>. HIDE DEF R
      <4>. QED  BY <2>1, GroupsGrow DEF PickFor
    <3>. QED  BY <3>1, <3>2
  <2>2. \A i \in 1..n : s[i] \in R
    OBVIOUS
  <2>. HIDE DEF X, R
  <2>. QED  BY <2>1, <2>2 DEF Joins
<1>. HIDE DEF X, Add, f
<1>6. PICK g \in [SUBSET (1..n) -> X] :
          \A S \in SUBSET (1..n) : g[S] = IF S = {} THEN NoGroups ELSE next[Max(S)][g[S \ {Max(S)}]]
  <2>1. Steps(n, X, NoGroups, next)
    BY <1>3, <1>4 DEF Steps
  <2>. HIDE DEF next, Good
  <2>2. \E g \in [SUBSET (1..n) -> X] : FoldsUp(g, n, NoGroups, next)
    BY <2>1, PrefixFoldExists
  <2>. QED  BY <2>2 DEF FoldsUp
<1>7. \A S \in SUBSET (1..n) : S # {} => Max(S) \in 1..n /\ S \ {Max(S)} \in SUBSET (1..n)
  BY MaxIsPicked
<1>8. Good(g)
  <2>1. \A S \in SUBSET (1..n) : g[S] = IF S = {} THEN NoGroups ELSE Add(g[S \ {Max(S)}], Max(S))
    BY <1>6, <1>7
  <2>. QED  BY <2>1
<1>. HIDE DEF next
<1>9. Good(f)
  <2>. HIDE DEF Good
  <2>. QED  BY <1>2, <1>8
<1>10. \A S \in SUBSET (1..n) : f[S] = IF S = {} THEN NoGroups ELSE Add(f[S \ {Max(S)}], Max(S))
  BY <1>9
<1>11. f[1..0] = NoGroups
  <2>1. 1..0 = {} /\ {} \in SUBSET (1..n)
    OBVIOUS
  <2>. QED  BY <1>10, <2>1
<1>12. ASSUME NEW k \in 1..n
       PROVE  f[1..k] = Joins(s, b, t, f[1..(k - 1)], k)
  <2>0. k \in Nat /\ k > 0 /\ k <= n
    OBVIOUS
  <2>1. 1..k \in SUBSET (1..n) /\ 1..k # {}
    <3>1. k \in 1..k /\ \A i \in 1..k : i \in 1..n
      BY <2>0
    <3>. QED  BY <3>1
  <2>2. Max(1..k) = k /\ (1..k) \ {k} = 1..(k - 1)
    BY <2>0, LastIsMax
  <2> DEFINE S == 1..k
  <2>3. f[S] = Add(f[S \ {Max(S)}], Max(S))
    BY <1>10, <2>1
  <2>. QED  BY <2>2, <2>3 DEF Add
<1>. QED  BY <1>1, <1>11, <1>12 DEF f

-----------------------------------------------------------------------------
(* The groups of a bucket hold its candidates, each once. *)

RunsIn(group) == {group[i].c.run_id : i \in DOMAIN group}

\* What a group holds of R: no run twice.
Once(group) == IsFiniteSet(RunsIn(group)) /\ Cardinality(RunsIn(group)) = Len(group)

LEMMA RunJoins ==
    ASSUME NEW R, NEW group \in Seq(R), NEW sc \in R, Once(group), sc.c.run_id \notin RunsIn(group)
    PROVE  LET h == Append(group, sc)
           IN  Once(h) /\ RunsIn(h) = RunsIn(group) \cup {sc.c.run_id} /\ Len(h) = Len(group) + 1
<1> DEFINE n == Len(group)
           h == Append(group, sc)
           id == sc.c.run_id
<1>1. /\ n \in Nat /\ DOMAIN group = 1..n /\ DOMAIN h = 1..(n + 1) /\ Len(h) = n + 1
      /\ \A i \in 1..n : h[i] = group[i]
      /\ h[n + 1] = sc
  OBVIOUS
<1>2. ASSUME NEW x  PROVE x \in RunsIn(h) <=> x \in RunsIn(group) \cup {id}
  <2>1. \A i : i \in 1..(n + 1) <=> i \in 1..n \/ i = n + 1
    BY <1>1
  <2>2. x \in RunsIn(h) <=> \E i \in 1..(n + 1) : x = h[i].c.run_id
    BY <1>1 DEF RunsIn
  <2>3. x \in RunsIn(group) <=> \E i \in 1..n : x = group[i].c.run_id
    BY <1>1 DEF RunsIn
  <2>. HIDE DEF n, h
  <2>. QED  BY <1>1, <2>1, <2>2, <2>3
<1>. HIDE DEF h, id
<1>3. RunsIn(h) = RunsIn(group) \cup {id}
  BY <1>2
<1>4. IsFiniteSet(RunsIn(h)) /\ Cardinality(RunsIn(h)) = Cardinality(RunsIn(group)) + 1
  <2>1. IsFiniteSet(RunsIn(group)) /\ id \notin RunsIn(group)
    BY DEF Once, id
  <2>. QED  BY <1>3, <2>1, FS_AddElement
<1>. QED  BY <1>1, <1>3, <1>4 DEF Once, h, id

\* Candidates in the order of the plan.
ScoredList(s, n) ==
    /\ n \in Nat /\ DOMAIN s = 1..n
    /\ \A i \in 1..n : s[i].bucket \in ToSet(ALL_BUCKETS) /\ s[i].score \in Int
    /\ \A i, j \in 1..n : s[i].c.run_id = s[j].c.run_id => i = j
    /\ \A i, j \in 1..n : i < j => s[i].score >= s[j].score

Upto(s, b, k) == {i \in 1..k : s[i].bucket = b}
IdsUpto(s, b, k) == {s[i].c.run_id : i \in Upto(s, b, k)}
OtherCases(s, b, k) == \A i, j \in Upto(s, b, k) : s[i].c.case = s[j].c.case => i = j
InGroups(g) == RunsIn(g.manual) \cup RunsIn(g.assisted)

\* The groups once the first k candidates were dealt out.
Shared(s, b, k, g) ==
    /\ g \in GroupsOver({s[i] : i \in Upto(s, b, k)})
    /\ Once(g.manual) /\ Once(g.assisted) /\ RunsIn(g.manual) \cap RunsIn(g.assisted) = {}

Fills(s, b, t, k, g) ==
    LET n == Cardinality(Upto(s, b, k))
    IN  /\ Len(g.manual) <= t /\ Len(g.assisted) <= t
        /\ Len(g.manual) + Len(g.assisted) = IF n < 2 * t THEN n ELSE 2 * t
        /\ n <= 2 * t => InGroups(g) = IdsUpto(s, b, k)
        /\ \A i, j \in Upto(s, b, k) :
             i < j /\ s[j].c.run_id \in InGroups(g) => s[i].c.run_id \in InGroups(g)
        /\ OtherCases(s, b, k) => Len(g.manual) - Len(g.assisted) \in {0, 1}

\* A query case that was chosen twice is in each group that is not full.
Spread(s, b, t, k, g) ==
    \A i, j \in Upto(s, b, k) :
        /\ i # j /\ s[i].c.case = s[j].c.case
        /\ s[i].c.run_id \in InGroups(g) /\ s[j].c.run_id \in InGroups(g)
        => \A mode \in {"manual", "assisted"} : s[i].c.case \in Cases(g, mode) \/ Len(g[mode]) = t

\* What the groups hold came from the candidates dealt out.
LEMMA SharedIsDealt ==
    ASSUME NEW s, NEW b, NEW k, NEW g, Shared(s, b, k, g)
    PROVE  /\ InGroups(g) \subseteq IdsUpto(s, b, k)
           /\ Cases(g, "manual") \cup Cases(g, "assisted") \subseteq {s[i].c.case : i \in Upto(s, b, k)}
           /\ Len(g.manual) \in Nat /\ Len(g.assisted) \in Nat
<1> DEFINE R == {s[i] : i \in Upto(s, b, k)}
           M == g.manual
           A == g.assisted
<1>1. M \in Seq(R) /\ A \in Seq(R)
  BY DEF Shared, GroupsOver
<1>2. (\A i \in DOMAIN M : M[i] \in R) /\ (\A i \in DOMAIN A : A[i] \in R) /\ Len(M) \in Nat /\ Len(A) \in Nat
  <2>. HIDE DEF R, M, A
  <2>. QED  BY <1>1
<1>3. Cases(g, "manual") = {M[i].c.case : i \in DOMAIN M} /\ Cases(g, "assisted") = {A[i].c.case : i \in DOMAIN A}
  BY DEF Cases, Picked, ToSet
<1>4. \A sc \in R : sc.c.run_id \in IdsUpto(s, b, k) /\ sc.c.case \in {s[i].c.case : i \in Upto(s, b, k)}
  BY DEF IdsUpto
<1>. HIDE DEF R, M, A
<1>5. InGroups(g) \subseteq IdsUpto(s, b, k)
  BY <1>2, <1>4 DEF InGroups, RunsIn, M, A
<1>6. Cases(g, "manual") \cup Cases(g, "assisted") \subseteq {s[i].c.case : i \in Upto(s, b, k)}
  BY <1>2, <1>3, <1>4
<1>. QED  BY <1>2, <1>5, <1>6 DEF M, A

\* A candidate of another bucket changes nothing.
LEMMA OthersPass ==
    ASSUME NEW s, NEW b, NEW k \in Nat, s[k + 1].bucket # b
    PROVE  Upto(s, b, k + 1) = Upto(s, b, k)
<1>1. \A i : i \in 1..(k + 1) <=> i \in 1..k \/ i = k + 1
  OBVIOUS
<1>. QED  BY <1>1 DEF Upto

\* One of this bucket is one more, and new.
IsOneMore(s, b, k) ==
    /\ Upto(s, b, k + 1) = Upto(s, b, k) \cup {k + 1}
    /\ k + 1 \notin Upto(s, b, k) /\ \A i \in Upto(s, b, k) : i < k + 1 /\ i \in Nat
    /\ Cardinality(Upto(s, b, k)) \in Nat
    /\ Cardinality(Upto(s, b, k + 1)) = Cardinality(Upto(s, b, k)) + 1
    /\ s[k + 1].c.run_id \notin IdsUpto(s, b, k)
    /\ IdsUpto(s, b, k + 1) = IdsUpto(s, b, k) \cup {s[k + 1].c.run_id}
    /\ OtherCases(s, b, k + 1) =>
         OtherCases(s, b, k) /\ s[k + 1].c.case \notin {s[i].c.case : i \in Upto(s, b, k)}

LEMMA OneMore ==
    ASSUME NEW s, NEW n, ScoredList(s, n), NEW b, NEW k \in Nat, k + 1 <= n, s[k + 1].bucket = b
    PROVE  IsOneMore(s, b, k)
<1> DEFINE U == Upto(s, b, k)
           V == Upto(s, b, k + 1)
           x == k + 1
<1>1. \A i : i \in 1..(k + 1) <=> i \in 1..k \/ i = k + 1
  OBVIOUS
<1>2. V = U \cup {x}
  BY <1>1 DEF Upto
<1>3. x \notin U /\ (\A i \in U : i < x /\ i \in Nat) /\ U \in SUBSET (1..k) /\ \A i \in U : i \in 1..n /\ x \in 1..n
  BY DEF Upto, ScoredList
<1>4. IsFiniteSet(U)
  <2>1. IsFiniteSet(1..k)
    BY FS_Interval
  <2>. HIDE DEF U
  <2>. QED  BY <1>3, <2>1, FS_Subset
<1>. HIDE DEF U, V, x
<1>5. Cardinality(U) \in Nat /\ Cardinality(V) = Cardinality(U) + 1
  BY <1>2, <1>3, <1>4, FS_AddElement, FS_CardinalityType
<1>6. \A i \in U : s[i].c.run_id # s[x].c.run_id
  BY <1>3 DEF ScoredList
<1>7. s[x].c.run_id \notin {s[i].c.run_id : i \in U} /\ {s[i].c.run_id : i \in V} = {s[i].c.run_id : i \in U} \cup {s[x].c.run_id}
  BY <1>2, <1>6
<1>8. (\A i, j \in V : s[i].c.case = s[j].c.case => i = j) =>
          /\ \A i, j \in U : s[i].c.case = s[j].c.case => i = j
          /\ s[x].c.case \notin {s[i].c.case : i \in U}
  BY <1>2, <1>3
<1>. QED  BY <1>2, <1>3, <1>5, <1>7, <1>8 DEF U, V, x, IdsUpto, OtherCases, IsOneMore

\* The cases of a group are those of the runs in it.
LEMMA HeldCases ==
    ASSUME NEW s, NEW n, ScoredList(s, n), NEW b, NEW k \in Nat, k <= n, NEW g, Shared(s, b, k, g),
           NEW mode \in {"manual", "assisted"}
    PROVE  /\ \A i \in Upto(s, b, k) : s[i].c.run_id \in RunsIn(g[mode]) => s[i].c.case \in Cases(g, mode)
           /\ \A q \in Cases(g, mode) :
                \E i \in Upto(s, b, k) : s[i].c.run_id \in RunsIn(g[mode]) /\ s[i].c.case = q
<1> DEFINE R == {s[i] : i \in Upto(s, b, k)}
           G == g[mode]
<1>1. G \in Seq(R)
  BY DEF Shared, GroupsOver
<1>2. \A x \in DOMAIN G : G[x] \in R
  <2>. HIDE DEF R, G
  <2>. QED  BY <1>1
<1>3. Cases(g, mode) = {G[x].c.case : x \in DOMAIN G}
  BY DEF Cases, Picked, ToSet
<1>4. RunsIn(G) = {G[x].c.run_id : x \in DOMAIN G}
  BY DEF RunsIn
<1>5. \A x \in DOMAIN G : \E i \in Upto(s, b, k) : G[x] = s[i]
  BY <1>2
<1>6. \A i, j \in Upto(s, b, k) : s[i].c.run_id = s[j].c.run_id => i = j
  BY DEF Upto, ScoredList
<1>. HIDE DEF R, G
<1>7. ASSUME NEW i \in Upto(s, b, k), s[i].c.run_id \in RunsIn(G)
      PROVE  s[i].c.case \in Cases(g, mode)
  <2>1. PICK x \in DOMAIN G : s[i].c.run_id = G[x].c.run_id
    BY <1>4, <1>7
  <2>2. PICK j \in Upto(s, b, k) : G[x] = s[j]
    BY <1>5
  <2>3. i = j
    BY <1>6, <2>1, <2>2
  <2>. QED  BY <1>3, <2>2, <2>3
<1>8. ASSUME NEW q \in Cases(g, mode)
      PROVE  \E i \in Upto(s, b, k) : s[i].c.run_id \in RunsIn(G) /\ s[i].c.case = q
  <2>1. PICK x \in DOMAIN G : q = G[x].c.case
    BY <1>3
  <2>2. PICK j \in Upto(s, b, k) : G[x] = s[j]
    BY <1>5
  <2>. QED  BY <1>4, <2>1, <2>2
<1>. QED  BY <1>7, <1>8 DEF G

\* One candidate more leaves repeated cases in both groups.
LEMMA SpreadGrows ==
    ASSUME NEW s, NEW n, ScoredList(s, n), NEW b, NEW t \in Nat, NEW k \in Nat, k + 1 <= n,
           NEW h, Shared(s, b, k, h), Fills(s, b, t, k, h), Spread(s, b, t, k, h)
    PROVE  Spread(s, b, t, k + 1, Joins(s, b, t, h, k + 1))
<1> DEFINE x == s[k + 1]
           q == x.c.case
           h2 == Joins(s, b, t, h, k + 1)
           U == Upto(s, b, k)
           V == Upto(s, b, k + 1)
           R == {s[i] : i \in V}
           I == InGroups(h)
           Kinds == {"manual", "assisted"}
<1>1. CASE x.bucket # b
  <2>1. V = U /\ h2 = h
    BY <1>1, OthersPass DEF Joins
  <2>. QED  BY <2>1 DEF Spread
<1>2. CASE x.bucket = b
  <2>1. V = U \cup {k + 1} /\ k + 1 \notin U /\ x.c.run_id \notin IdsUpto(s, b, k)
    <3>1. IsOneMore(s, b, k)
      BY <1>2, OneMore
    <3>. QED  BY <3>1 DEF IsOneMore
  <2>2. x.c.run_id \notin I /\ \A i \in U : s[i].c.run_id # x.c.run_id
    BY <2>1, SharedIsDealt DEF IdsUpto
  <2>3. /\ h \in GroupsOver(R) /\ x \in R /\ \A mode \in Kinds : h[mode] \in Seq(R) /\ Once(h[mode])
        /\ Len(h.manual) <= t /\ Len(h.assisted) <= t
    <3>1. h \in GroupsOver({s[i] : i \in U}) /\ {s[i] : i \in U} \subseteq R
      BY <2>1 DEF Shared
    <3>2. \A Q, W : Q \subseteq W => Seq(Q) \subseteq Seq(W)
      OBVIOUS
    <3>3. h \in GroupsOver(R)
      <4>. HIDE DEF R
      <4>. QED  BY <3>1, <3>2 DEF GroupsOver
    <3>4. x \in R
      BY <2>1
    <3>. HIDE DEF R, x
    <3>. QED  BY <3>3, <3>4 DEF Shared, Fills, GroupsOver
  <2>4. PicksRightly(h, x, t, h2)
    <3>. HIDE DEF R
    <3>. QED  BY <1>2, <2>3, PickIsRight DEF Joins
  <2>5. \A i \in U : s[i].c.run_id \in I => \E mode \in Kinds : s[i].c.case \in Cases(h, mode)
    <3>1. ASSUME NEW i \in U, s[i].c.run_id \in I
          PROVE  s[i].c.case \in Cases(h, "manual") \cup Cases(h, "assisted")
      <4>1. k <= n
        BY DEF ScoredList
      <4>2. s[i].c.run_id \in RunsIn(h["manual"]) \/ s[i].c.run_id \in RunsIn(h["assisted"])
        BY <3>1 DEF InGroups
      <4>. QED  BY <4>1, <4>2, HeldCases
    <3>. QED  BY <3>1
  <2>. HIDE DEF x, q, U, V, R, I, h2
  <2>6. ASSUME h2 = h  PROVE Spread(s, b, t, k + 1, h2)
    <3>1. ASSUME NEW i \in V, s[i].c.run_id \in I  PROVE i \in U
      BY <2>1, <2>2, <3>1 DEF x
    <3>. QED  BY <2>6, <3>1 DEF Spread, I, U, V
  <2>7. ASSUME NEW this \in Kinds, NEW that \in Kinds, this # that, Len(h[this]) < t,
               h2 = [h EXCEPT ![this] = Append(@, x)],
               q \in Cases(h, this) /\ q \notin Cases(h, that) => Len(h[that]) = t
        PROVE  Spread(s, b, t, k + 1, h2)
    <3>1. h2[this] = Append(h[this], x) /\ h2[that] = h[that]
      BY <2>3, <2>7 DEF GroupsOver
    <3>2. RunsIn(h2[this]) = RunsIn(h[this]) \cup {x.c.run_id}
      <4>1. x.c.run_id \notin RunsIn(h[this])
        BY <2>2 DEF InGroups, I
      <4>. QED  BY <2>3, <3>1, <4>1, RunJoins
    <3>3. InGroups(h2) = I \cup {x.c.run_id}
      <4>1. (this = "manual" /\ that = "assisted") \/ (this = "assisted" /\ that = "manual")
        BY <2>7
      <4>. QED  BY <3>1, <3>2, <4>1 DEF InGroups, I
    <3>4. q \in Cases(h2, this) /\ Cases(h, this) \subseteq Cases(h2, this) /\ Cases(h2, that) = Cases(h, that)
      <4> DEFINE G == h[this]
      <4>1. /\ G \in Seq(R) /\ x \in R
            /\ Cases(h, this) = {G[y].c.case : y \in DOMAIN G}
            /\ Cases(h2, this) = {Append(G, x)[y].c.case : y \in DOMAIN Append(G, x)}
        BY <2>3, <3>1 DEF Cases, Picked, ToSet
      <4>. HIDE DEF G
      <4>2. /\ DOMAIN G \subseteq DOMAIN Append(G, x) /\ \A y \in DOMAIN G : Append(G, x)[y] = G[y]
            /\ Len(G) + 1 \in DOMAIN Append(G, x) /\ Append(G, x)[Len(G) + 1] = x
        BY <4>1
      <4>3. Cases(h2, that) = Cases(h, that)
        BY <3>1 DEF Cases, Picked
      <4>. QED  BY <4>1, <4>2, <4>3 DEF q
    <3>5. ASSUME NEW i \in V, NEW j \in V, i # j, s[i].c.case = s[j].c.case,
                 s[i].c.run_id \in InGroups(h2), s[j].c.run_id \in InGroups(h2), NEW mode \in Kinds
          PROVE  s[i].c.case \in Cases(h2, mode) \/ Len(h2[mode]) = t
      <4>1. mode = this \/ mode = that
        BY <2>7
      <4>2. CASE i \in U /\ j \in U
        <5>1. s[i].c.run_id \in I /\ s[j].c.run_id \in I
          BY <2>2, <3>3, <3>5, <4>2
        <5>2. \A m \in Kinds : s[i].c.case \in Cases(h, m) \/ Len(h[m]) = t
          BY <3>5, <4>2, <5>1 DEF Spread, I, U
        <5>3. Len(h[this]) # t
          <6>1. Len(h[this]) \in Nat
            BY <2>3
          <6>. QED  BY <2>7, <6>1
        <5>. QED  BY <2>7, <3>1, <3>4, <4>1, <5>2, <5>3
      <4>3. CASE i \notin U \/ j \notin U
        <5>1. PICK o \in {i, j} : o \in U /\ s[o].c.run_id \in I
          <6>1. (i = k + 1 /\ j \in U) \/ (j = k + 1 /\ i \in U)
            BY <2>1, <3>5, <4>3
          <6>. QED  BY <2>2, <3>3, <3>5, <6>1
        <5>2. s[i].c.case = q /\ s[o].c.case = q
          BY <2>1, <3>5, <4>3 DEF q, x
        <5>3. q \in Cases(h, this) \/ q \in Cases(h, that)
          BY <2>5, <2>7, <5>1, <5>2
        <5>. QED  BY <2>7, <3>1, <3>4, <4>1, <5>2, <5>3
      <4>. QED  BY <4>2, <4>3
    <3>. QED  BY <3>5 DEF Spread, V
  <2>8. Spread(s, b, t, k + 1, h2)
    <3>1. \/ h2 = h
          \/ /\ Len(h["manual"]) < t /\ h2 = [h EXCEPT !["manual"] = Append(@, x)]
             /\ q \in Cases(h, "manual") /\ q \notin Cases(h, "assisted") => Len(h["assisted"]) = t
          \/ /\ Len(h["assisted"]) < t /\ h2 = [h EXCEPT !["assisted"] = Append(@, x)]
             /\ q \in Cases(h, "assisted") /\ q \notin Cases(h, "manual") => Len(h["manual"]) = t
      BY <2>4 DEF PicksRightly, q
    <3>2. ASSUME Len(h["manual"]) < t, h2 = [h EXCEPT !["manual"] = Append(@, x)],
                 q \in Cases(h, "manual") /\ q \notin Cases(h, "assisted") => Len(h["assisted"]) = t
          PROVE  Spread(s, b, t, k + 1, h2)
      <4>1. "manual" \in Kinds /\ "assisted" \in Kinds /\ "manual" # "assisted"
        OBVIOUS
      <4>. QED  BY ONLY <2>7, <3>2, <4>1
    <3>3. ASSUME Len(h["assisted"]) < t, h2 = [h EXCEPT !["assisted"] = Append(@, x)],
                 q \in Cases(h, "assisted") /\ q \notin Cases(h, "manual") => Len(h["manual"]) = t
          PROVE  Spread(s, b, t, k + 1, h2)
      <4>1. "manual" \in Kinds /\ "assisted" \in Kinds /\ "assisted" # "manual"
        OBVIOUS
      <4>. QED  BY ONLY <2>7, <3>3, <4>1
    <3>. QED  BY <2>6, <3>1, <3>2, <3>3
  <2>. QED  BY <2>8 DEF h2
<1>. QED  BY <1>1, <1>2

LEMMA GroupsFill ==
    ASSUME NEW s, NEW n, ScoredList(s, n), NEW b, NEW t \in Nat
    PROVE  /\ Shared(s, b, n, GroupsOf(s, b, t)) /\ Fills(s, b, t, n, GroupsOf(s, b, t))
           /\ Spread(s, b, t, n, GroupsOf(s, b, t))
<1> DEFINE g(k) == Grouped(s, b, t)[1..k]
           T == {k \in Nat : k <= n => Shared(s, b, k, g(k)) /\ Fills(s, b, t, k, g(k)) /\ Spread(s, b, t, k, g(k))}
<1>1. n \in Nat /\ DOMAIN s = 1..n
  BY DEF ScoredList
<1>2. g(0) = NoGroups /\ g(n) = GroupsOf(s, b, t)
      /\ \A k \in 1..n : g(k) = Joins(s, b, t, g(k - 1), k)
  BY <1>1, GroupsOfPrefixes
<1>. HIDE DEF g
<1>3. Shared(s, b, 0, NoGroups) /\ Fills(s, b, t, 0, NoGroups) /\ Spread(s, b, t, 0, NoGroups)
  <2>1. Upto(s, b, 0) = {} /\ IdsUpto(s, b, 0) = {}
    BY DEF Upto, IdsUpto
  <2>2. RunsIn(<< >>) = {} /\ Len(<< >>) = 0 /\ IsFiniteSet({}) /\ Cardinality({}) = 0
    BY FS_EmptySet DEF RunsIn
  <2>3. NoGroups.manual = << >> /\ NoGroups.assisted = << >>
    BY DEF NoGroups
  <2>4. NoGroups \in GroupsOver({s[i] : i \in Upto(s, b, 0)})
    BY DEF NoGroups, GroupsOver
  <2>5. Shared(s, b, 0, NoGroups)
    BY <2>2, <2>3, <2>4 DEF Shared, Once
  <2>6. Fills(s, b, t, 0, NoGroups)
    <3>1. /\ Len(NoGroups.manual) = 0 /\ Len(NoGroups.assisted) = 0 /\ InGroups(NoGroups) = {}
          /\ Cardinality(Upto(s, b, 0)) = 0
      BY <2>1, <2>2, <2>3 DEF InGroups
    <3>2. 0 <= t /\ 0 + 0 = (IF 0 < 2 * t THEN 0 ELSE 2 * t) /\ 0 - 0 \in {0, 1}
      OBVIOUS
    <3>. QED  BY <2>1, <3>1, <3>2 DEF Fills
  <2>7. Spread(s, b, t, 0, NoGroups)
    BY <2>1 DEF Spread
  <2>. QED  BY <2>5, <2>6, <2>7
<1>4. ASSUME NEW k \in Nat, k + 1 <= n, NEW h, Shared(s, b, k, h), Fills(s, b, t, k, h)
      PROVE  LET h2 == Joins(s, b, t, h, k + 1) IN Shared(s, b, k + 1, h2) /\ Fills(s, b, t, k + 1, h2)
  <2> DEFINE x == s[k + 1]
             h2 == Joins(s, b, t, h, k + 1)
             U == Upto(s, b, k)
             V == Upto(s, b, k + 1)
             R == {s[i] : i \in V}
             c == Cardinality(U)
             m == Len(h.manual)
             a == Len(h.assisted)
             I == InGroups(h)
             I2 == InGroups(h2)
  <2>1. CASE x.bucket # b
    <3>1. V = U /\ h2 = h
      BY <2>1, OthersPass DEF Joins
    <3>. QED  BY <1>4, <3>1 DEF Shared, Fills, IdsUpto, OtherCases
  <2>2. CASE x.bucket = b
    <3>1. /\ V = U \cup {k + 1}
          /\ k + 1 \notin U /\ \A i \in U : i < k + 1 /\ i \in Nat
          /\ c \in Nat /\ Cardinality(V) = c + 1
          /\ x.c.run_id \notin IdsUpto(s, b, k)
          /\ IdsUpto(s, b, k + 1) = IdsUpto(s, b, k) \cup {x.c.run_id}
          /\ OtherCases(s, b, k + 1) =>
                OtherCases(s, b, k) /\ x.c.case \notin {s[i].c.case : i \in U}
      <4>1. IsOneMore(s, b, k)
        BY <1>4, <2>2, OneMore
      <4>. QED  BY <4>1 DEF IsOneMore
    <3>2. /\ I \subseteq IdsUpto(s, b, k)
          /\ Cases(h, "manual") \cup Cases(h, "assisted") \subseteq {s[i].c.case : i \in U}
          /\ m \in Nat /\ a \in Nat
      BY <1>4, SharedIsDealt
    <3>3. /\ m <= t /\ a <= t /\ m + a = IF c < 2 * t THEN c ELSE 2 * t
          /\ c <= 2 * t => I = IdsUpto(s, b, k)
          /\ \A i, j \in U : i < j /\ s[j].c.run_id \in I => s[i].c.run_id \in I
          /\ OtherCases(s, b, k) => m - a \in {0, 1}
      BY <1>4 DEF Fills
    <3>4. /\ h \in GroupsOver(R) /\ x \in R
          /\ Once(h.manual) /\ Once(h.assisted) /\ RunsIn(h.manual) \cap RunsIn(h.assisted) = {}
      <4>1. h \in GroupsOver({s[i] : i \in U}) /\ {s[i] : i \in U} \subseteq R
        BY <1>4, <3>1 DEF Shared
      <4>2. \A Q, W : Q \subseteq W => Seq(Q) \subseteq Seq(W)
        OBVIOUS
      <4>3. h \in GroupsOver(R)
        <5>. HIDE DEF R
        <5>. QED  BY <4>1, <4>2 DEF GroupsOver
      <4>. QED  BY <1>4, <3>1, <4>3 DEF Shared
    <3>5. h2 \in GroupsOver(R) /\ PicksRightly(h, x, t, h2)
      <4>. HIDE DEF R
      <4>. QED  BY <2>2, <3>3, <3>4, PickIsRight DEF Joins
    <3> DEFINE new == x.c.case \notin Cases(h, "manual") \cup Cases(h, "assisted")
    <3>6. OtherCases(s, b, k + 1) => OtherCases(s, b, k) /\ new
      BY <3>1, <3>2
    <3>7. \/ m = t /\ a = t /\ h2 = h
          \/ m < t /\ h2 = [h EXCEPT !.manual = Append(@, x)] /\ (new => a = t \/ a >= m)
          \/ a < t /\ h2 = [h EXCEPT !.assisted = Append(@, x)] /\ (new => m = t \/ m > a)
      BY <3>5 DEF PicksRightly
    <3>8. x.c.run_id \notin I
      BY <3>1, <3>2
    <3>9. h.manual \in Seq(R) /\ h.assisted \in Seq(R) /\ h \in [manual : Seq(R), assisted : Seq(R)]
      BY <3>4 DEF GroupsOver
    <3>. HIDE DEF x, U, V, R, c, new, h2, m, a
    <3>20. /\ c \in Nat /\ m \in Nat /\ a \in Nat /\ m <= t /\ a <= t
           /\ m + a = IF c < 2 * t THEN c ELSE 2 * t
      BY <3>1, <3>2, <3>3
    <3>21. Cardinality(V) = c + 1
      BY <3>1
    <3>22. OtherCases(s, b, k + 1) => m - a \in {0, 1} /\ new
      BY <3>3, <3>6
    <3>10. CASE m = t /\ a = t /\ h2 = h
      <4>1. Shared(s, b, k + 1, h2)
        BY <3>4, <3>10 DEF Shared, R, V
      <4>2. c >= 2 * t
        BY <3>10, <3>20
      <4>3. /\ m <= t /\ a <= t /\ m + a = IF c + 1 < 2 * t THEN c + 1 ELSE 2 * t
            /\ ~(c + 1 <= 2 * t) /\ m - a \in {0, 1}
        BY <3>10, <3>20, <4>2
      <4>6. m = Len(h2.manual) /\ a = Len(h2.assisted)
        BY <3>10 DEF m, a
      <4>4. \A i, j \in V : i < j /\ s[j].c.run_id \in I2 => s[i].c.run_id \in I2
        BY <3>1, <3>3, <3>8, <3>10 DEF x
      <4>5. Fills(s, b, t, k + 1, h2)
        BY <3>21, <4>3, <4>4, <4>6 DEF Fills, V
      <4>. QED  BY <4>1, <4>5 DEF h2
    <3>11. ASSUME m < t \/ a < t, Once(h2.manual), Once(h2.assisted), RunsIn(h2.manual) \cap RunsIn(h2.assisted) = {},
                  I2 = I \cup {x.c.run_id}, Len(h2.manual) <= t, Len(h2.assisted) <= t,
                  Len(h2.manual) + Len(h2.assisted) = m + a + 1,
                  OtherCases(s, b, k + 1) => Len(h2.manual) - Len(h2.assisted) \in {0, 1}
           PROVE  Shared(s, b, k + 1, h2) /\ Fills(s, b, t, k + 1, h2)
      <4>1. Shared(s, b, k + 1, h2)
        BY <3>5, <3>11 DEF Shared, R, V
      <4>2. c < 2 * t /\ m + a = c
        BY <3>11, <3>20
      <4>3. I2 = IdsUpto(s, b, k + 1)
        BY <3>1, <3>3, <3>11, <4>2
      <4>4. \A i \in V : s[i].c.run_id \in I2
        BY <4>3 DEF IdsUpto, V
      <4>5. m + a + 1 = IF c + 1 < 2 * t THEN c + 1 ELSE 2 * t
        BY <3>20, <4>2
      <4>. HIDE DEF I2
      <4>6. Fills(s, b, t, k + 1, h2)
        BY <3>11, <3>21, <4>3, <4>4, <4>5 DEF Fills, V, I2
      <4>. QED  BY <4>1, <4>6
    <3>12. CASE m < t /\ h2 = [h EXCEPT !.manual = Append(@, x)] /\ (new => a = t \/ a >= m)
      <4>1. h2.manual = Append(h.manual, x) /\ h2.assisted = h.assisted
        BY <3>9, <3>12
      <4>2. /\ Once(h2.manual) /\ RunsIn(h2.manual) = RunsIn(h.manual) \cup {x.c.run_id}
            /\ Len(h2.manual) = m + 1
        <5>1. x.c.run_id \notin RunsIn(h.manual)
          BY <3>8 DEF InGroups
        <5>. QED  BY <3>4, <3>9, <4>1, <5>1, RunJoins DEF m, a
      <4>3. I2 = I \cup {x.c.run_id} /\ RunsIn(h2.manual) \cap RunsIn(h2.assisted) = {}
        BY <3>4, <3>8, <4>1, <4>2 DEF InGroups
      <4>4. OtherCases(s, b, k + 1) => (m + 1) - a \in {0, 1}
        <5>1. SUFFICES ASSUME OtherCases(s, b, k + 1)  PROVE (m + 1) - a \in {0, 1}
          OBVIOUS
        <5>2. m < t /\ (a = t \/ a >= m) /\ (m - a = 0 \/ m - a = 1)
          BY <3>12, <3>22, <5>1
        <5>3. m \in Nat /\ a \in Nat /\ t \in Nat
          BY <3>20
        <5>4. (m + 1) - a = 0 \/ (m + 1) - a = 1
          BY ONLY <5>2, <5>3
        <5>. QED  BY <5>4
      <4>5. m + 1 <= t /\ m + 1 + a = m + a + 1
        BY <3>12, <3>20
      <4>7. Once(h2.assisted) /\ Len(h2.assisted) = a
        BY <3>4, <4>1 DEF a
      <4>8. /\ Len(h2.manual) <= t /\ Len(h2.assisted) <= t
            /\ Len(h2.manual) + Len(h2.assisted) = m + a + 1
            /\ OtherCases(s, b, k + 1) => Len(h2.manual) - Len(h2.assisted) \in {0, 1}
        <5>. HIDE DEF I2
        <5>. QED  BY ONLY <3>20, <4>2, <4>4, <4>5, <4>7
      <4>6. Shared(s, b, k + 1, h2) /\ Fills(s, b, t, k + 1, h2)
        <5>. HIDE DEF I2
        <5>. QED  BY <3>11, <3>12, <4>2, <4>3, <4>7, <4>8
      <4>. QED  BY <4>6 DEF h2
    <3>13. CASE a < t /\ h2 = [h EXCEPT !.assisted = Append(@, x)] /\ (new => m = t \/ m > a)
      <4>1. h2.assisted = Append(h.assisted, x) /\ h2.manual = h.manual
        BY <3>9, <3>13
      <4>2. /\ Once(h2.assisted) /\ RunsIn(h2.assisted) = RunsIn(h.assisted) \cup {x.c.run_id}
            /\ Len(h2.assisted) = a + 1
        <5>1. x.c.run_id \notin RunsIn(h.assisted)
          BY <3>8 DEF InGroups
        <5>. QED  BY <3>4, <3>9, <4>1, <5>1, RunJoins DEF m, a
      <4>3. I2 = I \cup {x.c.run_id} /\ RunsIn(h2.manual) \cap RunsIn(h2.assisted) = {}
        BY <3>4, <3>8, <4>1, <4>2 DEF InGroups
      <4>4. OtherCases(s, b, k + 1) => m - (a + 1) \in {0, 1}
        <5>1. SUFFICES ASSUME OtherCases(s, b, k + 1)  PROVE m - (a + 1) \in {0, 1}
          OBVIOUS
        <5>2. a < t /\ (m = t \/ m > a) /\ (m - a = 0 \/ m - a = 1)
          BY <3>13, <3>22, <5>1
        <5>3. m \in Nat /\ a \in Nat /\ t \in Nat
          BY <3>20
        <5>4. m - (a + 1) = 0 \/ m - (a + 1) = 1
          BY ONLY <5>2, <5>3
        <5>. QED  BY <5>4
      <4>5. a + 1 <= t /\ m + (a + 1) = m + a + 1
        BY <3>13, <3>20
      <4>7. Once(h2.manual) /\ Len(h2.manual) = m
        BY <3>4, <4>1 DEF m
      <4>8. /\ Len(h2.manual) <= t /\ Len(h2.assisted) <= t
            /\ Len(h2.manual) + Len(h2.assisted) = m + a + 1
            /\ OtherCases(s, b, k + 1) => Len(h2.manual) - Len(h2.assisted) \in {0, 1}
        <5>. HIDE DEF I2
        <5>. QED  BY ONLY <3>20, <4>2, <4>4, <4>5, <4>7
      <4>6. Shared(s, b, k + 1, h2) /\ Fills(s, b, t, k + 1, h2)
        <5>. HIDE DEF I2
        <5>. QED  BY <3>11, <3>13, <4>2, <4>3, <4>7, <4>8
      <4>. QED  BY <4>6 DEF h2
    <3>. QED  BY <3>7, <3>10, <3>12, <3>13
  <2>. QED  BY <2>1, <2>2
<1>5. \A k \in Nat : k \in T => k + 1 \in T
  <2>1. SUFFICES ASSUME NEW k \in Nat, k \in T, k + 1 <= n
                 PROVE  /\ Shared(s, b, k + 1, g(k + 1)) /\ Fills(s, b, t, k + 1, g(k + 1))
                        /\ Spread(s, b, t, k + 1, g(k + 1))
    OBVIOUS
  <2>2. Shared(s, b, k, g(k)) /\ Fills(s, b, t, k, g(k)) /\ Spread(s, b, t, k, g(k))
    BY <1>1, <2>1
  <2>3. g(k + 1) = Joins(s, b, t, g(k), k + 1)
    <3>1. k + 1 \in 1..n /\ (k + 1) - 1 = k
      BY <1>1, <2>1
    <3>. QED  BY <1>2, <3>1
  <2> DEFINE h == g(k)
  <2>4. Shared(s, b, k, h) /\ Fills(s, b, t, k, h) /\ Spread(s, b, t, k, h)
    BY <2>2
  <2>. HIDE DEF g, h
  <2>5. Spread(s, b, t, k + 1, Joins(s, b, t, h, k + 1))
    BY <2>1, <2>4, SpreadGrows
  <2>. QED  BY <1>4, <2>1, <2>3, <2>4, <2>5 DEF h
<1>6. 0 \in T
  BY <1>2, <1>3
<1>. HIDE DEF T
<1>7. n \in T
  BY <1>1, <1>5, <1>6, InductiveSet
<1>. QED  BY <1>1, <1>2, <1>7 DEF T

-----------------------------------------------------------------------------
(* The candidates of a database, in the order of their rank. *)

LEMMA DifficultyIsInt ==
    ASSUME NEW c, \A key \in SCORE_KEYS : c.score[key] \subseteq Int
    PROVE  compute_difficulty(c) \in Int
<1> DEFINE K == SCORE_KEYS \ {"groundedness"}
           f == [key \in K |-> IF c.score[key] = None THEN 50 ELSE 100 - Clamp(The(c.score[key]), 100)]
<1>1. IsFiniteSet(K)
  <2> DEFINE name == <<"faithfulness", "completeness", "groundedness", "retrieval_relevance", "context_coverage">>
             I == 1..5
  <2>1. IsFiniteSet(I) /\ I = {1, 2, 3, 4, 5}
    <3>1. \A n \in Nat : IsFiniteSet(1..n)
      BY FS_Interval
    <3>2. IsFiniteSet(1..5)
      BY <3>1
    <3>. QED  BY <3>2
  <2>2. SCORE_KEYS = {name[i] : i \in I}
    BY <2>1 DEF SCORE_KEYS
  <2>. HIDE DEF name, I
  <2>3. IsFiniteSet(SCORE_KEYS)
    BY <2>1, <2>2, ImageIsFinite
  <2>. QED  BY <2>3, FS_Subset
<1>2. f \in [K -> Int]
  <2>1. ASSUME NEW key \in K, c.score[key] # None  PROVE 100 - Clamp(The(c.score[key]), 100) \in Int
    <3>1. The(c.score[key]) \in Int
      BY <2>1 DEF The, None
    <3> DEFINE x == The(c.score[key])
    <3>. HIDE DEF x
    <3>2. x \in Int
      BY <3>1 DEF x
    <3>3. 100 - Clamp(x, 100) \in Int
      BY <3>2 DEF Clamp
    <3>. QED  BY <3>3 DEF x
  <2>2. \A key \in K : f[key] \in Int
    BY <2>1
  <2>. QED  BY <2>2
<1>3. compute_difficulty(c) = SumFunction(f)
  BY DEF compute_difficulty
<1>. HIDE DEF K, f
<1>4. PICK g : SumsUp(g, f, K) /\ SumFunction(f) = g[K]
  BY <1>1, <1>2, SumExists
<1>. QED  BY <1>3, <1>4 DEF SumsUp

\* Runs that may go into the experiment.
CandidateList(c, n) ==
    /\ n \in Nat /\ DOMAIN c = 1..n
    /\ \A i \in 1..n : /\ c[i].run_id \in Int /\ c[i].sessions \in Int
                       /\ \A key \in SCORE_KEYS : c[i].score[key] \subseteq Int
    /\ \A i, j \in 1..n : c[i].run_id = c[j].run_id => i = j

LEMMA BucketIsKnown == ASSUME NEW failure  PROVE classify_bucket(failure) \in ToSet(ALL_BUCKETS)
<1>1. ToSet(ALL_BUCKETS) = {"retrieval_related", "generation_incomplete", "mixed_ambiguous", "easy_control"}
  <2>1. DOMAIN ALL_BUCKETS = {1, 2, 3, 4}
    BY DEF ALL_BUCKETS
  <2>. QED  BY <2>1 DEF ToSet, ALL_BUCKETS
<1>2. ASSUME failure \in FailureTypes
      PROVE  FAILURE_TO_BUCKET[failure] \in ToSet(ALL_BUCKETS)
  BY <1>1, <1>2 DEF FAILURE_TO_BUCKET, FailureTypes
<1>. QED  BY <1>1, <1>2 DEF classify_bucket

\* The scored candidates are a list from the best to the last, with no run twice.
LEMMA ScoredInOrder ==
    ASSUME NEW c, NEW n, CandidateList(c, n)
    PROVE  \E k : ScoredList(score_candidates(c), k)
<1> DEFINE sc == [i \in 1..n |-> Scored(c, i)]
           S == {sc[i] : i \in 1..n}
           better(a, b) == a.score > b.score \/ (a.score = b.score /\ a.c.run_id > b.c.run_id)
           B == {p \in S \X S : better(p[1], p[2])}
           N == Cardinality(S)
           at(k) == PlacedAt(B, S, k)
           s == score_candidates(c)
<1>1. /\ n \in Nat /\ DOMAIN c = 1..n
      /\ \A i \in 1..n : /\ c[i].run_id \in Int /\ c[i].sessions \in Int
                         /\ \A key \in SCORE_KEYS : c[i].score[key] \subseteq Int
      /\ \A i, j \in 1..n : c[i].run_id = c[j].run_id => i = j
  BY DEF CandidateList
<1>2. ASSUME NEW i \in 1..n
      PROVE  sc[i].c = c[i] /\ sc[i].bucket \in ToSet(ALL_BUCKETS) /\ sc[i].score \in Int
  <2> DEFINE seen == Cardinality({j \in 1..(i - 1) : c[j].text = c[i].text})
  <2>1. seen \in Int
    <3>1. IsFiniteSet(1..(i - 1))
      BY FS_Interval
    <3>2. IsFiniteSet({j \in 1..(i - 1) : c[j].text = c[i].text})
      BY <3>1, FS_Subset
    <3>. QED  BY <3>2, FS_CardinalityType
  <2>2. compute_difficulty(c[i]) \in Int
    BY <1>1, DifficultyIsInt
  <2> DEFINE d == compute_difficulty(c[i])
             bucket == classify_bucket(c[i].failure)
             base == IF bucket = "easy_control" THEN -1000 ELSE 800
  <2>3. base \in Int
    OBVIOUS
  <2>4. sc[i] = [c |-> c[i], bucket |-> bucket, score |-> base + d - 600 * seen - 200 * c[i].sessions]
    BY DEF Scored
  <2>5. bucket \in ToSet(ALL_BUCKETS)
    BY BucketIsKnown
  <2>. HIDE DEF seen, d, bucket, base, sc
  <2>6. base + d - 600 * seen - 200 * c[i].sessions \in Int
    BY <1>1, <2>1, <2>2, <2>3 DEF d
  <2>. QED  BY <2>4, <2>5, <2>6
<1>3. IsFiniteSet(S)
  <2>1. IsFiniteSet(1..n)
    BY <1>1, FS_Interval
  <2>. HIDE DEF sc
  <2>. QED  BY <2>1, ImageIsFinite
<1>4. \A a \in S : a.score \in Int /\ a.c.run_id \in Int /\ a.bucket \in ToSet(ALL_BUCKETS)
  <2>. HIDE DEF sc
  <2>. QED  BY <1>1, <1>2
<1>5. \A a, b \in S : a.c.run_id = b.c.run_id => a = b
  <2>1. ASSUME NEW i \in 1..n, NEW j \in 1..n, sc[i].c.run_id = sc[j].c.run_id
        PROVE  sc[i] = sc[j]
    <3>1. c[i].run_id = c[j].run_id
      BY <1>2, <2>1
    <3>2. i = j
      BY <1>1, <3>1
    <3>. QED  BY <3>2
  <2>. HIDE DEF sc
  <2>2. SUFFICES ASSUME NEW a \in S, NEW b \in S, a.c.run_id = b.c.run_id  PROVE a = b
    OBVIOUS
  <2>3. PICK i \in 1..n, j \in 1..n : a = sc[i] /\ b = sc[j]
    OBVIOUS
  <2>4. sc[i].c.run_id = sc[j].c.run_id
    BY <2>2, <2>3
  <2>5. sc[i] = sc[j]
    BY <2>1, <2>4
  <2>. QED  BY <2>3, <2>5
<1>6. s = [k \in 1..N |-> CHOOSE x \in S : Cardinality({y \in S : better(y, x)}) = k - 1]
  <2> DEFINE all == {Scored(c, i) : i \in DOMAIN c}
  <2>1. S = all
    BY <1>1
  <2>2. s = [k \in 1..Cardinality(all) |-> CHOOSE x \in all : Cardinality({y \in all : better(y, x)}) = k - 1]
    BY DEF score_candidates, Ordered
  <2>. HIDE DEF all, S
  <2>. QED  BY <2>1, <2>2
<1>. HIDE DEF sc, S
<1>7. \A a, b \in S : <<a, b>> \in B <=> better(a, b)
  OBVIOUS
<1>8. StrictOrder(B, S)
  <2>1. \A a \in S : ~better(a, a)
    BY <1>4
  <2>2. \A a, b, e \in S : better(a, b) /\ better(b, e) => better(a, e)
    BY <1>4
  <2>3. \A a, b \in S : a = b \/ better(a, b) \/ better(b, a)
    BY <1>4, <1>5
  <2>. HIDE DEF better, B
  <2>. QED  BY <1>7, <2>1, <2>2, <2>3 DEF StrictOrder
<1>9. InPlaces(B, S)
  <2>. HIDE DEF B
  <2>. QED  BY <1>3, <1>8, PlacesAreInOrder
<1>10. \A k \in 1..N : s[k] = at(k)
  <2>1. \A x \in S : Cardinality({y \in S : better(y, x)}) = Ahead(B, S, x)
    <3>1. ASSUME NEW x \in S  PROVE {y \in S : better(y, x)} = {y \in S : <<y, x>> \in B}
      <4>. HIDE DEF better, B
      <4>. QED  BY <1>7
    <3>. HIDE DEF better, B
    <3>. QED  BY <3>1 DEF Ahead
  <2>. HIDE DEF better, B
  <2>2. ASSUME NEW k \in 1..N
        PROVE  (CHOOSE x \in S : Cardinality({y \in S : better(y, x)}) = k - 1) = at(k)
    <3>1. \A x : (x \in S /\ Cardinality({y \in S : better(y, x)}) = k - 1) <=> (x \in S /\ Ahead(B, S, x) = k - 1)
      BY <2>1
    <3>. QED  BY <3>1 DEF PlacedAt
  <2>. QED  BY <1>6, <2>2
<1>11. DOMAIN s = 1..N
  BY <1>6
<1>12. /\ N \in Nat /\ \A k \in 1..N : s[k] \in S
       /\ \A i, j \in 1..N : i < j => <<s[i], s[j]>> \in B
  BY <1>9, <1>10 DEF InPlaces
<1>. HIDE DEF s, N, at
<1>13. \A i, j \in 1..N : i < j => better(s[i], s[j])
  BY <1>7, <1>12
<1>14. \A i, j \in 1..N : i < j => s[i].score >= s[j].score
  <2>1. \A i, j \in 1..N : better(s[i], s[j]) => s[i].score >= s[j].score
    BY <1>4, <1>12
  <2>. HIDE DEF better
  <2>. QED  BY <1>13, <2>1
<1>15. ASSUME NEW i \in 1..N, NEW j \in 1..N, s[i].c.run_id = s[j].c.run_id
       PROVE  i = j
  <2>1. s[i] = s[j]
    BY <1>5, <1>12, <1>15
  <2>2. ~better(s[i], s[j]) /\ ~better(s[j], s[i])
    BY <1>4, <1>12, <2>1
  <2>. HIDE DEF better
  <2>3. i \in Int /\ j \in Int /\ ~(i < j) /\ ~(j < i)
    BY <1>12, <1>13, <2>2
  <2>. QED  BY <2>3
<1>. QED
  <2>1. ScoredList(s, N)
    BY <1>4, <1>11, <1>12, <1>14, <1>15 DEF ScoredList
  <2>. QED  BY <2>1 DEF s

\* The candidates of a database: evaluated runs, each once.
LEMMA FetchedOnce ==
    ASSUME NEW runs, Database(runs), NEW sessions, IsFiniteSet(sessions), NEW dataset, NEW limit \in Nat
    PROVE  \E n : CandidateList(_fetch_candidates(runs, sessions, dataset, limit), n)
<1> DEFINE S == {r \in Evaluated(Status(runs, {"completed"})) : dataset \subseteq {r.dataset}}
           later(a, b) == a.id > b.id
           B == {p \in S \X S : later(p[1], p[2])}
           N == Cardinality(S)
           o == Ordered(S, LAMBDA a, b : a.id > b.id)
           m == IF Len(o) < limit THEN Len(o) ELSE limit
           newest == SubSeq(o, 1, m)
           c == _fetch_candidates(runs, sessions, dataset, limit)
           candidate(r) ==
               [run_id |-> r.id, case |-> r.case, text |-> r.text, score |-> Row(r).score,
                failure |-> IF Failure(r) = None THEN "NO_FAILURE" ELSE The(Failure(r)),
                sessions |-> Sessions(sessions, r.id, "manual") + Sessions(sessions, r.id, "assisted")]
<1>1. IsFiniteSet(S) /\ S \subseteq runs /\ \A r \in S : r.ev # None
  BY FS_Subset DEF Database, Evaluated, Status
<1>2. /\ \A r \in S : RunRow(r)
      /\ \A a, b \in S : a.id = b.id => a = b
  BY <1>1 DEF Database
<1>3. c = [i \in DOMAIN newest |-> candidate(newest[i])]
  BY DEF _fetch_candidates, FirstOf
<1>4. o = [k \in 1..N |-> CHOOSE x \in S : Cardinality({y \in S : later(y, x)}) = k - 1]
  BY DEF Ordered
<1>5. \A r \in S : r.id \in Int
  BY <1>2 DEF RunRow
<1>6. ASSUME NEW r \in S
      PROVE  \A key \in SCORE_KEYS : Row(r).score[key] \subseteq Int
  <2>1. Row(r) \in r.ev
    BY <1>1 DEF Row, The, None
  <2>2. \A key \in SCORE_KEYS : Row(r).score[key] \subseteq -100..100
    BY <1>2, <2>1 DEF RunRow
  <2>. QED  BY <2>2
<1>7. ASSUME NEW id
      PROVE  Sessions(sessions, id, "manual") + Sessions(sessions, id, "assisted") \in Int
  <2>1. ASSUME NEW mode  PROVE Sessions(sessions, id, mode) \in Int
    BY FS_Subset, FS_CardinalityType DEF Sessions
  <2>2. Sessions(sessions, id, "manual") \in Int /\ Sessions(sessions, id, "assisted") \in Int
    BY <2>1
  <2>. QED  BY <2>2
<1>. HIDE DEF S
<1>8. \A a, b \in S : <<a, b>> \in B <=> later(a, b)
  OBVIOUS
<1>9. InPlaces(B, S)
  <2>1. \A a \in S : ~later(a, a)
    BY <1>5
  <2>2. \A a, b, e \in S : later(a, b) /\ later(b, e) => later(a, e)
    BY <1>5
  <2>3. \A a, b \in S : a = b \/ later(a, b) \/ later(b, a)
    BY <1>2, <1>5
  <2>. HIDE DEF later, B
  <2>4. StrictOrder(B, S)
    BY <1>8, <2>1, <2>2, <2>3 DEF StrictOrder
  <2>. QED  BY <1>1, <2>4, PlacesAreInOrder
<1>10. \A k \in 1..N : o[k] = PlacedAt(B, S, k)
  <2>1. \A x \in S : Cardinality({y \in S : later(y, x)}) = Ahead(B, S, x)
    <3>1. ASSUME NEW x \in S  PROVE {y \in S : later(y, x)} = {y \in S : <<y, x>> \in B}
      <4>. HIDE DEF later, B
      <4>. QED  BY <1>8
    <3>. HIDE DEF later, B
    <3>. QED  BY <3>1 DEF Ahead
  <2>. HIDE DEF later, B
  <2>2. ASSUME NEW k \in 1..N
        PROVE  (CHOOSE x \in S : Cardinality({y \in S : later(y, x)}) = k - 1) = PlacedAt(B, S, k)
    <3>1. \A x : (x \in S /\ Cardinality({y \in S : later(y, x)}) = k - 1) <=> (x \in S /\ Ahead(B, S, x) = k - 1)
      BY <2>1
    <3>. QED  BY <3>1 DEF PlacedAt
  <2>. HIDE DEF o
  <2>. QED  BY <1>4, <2>2
<1>11. /\ N \in Nat /\ DOMAIN o = 1..N /\ \A k \in 1..N : o[k] \in S
       /\ \A i, j \in 1..N : i < j => <<o[i], o[j]>> \in B
  <2>1. DOMAIN o = 1..N
    BY <1>4
  <2>. QED  BY <1>9, <1>10, <2>1 DEF InPlaces
<1>12. o \in Seq(S) /\ Len(o) = N
  <2>1. o = [k \in 1..N |-> o[k]]
    BY <1>4
  <2>. HIDE DEF o, N
  <2>2. o \in [1..N -> S]
    BY <1>11, <2>1
  <2>. QED  BY <1>11, <2>2
<1>. HIDE DEF o, N
<1>13. m \in Nat /\ m <= N
  BY <1>11, <1>12
<1>. HIDE DEF m
<1>14. DOMAIN newest = 1..m /\ \A i \in 1..m : newest[i] = o[i] /\ newest[i] \in S
  <2>1. newest = [i \in 1..m |-> o[i]]
    BY <1>12, <1>13
  <2>. HIDE DEF newest
  <2>2. \A i \in 1..m : i \in 1..N
    BY <1>11, <1>13
  <2>. QED  BY <1>11, <2>1, <2>2
<1>. HIDE DEF newest
<1>15. \A i, j \in 1..m : newest[i].id = newest[j].id => i = j
  <2>1. SUFFICES ASSUME NEW i \in 1..m, NEW j \in 1..m, newest[i].id = newest[j].id, i # j  PROVE FALSE
    OBVIOUS
  <2>2. i \in 1..N /\ j \in 1..N /\ (i < j \/ j < i) /\ newest[i] = o[i] /\ newest[j] = o[j]
    BY <1>11, <1>13, <1>14, <2>1
  <2>3. later(o[i], o[j]) \/ later(o[j], o[i])
    <3>. HIDE DEF later, B
    <3>. QED  BY <1>8, <1>11, <2>2
  <2>4. o[i].id \in Int /\ o[j].id \in Int
    BY <1>5, <1>11, <2>2
  <2>. QED  BY <2>1, <2>2, <2>3, <2>4
<1>16. ASSUME NEW i \in 1..m
       PROVE  /\ c[i].run_id = newest[i].id /\ c[i].run_id \in Int /\ c[i].sessions \in Int
              /\ \A key \in SCORE_KEYS : c[i].score[key] \subseteq Int
  <2>1. c[i] = candidate(newest[i])
    <3>. HIDE DEF c, candidate
    <3>. QED  BY <1>3, <1>14
  <2>2. newest[i] \in S
    BY <1>14
  <2>. HIDE DEF c
  <2>3. /\ c[i].run_id = newest[i].id /\ c[i].score = Row(newest[i]).score
        /\ c[i].sessions = Sessions(sessions, newest[i].id, "manual") + Sessions(sessions, newest[i].id, "assisted")
    BY <2>1
  <2>. QED  BY <1>5, <1>6, <1>7, <2>2, <2>3
<1>17. CandidateList(c, m)
  <2>1. DOMAIN c = 1..m
    <3>. HIDE DEF candidate, c
    <3>. QED  BY <1>3, <1>14
  <2>. HIDE DEF c
  <2>. QED  BY <1>13, <1>15, <1>16, <2>1 DEF CandidateList
<1>. QED  BY <1>17

-----------------------------------------------------------------------------
(* The slots of the plan. *)

\* The slots of a plan: no run twice.
Apart(slots) == IsFiniteSet(RunIds(slots)) /\ Cardinality(RunIds(slots)) = Len(slots)

LEMMA SlotsJoin ==
    ASSUME NEW X, NEW u \in Seq(X), NEW v \in Seq(X)
    PROVE  /\ u \o v \in Seq(X) /\ Len(u \o v) = Len(u) + Len(v)
           /\ RunIds(u \o v) = RunIds(u) \cup RunIds(v)
           /\ Apart(u) /\ Apart(v) /\ RunIds(u) \cap RunIds(v) = {} => Apart(u \o v)
<1> DEFINE w == u \o v
           m == Len(u)
           n == Len(v)
<1>1. /\ w \in Seq(X) /\ m \in Nat /\ n \in Nat /\ Len(w) = m + n
      /\ DOMAIN u = 1..m /\ DOMAIN v = 1..n /\ DOMAIN w = 1..(m + n)
      /\ \A i \in 1..m : w[i] = u[i]
      /\ \A i \in 1..n : w[m + i] = v[i]
  OBVIOUS
<1>. HIDE DEF w, m, n
<1>2. /\ \A i : i \in 1..(m + n) => i \in 1..m \/ (i - m \in 1..n /\ i = m + (i - m))
      /\ \A i \in 1..m : i \in 1..(m + n)
      /\ \A i \in 1..n : m + i \in 1..(m + n)
  BY <1>1
<1>3. ASSUME NEW x  PROVE x \in RunIds(w) <=> x \in RunIds(u) \/ x \in RunIds(v)
  <2>1. ASSUME NEW i \in 1..(m + n), x = w[i].run_id  PROVE x \in RunIds(u) \/ x \in RunIds(v)
    <3>1. CASE i \in 1..m
      BY <1>1, <2>1, <3>1 DEF RunIds
    <3>2. CASE i - m \in 1..n /\ i = m + (i - m)
      BY <1>1, <2>1, <3>2 DEF RunIds
    <3>. QED  BY <1>2, <3>1, <3>2
  <2>2. ASSUME NEW i \in 1..m, x = u[i].run_id  PROVE x \in RunIds(w)
    BY <1>1, <1>2, <2>2 DEF RunIds
  <2>3. ASSUME NEW i \in 1..n, x = v[i].run_id  PROVE x \in RunIds(w)
    BY <1>1, <1>2, <2>3 DEF RunIds
  <2>. QED  BY <1>1, <2>1, <2>2, <2>3 DEF RunIds
<1>4. RunIds(w) = RunIds(u) \cup RunIds(v)
  BY <1>3
<1>5. ASSUME Apart(u), Apart(v), RunIds(u) \cap RunIds(v) = {}  PROVE Apart(w)
  <2> DEFINE P == RunIds(u)
             Q == RunIds(v)
  <2>1. IsFiniteSet(P) /\ IsFiniteSet(Q) /\ P \cap Q = {} /\ Cardinality(P) = m /\ Cardinality(Q) = n
    BY <1>5 DEF Apart, m, n
  <2>. HIDE DEF P, Q
  <2>2. IsFiniteSet(P \cup Q) /\ Cardinality(P \cup Q) = Cardinality(P) + Cardinality(Q) - Cardinality(P \cap Q)
    BY <2>1, FS_Union
  <2>3. Cardinality(P \cap Q) = 0
    BY <2>1, FS_EmptySet
  <2>. QED  BY <1>1, <1>4, <2>1, <2>2, <2>3 DEF Apart, P, Q
<1>. QED  BY <1>1, <1>4, <1>5 DEF w, m, n

LEMMA BucketsJoin ==
    ASSUME NEW X, NEW u \in Seq(X), NEW v \in Seq(X), NEW b
    PROVE  /\ OfBucket(u, b) \in Nat /\ OfBucket(v, b) \in Nat
           /\ OfBucket(u \o v, b) = OfBucket(u, b) + OfBucket(v, b)
<1> DEFINE w == u \o v
           m == Len(u)
           n == Len(v)
           shift == [i \in 1..n |-> m + i]
           A == {i \in 1..m : u[i].bucket = b}
           B == {i \in 1..n : v[i].bucket = b}
           C == {i \in 1..(m + n) : w[i].bucket = b}
           D == {shift[i] : i \in B}
<1>1. /\ m \in Nat /\ n \in Nat
      /\ DOMAIN u = 1..m /\ DOMAIN v = 1..n /\ DOMAIN w = 1..(m + n)
      /\ \A i \in 1..m : w[i] = u[i]
      /\ \A i \in 1..n : w[m + i] = v[i]
  OBVIOUS
<1>2. OfBucket(u, b) = Cardinality(A) /\ OfBucket(v, b) = Cardinality(B) /\ OfBucket(w, b) = Cardinality(C)
  BY <1>1 DEF OfBucket
<1>. HIDE DEF w, m, n
<1>3. /\ \A i : i \in 1..(m + n) => i \in 1..m \/ (i - m \in 1..n /\ i = m + (i - m))
      /\ \A i \in 1..m : i \in 1..(m + n)
      /\ \A i \in 1..n : m + i \in 1..(m + n) /\ m + i \notin 1..m
  BY <1>1
<1>4. ASSUME NEW i  PROVE i \in C <=> i \in A \/ i \in D
  <2>1. ASSUME i \in C  PROVE i \in A \/ i \in D
    <3>1. CASE i \in 1..m
      BY <1>1, <2>1, <3>1
    <3>2. CASE i - m \in 1..n /\ i = m + (i - m)
      <4> DEFINE j == i - m
      <4>1. j \in 1..n /\ i = m + j
        BY <3>2
      <4>. HIDE DEF j
      <4>2. i = shift[j] /\ v[j].bucket = b
        BY <1>1, <2>1, <4>1
      <4>. QED  BY <4>1, <4>2
    <3>. QED  BY <1>3, <2>1, <3>1, <3>2
  <2>2. ASSUME i \in A  PROVE i \in C
    BY <1>1, <1>3, <2>2
  <2>3. ASSUME i \in D  PROVE i \in C
    <3>1. PICK j \in B : i = shift[j]
      BY <2>3
    <3>2. j \in 1..n /\ i = m + j /\ v[j].bucket = b
      BY <3>1
    <3>. QED  BY <1>1, <1>3, <3>2
  <2>. QED  BY <2>1, <2>2, <2>3
<1>5. IsFiniteSet(A) /\ IsFiniteSet(B)
  <2>1. IsFiniteSet(1..m) /\ IsFiniteSet(1..n)
    BY <1>1, FS_Interval
  <2>. QED  BY <2>1, FS_Subset
<1>6. \A i, j \in B : shift[i] = shift[j] => i = j
  BY <1>1
<1>7. A \cap D = {}
  BY <1>3
<1>. HIDE DEF A, B, C, D, shift
<1>8. C = A \cup D
  BY <1>4
<1>9. IsFiniteSet(D) /\ Cardinality(D) = Cardinality(B)
  BY <1>5, <1>6, ImageIsFinite DEF D
<1>10. Cardinality(A \cup D) = Cardinality(A) + Cardinality(D) - Cardinality(A \cap D)
  BY <1>5, <1>9, FS_Union
<1>11. Cardinality(A) \in Nat /\ Cardinality(B) \in Nat /\ Cardinality(A \cap D) = 0
  BY <1>5, <1>7, FS_CardinalityType, FS_EmptySet
<1>. QED  BY <1>2, <1>8, <1>9, <1>10, <1>11 DEF w

\* Slots of one bucket only.
LEMMA OneBucket ==
    ASSUME NEW X, NEW u \in Seq(X), NEW b, \A i \in DOMAIN u : u[i].bucket = b, NEW other
    PROVE  OfBucket(u, other) = IF other = b THEN Len(u) ELSE 0
<1>1. DOMAIN u = 1..Len(u) /\ Len(u) \in Nat
  OBVIOUS
<1> DEFINE n == Len(u)
           I == {i \in DOMAIN u : u[i].bucket = other}
<1>2. I = IF other = b THEN 1..n ELSE {}
  BY <1>1
<1>. HIDE DEF I, n
<1>3. n \in Nat
  BY <1>1 DEF n
<1>4. Cardinality(1..n) = n
  <2>1. /\ 1 \in Int /\ n \in Int
        /\ IF 1 > n THEN n = 0 ELSE n - 1 + 1 = n
    BY <1>3
  <2>2. Cardinality(1..n) = IF 1 > n THEN 0 ELSE n - 1 + 1
    BY <2>1, FS_Interval
  <2>. QED  BY <2>1, <2>2
<1>5. Cardinality(I) = IF other = b THEN n ELSE 0
  BY <1>2, <1>4, FS_EmptySet
<1>. QED  BY <1>5 DEF OfBucket, I, n

LEMMA FlattenFour ==
    ASSUME NEW q, DOMAIN q = 1..4, Len(q) = 4
    PROVE  FlattenSeq(q) = ((q[1] \o q[2]) \o q[3]) \o q[4]
<1> DEFINE Good(f) == f = [i \in 1..4 |-> IF i = 1 THEN q[i] ELSE f[i - 1] \o q[i]]
           two == q[1] \o q[2]
           three == two \o q[3]
           four == three \o q[4]
           g == [i \in 1..4 |-> IF i = 1 THEN q[1] ELSE IF i = 2 THEN two ELSE IF i = 3 THEN three ELSE four]
           f == CHOOSE h : Good(h)
<1>1. FlattenSeq(q) = f[4]
  BY DEF FlattenSeq
<1>2. Good(g)
  <2>1. g[1] = q[1] /\ g[2] = two /\ g[3] = three /\ g[4] = four
    OBVIOUS
  <2>2. \A i \in 1..4 : i = 1 \/ i = 2 \/ i = 3 \/ i = 4
    OBVIOUS
  <2>3. ASSUME NEW i \in 1..4  PROVE g[i] = IF i = 1 THEN q[i] ELSE g[i - 1] \o q[i]
    <3>1. CASE i = 1
      BY <2>1, <3>1
    <3>2. CASE i = 2
      BY <2>1, <3>2
    <3>3. CASE i = 3
      BY <2>1, <3>3
    <3>4. CASE i = 4
      BY <2>1, <3>4
    <3>. QED  BY <2>2, <3>1, <3>2, <3>3, <3>4
  <2>. QED  BY <2>3
<1>3. Good(f)
  <2>. HIDE DEF Good, g
  <2>. QED  BY <1>2
<1>. HIDE DEF f, g
<1>4. \A i \in 1..4 : f[i] = IF i = 1 THEN q[i] ELSE f[i - 1] \o q[i]
  BY <1>3
<1>5. f[1] = q[1] /\ f[2] = f[1] \o q[2] /\ f[3] = f[2] \o q[3] /\ f[4] = f[3] \o q[4]
  <2>1. f[1] = q[1]
    BY <1>4
  <2>2. ASSUME NEW i \in 1..4, NEW j \in 1..4, i = j + 1  PROVE f[i] = f[j] \o q[i]
    <3>1. i # 1 /\ i - 1 = j
      BY <2>2
    <3>. QED  BY <1>4, <3>1
  <2>3. 1 \in 1..4 /\ 2 \in 1..4 /\ 3 \in 1..4 /\ 4 \in 1..4 /\ 2 = 1 + 1 /\ 3 = 2 + 1 /\ 4 = 3 + 1
    OBVIOUS
  <2>4. f[2] = f[1] \o q[2]
    BY ONLY <2>2, <2>3
  <2>5. f[3] = f[2] \o q[3]
    BY ONLY <2>2, <2>3
  <2>6. f[4] = f[3] \o q[4]
    BY ONLY <2>2, <2>3
  <2>. QED  BY <2>1, <2>4, <2>5, <2>6
<1>. QED  BY <1>1, <1>5

\* Slots for runs of one bucket.
SlotsFor(u, X, b, J) ==
    u \in Seq(X) /\ Apart(u) /\ RunIds(u) \subseteq J /\ \A i \in DOMAIN u : u[i].bucket = b

\* The slots of the four buckets, one after the other.
BucketBySlots(f, q, X) ==
    /\ f \in Seq(X) /\ Apart(f)
    /\ \A x : x \in RunIds(f) <=> \E i \in 1..4 : x \in RunIds(q[i])
    /\ \A i \in 1..4 : OfBucket(f, ALL_BUCKETS[i]) = Len(q[i])

LEMMA FourBuckets ==
    /\ DOMAIN ALL_BUCKETS = 1..4
    /\ \A i, j \in 1..4 : ALL_BUCKETS[i] = ALL_BUCKETS[j] => i = j
    /\ \A i \in 1..4 : ALL_BUCKETS[i] \in ToSet(ALL_BUCKETS)
    /\ \A b \in ToSet(ALL_BUCKETS) : \E i \in 1..4 : b = ALL_BUCKETS[i]
<1>1. DOMAIN ALL_BUCKETS = 1..4 /\ 1..4 = {1, 2, 3, 4}
  BY DEF ALL_BUCKETS
<1>2. \A i, j \in 1..4 : ALL_BUCKETS[i] = ALL_BUCKETS[j] => i = j
  BY <1>1 DEF ALL_BUCKETS
<1>. QED  BY <1>1, <1>2 DEF ToSet

LEMMA FourSlots ==
    ASSUME NEW X, NEW q, DOMAIN q = 1..4, Len(q) = 4, NEW J,
           \A i \in 1..4 : SlotsFor(q[i], X, ALL_BUCKETS[i], J[i]),
           \A i, j \in 1..4 : i # j => J[i] \cap J[j] = {}
    PROVE  BucketBySlots(FlattenSeq(q), q, X)
<1> DEFINE a == q[1]
           b == q[2]
           c == q[3]
           d == q[4]
           two == a \o b
           three == two \o c
           four == three \o d
           size(n) == IF n = 1 THEN Len(a) ELSE IF n = 2 THEN Len(b) ELSE IF n = 3 THEN Len(c) ELSE Len(d)
<1>1. FlattenSeq(q) = four
  BY FlattenFour
<1>2. \A i : i \in 1..4 <=> i = 1 \/ i = 2 \/ i = 3 \/ i = 4
  OBVIOUS
<1>3. /\ SlotsFor(a, X, ALL_BUCKETS[1], J[1]) /\ SlotsFor(b, X, ALL_BUCKETS[2], J[2])
      /\ SlotsFor(c, X, ALL_BUCKETS[3], J[3]) /\ SlotsFor(d, X, ALL_BUCKETS[4], J[4])
  BY <1>2
<1>4. /\ J[1] \cap J[2] = {} /\ J[1] \cap J[3] = {} /\ J[1] \cap J[4] = {}
      /\ J[2] \cap J[3] = {} /\ J[2] \cap J[4] = {} /\ J[3] \cap J[4] = {}
  BY <1>2
<1>. HIDE DEF a, b, c, d
<1>5. /\ a \in Seq(X) /\ b \in Seq(X) /\ c \in Seq(X) /\ d \in Seq(X)
      /\ Apart(a) /\ Apart(b) /\ Apart(c) /\ Apart(d)
      /\ RunIds(a) \subseteq J[1] /\ RunIds(b) \subseteq J[2] /\ RunIds(c) \subseteq J[3] /\ RunIds(d) \subseteq J[4]
  BY <1>3 DEF SlotsFor
<1>6. two \in Seq(X) /\ RunIds(two) = RunIds(a) \cup RunIds(b) /\ Apart(two)
  <2>1. RunIds(a) \cap RunIds(b) = {}
    BY <1>4, <1>5
  <2>. QED  BY <1>5, <2>1, SlotsJoin
<1>. HIDE DEF two
<1>7. three \in Seq(X) /\ RunIds(three) = RunIds(two) \cup RunIds(c) /\ Apart(three)
  <2>1. RunIds(two) \cap RunIds(c) = {}
    BY <1>4, <1>5, <1>6
  <2>. QED  BY <1>5, <1>6, <2>1, SlotsJoin
<1>. HIDE DEF three
<1>8. four \in Seq(X) /\ RunIds(four) = RunIds(three) \cup RunIds(d) /\ Apart(four)
  <2>1. RunIds(three) \cap RunIds(d) = {}
    BY <1>4, <1>5, <1>6, <1>7
  <2>. QED  BY <1>5, <1>7, <2>1, SlotsJoin
<1>9. ASSUME NEW e
      PROVE  OfBucket(four, e) = OfBucket(a, e) + OfBucket(b, e) + OfBucket(c, e) + OfBucket(d, e)
  <2>1. OfBucket(two, e) = OfBucket(a, e) + OfBucket(b, e)
    BY <1>5, BucketsJoin DEF two
  <2>2. OfBucket(three, e) = OfBucket(two, e) + OfBucket(c, e)
    BY <1>5, <1>6, BucketsJoin DEF three
  <2>3. OfBucket(four, e) = OfBucket(three, e) + OfBucket(d, e)
    BY <1>5, <1>7, BucketsJoin
  <2>. HIDE DEF four
  <2>. QED  BY <2>1, <2>2, <2>3
<1>. HIDE DEF four
<1>10. \A e : /\ OfBucket(a, e) = IF e = ALL_BUCKETS[1] THEN Len(a) ELSE 0
              /\ OfBucket(b, e) = IF e = ALL_BUCKETS[2] THEN Len(b) ELSE 0
              /\ OfBucket(c, e) = IF e = ALL_BUCKETS[3] THEN Len(c) ELSE 0
              /\ OfBucket(d, e) = IF e = ALL_BUCKETS[4] THEN Len(d) ELSE 0
  <2>1. ASSUME NEW e, NEW u, NEW o, NEW Y, SlotsFor(u, X, o, Y)  PROVE OfBucket(u, e) = IF e = o THEN Len(u) ELSE 0
    <3>1. u \in Seq(X) /\ \A i \in DOMAIN u : u[i].bucket = o
      BY <2>1 DEF SlotsFor
    <3>. QED  BY <3>1, OneBucket
  <2>2. ASSUME NEW e
        PROVE  /\ OfBucket(a, e) = IF e = ALL_BUCKETS[1] THEN Len(a) ELSE 0
               /\ OfBucket(b, e) = IF e = ALL_BUCKETS[2] THEN Len(b) ELSE 0
               /\ OfBucket(c, e) = IF e = ALL_BUCKETS[3] THEN Len(c) ELSE 0
               /\ OfBucket(d, e) = IF e = ALL_BUCKETS[4] THEN Len(d) ELSE 0
    <3>1. OfBucket(a, e) = IF e = ALL_BUCKETS[1] THEN Len(a) ELSE 0
      BY <1>3, <2>1
    <3>2. OfBucket(b, e) = IF e = ALL_BUCKETS[2] THEN Len(b) ELSE 0
      BY <1>3, <2>1
    <3>3. OfBucket(c, e) = IF e = ALL_BUCKETS[3] THEN Len(c) ELSE 0
      BY <1>3, <2>1
    <3>4. OfBucket(d, e) = IF e = ALL_BUCKETS[4] THEN Len(d) ELSE 0
      BY <1>3, <2>1
    <3>. QED  BY <3>1, <3>2, <3>3, <3>4
  <2>. QED  BY <2>2
<1>11. Len(a) \in Nat /\ Len(b) \in Nat /\ Len(c) \in Nat /\ Len(d) \in Nat
  BY <1>5
<1>12. \A i \in 1..4 : OfBucket(four, ALL_BUCKETS[i]) = size(i)
  <2>1. /\ 1 \in 1..4 /\ 2 \in 1..4 /\ 3 \in 1..4 /\ 4 \in 1..4
        /\ ALL_BUCKETS[1] # ALL_BUCKETS[2] /\ ALL_BUCKETS[1] # ALL_BUCKETS[3] /\ ALL_BUCKETS[1] # ALL_BUCKETS[4]
        /\ ALL_BUCKETS[2] # ALL_BUCKETS[3] /\ ALL_BUCKETS[2] # ALL_BUCKETS[4] /\ ALL_BUCKETS[3] # ALL_BUCKETS[4]
    <3>1. \A i, j \in 1..4 : ALL_BUCKETS[i] = ALL_BUCKETS[j] => i = j
      BY FourBuckets
    <3>2. 1 \in 1..4 /\ 2 \in 1..4 /\ 3 \in 1..4 /\ 4 \in 1..4
      OBVIOUS
    <3>3. ALL_BUCKETS[1] # ALL_BUCKETS[2] /\ ALL_BUCKETS[1] # ALL_BUCKETS[3] /\ ALL_BUCKETS[1] # ALL_BUCKETS[4]
      BY <3>1, <3>2
    <3>4. ALL_BUCKETS[2] # ALL_BUCKETS[3] /\ ALL_BUCKETS[2] # ALL_BUCKETS[4] /\ ALL_BUCKETS[3] # ALL_BUCKETS[4]
      BY <3>1, <3>2
    <3>. QED  BY <3>2, <3>3, <3>4
  <2>2. OfBucket(four, ALL_BUCKETS[1]) = Len(a)
    <3>1. /\ OfBucket(a, ALL_BUCKETS[1]) = Len(a) /\ OfBucket(b, ALL_BUCKETS[1]) = 0
          /\ OfBucket(c, ALL_BUCKETS[1]) = 0 /\ OfBucket(d, ALL_BUCKETS[1]) = 0
      BY <1>10, <2>1
    <3>. QED  BY <1>9, <1>11, <3>1
  <2>3. OfBucket(four, ALL_BUCKETS[2]) = Len(b)
    <3>1. /\ OfBucket(a, ALL_BUCKETS[2]) = 0 /\ OfBucket(b, ALL_BUCKETS[2]) = Len(b)
          /\ OfBucket(c, ALL_BUCKETS[2]) = 0 /\ OfBucket(d, ALL_BUCKETS[2]) = 0
      BY <1>10, <2>1
    <3>. QED  BY <1>9, <1>11, <3>1
  <2>4. OfBucket(four, ALL_BUCKETS[3]) = Len(c)
    <3>1. /\ OfBucket(a, ALL_BUCKETS[3]) = 0 /\ OfBucket(b, ALL_BUCKETS[3]) = 0
          /\ OfBucket(c, ALL_BUCKETS[3]) = Len(c) /\ OfBucket(d, ALL_BUCKETS[3]) = 0
      BY <1>10, <2>1
    <3>. QED  BY <1>9, <1>11, <3>1
  <2>5. OfBucket(four, ALL_BUCKETS[4]) = Len(d)
    <3>1. /\ OfBucket(a, ALL_BUCKETS[4]) = 0 /\ OfBucket(b, ALL_BUCKETS[4]) = 0
          /\ OfBucket(c, ALL_BUCKETS[4]) = 0 /\ OfBucket(d, ALL_BUCKETS[4]) = Len(d)
      BY <1>10, <2>1
    <3>. QED  BY <1>9, <1>11, <3>1
  <2>. QED  BY <1>2, <2>2, <2>3, <2>4, <2>5
<1>13. \A i \in 1..4 : size(i) = Len(q[i])
  BY <1>2 DEF a, b, c, d
<1>14. \A x : x \in RunIds(four) <=> \E i \in 1..4 : x \in RunIds(q[i])
  BY <1>2, <1>6, <1>7, <1>8 DEF a, b, c, d
<1>. QED  BY <1>1, <1>8, <1>12, <1>13, <1>14 DEF BucketBySlots

\* A group as slots.
IsMade(u, group, X, b) ==
    u \in Seq(X) /\ Len(u) = Len(group) /\ RunIds(u) = RunsIn(group) /\ SlotsFor(u, X, b, RunIds(u))

LEMMA MadeSlots ==
    ASSUME NEW R, NEW b, NEW group \in Seq(R), Once(group), NEW mode, NEW X,
           \A sc \in R : sc.bucket = b /\ _make_slot(sc, mode) \in X
    PROVE  IsMade([k \in DOMAIN group |-> _make_slot(group[k], mode)], group, X, b)
<1> DEFINE n == Len(group)
           u == [k \in DOMAIN group |-> _make_slot(group[k], mode)]
<1>1. n \in Nat /\ DOMAIN group = 1..n /\ \A k \in 1..n : group[k] \in R
  OBVIOUS
<1>2. ASSUME NEW sc  PROVE _make_slot(sc, mode).bucket = sc.bucket /\ _make_slot(sc, mode).run_id = sc.c.run_id
  BY DEF _make_slot
<1>3. DOMAIN u = 1..n /\ \A k \in 1..n : u[k] = _make_slot(group[k], mode)
  BY <1>1
<1>4. u \in Seq(X) /\ Len(u) = n
  <2>1. u \in [1..n -> X]
    BY <1>1
  <2>. HIDE DEF u, n
  <2>. QED  BY <1>1, <2>1
<1>. HIDE DEF u, n
<1>5. \A k \in 1..n : u[k].bucket = b /\ u[k].run_id = group[k].c.run_id
  <2>1. ASSUME NEW k \in 1..n  PROVE u[k].bucket = b /\ u[k].run_id = group[k].c.run_id
    <3>1. u[k] = _make_slot(group[k], mode) /\ group[k] \in R
      BY <1>1, <1>3
    <3>. QED  BY <1>2, <3>1
  <2>. QED  BY <2>1
<1>6. RunIds(u) = RunsIn(group)
  BY <1>1, <1>3, <1>5 DEF RunIds, RunsIn
<1>7. Apart(u)
  BY <1>4, <1>6 DEF Apart, Once, n
<1>. QED  BY <1>3, <1>4, <1>5, <1>6, <1>7 DEF IsMade, SlotsFor, u, n

-----------------------------------------------------------------------------
(* The plan. *)

\* The slots of a group of each bucket.
Slots(s, tg, mode) ==
    [i \in DOMAIN ALL_BUCKETS |->
        LET g == [b \in ToSet(ALL_BUCKETS) |-> GroupsOf(s, b, tg[b])][ALL_BUCKETS[i]][mode]
        IN  [k \in DOMAIN g |-> _make_slot(g[k], mode)]]

GroupAt(s, tg, i) == GroupsOf(s, ALL_BUCKETS[i], tg[ALL_BUCKETS[i]])
Targets == [ToSet(ALL_BUCKETS) -> Nat]

LEMMA GroupsFillAll ==
    ASSUME NEW s, NEW n, ScoredList(s, n), NEW tg \in Targets, NEW i \in 1..4
    PROVE  /\ Shared(s, ALL_BUCKETS[i], n, GroupAt(s, tg, i))
           /\ Fills(s, ALL_BUCKETS[i], tg[ALL_BUCKETS[i]], n, GroupAt(s, tg, i))
           /\ Spread(s, ALL_BUCKETS[i], tg[ALL_BUCKETS[i]], n, GroupAt(s, tg, i))
<1>1. ALL_BUCKETS[i] \in ToSet(ALL_BUCKETS)
  BY FourBuckets
<1>2. tg[ALL_BUCKETS[i]] \in Nat
  BY <1>1 DEF Targets
<1>. QED  BY <1>2, GroupsFill DEF GroupAt

\* Candidates of two buckets are two runs.
LEMMA BucketsAreApart ==
    ASSUME NEW s, NEW n, ScoredList(s, n), NEW i \in 1..4, NEW j \in 1..4, NEW p \in Upto(s, ALL_BUCKETS[i], n),
           s[p].c.run_id \in IdsUpto(s, ALL_BUCKETS[j], n)
    PROVE  i = j
<1>1. PICK r \in Upto(s, ALL_BUCKETS[j], n) : s[p].c.run_id = s[r].c.run_id
  BY DEF IdsUpto
<1>2. p \in 1..n /\ r \in 1..n /\ s[p].bucket = ALL_BUCKETS[i] /\ s[r].bucket = ALL_BUCKETS[j]
  BY DEF Upto
<1>3. p = r
  BY <1>1, <1>2 DEF ScoredList
<1>. QED  BY <1>2, <1>3, FourBuckets

SlotSet(s, n) == {_make_slot(s[p], "manual") : p \in 1..n} \cup {_make_slot(s[p], "assisted") : p \in 1..n}

LEMMA SlotsOfMode ==
    ASSUME NEW s, NEW n, ScoredList(s, n), NEW tg \in Targets, NEW mode \in {"manual", "assisted"}
    PROVE  /\ BucketBySlots(FlattenSeq(Slots(s, tg, mode)), Slots(s, tg, mode), SlotSet(s, n))
           /\ \A i \in 1..4 : /\ RunIds(Slots(s, tg, mode)[i]) = RunsIn(GroupAt(s, tg, i)[mode])
                              /\ Len(Slots(s, tg, mode)[i]) = Len(GroupAt(s, tg, i)[mode])
<1> DEFINE q == Slots(s, tg, mode)
           X == SlotSet(s, n)
           J == [i \in 1..4 |-> IdsUpto(s, ALL_BUCKETS[i], n)]
           group(i) == GroupAt(s, tg, i)[mode]
<1>1. DOMAIN q = 1..4 /\ \A i \in 1..4 : q[i] = [k \in DOMAIN group(i) |-> _make_slot(group(i)[k], mode)]
  BY FourBuckets DEF Slots, GroupAt
<1>2. ASSUME NEW i \in 1..4
      PROVE  /\ q[i] \in Seq(X) /\ Len(q[i]) = Len(group(i)) /\ RunIds(q[i]) = RunsIn(group(i))
             /\ SlotsFor(q[i], X, ALL_BUCKETS[i], J[i])
  <2> DEFINE b == ALL_BUCKETS[i]
             R == {s[p] : p \in Upto(s, b, n)}
             g == GroupAt(s, tg, i)
             u == [k \in DOMAIN group(i) |-> _make_slot(group(i)[k], mode)]
  <2>1. Shared(s, b, n, g)
    BY GroupsFillAll
  <2>2. g \in [manual : Seq(R), assisted : Seq(R)] /\ Once(g.manual) /\ Once(g.assisted)
    BY <2>1 DEF Shared, GroupsOver
  <2>3. group(i) \in Seq(R) /\ Once(group(i))
    <3>. HIDE DEF R, g
    <3>1. CASE mode = "manual"
      BY <2>2, <3>1 DEF g
    <3>2. CASE mode = "assisted"
      BY <2>2, <3>2 DEF g
    <3>. QED  BY <3>1, <3>2
  <2>4. \A sc \in R : sc.bucket = b /\ _make_slot(sc, mode) \in X
    BY DEF Upto, SlotSet
  <2>5. u \in Seq(X) /\ Len(u) = Len(group(i)) /\ RunIds(u) = RunsIn(group(i)) /\ SlotsFor(u, X, b, RunIds(u))
    <3> DEFINE h == group(i)
    <3>1. h \in Seq(R) /\ Once(h) /\ u = [k \in DOMAIN h |-> _make_slot(h[k], mode)]
      BY <2>3
    <3>. HIDE DEF R, X, b, group, h, u
    <3>2. IsMade(u, h, X, b)
      BY <2>4, <3>1, MadeSlots
    <3>. QED  BY <3>2 DEF h, IsMade
  <2>6. q[i] = u
    BY <1>1
  <2>7. RunIds(q[i]) \subseteq J[i]
    <3>1. RunsIn(group(i)) \subseteq InGroups(g)
      BY DEF InGroups
    <3>2. InGroups(g) \subseteq IdsUpto(s, b, n)
      BY <2>1, SharedIsDealt
    <3>. HIDE DEF u, group, q, g
    <3>. QED  BY <2>5, <2>6, <3>1, <3>2
  <2>. HIDE DEF u, group, q, X, J
  <2>. QED  BY <2>5, <2>6, <2>7 DEF SlotsFor
<1>3. \A i, j \in 1..4 : i # j => J[i] \cap J[j] = {}
  <2>1. ASSUME NEW i \in 1..4, NEW j \in 1..4, NEW x \in IdsUpto(s, ALL_BUCKETS[i], n),
               x \in IdsUpto(s, ALL_BUCKETS[j], n)
        PROVE  i = j
    <3>1. PICK p \in Upto(s, ALL_BUCKETS[i], n) : x = s[p].c.run_id
      BY DEF IdsUpto
    <3>. QED  BY <2>1, <3>1, BucketsAreApart
  <2>. QED  BY <2>1
<1>4. Len(q) = 4
  <2>. HIDE DEF q, X
  <2>1. q \in [1..4 -> Seq(X)]
    <3>1. q = [i \in 1..4 |-> q[i]]
      BY DEF q, Slots, FourBuckets, ALL_BUCKETS
    <3>. QED  BY <1>2, <3>1
  <2>2. q \in Seq(Seq(X))
    <3>1. 4 \in Nat
      OBVIOUS
    <3>. QED  BY <2>1, <3>1, FunctionIsSeq
  <2>. QED  BY <1>1, <2>2
<1>. HIDE DEF q, X, J, group
<1>5. BucketBySlots(FlattenSeq(q), q, X)
  BY <1>1, <1>2, <1>3, <1>4, FourSlots
<1>. QED  BY <1>2, <1>5 DEF q, X, group

\* A set of more than one element has two.
LEMMA TwoOfMany ==
    ASSUME NEW S, IsFiniteSet(S), Cardinality(S) > 1
    PROVE  \E p, r \in S : p # r
<1>1. SUFFICES ASSUME \A p, r \in S : p = r  PROVE FALSE
  OBVIOUS
<1>2. S = {} \/ \E p : S = {p}
  BY <1>1
<1>3. Cardinality(S) = 0 \/ Cardinality(S) = 1
  BY <1>2, FS_EmptySet, FS_Singleton
<1>. QED  BY <1>3

\* A plan fills its groups and shares repeated cases among them.
LEMMA PlanFills ==
    ASSUME NEW s, NEW n, ScoredList(s, n), NEW tg \in Targets
    PROVE  LET plan == build_experiment_plan(s, tg)
           IN  /\ Apart(plan_to_export_rows(plan))
               /\ \A b \in ToSet(ALL_BUCKETS) : /\ FillsBucket(plan, s, b, tg[b])
                                                 /\ SharesRepeats(plan, s, b, tg[b])
<1> DEFINE plan == build_experiment_plan(s, tg)
           M == plan.manual_slots
           A == plan.assisted_slots
           rows == plan_to_export_rows(plan)
           chosen == RunIds(rows)
           X == SlotSet(s, n)
           g(i) == GroupAt(s, tg, i)
<1>1. /\ M = FlattenSeq(Slots(s, tg, "manual")) /\ A = FlattenSeq(Slots(s, tg, "assisted"))
      /\ plan.short = {b \in ToSet(ALL_BUCKETS) : Cardinality(Pool(s, b)) < 2 * tg[b]}
  BY DEF build_experiment_plan, Slots
<1>2. rows = M \o A
  BY DEF plan_to_export_rows
<1>. HIDE DEF plan, rows
<1>3. /\ M \in Seq(X) /\ A \in Seq(X) /\ Apart(M) /\ Apart(A)
      /\ \A x : x \in RunIds(M) <=> \E i \in 1..4 : x \in RunsIn(g(i).manual)
      /\ \A x : x \in RunIds(A) <=> \E i \in 1..4 : x \in RunsIn(g(i).assisted)
      /\ \A i \in 1..4 : OfBucket(M, ALL_BUCKETS[i]) = Len(g(i).manual)
      /\ \A i \in 1..4 : OfBucket(A, ALL_BUCKETS[i]) = Len(g(i).assisted)
  <2>1. /\ M \in Seq(X) /\ Apart(M)
        /\ \A x : x \in RunIds(M) <=> \E i \in 1..4 : x \in RunsIn(g(i).manual)
        /\ \A i \in 1..4 : OfBucket(M, ALL_BUCKETS[i]) = Len(g(i).manual)
    BY <1>1, SlotsOfMode DEF BucketBySlots
  <2>2. /\ A \in Seq(X) /\ Apart(A)
        /\ \A x : x \in RunIds(A) <=> \E i \in 1..4 : x \in RunsIn(g(i).assisted)
        /\ \A i \in 1..4 : OfBucket(A, ALL_BUCKETS[i]) = Len(g(i).assisted)
    BY <1>1, SlotsOfMode DEF BucketBySlots
  <2>. QED  BY <2>1, <2>2
<1>4. \A i \in 1..4 : /\ Shared(s, ALL_BUCKETS[i], n, g(i))
                      /\ Fills(s, ALL_BUCKETS[i], tg[ALL_BUCKETS[i]], n, g(i))
                      /\ InGroups(g(i)) \subseteq IdsUpto(s, ALL_BUCKETS[i], n)
                      /\ RunsIn(g(i).manual) \cap RunsIn(g(i).assisted) = {}
                      /\ Spread(s, ALL_BUCKETS[i], tg[ALL_BUCKETS[i]], n, g(i))
  <2>1. ASSUME NEW i \in 1..4
        PROVE  /\ Shared(s, ALL_BUCKETS[i], n, g(i)) /\ Fills(s, ALL_BUCKETS[i], tg[ALL_BUCKETS[i]], n, g(i))
               /\ Spread(s, ALL_BUCKETS[i], tg[ALL_BUCKETS[i]], n, g(i))
    BY GroupsFillAll
  <2>2. ASSUME NEW i \in 1..4
        PROVE  /\ InGroups(g(i)) \subseteq IdsUpto(s, ALL_BUCKETS[i], n)
               /\ RunsIn(g(i).manual) \cap RunsIn(g(i).assisted) = {}
    BY <2>1, SharedIsDealt DEF Shared
  <2>. QED  BY <2>1, <2>2
<1>. HIDE DEF g
<1>5. ASSUME NEW i \in 1..4, NEW j \in 1..4, NEW x \in InGroups(g(i)), x \in InGroups(g(j))
      PROVE  i = j
  <2>1. x \in IdsUpto(s, ALL_BUCKETS[i], n) /\ x \in IdsUpto(s, ALL_BUCKETS[j], n)
    BY <1>4, <1>5
  <2>2. PICK p \in Upto(s, ALL_BUCKETS[i], n) : x = s[p].c.run_id
    BY <2>1 DEF IdsUpto
  <2>. QED  BY <2>1, <2>2, BucketsAreApart
<1>6. RunIds(M) \cap RunIds(A) = {}
  <2>1. SUFFICES ASSUME NEW x \in RunIds(M), x \in RunIds(A)  PROVE FALSE
    OBVIOUS
  <2>2. PICK i \in 1..4 : x \in RunsIn(g(i).manual)
    BY <1>3, <2>1
  <2>3. PICK j \in 1..4 : x \in RunsIn(g(j).assisted)
    BY <1>3, <2>1
  <2>4. i = j
    BY <1>5, <2>2, <2>3 DEF InGroups
  <2>. QED  BY <1>4, <2>2, <2>3, <2>4
<1>7. Apart(rows) /\ chosen = RunIds(M) \cup RunIds(A)
  BY <1>2, <1>3, <1>6, SlotsJoin
<1>8. \A x : x \in chosen <=> \E i \in 1..4 : x \in InGroups(g(i))
  BY <1>3, <1>7 DEF InGroups
<1>9. ASSUME NEW i \in 1..4
      PROVE  /\ FillsBucket(plan, s, ALL_BUCKETS[i], tg[ALL_BUCKETS[i]])
             /\ SharesRepeats(plan, s, ALL_BUCKETS[i], tg[ALL_BUCKETS[i]])
  <2> DEFINE b == ALL_BUCKETS[i]
             t == tg[b]
             pool == Pool(s, b)
             c == Cardinality(pool)
             m == OfBucket(M, b)
             a == OfBucket(A, b)
  <2>1. pool = Upto(s, b, n) /\ pool \in SUBSET (1..n) /\ n \in Nat
    BY DEF Pool, Upto, ScoredList
  <2>2. b \in ToSet(ALL_BUCKETS) /\ t \in Nat
    BY FourBuckets DEF Targets
  <2>3. c \in Nat
    <3>1. IsFiniteSet(1..n)
      BY <2>1, FS_Interval
    <3>. HIDE DEF pool
    <3>. QED  BY <2>1, <3>1, FS_Subset, FS_CardinalityType
  <2>4. m = Len(g(i).manual) /\ a = Len(g(i).assisted)
    BY <1>3
  <2>5. /\ m <= t /\ a <= t /\ m + a = (IF c < 2 * t THEN c ELSE 2 * t)
        /\ \A p, r \in pool : p < r /\ s[r].c.run_id \in InGroups(g(i)) => s[p].c.run_id \in InGroups(g(i))
        /\ OtherCases(s, b, n) => m - a \in {0, 1}
    <3>1. Fills(s, b, t, n, g(i))
      BY <1>4
    <3>. HIDE DEF b, t, pool, m, a
    <3>. QED  BY <2>1, <2>4, <3>1 DEF Fills
  <2>6. b \in plan.short <=> c < 2 * t
    BY <1>1, <2>2
  <2>7. _print_buckets(s)[b].enough <=> c >= 2 * GROUP_TARGETS[b]
    BY <2>2 DEF _print_buckets
  <2>8. ASSUME NEW p \in pool  PROVE s[p].c.run_id \in chosen <=> s[p].c.run_id \in InGroups(g(i))
    <3>1. ASSUME NEW j \in 1..4, s[p].c.run_id \in InGroups(g(j))  PROVE j = i
      <4>1. s[p].c.run_id \in IdsUpto(s, ALL_BUCKETS[j], n)
        BY <1>4, <3>1
      <4>. QED  BY <2>1, <4>1, BucketsAreApart
    <3>. HIDE DEF pool, chosen
    <3>. QED  BY <1>8, <3>1
  <2>9. ASSUME NEW p \in pool, NEW r \in pool, s[p].c.run_id \in chosen, s[r].c.run_id \notin chosen
        PROVE  s[p].score >= s[r].score
    <3>1. s[p].c.run_id \in InGroups(g(i)) /\ s[r].c.run_id \notin InGroups(g(i))
      BY <2>8, <2>9
    <3>2. ~(r < p) /\ p # r
      BY <2>5, <3>1
    <3>3. p \in 1..n /\ r \in 1..n /\ n \in Nat
      BY <2>1
    <3>4. p < r
      BY <3>2, <3>3
    <3>. QED  BY <3>3, <3>4 DEF ScoredList
  <2>10. OtherCases(s, b, n) <=> \A p, r \in pool : s[p].c.case = s[r].c.case => p = r
    BY <2>1 DEF OtherCases
  <2>11. m \in Int /\ a \in Int /\ 2 * t \in Int
    <3>1. Len(g(i).manual) \in Nat /\ Len(g(i).assisted) \in Nat
      BY <1>4, SharedIsDealt
    <3>. QED  BY <2>2, <2>4, <3>1
  <2>11a. ASSUME NEW q, Cardinality(Repeats(rows, s, b, q)) > 1
         PROVE  \A mode \in {"manual", "assisted"} :
                    (\E p \in pool : s[p].c.run_id \in RunsIn(g(i)[mode]) /\ s[p].c.case = q)
                        \/ Len(g(i)[mode]) = t
    <3> DEFINE S == Repeats(rows, s, b, q)
    <3>1. S = {p \in pool : s[p].c.run_id \in chosen /\ s[p].c.case = q}
      BY DEF Repeats
    <3>2. IsFiniteSet(S)
      <4>1. IsFiniteSet(1..n) /\ S \subseteq 1..n
        BY <2>1, <3>1, FS_Interval
      <4>. HIDE DEF S
      <4>. QED  BY <4>1, FS_Subset
    <3>. HIDE DEF S
    <3>3. PICK p \in S, r \in S : p # r
      BY <2>11a, <3>2, TwoOfMany DEF S
    <3>4. /\ p \in pool /\ r \in pool /\ s[p].c.case = q /\ s[r].c.case = q
          /\ s[p].c.run_id \in InGroups(g(i)) /\ s[r].c.run_id \in InGroups(g(i))
      BY <2>8, <3>1, <3>3
    <3> DEFINE G == g(i)
    <3>5. Shared(s, b, n, G) /\ Spread(s, b, t, n, G)
      BY <1>4
    <3>. HIDE DEF b, t, pool, G, chosen
    <3>6. ASSUME NEW mode \in {"manual", "assisted"}
          PROVE  (\E o \in pool : s[o].c.run_id \in RunsIn(G[mode]) /\ s[o].c.case = q) \/ Len(G[mode]) = t
      <4>1. q \in Cases(G, mode) \/ Len(G[mode]) = t
        BY <2>1, <3>3, <3>4, <3>5 DEF Spread, G
      <4>2. n \in Nat /\ n <= n
        BY <2>1
      <4>3. q \in Cases(G, mode) =>
                \E o \in Upto(s, b, n) : s[o].c.run_id \in RunsIn(G[mode]) /\ s[o].c.case = q
        BY <3>5, <4>2, HeldCases
      <4>. QED  BY <2>1, <4>1, <4>3
    <3>. QED  BY <3>6 DEF G, t, pool, b
  <2>11b. SharesRepeats(plan, s, b, t)
    <3>1. ASSUME NEW q, Cardinality(Repeats(rows, s, b, q)) > 1
          PROVE  /\ Repeats(M, s, b, q) # {} \/ m = t
                 /\ Repeats(A, s, b, q) # {} \/ a = t
      <4>1. /\ \A x \in RunsIn(g(i).manual) : x \in RunIds(M)
            /\ \A x \in RunsIn(g(i).assisted) : x \in RunIds(A)
        BY <1>3
      <4>2. /\ \A p \in pool : s[p].c.run_id \in RunIds(M) /\ s[p].c.case = q => p \in Repeats(M, s, b, q)
            /\ \A p \in pool : s[p].c.run_id \in RunIds(A) /\ s[p].c.case = q => p \in Repeats(A, s, b, q)
        BY DEF Repeats
      <4>. HIDE DEF pool, M, A, b, t, m, a
      <4>3. /\ (\E p \in pool : s[p].c.run_id \in RunsIn(g(i).manual) /\ s[p].c.case = q) \/ m = t
            /\ (\E p \in pool : s[p].c.run_id \in RunsIn(g(i).assisted) /\ s[p].c.case = q) \/ a = t
        BY <2>4, <2>11a, <3>1
      <4>. QED  BY <4>1, <4>2, <4>3
    <3>. QED  BY <3>1 DEF SharesRepeats, rows
  <2>. HIDE DEF b, t, pool, c, m, a
  <2>12. c < 2 * t <=> m + a < 2 * t
    BY <2>3, <2>5, <2>11
  <2>13. t = GROUP_TARGETS[b] => (_print_buckets(s)[b].enough <=> b \notin plan.short)
    BY <2>2, <2>3, <2>6, <2>7
  <2>. HIDE DEF chosen, M, A
  <2>14. FillsBucket(plan, s, b, t)
    BY <2>5, <2>6, <2>9, <2>10, <2>12, <2>13 DEF FillsBucket, c, m, a, pool, chosen, M, A, rows
  <2>. QED  BY <2>14, <2>11b DEF b, t
<1>10. ASSUME NEW b \in ToSet(ALL_BUCKETS)
       PROVE  FillsBucket(plan, s, b, tg[b]) /\ SharesRepeats(plan, s, b, tg[b])
  <2>1. PICK i \in 1..4 : b = ALL_BUCKETS[i]
    BY FourBuckets
  <2>. QED  BY <1>9, <2>1
<1>. QED  BY <1>7, <1>10 DEF plan, rows

(* A plan fills both groups of every bucket as far as candidates go, with the best and with *)
(* no run twice, warns exactly when a bucket is not full, gives groups of different queries  *)
(* as many runs or one more to the manual one, and puts a case that it chooses twice in a    *)
(* bucket into both groups, but for one that is full                                         *)
(* (diagnosis_experiment_design.py:148-214, :243-360).                                       *)
THEOREM Planning == Spec => []PlanFillsTheGroups
<1>1. ASSUME Given, input.call = "plan"
      PROVE  PlanFillsTheGroups
  <2>1. PICK p \in Plans : /\ input.runs = p.runs /\ input.sessions = p.sessions
                           /\ input.targets = p.targets /\ input.limit = p.limit
    BY <1>1 DEF Given, PlanInput
  <2>2. Database(p.runs) /\ IsFiniteSet(p.sessions) /\ p.limit \in Nat /\ p.targets \in Targets
    BY PlansAssumption DEF Targets
  <2> DEFINE c == _fetch_candidates(p.runs, p.sessions, None, p.limit)
             s == score_candidates(c)
             plan == build_experiment_plan(s, p.targets)
             rows == plan_to_export_rows(plan)
  <2>3. PICK k : CandidateList(c, k)
    BY <2>2, FetchedOnce
  <2>4. PICK n : ScoredList(s, n)
    <3>. HIDE DEF c
    <3>. QED  BY <2>3, ScoredInOrder
  <2>5. Candidates = s
    BY <2>1 DEF Candidates
  <2>. HIDE DEF c, s
  <2>6. /\ Apart(rows)
        /\ \A b \in ToSet(ALL_BUCKETS) : /\ FillsBucket(plan, s, b, p.targets[b])
                                          /\ SharesRepeats(plan, s, b, p.targets[b])
    BY <2>2, <2>4, PlanFills
  <2>. QED  BY <2>1, <2>5, <2>6 DEF PlanFillsTheGroups, Apart
<1>2. Given => PlanFillsTheGroups
  BY <1>1 DEF PlanFillsTheGroups
<1>. QED  BY <1>2, GivenInvariant, PTL

-----------------------------------------------------------------------------
(* The evidence of a reduction. *)

TwoArms == {"llm_only", "hybrid"}
Measuring(runs) == {r \in Organic(runs) : r.ev # None /\ r.gen /\ r.used # None /\ r.workload # None}
Tagged(runs) == {r \in Measuring(runs) : r.arm \in TwoArms}

ArmIn(R, w, a) == {r \in R : r.workload = {w} /\ r.arm = a}
UsedBy(S) == SumFunction([r \in S |-> The(r.used)])
KeptIn(R) ==
    {w \in UNION {r.workload : r \in R} :
        ArmIn(R, w, "llm_only") # {} /\ ArmIn(R, w, "hybrid") # {} /\ UsedBy(ArmIn(R, w, "llm_only")) > 0}
RunsOfArm(R, a) == SumFunction([w \in KeptIn(R) |-> Cardinality(ArmIn(R, w, a))])
ReductionIn(R, w) ==
    LET lo == UsedBy(ArmIn(R, w, "llm_only")) * Cardinality(ArmIn(R, w, "hybrid"))
        hy == UsedBy(ArmIn(R, w, "hybrid")) * Cardinality(ArmIn(R, w, "llm_only"))
    IN  <<lo - hy, lo>>
EvidenceIn(R) ==
    [workloads |-> [w \in KeptIn(R) |-> [llm_only |-> Cardinality(ArmIn(R, w, "llm_only")),
                                         hybrid |-> Cardinality(ArmIn(R, w, "hybrid")),
                                         reduction |-> ReductionIn(R, w)]],
     tier |-> _llm_reduction_tier(IF RunsOfArm(R, "llm_only") < RunsOfArm(R, "hybrid")
                                  THEN RunsOfArm(R, "llm_only") ELSE RunsOfArm(R, "hybrid"))]

LEMMA EvidenceOf == ASSUME NEW runs  PROVE build_llm_reduction_evidence(runs, None) = EvidenceIn(Tagged(runs))
<1> DEFINE R == {r \in dashboard_aggregate_run_scope(runs, None) :
                    r.ev # None /\ r.gen /\ r.used # None /\ r.workload # None /\ r.arm \in {"llm_only", "hybrid"}}
<1>1. R = Tagged(runs)
  BY DEF dashboard_aggregate_run_scope, Tagged, Measuring, TwoArms, None
<1>2. build_llm_reduction_evidence(runs, None) = EvidenceIn(R)
  BY DEF build_llm_reduction_evidence, EvidenceIn, KeptIn, ArmIn, UsedBy, RunsOfArm, ReductionIn, Matched
<1>. QED  BY <1>1, <1>2

\* Runs that used the judge at most once: how many calls they made.
LEMMA CallsAreRuns ==
    ASSUME NEW S, IsFiniteSet(S), \A r \in S : r.used \in {{0}, {1}}
    PROVE  /\ UsedBy(S) \in Nat /\ Cardinality(S) \in Nat /\ UsedBy(S) <= Cardinality(S)
           /\ UsedBy(S) = 0 <=> \A r \in S : r.used = {0}
           /\ UsedBy(S) = Cardinality(S) <=> \A r \in S : r.used = {1}
           /\ Cardinality(S) = 0 <=> S = {}
<1> DEFINE f == [r \in S |-> The(r.used)]
           one == {r \in S : f[r] = 1}
<1>1. \A r \in S : /\ f[r] \in {0, 1} /\ (f[r] = 0 <=> r.used = {0}) /\ (f[r] = 1 <=> r.used = {1})
  BY DEF The
<1>2. f \in [S -> {0, 1}]
  BY <1>1
<1>3. UsedBy(S) = Cardinality(one)
  BY <1>2, SumOfOnes DEF UsedBy
<1>4. /\ one \in SUBSET S /\ (one = {} <=> \A r \in S : r.used = {0}) /\ (one = S <=> \A r \in S : r.used = {1})
  <2>. HIDE DEF f
  <2>1. \A r \in S : r \in one <=> r.used = {1}
    BY <1>1
  <2>2. \A r \in S : r.used = {1} <=> r.used # {0}
    <3>1. {0} # {1}
      OBVIOUS
    <3>. QED  BY <3>1
  <2>3. one \in SUBSET S
    OBVIOUS
  <2>. HIDE DEF one
  <2>. QED  BY <2>1, <2>2, <2>3
<1>. HIDE DEF f, one
<1>5. /\ IsFiniteSet(one) /\ Cardinality(one) \in Nat /\ Cardinality(S) \in Nat
      /\ Cardinality(one) <= Cardinality(S) /\ (Cardinality(one) = Cardinality(S) => one = S)
  BY <1>4, FS_Subset, FS_CardinalityType
<1>6. (Cardinality(one) = 0 <=> one = {}) /\ (Cardinality(S) = 0 <=> S = {})
  BY <1>5, FS_EmptySet
<1>. QED  BY <1>3, <1>4, <1>5, <1>6

LEMMA Fraction ==
    ASSUME NEW c \in Nat, NEW d \in Nat, NEW m \in Nat, NEW n \in Nat, c <= m, d <= n, c > 0, n > 0
    PROVE  /\ c * n - d * m <= c * n
           /\ c * n - d * m = c * n <=> d = 0
           /\ c = m => (c * n - d * m = 0 <=> d = n)
<1>1. c * n \in Nat /\ d * m \in Nat /\ m > 0
  OBVIOUS
<1>2. d # 0 => d * m > 0
  BY <1>1
<1>3. ASSUME c = m  PROVE c * n - d * m = 0 <=> d = n
  <2>1. c * n - d * m = m * (n - d)
    BY <1>3
  <2>2. n - d # 0 => m * (n - d) # 0
    BY <1>1
  <2>. QED  BY <1>1, <2>1, <2>2
<1>. QED  BY <1>1, <1>2, <1>3

LEMMA ReductionOfArms ==
    ASSUME NEW R, IsFiniteSet(R), \A r \in R : r.used \in {{0}, {1}}, NEW w \in KeptIn(R)
    PROVE  LET f == ReductionIn(R, w)  only == ArmIn(R, w, "llm_only")  hybrid == ArmIn(R, w, "hybrid")
           IN  /\ only # {} /\ hybrid # {} /\ f[1] <= f[2]
               /\ f[1] = f[2] <=> \A r \in hybrid : r.used = {0}
               /\ (\A r \in only : r.used = {1}) => (f[1] = 0 <=> \A r \in hybrid : r.used = {1})
<1> DEFINE only == ArmIn(R, w, "llm_only")
           hybrid == ArmIn(R, w, "hybrid")
           c == UsedBy(only)
           d == UsedBy(hybrid)
           m == Cardinality(only)
           n == Cardinality(hybrid)
<1>1. /\ only # {} /\ hybrid # {} /\ c > 0
      /\ ReductionIn(R, w) = <<c * n - d * m, c * n>>
  BY DEF KeptIn, ReductionIn
<1>2. /\ IsFiniteSet(only) /\ IsFiniteSet(hybrid)
      /\ \A r \in only : r.used \in {{0}, {1}}
      /\ \A r \in hybrid : r.used \in {{0}, {1}}
  BY FS_Subset DEF ArmIn
<1>3. /\ c \in Nat /\ m \in Nat /\ c <= m
      /\ c = m <=> \A r \in only : r.used = {1}
  <2>. HIDE DEF only
  <2>. QED  BY <1>2, CallsAreRuns
<1>4. /\ d \in Nat /\ n \in Nat /\ d <= n /\ n # 0
      /\ d = 0 <=> \A r \in hybrid : r.used = {0}
      /\ d = n <=> \A r \in hybrid : r.used = {1}
  <2>. HIDE DEF hybrid
  <2>. QED  BY <1>1, <1>2, CallsAreRuns
<1>. HIDE DEF only, hybrid, c, d, m, n
<1>5. /\ c * n - d * m <= c * n
      /\ c * n - d * m = c * n <=> d = 0
      /\ c = m => (c * n - d * m = 0 <=> d = n)
  <2>1. n > 0
    BY <1>4
  <2>. QED  BY <1>1, <1>3, <1>4, <2>1, Fraction
<1> DEFINE f == ReductionIn(R, w)
<1>6. f[1] = c * n - d * m /\ f[2] = c * n
  BY <1>1
<1>. HIDE DEF f
<1>7. /\ only # {} /\ hybrid # {} /\ f[1] <= f[2]
      /\ f[1] = f[2] <=> \A r \in hybrid : r.used = {0}
      /\ (\A r \in only : r.used = {1}) => (f[1] = 0 <=> \A r \in hybrid : r.used = {1})
  BY <1>1, <1>3, <1>4, <1>5, <1>6
<1>. QED  BY <1>7 DEF only, hybrid, f

LEMMA TierOfArms ==
    ASSUME NEW R, IsFiniteSet(R), \A r \in R : IsFiniteSet(r.workload), NEW a \in TwoArms
    PROVE  LET n == Cardinality({r \in R : r.arm = a})
           IN  /\ n \in Nat
               /\ n < 3 => EvidenceIn(R).tier = "sparse"
               /\ n < 10 => EvidenceIn(R).tier # "normal"
<1> DEFINE n == Cardinality({r \in R : r.arm = a})
           K == KeptIn(R)
           W == {r.workload : r \in R}
           S == {r \in R : r.arm = a}
<1>1. IsFiniteSet(K)
  <2> DEFINE f == [r \in R |-> r.workload]
  <2>1. IsFiniteSet({f[r] : r \in R})
    <3>. HIDE DEF f
    <3>. QED  BY ImageIsFinite
  <2>2. W = {f[r] : r \in R}
    OBVIOUS
  <2>3. IsFiniteSet(UNION W)
    <3>1. IsFiniteSet(W) /\ \A x \in W : IsFiniteSet(x)
      BY <2>1, <2>2
    <3>. HIDE DEF W
    <3>. QED  BY <3>1, FS_UNION
  <2>4. K \subseteq UNION W
    BY DEF KeptIn
  <2>. HIDE DEF K, W
  <2>. QED  BY <2>3, <2>4, FS_Subset
<1>2. ASSUME NEW b \in TwoArms
      PROVE  /\ RunsOfArm(R, b) \in Nat /\ Cardinality({r \in R : r.arm = b}) \in Nat
             /\ RunsOfArm(R, b) <= Cardinality({r \in R : r.arm = b})
  <2> DEFINE P == [w \in K |-> ArmIn(R, w, b)]
             T == {r \in R : r.arm = b}
             U == UNION {P[w] : w \in K}
  <2>1. IsFiniteSet(T)
    BY FS_Subset
  <2>2. (\A w \in K : P[w] \in SUBSET T) /\ \A v, w \in K : v # w => P[v] \cap P[w] = {}
    <3>1. \A w \in K : P[w] \in SUBSET T
      BY DEF ArmIn
    <3>2. ASSUME NEW v \in K, NEW w \in K, v # w  PROVE P[v] \cap P[w] = {}
      <4>1. {v} # {w}
        BY <3>2
      <4>2. P[v] = ArmIn(R, v, b) /\ P[w] = ArmIn(R, w, b)
        OBVIOUS
      <4>. HIDE DEF P
      <4>. QED  BY <4>1, <4>2 DEF ArmIn
    <3>. QED  BY <3>1, <3>2
  <2>3. [w \in K |-> Cardinality(P[w])] = [w \in K |-> Cardinality(ArmIn(R, w, b))]
    OBVIOUS
  <2>4. U \in SUBSET T
    BY <2>2
  <2>. HIDE DEF P, K, T
  <2>5. Parts(P, K, T)
    BY <1>1, <2>1, <2>2 DEF Parts
  <2>6. SumFunction([w \in K |-> Cardinality(P[w])]) = Cardinality(U)
    BY <2>5, SumOfParts
  <2>7. RunsOfArm(R, b) = Cardinality(U)
    BY <2>3, <2>6 DEF RunsOfArm, K
  <2>. HIDE DEF U
  <2>8. Cardinality(U) \in Nat /\ Cardinality(T) \in Nat /\ Cardinality(U) <= Cardinality(T)
    BY <2>1, <2>4, FS_Subset, FS_CardinalityType
  <2>. QED  BY <2>7, <2>8 DEF T
<1> DEFINE lo == RunsOfArm(R, "llm_only")
           hy == RunsOfArm(R, "hybrid")
           least == IF lo < hy THEN lo ELSE hy
<1>3. lo \in Nat /\ hy \in Nat /\ n \in Nat
  BY <1>2 DEF TwoArms
<1>4. (a = "llm_only" /\ lo <= n) \/ (a = "hybrid" /\ hy <= n)
  BY <1>2 DEF TwoArms
<1>5. EvidenceIn(R).tier = _llm_reduction_tier(least)
  BY DEF EvidenceIn
<1>. HIDE DEF lo, hy, n
<1>6. least \in Nat /\ least <= n
  BY <1>3, <1>4
<1>. HIDE DEF least
<1>7. /\ n < 3 => _llm_reduction_tier(least) = "sparse"
      /\ n < 10 => _llm_reduction_tier(least) # "normal"
  BY <1>3, <1>6 DEF _llm_reduction_tier
<1>8. /\ n \in Nat
      /\ n < 3 => EvidenceIn(R).tier = "sparse"
      /\ n < 10 => EvidenceIn(R).tier # "normal"
  BY <1>3, <1>5, <1>7
<1>. QED  BY <1>8 DEF n

(* ReductionIsHonest (Algorithms): a claim of fewer judge calls rests on both arms of a       *)
(* workload, on nothing disturbed, untagged or incomplete, and its tier counts no run twice,  *)
(* for every database of matched workloads (dashboard_evidence.py:123-219).                    *)
THEOREM Reducing == Spec => []ReductionIsHonest
<1>1. ASSUME Given, input.call = "reduction"
      PROVE  ReductionIsHonest
  <2> DEFINE runs == input.runs
  <2>1. runs \in Workloads
    BY <1>1 DEF Given, ReductionInput
  <2>2. IsFiniteSet(runs) /\ \A r \in runs : r.used \in {None, {0}, {1}} /\ \A v, w \in r.workload : v = w
    BY <2>1, WorkloadsAssumption DEF Database
  <2> DEFINE measured == {r \in Organic(runs) : r.ev # None /\ r.gen /\ r.used # None /\ r.workload # None}
             R == Tagged(runs)
             e == EvidenceIn(R)
             arm(w, a) == {r \in measured : r.workload = {w} /\ r.arm = a}
  <2>3. measured \in SUBSET runs /\ R \in SUBSET measured
    BY DEF Tagged, Measuring, Organic
  <2>4. IsFiniteSet(R)
    BY <2>2, <2>3, FS_Subset
  <2>5. (\A r \in R : r.used \in {{0}, {1}}) /\ \A r \in R : IsFiniteSet(r.workload)
    <3>1. ASSUME NEW r \in R  PROVE r.used \in {{0}, {1}} /\ IsFiniteSet(r.workload)
      <4>1. r \in runs /\ r.used # None
        BY <2>3 DEF Tagged, Measuring
      <4>2. \A v, w \in r.workload : v = w
        BY <2>2, <4>1
      <4>3. r.workload = {} \/ \E v : r.workload = {v}
        BY <4>2
      <4>4. IsFiniteSet(r.workload)
        BY <4>3, FS_EmptySet, FS_Singleton
      <4>. QED  BY <2>2, <4>1, <4>4
    <3>. QED  BY <3>1
  <2>6. build_llm_reduction_evidence(runs, None) = e
    BY EvidenceOf
  <2>7. build_llm_reduction_evidence(measured, None) = e
    <3>1. Tagged(measured) = R
      BY DEF Tagged, Measuring, Organic
    <3>. HIDE DEF measured, R
    <3>. QED  BY <3>1, EvidenceOf
  <2>8. ASSUME NEW w, NEW a \in TwoArms  PROVE arm(w, a) = ArmIn(R, w, a)
    BY DEF ArmIn, Tagged, Measuring
  <2>9. ASSUME NEW w \in DOMAIN e.workloads
        PROVE  LET f == e.workloads[w].reduction  only == arm(w, "llm_only")  hybrid == arm(w, "hybrid")
               IN  /\ only # {} /\ hybrid # {} /\ f[1] <= f[2]
                   /\ f[1] = f[2] <=> \A r \in hybrid : r.used = {0}
                   /\ (\A r \in only : r.used = {1}) => (f[1] = 0 <=> \A r \in hybrid : r.used = {1})
    <3>1. w \in KeptIn(R) /\ e.workloads[w].reduction = ReductionIn(R, w)
      BY DEF EvidenceIn
    <3>2. arm(w, "llm_only") = ArmIn(R, w, "llm_only") /\ arm(w, "hybrid") = ArmIn(R, w, "hybrid")
      BY <2>8 DEF TwoArms
    <3>. HIDE DEF arm, e, R
    <3>. QED  BY <2>4, <2>5, <3>1, <3>2, ReductionOfArms
  <2>10. ASSUME NEW a \in {"llm_only", "hybrid"}
         PROVE  LET n == Cardinality({r \in measured : r.arm = a})
                IN  /\ n < 3 => e.tier = "sparse"
                    /\ n < 10 => e.tier # "normal"
    <3>1. {r \in measured : r.arm = a} = {r \in R : r.arm = a} /\ a \in TwoArms
      BY DEF Tagged, Measuring, TwoArms
    <3>. HIDE DEF measured, R
    <3>. QED  BY <2>4, <2>5, <3>1, TierOfArms
  <2>11. \A o \in {build_llm_reduction_evidence(runs, None)} : o = e /\ o = build_llm_reduction_evidence(measured, None)
    <3>. HIDE DEF e, measured
    <3>. QED  BY <2>6, <2>7
  <2> DEFINE Claim(o, w) ==
                 LET f == o.workloads[w].reduction  only == arm(w, "llm_only")  hybrid == arm(w, "hybrid")
                 IN  /\ only # {} /\ hybrid # {} /\ f[1] <= f[2]
                     /\ f[1] = f[2] <=> \A r \in hybrid : r.used = {0}
                     /\ (\A r \in only : r.used = {1}) => (f[1] = 0 <=> \A r \in hybrid : r.used = {1})
             Tier(o, a) == LET n == Cardinality({r \in measured : r.arm = a})
                           IN  /\ n < 3 => o.tier = "sparse"
                               /\ n < 10 => o.tier # "normal"
  <2>12. /\ \A w \in DOMAIN e.workloads : Claim(e, w)
         /\ \A a \in {"llm_only", "hybrid"} : Tier(e, a)
    BY <2>9, <2>10
  <2>13. \A o \in {build_llm_reduction_evidence(runs, None)} :
            /\ o = build_llm_reduction_evidence(measured, None)
            /\ \A w \in DOMAIN o.workloads : Claim(o, w)
            /\ \A a \in {"llm_only", "hybrid"} : Tier(o, a)
    <3>. HIDE DEF Claim, Tier, e, measured
    <3>. QED  BY <2>11, <2>12
  <2>. HIDE DEF e
  <2>. QED  BY <2>13 DEF ReductionIsHonest
<1>2. Given => ReductionIsHonest
  BY <1>1 DEF Given, ReductionIsHonest
<1>. QED  BY <1>2, GivenInvariant, PTL

-----------------------------------------------------------------------------
(* Timing sessions. *)

\* A session as it is created, and as it is once patched.
Blank(id, mode, next) == [id |-> id, run |-> next.run, mode |-> mode, synthetic |-> FALSE,
                          start |-> next.start, insight |-> None, end |-> None]
Ended(id, mode, next) == [id |-> id, run |-> next.run, mode |-> mode, synthetic |-> FALSE,
                          start |-> next.start, insight |-> None, end |-> {next.end}]
Holds(runs, mode, next, T, id) ==
    patch_diagnosis_session(create_diagnosis_session(runs, T, id, next.run, mode, next.start, FALSE), id, None, {next.end})

HeldUpto(runs, S, from, n, mode, next) ==
    LET seq == [k \in 1..n |-> from + k - 1]
        iter[s \in SUBSET DOMAIN seq] ==
            IF s = {} THEN S ELSE Holds(runs, mode, next, iter[s \ {Max(s)}], seq[Max(s)])
    IN  iter

EndedFrom(from, n, mode, next) == {Ended(from + k - 1, mode, next) : k \in 1..n}

\* A session that is held is one session more.
LEMMA HoldsOne ==
    ASSUME NEW runs, NEW mode \in Modes, NEW next, \E r \in runs : r.id = next.run, NEW T, NEW id, NEW end, end = next.end,
           \A s \in T : s.id = id => s = Ended(id, mode, next)
    PROVE  Holds(runs, mode, next, T, id) = T \cup {Ended(id, mode, next)}
<1> DEFINE new == Ended(id, mode, next)
           blank == Blank(id, mode, next)
           patched(s) == IF s.id # id THEN s ELSE [s EXCEPT !.insight = @, !.end = {next.end}]
<1>1. create_diagnosis_session(runs, T, id, next.run, mode, next.start, FALSE) = T \cup {blank}
  BY DEF create_diagnosis_session, Modes, Blank
<1>2. Holds(runs, mode, next, T, id) = {patched(s) : s \in T \cup {blank}}
  <2>1. Holds(runs, mode, next, T, id) = patch_diagnosis_session(T \cup {blank}, id, None, {next.end})
    BY <1>1 DEF Holds
  <2>2. {next.end} # None
    BY DEF None
  <2>. QED  BY <2>1, <2>2 DEF patch_diagnosis_session
<1>3. patched(blank) = new
  BY DEF Blank, Ended
<1>4. patched(new) = new
  BY DEF Ended
<1>5. ASSUME NEW s \in T  PROVE patched(s) = s
  <2>1. CASE s.id # id
    BY <2>1
  <2>2. CASE s.id = id
    BY <1>4, <2>2
  <2>. QED  BY <2>1, <2>2
<1>. HIDE DEF patched, new, blank
<1>6. {patched(s) : s \in T \cup {blank}} = T \cup {new}
  BY <1>3, <1>5
<1>. QED  BY <1>2, <1>6 DEF new

LEMMA HoldAdds ==
    ASSUME NEW runs, NEW mode \in Modes, NEW next, \E r \in runs : r.id = next.run, NEW S,
           NEW from \in Nat, NEW n \in Nat, \A s \in S : s.id \in 0..(from - 1)
    PROVE  Hold(runs, S, from, n, mode, next) = S \cup EndedFrom(from, n, mode, next)
<1> DEFINE new(k) == Ended(from + k - 1, mode, next)
           U == S \cup {new(k) : k \in 1..n}
           X == SUBSET U
           Add(T, k) == Holds(runs, mode, next, T, from + k - 1)
           step == [k \in 1..n |-> [T \in X |-> Add(T, k)]]
           Good(f) == f = [s \in SUBSET (1..n) |-> IF s = {} THEN S ELSE Add(f[s \ {Max(s)}], Max(s))]
           f == HeldUpto(runs, S, from, n, mode, next)
           seq == [k \in 1..n |-> from + k - 1]
<1>0. DOMAIN seq = 1..n /\ \A k \in 1..n : seq[k] = from + k - 1
  OBVIOUS
<1>1. Hold(runs, S, from, n, mode, next) = f[1..n]
  <2>1. Hold(runs, S, from, n, mode, next) = f[DOMAIN seq]
    BY DEF Hold, FoldLeft, MapThenFoldSet, HeldUpto, Holds
  <2>. QED  BY <1>0, <2>1
<1>2. f = CHOOSE g : g = [s \in SUBSET (1..n) |-> IF s = {} THEN S ELSE Holds(runs, mode, next, g[s \ {Max(s)}], seq[Max(s)])]
  BY <1>0 DEF HeldUpto
<1>3. ASSUME NEW T \in X, NEW k \in 1..n  PROVE Add(T, k) = T \cup {new(k)} /\ Add(T, k) \in X
  <2>1. ASSUME NEW s \in T, s.id = from + k - 1  PROVE s = new(k)
    <3>1. s \in S \/ \E j \in 1..n : s = new(j)
      OBVIOUS
    <3>2. s \notin S
      BY <2>1
    <3>3. PICK j \in 1..n : s = new(j)
      BY <3>1, <3>2
    <3>4. s.id = from + j - 1
      BY <3>3 DEF Ended
    <3>5. j = k
      BY <2>1, <3>4
    <3>. QED  BY <3>3, <3>5
  <2>2. Add(T, k) = T \cup {new(k)}
    BY <2>1, HoldsOne
  <2>3. new(k) \in U
    OBVIOUS
  <2>. QED  BY <2>2, <2>3
<1>4. S \in X
  OBVIOUS
<1>. HIDE DEF X, Add, f, new, U, seq
<1>5. PICK g \in [SUBSET (1..n) -> X] :
          \A s \in SUBSET (1..n) : g[s] = IF s = {} THEN S ELSE step[Max(s)][g[s \ {Max(s)}]]
  <2>1. Steps(n, X, S, step)
    BY <1>3, <1>4 DEF Steps
  <2>. HIDE DEF step, Good
  <2>2. \E g \in [SUBSET (1..n) -> X] : FoldsUp(g, n, S, step)
    BY <2>1, PrefixFoldExists
  <2>. QED  BY <2>2 DEF FoldsUp
<1>6. \A s \in SUBSET (1..n) : s # {} => Max(s) \in 1..n /\ s \ {Max(s)} \in SUBSET (1..n)
  BY MaxIsPicked
<1> DEFINE Good2(h) == h = [s \in SUBSET (1..n) |-> IF s = {} THEN S ELSE Holds(runs, mode, next, h[s \ {Max(s)}], seq[Max(s)])]
<1>7. Good2(g)
  <2>1. \A s \in SUBSET (1..n) : g[s] = IF s = {} THEN S ELSE Add(g[s \ {Max(s)}], Max(s))
    BY <1>5, <1>6
  <2>2. \A s \in SUBSET (1..n) : g[s] = IF s = {} THEN S ELSE Holds(runs, mode, next, g[s \ {Max(s)}], seq[Max(s)])
    BY <1>0, <1>6, <2>1 DEF Add
  <2>. QED  BY <2>2
<1>. HIDE DEF step
<1>8. Good2(f)
  <2>. HIDE DEF Good2
  <2>1. f = CHOOSE h : Good2(h)
    BY <1>2 DEF Good2
  <2>. QED  BY <1>7, <2>1
<1>9. \A s \in SUBSET (1..n) : f[s] = IF s = {} THEN S ELSE Add(f[s \ {Max(s)}], Max(s))
  <2>1. \A s \in SUBSET (1..n) : f[s] = IF s = {} THEN S ELSE Holds(runs, mode, next, f[s \ {Max(s)}], seq[Max(s)])
    BY <1>8
  <2>. QED  BY <1>0, <1>6, <2>1 DEF Add
<1> DEFINE upto(k) == S \cup {new(j) : j \in 1..k}
           N == {k \in Nat : k <= n => f[1..k] = upto(k)}
<1>10. 0 \in N
  <2>1. 1..0 = {} /\ {} \in SUBSET (1..n)
    OBVIOUS
  <2>2. f[1..0] = S
    BY <1>9, <2>1
  <2>3. upto(0) = S
    BY <2>1
  <2>. QED  BY <2>2, <2>3
<1>11. ASSUME NEW k \in Nat, k \in N  PROVE k + 1 \in N
  <2>1. SUFFICES ASSUME k + 1 <= n  PROVE f[1..(k + 1)] = upto(k + 1)
    OBVIOUS
  <2> DEFINE s == 1..(k + 1)
  <2>2. s \in SUBSET (1..n) /\ s # {} /\ k + 1 \in 1..n
    <3>1. k + 1 \in s
      OBVIOUS
    <3>. QED  BY <2>1, <3>1
  <2>3. Max(s) = k + 1 /\ s \ {Max(s)} = 1..k
    <3>1. k + 1 \in Nat /\ k + 1 > 0 /\ (k + 1) - 1 = k
      OBVIOUS
    <3>. QED  BY <3>1, LastIsMax
  <2>4. f[s] = Add(f[1..k], k + 1)
    <3>. HIDE DEF s
    <3>. QED  BY <1>9, <2>2, <2>3
  <2>5. f[1..k] = upto(k) /\ upto(k) \in X
    <3>1. f[1..k] = upto(k)
      BY <1>11, <2>1
    <3>2. \A j \in 1..k : new(j) \in U
      <4>1. \A j \in 1..k : j \in 1..n
        BY <2>1
      <4>. QED  BY <4>1 DEF U
    <3>3. S \subseteq U
      BY DEF U
    <3>. QED  BY <3>1, <3>2, <3>3 DEF X
  <2>6. upto(k + 1) = upto(k) \cup {new(k + 1)}
    <3>1. \A j : j \in 1..(k + 1) <=> j \in 1..k \/ j = k + 1
      OBVIOUS
    <3>. QED  BY <3>1
  <2> DEFINE T == upto(k)
             h == f[s]
  <2>8. f[1..k] = T /\ T \in X
    BY <2>5
  <2>7. h = T \cup {new(k + 1)}
    <3>. HIDE DEF T, s
    <3>1. Add(T, k + 1) = T \cup {new(k + 1)}
      BY <1>3, <2>2, <2>8
    <3>. QED  BY <2>4, <2>8, <3>1
  <2>. QED  BY <2>6, <2>7
<1>12. n \in N
  <2>. HIDE DEF N
  <2>. QED  BY <1>10, <1>11, InductiveSet
<1>13. f[1..n] = upto(n)
  BY <1>12
<1>. QED  BY <1>1, <1>13 DEF EndedFrom, new

Spans(s) == {t - s.start : t \in {e \in s.end : e >= s.start}}
Completed(runs, S, mode) ==
    {s \in S : s.run \in {r.id : r \in Organic(runs)} /\ ~s.synthetic /\ s.mode = mode /\ Spans(s) # None}
MedianOf(rows) == percentile_cont(50, rows, Spans)
Faster(m, a) == IF a # None /\ m # None /\ The(m)[1] > 0 THEN {<<The(m)[1] - The(a)[1], 100>>} ELSE None

LEMMA TimingEvidence ==
    ASSUME NEW runs, NEW S
    PROVE  LET e == build_diagnosis_timing_evidence(runs, S, None)
               manual == Completed(runs, S, "manual")  assisted == Completed(runs, S, "assisted")
           IN  /\ e.tier = _diagnosis_tier(Cardinality(manual), Cardinality(assisted))
               /\ e.completed["manual"] = Cardinality(manual) /\ e.completed["assisted"] = Cardinality(assisted)
               /\ e.delta = Faster(MedianOf(manual), MedianOf(assisted))
<1> DEFINE e == build_diagnosis_timing_evidence(runs, S, None)
           rows == {s \in S : s.run \in {r.id : r \in Organic(runs)} /\ ~s.synthetic}
           done(mode) == {s \in rows : s.mode = mode /\ {t - s.start : t \in {f \in s.end : f >= s.start}} # None}
<1>0. dashboard_aggregate_run_scope(runs, None) = Organic(runs)
  BY DEF dashboard_aggregate_run_scope, None
<1>1. \A mode : done(mode) = Completed(runs, S, mode)
  BY DEF Completed, Spans
<1>2. e.tier = _diagnosis_tier(Cardinality(done("manual")), Cardinality(done("assisted")))
  BY <1>0 DEF build_diagnosis_timing_evidence
<1>3. e.completed["manual"] = Cardinality(done("manual")) /\ e.completed["assisted"] = Cardinality(done("assisted"))
  BY <1>0 DEF build_diagnosis_timing_evidence
<1>4. e.delta = Faster(MedianOf(done("manual")), MedianOf(done("assisted")))
  BY <1>0 DEF build_diagnosis_timing_evidence, Faster, MedianOf, Median, Spans
<1>. HIDE DEF e, done
<1>. QED  BY <1>1, <1>2, <1>3, <1>4 DEF e

\* Sessions with ids of their own that count where they are held.
LEMMA EndedIsFinite ==
    ASSUME NEW from \in Nat, NEW n \in Nat, NEW mode, NEW next
    PROVE  IsFiniteSet(EndedFrom(from, n, mode, next)) /\ Cardinality(EndedFrom(from, n, mode, next)) = n
<1> DEFINE f == [k \in 1..n |-> Ended(from + k - 1, mode, next)]
           D == 1..n
<1>1. IsFiniteSet(D) /\ Cardinality(D) = n
  BY FS_Interval
<1>2. \A j, k \in D : f[j] = f[k] => j = k
  <2>1. SUFFICES ASSUME NEW j \in D, NEW k \in D, f[j] = f[k]  PROVE j = k
    OBVIOUS
  <2>2. f[j].id = from + j - 1 /\ f[k].id = from + k - 1
    BY DEF Ended
  <2>3. f[j].id = f[k].id
    BY <2>1
  <2>. HIDE DEF f
  <2>. QED  BY <2>2, <2>3
<1>3. EndedFrom(from, n, mode, next) = {f[k] : k \in D}
  BY DEF EndedFrom
<1>. HIDE DEF f, D
<1>. QED  BY <1>1, <1>2, <1>3, ImageIsFinite

\* What n sessions held of a mode add to the completed ones.
IdsBelow(S, id) == IsFiniteSet(S) /\ \A s \in S : s.id \in 0..(id - 1)
OnACountedRun(runs, next) ==
    /\ next.start \in Nat /\ next.end \in Nat /\ next.start <= next.end
    /\ \E r \in runs : r.id = next.run /\ ~r.realism
Grown(runs, S, H, mode, other, n) ==
    /\ Cardinality(Completed(runs, H, mode)) = Cardinality(Completed(runs, S, mode)) + n
    /\ Completed(runs, H, other) = Completed(runs, S, other)

LEMMA CompletedGrow ==
    ASSUME NEW runs, NEW S, NEW mode \in Modes, NEW next, OnACountedRun(runs, next),
           NEW from \in Nat, NEW n \in Nat, IdsBelow(S, from), NEW other, other # mode
    PROVE  /\ IdsBelow(Hold(runs, S, from, n, mode, next), from + n)
           /\ Grown(runs, S, Hold(runs, S, from, n, mode, next), mode, other, n)
<1> DEFINE E == EndedFrom(from, n, mode, next)
           H == Hold(runs, S, from, n, mode, next)
           A == Completed(runs, S, mode)
<1>0. /\ IsFiniteSet(S) /\ \A s \in S : s.id \in 0..(from - 1)
      /\ next.start \in Nat /\ next.end \in Nat /\ next.start <= next.end
      /\ \E r \in runs : r.id = next.run /\ ~r.realism
  BY DEF IdsBelow, OnACountedRun
<1>1. H = S \cup E
  BY <1>0, HoldAdds
<1>2. IsFiniteSet(E) /\ Cardinality(E) = n
  BY EndedIsFinite
<1>3. \A s \in E : s.id \in from..((from + n) - 1) /\ s.mode = mode
  <2>1. ASSUME NEW k \in 1..n  PROVE from + k - 1 \in from..((from + n) - 1)
    OBVIOUS
  <2>. QED  BY <2>1 DEF EndedFrom, Ended
<1>4. \A s \in E : s.run \in {r.id : r \in Organic(runs)} /\ ~s.synthetic /\ Spans(s) # None
  <2>1. ASSUME NEW k \in 1..n
        PROVE  LET s == Ended(from + k - 1, mode, next)
               IN  s.run \in {r.id : r \in Organic(runs)} /\ ~s.synthetic /\ Spans(s) # None
    <3> DEFINE s == Ended(from + k - 1, mode, next)
    <3>1. s.run = next.run /\ ~s.synthetic /\ s.end = {next.end} /\ s.start = next.start
      BY DEF Ended
    <3>. HIDE DEF s
    <3>2. next.end - s.start \in Spans(s)
      BY <1>0, <3>1 DEF Spans
    <3>3. s.run \in {r.id : r \in Organic(runs)}
      BY <1>0, <3>1 DEF Organic
    <3>4. s.run \in {r.id : r \in Organic(runs)} /\ ~s.synthetic /\ Spans(s) # None
      BY <3>1, <3>2, <3>3 DEF None
    <3>. QED  BY <3>4 DEF s
  <2>. QED  BY <2>1 DEF EndedFrom
<1>. HIDE DEF E, H, A
<1>5. IsFiniteSet(H)
  BY <1>0, <1>1, <1>2, FS_Union
<1>6. \A s \in H : s.id \in 0..((from + n) - 1)
  <2>1. \A s \in S : s.id \in 0..((from + n) - 1)
    BY <1>0
  <2>2. \A s \in E : s.id \in 0..((from + n) - 1)
    BY <1>3
  <2>. QED  BY <1>1, <2>1, <2>2
<1>7. Completed(runs, H, mode) = A \cup E
  BY <1>1, <1>3, <1>4 DEF Completed, A
<1>8. Completed(runs, H, other) = Completed(runs, S, other)
  <2>1. \A s \in E : s.mode # other
    BY <1>3
  <2>. QED  BY <1>1, <2>1 DEF Completed
<1>9. A \cap E = {} /\ IsFiniteSet(A) /\ Cardinality(A) \in Nat
  <2>1. A \subseteq S
    BY DEF A, Completed
  <2>2. \A s \in S : s \notin E
    <3>1. SUFFICES ASSUME NEW s \in S, s \in E  PROVE FALSE
      OBVIOUS
    <3>2. s.id \in 0..(from - 1) /\ s.id \in from..((from + n) - 1)
      BY <1>0, <1>3, <3>1
    <3>. QED  BY <3>2
  <2>. QED  BY <1>0, <2>1, <2>2, FS_Subset, FS_CardinalityType
<1>10. Cardinality(A \cup E) = Cardinality(A) + n
  <2>1. Cardinality(A \cup E) = Cardinality(A) + Cardinality(E) - Cardinality(A \cap E)
    BY <1>2, <1>9, FS_Union
  <2>2. Cardinality(A \cap E) = 0
    BY <1>9, FS_EmptySet
  <2>. QED  BY <1>2, <1>9, <2>1, <2>2
<1>. QED  BY <1>5, <1>6, <1>7, <1>8, <1>10 DEF H, A, IdsBelow, Grown

\* The median lies between two of the durations.
LEMMA MedianIsBetween ==
    ASSUME NEW rows, IsFiniteSet(rows), \A s \in rows : s.start \in Nat /\ Optional(s.end) /\ s.id \in Nat,
           \A s, t \in rows : s.id = t.id => s = t, MedianOf(rows) # None
    PROVE  /\ The(MedianOf(rows))[1] \in Int
           /\ \E p, q \in rows : /\ Spans(p) # None /\ Spans(q) # None
                                 /\ 100 * Lasted(p) <= The(MedianOf(rows))[1]
                                 /\ The(MedianOf(rows))[1] <= 100 * Lasted(q)
<1> DEFINE R == {r \in rows : Spans(r) # None}
           before(a, b) == \/ The(Spans(a)) < The(Spans(b))
                           \/ Spans(a) = Spans(b) /\ a.id < b.id
           B == {p \in R \X R : before(p[1], p[2])}
           N == Cardinality(R)
           o == Sorted(rows, Spans)
           place == 50 * (N - 1)
           i == (place \div 100) + 1
           j == ((place + 99) \div 100) + 1
<1>1. \A s \in R : /\ s.start \in Nat /\ s.id \in Nat /\ Lasted(s) \in Nat
                   /\ Spans(s) = {Lasted(s)} /\ The(Spans(s)) = Lasted(s)
  <2>1. SUFFICES ASSUME NEW s \in R
                 PROVE  Lasted(s) \in Nat /\ Spans(s) = {Lasted(s)} /\ The(Spans(s)) = Lasted(s)
    OBVIOUS
  <2>2. PICK e \in s.end : e >= s.start
    BY DEF Spans, None
  <2>3. s.end = {e} /\ e \in Nat /\ s.start \in Nat
    BY <2>2 DEF Optional
  <2>4. The(s.end) = e
    BY <2>3 DEF The
  <2>5. Spans(s) = {e - s.start}
    BY <2>2, <2>3 DEF Spans
  <2>6. Lasted(s) = e - s.start
    BY <2>4 DEF Lasted
  <2>7. The(Spans(s)) = e - s.start
    BY <2>5 DEF The
  <2>. QED  BY <2>2, <2>3, <2>5, <2>6, <2>7
<1>2. IsFiniteSet(R) /\ N \in Nat
  BY FS_Subset, FS_CardinalityType
<1>3. StrictOrder(B, R)
  <2>1. \A a, b \in R : <<a, b>> \in B <=> Lasted(a) < Lasted(b) \/ (Lasted(a) = Lasted(b) /\ a.id < b.id)
    <3>1. ASSUME NEW a \in R, NEW b \in R
          PROVE  before(a, b) <=> Lasted(a) < Lasted(b) \/ (Lasted(a) = Lasted(b) /\ a.id < b.id)
      <4>1. Spans(a) = Spans(b) <=> Lasted(a) = Lasted(b)
        BY <1>1
      <4>. QED  BY <1>1, <4>1
    <3>. HIDE DEF before
    <3>. QED  BY <3>1
  <2>2. \A a, b \in R : a = b \/ a.id # b.id
    OBVIOUS
  <2>3. \A a \in R : Lasted(a) \in Nat /\ a.id \in Nat
    BY <1>1
  <2>. HIDE DEF B, R
  <2>. QED  BY <2>1, <2>2, <2>3 DEF StrictOrder
<1>4. InPlaces(B, R)
  <2>. HIDE DEF B, R
  <2>. QED  BY <1>2, <1>3, PlacesAreInOrder
<1>5. DOMAIN o = 1..N /\ \A n \in 1..N : o[n] = PlacedAt(B, R, n)
  <2>1. o = [n \in 1..N |-> CHOOSE x \in R : Cardinality({y \in R : before(y, x)}) = n - 1]
    BY DEF Sorted, Ordered
  <2>2. \A x \in R : {y \in R : before(y, x)} = {y \in R : <<y, x>> \in B}
    OBVIOUS
  <2>3. ASSUME NEW n \in 1..N
        PROVE  (CHOOSE x \in R : Cardinality({y \in R : before(y, x)}) = n - 1) = PlacedAt(B, R, n)
    <3>1. \A x : (x \in R /\ Cardinality({y \in R : before(y, x)}) = n - 1)
                 <=> (x \in R /\ Cardinality({y \in R : <<y, x>> \in B}) = n - 1)
      BY <2>2
    <3>. HIDE DEF R, B, before
    <3>. QED  BY <3>1 DEF PlacedAt, Ahead
  <2>. HIDE DEF R, B, before, N
  <2>. QED  BY <2>1, <2>3
<1>6. Len(o) = N
  <2>. HIDE DEF o, N
  <2>. QED  BY <1>2, <1>5
<1>7. MedianOf(rows) = IF o = << >> THEN None
                       ELSE {<<100 * The(Spans(o[i])) + (The(Spans(o[j])) - The(Spans(o[i]))) * (place % 100), 100>>}
  BY <1>6 DEF MedianOf, percentile_cont
<1>8. o # << >> /\ N > 0
  <2>. HIDE DEF o, N
  <2>1. o # << >>
    BY <1>7
  <2>. QED  BY <1>2, <1>5, <1>6, <2>1
<1>9. i \in 1..N /\ j \in 1..N /\ place % 100 \in 0..99
  <2>1. N \in Nat /\ N > 0
    BY <1>2, <1>8
  <2>. HIDE DEF N
  <2>. QED  BY <2>1
<1> DEFINE p == o[i]
           q == o[j]
           r == place % 100
           u == Lasted(p)
           v == Lasted(q)
<1>10. p \in R /\ q \in R
  <2>1. \A n \in 1..N : PlacedAt(B, R, n) \in R
    BY <1>4 DEF InPlaces
  <2>. HIDE DEF o, i, j, R, B, N
  <2>. QED  BY <1>5, <1>9, <2>1
<1>11. u \in Nat /\ v \in Nat /\ The(Spans(p)) = u /\ The(Spans(q)) = v
  BY <1>1, <1>10
<1>12. The(MedianOf(rows)) = <<100 * u + (v - u) * r, 100>>
  <2>. HIDE DEF o, i, j, r
  <2>1. MedianOf(rows) = {<<100 * The(Spans(p)) + (The(Spans(q)) - The(Spans(p))) * r, 100>>}
    BY <1>7, <1>8 DEF r
  <2>2. MedianOf(rows) = {<<100 * u + (v - u) * r, 100>>}
    BY <1>11, <2>1
  <2>. QED  BY <2>2 DEF The
<1>13. r \in 0..99
  BY <1>9
<1>14. 100 * u + (v - u) * r \in Int
       /\ (\/ 100 * u <= 100 * u + (v - u) * r /\ 100 * u + (v - u) * r <= 100 * v
           \/ 100 * v <= 100 * u + (v - u) * r /\ 100 * u + (v - u) * r <= 100 * u)
  <2>. HIDE DEF u, v, r
  <2>1. u \in Nat /\ v \in Nat /\ r \in 0..99
    BY <1>11, <1>13
  <2>2. CASE u <= v
    <3>1. (v - u) * r >= 0 /\ (v - u) * r <= (v - u) * 100
      BY <2>1, <2>2
    <3>. QED  BY <2>1, <3>1
  <2>3. CASE v <= u
    <3>1. (u - v) * r >= 0 /\ (u - v) * r <= (u - v) * 100 /\ (v - u) * r = -((u - v) * r)
      BY <2>1, <2>3
    <3>. QED  BY <2>1, <3>1
  <2>. QED  BY <2>1, <2>2, <2>3
<1>15. The(MedianOf(rows))[1] = 100 * u + (v - u) * r
  <2>. HIDE DEF u, v, r
  <2>. QED  BY <1>12
<1>16. p \in rows /\ q \in rows /\ Spans(p) # None /\ Spans(q) # None
  BY <1>10
<1> DEFINE x == The(MedianOf(rows))[1]
           Among(a, b) == /\ Spans(a) # None /\ Spans(b) # None
                          /\ 100 * Lasted(a) <= x /\ x <= 100 * Lasted(b)
<1>17. x \in Int /\ (Among(p, q) \/ Among(q, p))
  <2>. HIDE DEF p, q, r, x
  <2>1. x = 100 * u + (v - u) * r
    BY <1>15 DEF x
  <2>. QED  BY <1>14, <1>16, <2>1
<1>18. \E a, b \in rows : Among(a, b)
  <2>. HIDE DEF p, q, Among
  <2>. QED  BY <1>16, <1>17
<1>. QED  BY <1>17, <1>18

Missing(m, n) == IF m >= n THEN 0 ELSE n - m

LEMMA AskedFor ==
    ASSUME NEW runs, NEW S, NEW m, m = Cardinality(Completed(runs, S, "manual")),
           NEW a, a = Cardinality(Completed(runs, S, "assisted"))
    PROVE  LET asked == _export_sessions(runs, S, None)
               short == _diagnosis_tier(m, a) = "insufficient"
           IN  /\ asked.missing["manual"] = IF short THEN <<Missing(m, 5), Missing(m, 10)>> ELSE << >>
               /\ asked.missing["assisted"] = IF short THEN <<Missing(a, 5), Missing(a, 10)>> ELSE << >>
               /\ asked.evidence.delta = Faster(MedianOf(Completed(runs, S, "manual")),
                                                MedianOf(Completed(runs, S, "assisted")))
<1> DEFINE e == build_diagnosis_timing_evidence(runs, S, None)
           asked == _export_sessions(runs, S, None)
           missing(mode, n) == IF e.completed[mode] >= n THEN 0 ELSE n - e.completed[mode]
<1>1. /\ e.tier = _diagnosis_tier(m, a) /\ e.completed["manual"] = m /\ e.completed["assisted"] = a
      /\ e.delta = Faster(MedianOf(Completed(runs, S, "manual")), MedianOf(Completed(runs, S, "assisted")))
  BY TimingEvidence
<1>2. /\ asked.missing["manual"] = IF e.tier # "insufficient" THEN << >> ELSE <<missing("manual", 5), missing("manual", 10)>>
      /\ asked.missing["assisted"] = IF e.tier # "insufficient" THEN << >> ELSE <<missing("assisted", 5), missing("assisted", 10)>>
      /\ asked.evidence = e
  BY DEF _export_sessions
<1>3. /\ missing("manual", 5) = Missing(m, 5) /\ missing("manual", 10) = Missing(m, 10)
      /\ missing("assisted", 5) = Missing(a, 5) /\ missing("assisted", 10) = Missing(a, 10)
  <2>. HIDE DEF e
  <2>. QED  BY <1>1 DEF Missing
<1>. HIDE DEF e, asked, missing
<1>. QED  BY <1>1, <1>2, <1>3 DEF asked

\* The sessions that count, as a property and as the query finds them.
LEMMA TimelyAreCompleted ==
    ASSUME NEW mode, \A s \in input.sessions : Optional(s.end)
    PROVE  Completed(input.runs, input.sessions, mode) = Timely(mode)
<1>1. ASSUME NEW s \in input.sessions
      PROVE  /\ Spans(s) # None <=> \E e \in s.end : e >= s.start
             /\ s.run \in {r.id : r \in Organic(input.runs)} <=> \E r \in input.runs : r.id = s.run /\ ~r.realism
  <2>1. Spans(s) # None <=> \E e \in s.end : e >= s.start
    BY DEF Spans, None
  <2>2. s.run \in {r.id : r \in Organic(input.runs)} <=> \E r \in input.runs : r.id = s.run /\ ~r.realism
    BY DEF Organic
  <2>. QED  BY <2>1, <2>2
<1>. QED  BY <1>1 DEF Completed, Timely

LEMMA FasterOrSlower ==
    ASSUME NEW M, NEW A, IsFiniteSet(M), IsFiniteSet(A),
           \A s \in M \cup A : s.start \in Nat /\ Optional(s.end) /\ s.id \in Nat,
           \A s, t \in M : s.id = t.id => s = t, \A s, t \in A : s.id = t.id => s = t,
           NEW x \in Faster(MedianOf(M), MedianOf(A))
    PROVE  /\ x[1] > 0 => \E s \in M, t \in A : Lasted(s) > Lasted(t)
           /\ x[1] < 0 => \E s \in M, t \in A : Lasted(s) < Lasted(t)
<1> DEFINE m == The(MedianOf(M))[1]
           a == The(MedianOf(A))[1]
<1>1. MedianOf(M) # None /\ MedianOf(A) # None /\ x = <<m - a, 100>>
  BY DEF Faster, None
<1>2. /\ m \in Int
      /\ \E p, q \in M : Spans(p) # None /\ Spans(q) # None /\ 100 * Lasted(p) <= m /\ m <= 100 * Lasted(q)
  BY <1>1, MedianIsBetween
<1>3. /\ a \in Int
      /\ \E p, q \in A : Spans(p) # None /\ Spans(q) # None /\ 100 * Lasted(p) <= a /\ a <= 100 * Lasted(q)
  BY <1>1, MedianIsBetween
<1>4. ASSUME NEW s \in M \cup A, Spans(s) # None  PROVE Lasted(s) \in Int
  <2>1. PICK e \in s.end : e >= s.start
    BY <1>4 DEF Spans, None
  <2>2. s.end = {e} /\ e \in Nat /\ s.start \in Nat
    BY <2>1 DEF Optional
  <2>. QED  BY <2>2 DEF Lasted, The
<1>. HIDE DEF m, a
<1>5. x[1] = m - a
  BY <1>1
<1>6. PICK p \in M, q \in M : /\ Lasted(p) \in Int /\ Lasted(q) \in Int
                              /\ 100 * Lasted(p) <= m /\ m <= 100 * Lasted(q)
  BY <1>2, <1>4
<1>7. PICK v \in A, w \in A : /\ Lasted(v) \in Int /\ Lasted(w) \in Int
                              /\ 100 * Lasted(v) <= a /\ a <= 100 * Lasted(w)
  BY <1>3, <1>4
<1>8. x[1] > 0 => Lasted(q) > Lasted(v)
  BY <1>2, <1>3, <1>5, <1>6, <1>7
<1>9. x[1] < 0 => Lasted(p) < Lasted(w)
  BY <1>2, <1>3, <1>5, <1>6, <1>7
<1>. QED  BY <1>6, <1>7, <1>8, <1>9

(* MissingLeadsToTier (Algorithms): the sessions that the script asks for lead to the tier it *)
(* names, whatever sessions of whatever run are there already, and a difference of the        *)
(* medians is a difference between sessions (list_diagnosis_candidates.py:355-373,             *)
(* dashboard_evidence.py:27-120).                                                              *)
THEOREM Diagnosing == Spec => []MissingLeadsToTier
<1>1. ASSUME Given, input.call = "sessions"
      PROVE  MissingLeadsToTier
  <2> DEFINE runs == input.runs
             S == input.sessions
             free == input.free
             next == input.next
             M == Completed(runs, S, "manual")
             A == Completed(runs, S, "assisted")
             m == Cardinality(M)
             a == Cardinality(A)
             asked == _export_sessions(runs, S, None)
             short == _diagnosis_tier(m, a) = "insufficient"
  <2>1. /\ IsFiniteSet(S) /\ free \in Nat
        /\ \A s \in S : s.id \in 0..(free - 1) /\ s.start \in Nat /\ Optional(s.end)
        /\ \A s, t \in S : s.id = t.id => s = t
        /\ \A mode \in Modes :
             /\ next[mode].start \in Nat /\ next[mode].end \in Nat /\ next[mode].start <= next[mode].end
             /\ \E r \in runs : r.id = next[mode].run /\ ~r.realism
    <3>1. PICK e \in Experiments : runs = e.runs /\ S = e.sessions /\ free = e.free /\ next = e.next
      BY <1>1 DEF Given, SessionsInput
    <3>. QED  BY <3>1, ExperimentsAssumption
  <2>2. M \subseteq S /\ A \subseteq S
    BY DEF Completed
  <2>3. /\ IsFiniteSet(M) /\ IsFiniteSet(A) /\ m \in Nat /\ a \in Nat
        /\ \A s \in M \cup A : s.start \in Nat /\ Optional(s.end) /\ s.id \in Nat
        /\ \A s, t \in M : s.id = t.id => s = t
        /\ \A s, t \in A : s.id = t.id => s = t
    <3>1. \A s \in S : s.id \in Nat
      BY <2>1
    <3>. HIDE DEF M, A, S
    <3>. QED  BY <2>1, <2>2, <3>1, FS_Subset, FS_CardinalityType
  <2>4. Timely("manual") = M /\ Timely("assisted") = A
    BY <2>1, TimelyAreCompleted
  <2>5. /\ asked.missing["manual"] = IF short THEN <<Missing(m, 5), Missing(m, 10)>> ELSE << >>
        /\ asked.missing["assisted"] = IF short THEN <<Missing(a, 5), Missing(a, 10)>> ELSE << >>
        /\ asked.evidence.delta = Faster(MedianOf(M), MedianOf(A))
    BY AskedFor
  <2>6. ASSUME NEW i \in Nat, NEW j \in Nat
        PROVE  build_diagnosis_timing_evidence(runs, After(i, j), None).tier = _diagnosis_tier(m + i, a + j)
    <3> DEFINE H == Hold(runs, S, free, i, "manual", next["manual"])
               G == Hold(runs, H, free + i, j, "assisted", next["assisted"])
    <3>1. "manual" \in Modes /\ "assisted" \in Modes /\ free + i \in Nat
      BY <2>1 DEF Modes
    <3>2. IdsBelow(H, free + i) /\ Grown(runs, S, H, "manual", "assisted", i)
      <4>1. "assisted" # "manual" /\ IdsBelow(S, free) /\ OnACountedRun(runs, next["manual"])
        BY <2>1 DEF IdsBelow, OnACountedRun, Modes
      <4>. HIDE DEF runs, S, free, next
      <4>. QED  BY <2>1, <3>1, <4>1, CompletedGrow
    <3>. HIDE DEF H
    <3>3. Grown(runs, H, G, "assisted", "manual", j)
      <4>1. "manual" # "assisted" /\ OnACountedRun(runs, next["assisted"])
        BY <2>1 DEF OnACountedRun, Modes
      <4>. HIDE DEF runs, free, next
      <4>. QED  BY <3>1, <3>2, <4>1, CompletedGrow
    <3>4. After(i, j) = G
      BY DEF After, H
    <3>. HIDE DEF G, runs, m, a
    <3>5. build_diagnosis_timing_evidence(runs, G, None).tier
              = _diagnosis_tier(Cardinality(Completed(runs, G, "manual")), Cardinality(Completed(runs, G, "assisted")))
      BY TimingEvidence
    <3>6. Cardinality(Completed(runs, G, "manual")) = m + i /\ Cardinality(Completed(runs, G, "assisted")) = a + j
      BY <3>2, <3>3 DEF Grown, m, a
    <3>. QED  BY <3>4, <3>5, <3>6
  <2>7. ASSUME NEW k \in DOMAIN asked.missing["manual"]
        PROVE  LET tier == build_diagnosis_timing_evidence(runs,
                               After(asked.missing["manual"][k], asked.missing["assisted"][k]), None).tier
               IN  tier # "insufficient" /\ (k = 2 => tier = "normal")
    <3> DEFINE i == asked.missing["manual"][k]
               j == asked.missing["assisted"][k]
    <3>. HIDE DEF m, a, M, A, asked
    <3>1. short
      BY <2>5
    <3>2. \/ k = 1 /\ i = Missing(m, 5) /\ j = Missing(a, 5)
          \/ k = 2 /\ i = Missing(m, 10) /\ j = Missing(a, 10)
      <4>1. /\ asked.missing["manual"] = <<Missing(m, 5), Missing(m, 10)>>
            /\ asked.missing["assisted"] = <<Missing(a, 5), Missing(a, 10)>>
        BY <2>5, <3>1
      <4>2. k = 1 \/ k = 2
        BY <4>1
      <4>. QED  BY <4>1, <4>2
    <3>. HIDE DEF i, j, short
    <3>3. /\ i \in Nat /\ j \in Nat
          /\ m + i >= 5 /\ a + j >= 5 /\ (k = 2 => m + i >= 10 /\ a + j >= 10)
      BY <2>3, <3>2 DEF Missing
    <3>4. build_diagnosis_timing_evidence(runs, After(i, j), None).tier = _diagnosis_tier(m + i, a + j)
      BY <2>6, <3>3
    <3>5. /\ _diagnosis_tier(m + i, a + j) # "insufficient"
          /\ k = 2 => _diagnosis_tier(m + i, a + j) = "normal"
      BY <2>3, <3>3 DEF _diagnosis_tier
    <3>. QED  BY <3>4, <3>5 DEF i, j
  <2>8. asked.missing["manual"] = << >> => \A mode \in Modes : Cardinality(Timely(mode)) >= 5
    <3>. HIDE DEF m, a, M, A, asked
    <3>1. ASSUME asked.missing["manual"] = << >>  PROVE ~short
      <4>1. \A x, y : <<x, y>> # << >>
        OBVIOUS
      <4>. QED  BY <2>5, <3>1, <4>1
    <3>2. ~short => m >= 5 /\ a >= 5
      BY <2>3 DEF _diagnosis_tier
    <3>. QED  BY <2>4, <3>1, <3>2 DEF Modes, m, a
  <2>9. ASSUME NEW x \in asked.evidence.delta
        PROVE  /\ x[1] > 0 => \E s \in Timely("manual"), t \in Timely("assisted") : Lasted(s) > Lasted(t)
               /\ x[1] < 0 => \E s \in Timely("manual"), t \in Timely("assisted") : Lasted(s) < Lasted(t)
    <3>. HIDE DEF M, A, asked
    <3>. QED  BY <2>3, <2>4, <2>5, FasterOrSlower
  <2>. HIDE DEF asked
  <2>. QED  BY <2>7, <2>8, <2>9 DEF MissingLeadsToTier, asked
<1>2. Given => MissingLeadsToTier
  BY <1>1 DEF Given, MissingLeadsToTier
<1>. QED  BY <1>2, GivenInvariant, PTL

-----------------------------------------------------------------------------
(* The dashboards. *)

\* The runs of a slice.
Shown(S) ==
    /\ IsFiniteSet(S) /\ \A r, s \in S : r.id = s.id => r = s
    /\ \A r \in S : RunRow(r) /\ r.day \in Nat /\ \A row \in r.ev : \A f, g \in row.failure : f = g

Halves(S, A, B) == A \in SUBSET S /\ B \in SUBSET S /\ A \cup B = S /\ A \cap B = {}

LEMMA SplitInTwo ==
    ASSUME NEW S, IsFiniteSet(S), NEW A, NEW B, Halves(S, A, B)
    PROVE  /\ IsFiniteSet(A) /\ IsFiniteSet(B) /\ Cardinality(A) \in Nat /\ Cardinality(B) \in Nat
           /\ Cardinality(S) = Cardinality(A) + Cardinality(B)
<1>0. A \subseteq S /\ B \subseteq S /\ A \cup B = S /\ A \cap B = {}
  BY DEF Halves
<1>1. IsFiniteSet(A) /\ IsFiniteSet(B)
  BY <1>0, FS_Subset
<1>2. Cardinality(A) \in Nat /\ Cardinality(B) \in Nat /\ Cardinality(A \cap B) = 0
  BY <1>0, <1>1, FS_CardinalityType, FS_EmptySet
<1>3. Cardinality(A \cup B) = Cardinality(A) + Cardinality(B) - Cardinality(A \cap B)
  BY <1>1, FS_Union
<1>4. Cardinality(S) = Cardinality(A) + Cardinality(B) - 0
  BY <1>0, <1>2, <1>3
<1>. QED  BY <1>1, <1>2, <1>4

\* A row by its evaluator: SQL and Python disagree on one without a type.
LegacyRuns(S) == {r \in S : \E row \in r.ev : ~row.llm /\ row.type = None}

LEMMA EvaluatorOfRun ==
    ASSUME NEW r, RunRow(r)
    PROVE  LET untyped == \E row \in r.ev : ~row.llm /\ row.type = None
               llm == InBucket(r, "llm")
               heuristic == InBucket(r, "heuristic")
           IN  /\ r.ev # None <=> untyped \/ llm \/ heuristic
               /\ ~(untyped /\ llm) /\ ~(untyped /\ heuristic) /\ ~(llm /\ heuristic)
               /\ EvaluatorType(r) = "llm" <=> llm
               /\ EvaluatorType(r) = "heuristic" <=> untyped \/ heuristic
<1>1. CASE r.ev = None
  BY <1>1 DEF InBucket, EvaluatorType, None
<1>2. CASE r.ev # None
  <2>1. PICK row \in r.ev : TRUE
    BY <1>2 DEF None
  <2>2. /\ r.ev = {row} /\ row.llm \in BOOLEAN
        /\ row.type = None \/ row.type = {"heuristic"} \/ row.type = {"llm"}
    BY <2>1 DEF RunRow
  <2>3. Row(r) = row
    BY <2>2 DEF Row, The
  <2> DEFINE is == sql_is_llm_bucket(row.llm, row.type)
             isnt == sql_is_heuristic_bucket(row.llm, row.type)
  <2>4. /\ InBucket(r, "llm") <=> TRUE \in is
        /\ InBucket(r, "heuristic") <=> TRUE \in isnt
        /\ EvaluatorType(r) = IF row.llm \/ row.type = {"llm"} THEN "llm" ELSE "heuristic"
    BY <1>2, <2>3 DEF InBucket, EvaluatorType, resolved_evaluator_type
  <2>5. (\E other \in r.ev : ~other.llm /\ other.type = None) <=> ~row.llm /\ row.type = None
    BY <2>2
  <2>6. {"heuristic"} # {"llm"} /\ {"heuristic"} # None /\ {"llm"} # None /\ "heuristic" # "llm"
    BY DEF None
  <2>7. is = IF row.llm THEN {TRUE} ELSE IF row.type = None THEN {} ELSE {row.type = {"llm"}}
    <3>1. CASE row.type = None
      <4>1. {t = "llm" : t \in row.type} = {}
        BY <3>1 DEF None
      <4>. QED  BY <2>2, <3>1, <4>1 DEF sql_is_llm_bucket, Or3
    <3>2. CASE row.type = {"heuristic"}
      <4>1. {t = "llm" : t \in row.type} = {FALSE}
        BY <3>2
      <4>. QED  BY <2>2, <2>6, <3>2, <4>1 DEF sql_is_llm_bucket, Or3
    <3>3. CASE row.type = {"llm"}
      <4>1. {t = "llm" : t \in row.type} = {TRUE}
        BY <3>3
      <4>. QED  BY <2>2, <2>6, <3>3, <4>1 DEF sql_is_llm_bucket, Or3
    <3>. QED  BY <2>2, <3>1, <3>2, <3>3
  <2>8. isnt = {~b : b \in is}
    BY DEF sql_is_heuristic_bucket
  <2>. HIDE DEF is, isnt
  <2>9. /\ TRUE \in is <=> row.llm \/ row.type = {"llm"}
        /\ TRUE \in isnt <=> ~row.llm /\ row.type = {"heuristic"}
    <3>1. CASE row.llm
      BY <2>7, <2>8, <3>1
    <3>2. CASE ~row.llm /\ row.type = None
      BY <2>6, <2>7, <2>8, <3>2
    <3>3. CASE ~row.llm /\ row.type = {"heuristic"}
      BY <2>6, <2>7, <2>8, <3>3
    <3>4. CASE ~row.llm /\ row.type = {"llm"}
      BY <2>6, <2>7, <2>8, <3>4
    <3>. QED  BY <2>2, <3>1, <3>2, <3>3, <3>4
  <2>. QED  BY <1>2, <2>2, <2>4, <2>5, <2>6, <2>9
<1>. QED  BY <1>1, <1>2

LEMMA EvaluatorsAddUp ==
    ASSUME NEW S, Shown(S)
    PROVE  Cardinality(S) = Cardinality(LegacyRuns(S)) + Cardinality(Bucket(S, "heuristic"))
                                + Cardinality(Bucket(S, "llm")) + Cardinality({r \in S : r.ev = None})
<1> DEFINE L == LegacyRuns(S)
           H == Bucket(S, "heuristic")
           J == Bucket(S, "llm")
           N == {r \in S : r.ev = None}
<1>1. \A r \in S : /\ r.ev # None <=> r \in L \/ r \in J \/ r \in H
                   /\ ~(r \in L /\ r \in J) /\ ~(r \in L /\ r \in H) /\ ~(r \in J /\ r \in H)
  <2>1. SUFFICES ASSUME NEW r \in S
                 PROVE  /\ r.ev # None <=> r \in L \/ r \in J \/ r \in H
                        /\ ~(r \in L /\ r \in J) /\ ~(r \in L /\ r \in H) /\ ~(r \in J /\ r \in H)
    OBVIOUS
  <2>2. RunRow(r)
    BY DEF Shown
  <2>. QED  BY <2>2, EvaluatorOfRun DEF LegacyRuns, Bucket
<1>2. L \subseteq S /\ H \subseteq S /\ J \subseteq S /\ N \subseteq S /\ IsFiniteSet(S)
  BY DEF LegacyRuns, Bucket, Shown
<1>3. \A r \in S : r \in N <=> r.ev = None
  OBVIOUS
<1>. HIDE DEF L, H, J, N
<1> DEFINE JN == J \cup N
           HJN == H \cup JN
<1>4. Halves(JN, J, N) /\ Halves(HJN, H, JN) /\ Halves(S, L, HJN)
  <2>1. Halves(JN, J, N)
    BY <1>1, <1>2, <1>3 DEF Halves
  <2>2. Halves(HJN, H, JN)
    BY <1>1, <1>2, <1>3 DEF Halves
  <2>3. L \cup HJN = S
    BY <1>1, <1>2, <1>3
  <2>4. L \cap HJN = {}
    BY <1>1, <1>2, <1>3
  <2>5. HJN \in SUBSET S
    BY <1>2
  <2>. QED  BY <1>2, <2>1, <2>2, <2>3, <2>4, <2>5 DEF Halves
<1>. HIDE DEF JN, HJN
<1>5. IsFiniteSet(S)
  BY <1>2
<1>6. IsFiniteSet(HJN) /\ Cardinality(S) = Cardinality(L) + Cardinality(HJN) /\ Cardinality(L) \in Nat
  BY <1>4, <1>5, SplitInTwo
<1>7. IsFiniteSet(JN) /\ Cardinality(HJN) = Cardinality(H) + Cardinality(JN) /\ Cardinality(H) \in Nat
  BY <1>4, <1>6, SplitInTwo
<1>8. Cardinality(JN) = Cardinality(J) + Cardinality(N) /\ Cardinality(J) \in Nat /\ Cardinality(N) \in Nat
  BY <1>4, <1>7, SplitInTwo
<1>9. Cardinality(S) = Cardinality(L) + Cardinality(H) + Cardinality(J) + Cardinality(N)
  BY <1>6, <1>7, <1>8
<1>. QED  BY <1>9 DEF L, H, J, N

LEMMA StatesAddUp ==
    ASSUME NEW S, Shown(S)
    PROVE  Cardinality(S) = Cardinality(Status(S, {"completed"})) + Cardinality(Status(S, {"failed"}))
                                + Cardinality({r \in S : r.status \notin {"completed", "failed"}})
<1> DEFINE A == Status(S, {"completed"})
           B == Status(S, {"failed"})
           C == {r \in S : r.status \notin {"completed", "failed"}}
           BC == B \cup C
<1>1. Halves(S, A, BC) /\ IsFiniteSet(S)
  BY DEF Status, Shown, Halves
<1>2. Halves(BC, B, C)
  BY DEF Status, Halves
<1>. HIDE DEF A, B, C, BC
<1>3. IsFiniteSet(BC) /\ Cardinality(S) = Cardinality(A) + Cardinality(BC) /\ Cardinality(A) \in Nat
  BY <1>1, SplitInTwo
<1>4. Cardinality(BC) = Cardinality(B) + Cardinality(C) /\ Cardinality(B) \in Nat /\ Cardinality(C) \in Nat
  BY <1>2, <1>3, SplitInTwo
<1>5. Cardinality(S) = Cardinality(A) + Cardinality(B) + Cardinality(C)
  BY <1>3, <1>4
<1>. QED  BY <1>5 DEF A, B, C

LEMMA CostsAddUp ==
    ASSUME NEW S, Shown(S)
    PROVE  Cardinality(Evaluated(S)) = Cardinality(Costed(Evaluated(S))) + Cardinality(Evaluated(S) \ Costed(Evaluated(S)))
<1> DEFINE E == Evaluated(S)
           C == Costed(E)
           D == E \ C
<1>1. E \in SUBSET S /\ C \in SUBSET E /\ IsFiniteSet(S)
  BY DEF Evaluated, Costed, Shown
<1>. HIDE DEF E, C
<1>2. Halves(E, C, D)
  BY <1>1 DEF Halves
<1>3. IsFiniteSet(E)
  BY <1>1, FS_Subset
<1>. HIDE DEF D
<1>4. Cardinality(E) = Cardinality(C) + Cardinality(D)
  BY <1>2, <1>3, SplitInTwo
<1>. QED  BY <1>4 DEF E, C, D

\* The elements of S, each once.
Lined(o, S, N) ==
    /\ N \in Nat /\ N = Cardinality(S) /\ o \in Seq(S) /\ Len(o) = N /\ DOMAIN o = 1..N
    /\ \A i \in 1..N : o[i] \in S
    /\ \A i, j \in 1..N : o[i] = o[j] => i = j
    /\ \A x \in S : \E n \in 1..N : o[n] = x

LEMMA LinedUp ==
    ASSUME NEW S, IsFiniteSet(S), NEW B, StrictOrder(B, S), NEW o, NEW N, N = Cardinality(S),
           o = [n \in 1..N |-> PlacedAt(B, S, n)]
    PROVE  Lined(o, S, N)
<1>1. InPlaces(B, S)
  BY PlacesAreInOrder
<1>2. /\ N \in Nat /\ \A n \in 1..N : PlacedAt(B, S, n) \in S
      /\ \A i, j \in 1..N : i < j => <<PlacedAt(B, S, i), PlacedAt(B, S, j)>> \in B
      /\ \A x \in S : \E n \in 1..N : x = PlacedAt(B, S, n)
  BY <1>1 DEF InPlaces
<1>3. DOMAIN o = 1..N /\ \A n \in 1..N : o[n] = PlacedAt(B, S, n)
  OBVIOUS
<1>4. \A x \in S : <<x, x>> \notin B
  BY DEF StrictOrder
<1>5. o \in [1..N -> S]
  BY <1>2
<1>6. o \in Seq(S) /\ Len(o) = N
  BY <1>2, <1>5
<1>7. ASSUME NEW i \in 1..N, NEW j \in 1..N, o[i] = o[j]  PROVE i = j
  <2>1. ~(i < j) /\ ~(j < i)
    BY <1>2, <1>3, <1>4, <1>7
  <2>. QED  BY <1>2, <2>1
<1>8. (\A i \in 1..N : o[i] \in S) /\ \A x \in S : \E n \in 1..N : o[n] = x
  BY <1>2, <1>3
<1>. QED  BY <1>2, <1>3, <1>6, <1>7, <1>8 DEF Lined

\* The first of a list, or all of it.
LEMMA FirstOfList ==
    ASSUME NEW S, NEW s \in Seq(S), NEW n \in Nat, NEW m, m = (IF Len(s) < n THEN Len(s) ELSE n)
    PROVE  /\ FirstOf(n, s) \in Seq(S) /\ m \in Nat /\ m <= Len(s) /\ Len(FirstOf(n, s)) = m /\ DOMAIN FirstOf(n, s) = 1..m
           /\ \A i \in 1..m : FirstOf(n, s)[i] = s[i]
           /\ m = Len(s) => FirstOf(n, s) = s
<1> DEFINE t == FirstOf(n, s)
           L == Len(s)
<1>1. L \in Nat /\ DOMAIN s = 1..L /\ s = [i \in 1..L |-> s[i]] /\ \A i \in 1..L : s[i] \in S
  OBVIOUS
<1>. HIDE DEF L
<1>2. m \in Nat /\ m <= L
  BY <1>1 DEF L
<1>3. t = SubSeq(s, 1, m)
  BY DEF FirstOf
<1>4. t = [i \in 1..m |-> s[i]]
  <2>1. SubSeq(s, 1, m) = [i \in 1..m |-> s[i]]
    BY <1>1, <1>2 DEF L
  <2>. HIDE DEF t
  <2>. QED  BY <1>3, <2>1
<1>. HIDE DEF t
<1>5. t \in [1..m -> S]
  BY <1>1, <1>2, <1>4
<1>6. t \in Seq(S) /\ Len(t) = m
  BY <1>2, <1>5
<1>7. m = L => t = s
  BY <1>1, <1>4
<1>. QED  BY <1>2, <1>4, <1>6, <1>7 DEF t, L

OnDay(S, day) == {r \in S : r.day = day}
Failed(S) == {r \in S : IsFailure(r)}

\* The days e of S, and what the series says of each.
DaysOf(S, ts, e, L) ==
    /\ L \in Nat /\ DOMAIN ts = 1..L
    /\ \A i \in 1..L : /\ ts[i]["runs"] = Cardinality(OnDay(S, e[i]))
                       /\ ts[i]["failure_count"] = Cardinality(Failed(OnDay(S, e[i])))
    /\ \A i, j \in 1..L : e[i] = e[j] => i = j
    /\ \A r \in S : \E i \in 1..L : e[i] = r.day

LEMMA SeriesShowsDays ==
    ASSUME NEW S, Shown(S), Len(_time_series(S)) < 90
    PROVE  \E e, L : DaysOf(S, _time_series(S), e, L)
<1> DEFINE D == {r.day : r \in S}
           N == Cardinality(D)
           later(a, b) == a > b
           B == {p \in D \X D : later(p[1], p[2])}
           o == Ordered(D, LAMBDA a, b : a > b)
           days == FirstOf(90, o)
           m == IF Len(o) < 90 THEN Len(o) ELSE 90
           ts == _time_series(S)
           f == [r \in S |-> r.day]
           e == [i \in 1..m |-> days[m + 1 - i]]
<1>1. IsFiniteSet(D) /\ D \subseteq Nat
  <2>1. IsFiniteSet(S) /\ \A r \in S : r.day \in Nat
    BY DEF Shown
  <2>2. {f[r] : r \in S} = D
    OBVIOUS
  <2>. HIDE DEF f
  <2>3. IsFiniteSet({f[r] : r \in S})
    BY <2>1, ImageIsFinite
  <2>. QED  BY <2>1, <2>2, <2>3
<1>2. o = [k \in 1..N |-> CHOOSE x \in D : Cardinality({y \in D : later(y, x)}) = k - 1]
  BY DEF Ordered
<1>3. \A r \in S : r.day \in D
  OBVIOUS
<1>4. ASSUME NEW i \in DOMAIN ts
      PROVE  /\ ts[i]["runs"] = Cardinality(OnDay(S, days[Len(days) + 1 - i]))
             /\ ts[i]["failure_count"] = Cardinality(Failed(OnDay(S, days[Len(days) + 1 - i])))
  <2>1. i \in DOMAIN days
    BY DEF _time_series
  <2>. QED  BY <2>1 DEF _time_series, OnDay, Failed
<1>5. DOMAIN ts = DOMAIN days /\ ts = [i \in DOMAIN ts |-> ts[i]]
  BY DEF _time_series
<1>. HIDE DEF D
<1>6. \A a, b \in D : <<a, b>> \in B <=> later(a, b)
  OBVIOUS
<1>7. StrictOrder(B, D)
  <2>1. (\A a \in D : ~later(a, a)) /\ \A a, b, c \in D : later(a, b) /\ later(b, c) => later(a, c)
    BY <1>1
  <2>2. \A a, b \in D : a = b \/ later(a, b) \/ later(b, a)
    BY <1>1
  <2>. HIDE DEF later, B
  <2>. QED  BY <1>6, <2>1, <2>2 DEF StrictOrder
<1>8. o = [k \in 1..N |-> PlacedAt(B, D, k)]
  <2>1. \A x \in D : Cardinality({y \in D : later(y, x)}) = Ahead(B, D, x)
    <3>1. ASSUME NEW x \in D  PROVE {y \in D : later(y, x)} = {y \in D : <<y, x>> \in B}
      <4>. HIDE DEF later, B
      <4>. QED  BY <1>6
    <3>. HIDE DEF later, B
    <3>. QED  BY <3>1 DEF Ahead
  <2>. HIDE DEF later, B
  <2>2. ASSUME NEW k \in 1..N
        PROVE  (CHOOSE x \in D : Cardinality({y \in D : later(y, x)}) = k - 1) = PlacedAt(B, D, k)
    <3>1. \A x : (x \in D /\ Cardinality({y \in D : later(y, x)}) = k - 1) <=> (x \in D /\ Ahead(B, D, x) = k - 1)
      BY <2>1
    <3>. QED  BY <3>1 DEF PlacedAt
  <2>. HIDE DEF o
  <2>. QED  BY <1>2, <2>2
<1>9. Lined(o, D, N)
  <2>. HIDE DEF o, later, B
  <2>. QED  BY <1>1, <1>7, <1>8, LinedUp DEF N
<1>. HIDE DEF o, N, B
<1>10. /\ N \in Nat /\ o \in Seq(D) /\ Len(o) = N
       /\ \A i, j \in 1..N : o[i] = o[j] => i = j
       /\ \A x \in D : \E n \in 1..N : o[n] = x
  BY <1>9 DEF Lined
<1>11. /\ m \in Nat /\ m <= N /\ Len(days) = m /\ DOMAIN days = 1..m /\ \A i \in 1..m : days[i] = o[i]
  <2>1. /\ FirstOf(90, o) \in Seq(D) /\ m \in Nat /\ m <= Len(o) /\ Len(FirstOf(90, o)) = m
        /\ DOMAIN FirstOf(90, o) = 1..m /\ \A i \in 1..m : FirstOf(90, o)[i] = o[i]
    <3> DEFINE most == 90
    <3>1. most \in Nat /\ o \in Seq(D) /\ m = (IF Len(o) < most THEN Len(o) ELSE most)
      BY <1>10
    <3>. HIDE DEF m, most
    <3>2. /\ FirstOf(most, o) \in Seq(D) /\ m \in Nat /\ m <= Len(o) /\ Len(FirstOf(most, o)) = m
          /\ DOMAIN FirstOf(most, o) = 1..m /\ \A i \in 1..m : FirstOf(most, o)[i] = o[i]
      BY <3>1, FirstOfList
    <3>. QED  BY <3>2 DEF most
  <2>. QED  BY <1>10, <2>1
<1>. HIDE DEF days, ts
<1>12. Len(ts) = m
  <2>1. ts = [i \in 1..m |-> ts[i]]
    BY <1>5, <1>11
  <2>. HIDE DEF m
  <2>2. ts \in [1..m -> {ts[i] : i \in 1..m}]
    BY <2>1
  <2>. QED  BY <1>11, <2>2
<1>13. m = N
  <2>1. m < 90
    BY <1>12 DEF ts
  <2>. QED  BY <1>10, <2>1
<1>. HIDE DEF m
<1>14. DOMAIN ts = 1..m
  BY <1>5, <1>11
<1>15. \A i \in 1..m : m + 1 - i \in 1..m
  BY <1>11
<1>16. \A i \in 1..m : e[i] = days[Len(days) + 1 - i] /\ e[i] = o[m + 1 - i]
  BY <1>11, <1>15
<1>. HIDE DEF e
<1>17. \A i \in 1..m : /\ ts[i]["runs"] = Cardinality(OnDay(S, e[i]))
                       /\ ts[i]["failure_count"] = Cardinality(Failed(OnDay(S, e[i])))
  BY <1>4, <1>14, <1>16
<1>18. ASSUME NEW i \in 1..m, NEW j \in 1..m, e[i] = e[j]  PROVE i = j
  <2> DEFINE p == m + 1 - i
             q == m + 1 - j
  <2>1. p \in 1..N /\ q \in 1..N /\ o[p] = o[q]
    BY <1>13, <1>15, <1>16, <1>18
  <2>2. p = q
    <3>. HIDE DEF p, q
    <3>. QED  BY <1>10, <2>1
  <2>. QED  BY <1>11, <2>2
<1>19. ASSUME NEW r \in S  PROVE \E i \in 1..m : e[i] = r.day
  <2>1. PICK n \in 1..m : o[n] = r.day
    BY <1>3, <1>10, <1>13
  <2>2. m + 1 - n \in 1..m /\ m + 1 - (m + 1 - n) = n
    BY <1>11
  <2>3. e[m + 1 - n] = o[m + 1 - (m + 1 - n)]
    BY <1>16, <2>2
  <2>4. e[m + 1 - n] = r.day
    BY <2>1, <2>2, <2>3
  <2>. QED  BY <2>2, <2>4
<1>20. DaysOf(S, ts, e, m)
  BY <1>11, <1>14, <1>17, <1>18, <1>19 DEF DaysOf
<1>. QED  BY <1>20 DEF ts

LEMMA SeriesAddsUp ==
    ASSUME NEW S, Shown(S), NEW ts, NEW e, NEW L, DaysOf(S, ts, e, L)
    PROVE  SumOf(ts, "runs") = Cardinality(S) /\ SumOf(ts, "failure_count") = Cardinality(Failed(S))
<1> DEFINE K == 1..L
<1>1. /\ L \in Nat /\ DOMAIN ts = K
      /\ \A i \in K : /\ ts[i]["runs"] = Cardinality(OnDay(S, e[i]))
                      /\ ts[i]["failure_count"] = Cardinality(Failed(OnDay(S, e[i])))
      /\ \A i, j \in K : e[i] = e[j] => i = j
      /\ \A r \in S : \E i \in K : e[i] = r.day
  BY DEF DaysOf
<1>2. IsFiniteSet(K)
  BY <1>1, FS_Interval
<1>3. IsFiniteSet(S) /\ Failed(S) \in SUBSET S
  BY DEF Shown, Failed
<1>. HIDE DEF K
<1>4. SumOf(ts, "runs") = Cardinality(S)
  <2> DEFINE P == [i \in K |-> OnDay(S, e[i])]
             f == [i \in K |-> Cardinality(P[i])]
  <2>1. [i \in DOMAIN ts |-> ts[i]["runs"]] = f
    BY <1>1
  <2>2. \A i \in K : P[i] = OnDay(S, e[i])
    OBVIOUS
  <2>. HIDE DEF P
  <2>3. Parts(P, K, S)
    <3>1. \A i \in K : P[i] \in SUBSET S
      BY <2>2 DEF OnDay
    <3>2. \A i, j \in K : i # j => P[i] \cap P[j] = {}
      BY <1>1, <2>2 DEF OnDay
    <3>. QED  BY <1>2, <1>3, <3>1, <3>2 DEF Parts
  <2>4. UNION {P[i] : i \in K} = S
    BY <1>1, <2>2 DEF OnDay
  <2>5. SumFunction(f) = Cardinality(UNION {P[i] : i \in K})
    BY <2>3, SumOfParts
  <2>. HIDE DEF f
  <2>. QED  BY <2>1, <2>4, <2>5 DEF SumOf
<1>5. SumOf(ts, "failure_count") = Cardinality(Failed(S))
  <2> DEFINE P == [i \in K |-> Failed(OnDay(S, e[i]))]
             f == [i \in K |-> Cardinality(P[i])]
  <2>1. [i \in DOMAIN ts |-> ts[i]["failure_count"]] = f
    BY <1>1
  <2>2. \A i \in K : \A r : r \in P[i] <=> r \in Failed(S) /\ r.day = e[i]
    BY DEF Failed, OnDay
  <2>3. \A i \in K : P[i] \in SUBSET Failed(S)
    BY DEF Failed, OnDay
  <2>. HIDE DEF P
  <2>4. Parts(P, K, Failed(S))
    <3>1. \A i, j \in K : i # j => P[i] \cap P[j] = {}
      BY <1>1, <2>2
    <3>2. IsFiniteSet(Failed(S))
      BY <1>3, FS_Subset
    <3>. QED  BY <1>2, <2>3, <3>1, <3>2 DEF Parts
  <2>5. UNION {P[i] : i \in K} = Failed(S)
    <3>1. UNION {P[i] : i \in K} \subseteq Failed(S)
      BY <2>3
    <3>2. ASSUME NEW r \in Failed(S)  PROVE \E i \in K : r \in P[i]
      <4>1. PICK i \in K : e[i] = r.day
        BY <1>1, <1>3
      <4>. QED  BY <2>2, <4>1
    <3>. QED  BY <3>1, <3>2
  <2>6. SumFunction(f) = Cardinality(UNION {P[i] : i \in K})
    BY <2>4, SumOfParts
  <2>. HIDE DEF f
  <2>. QED  BY <2>1, <2>5, <2>6 DEF SumOf
<1>. QED  BY <1>4, <1>5

LEMMA LabelsAddUp ==
    ASSUME NEW S, Shown(S)
    PROVE  LET counts == Count(Evaluated(S), Failure)
               labels == DOMAIN counts \ {"NO_FAILURE"}
           IN  SumFunction([f \in labels |-> counts[f]]) = Cardinality(Failed(S))
<1> DEFINE E == Evaluated(S)
           D == UNION {Failure(r) : r \in E}
           counts == Count(E, Failure)
           labels == D \ {"NO_FAILURE"}
           P == [v \in D |-> {r \in E : v \in Failure(r)}]
           f == [v \in labels |-> Cardinality(P[v])]
<1>1. DOMAIN counts = D /\ \A v \in D : counts[v] = Cardinality(P[v])
  BY DEF Count
<1>2. IsFiniteSet(E) /\ E \in SUBSET S /\ \A r \in E : r.ev # None
  <2>1. E \in SUBSET S /\ \A r \in E : r.ev # None
    BY DEF Evaluated
  <2>2. IsFiniteSet(S)
    BY DEF Shown
  <2>. HIDE DEF E
  <2>. QED  BY <2>1, <2>2, FS_Subset
<1>3. \A r \in E : \A v, w \in Failure(r) : v = w
  <2>1. SUFFICES ASSUME NEW r \in E  PROVE \A v, w \in Failure(r) : v = w
    OBVIOUS
  <2>2. Row(r) \in r.ev
    BY <1>2 DEF Row, The, None
  <2>3. \A v, w \in Row(r).failure : v = w
    BY <1>2, <2>2 DEF Shown
  <2>. QED  BY <2>3 DEF Failure
<1>4. \A r : r \in Failed(S) <=> r \in E /\ Failure(r) \ {"NO_FAILURE"} # {}
  BY DEF Failed, IsFailure, Evaluated
<1>5. \A v \in D : \A r : r \in P[v] <=> r \in E /\ v \in Failure(r)
  OBVIOUS
<1>6. \A r \in E : \A v \in Failure(r) : v \in D
  OBVIOUS
<1>7. IsFiniteSet(D)
  <2> DEFINE g == [r \in E |-> Failure(r)]
             W == {g[r] : r \in E}
  <2>1. ASSUME NEW r \in E  PROVE IsFiniteSet(Failure(r))
    <3>1. CASE Failure(r) = {}
      BY <3>1, FS_EmptySet
    <3>2. CASE Failure(r) # {}
      <4>1. PICK v \in Failure(r) : TRUE
        BY <3>2
      <4>2. Failure(r) = {v}
        BY <1>3, <4>1
      <4>. QED  BY <4>2, FS_Singleton
    <3>. QED  BY <3>1, <3>2
  <2>2. D = UNION W /\ \A s \in W : IsFiniteSet(s)
    BY <2>1
  <2>. HIDE DEF g
  <2>3. IsFiniteSet(W)
    BY <1>2, ImageIsFinite
  <2>. HIDE DEF W, D
  <2>. QED  BY <2>2, <2>3, FS_UNION
<1>. HIDE DEF D, P, E, counts
<1>8. IsFiniteSet(labels) /\ IsFiniteSet(Failed(S))
  <2>1. labels \subseteq D /\ Failed(S) \subseteq E
    BY <1>4
  <2>. HIDE DEF labels
  <2>. QED  BY <1>2, <1>7, <2>1, FS_Subset
<1>9. Parts(P, labels, Failed(S))
  <2>1. \A v \in labels : P[v] \in SUBSET Failed(S)
    BY <1>4, <1>5
  <2>2. \A v, w \in labels : v # w => P[v] \cap P[w] = {}
    BY <1>3, <1>5
  <2>. HIDE DEF labels
  <2>. QED  BY <1>8, <2>1, <2>2 DEF Parts
<1>10. UNION {P[v] : v \in labels} = Failed(S)
  <2>1. \A v \in labels : P[v] \in SUBSET Failed(S)
    BY <1>4, <1>5
  <2>2. ASSUME NEW r \in Failed(S)  PROVE \E v \in labels : r \in P[v]
    <3>1. PICK v \in Failure(r) : v # "NO_FAILURE"
      BY <1>4
    <3>. QED  BY <1>4, <1>5, <1>6, <3>1
  <2>. HIDE DEF labels
  <2>. QED  BY <2>1, <2>2
<1>11. [v \in DOMAIN counts \ {"NO_FAILURE"} |-> counts[v]] = f
  BY <1>1
<1>. HIDE DEF labels
<1>12. SumFunction(f) = Cardinality(UNION {P[v] : v \in labels})
  BY <1>9, SumOfParts
<1>. HIDE DEF f
<1>13. SumFunction([v \in DOMAIN counts \ {"NO_FAILURE"} |-> counts[v]]) = Cardinality(Failed(S))
  BY <1>10, <1>11, <1>12
<1>. QED  BY <1>13 DEF counts, E

LEMMA ConfigsAddUp ==
    ASSUME NEW S, Shown(S)
    PROVE  LET by_config == _failure_analysis(S).by_config
           IN  SumFunction([c \in DOMAIN by_config |-> by_config[c].total]) = Cardinality(Failed(S))
<1> DEFINE F == Failed(S)
           K == {r.config : r \in F}
           h == [r \in F |-> r.config]
           P == [c \in K |-> {r \in F : r.config = c}]
           f == [c \in K |-> Cardinality(P[c])]
           by_config == _failure_analysis(S).by_config
<1>1. DOMAIN by_config = K /\ \A c \in K : by_config[c].total = Cardinality(P[c])
  BY DEF _failure_analysis, Failed
<1>2. IsFiniteSet(F)
  <2>1. F \subseteq S /\ IsFiniteSet(S)
    BY DEF Failed, Shown
  <2>. HIDE DEF F
  <2>. QED  BY <2>1, FS_Subset
<1>3. [c \in DOMAIN by_config |-> by_config[c].total] = f
  BY <1>1
<1>4. IsFiniteSet(K)
  <2>1. K = {h[r] : r \in F}
    OBVIOUS
  <2>. HIDE DEF h, K
  <2>2. IsFiniteSet({h[r] : r \in F})
    BY <1>2, ImageIsFinite
  <2>. QED  BY <2>1, <2>2
<1>. HIDE DEF F
<1>5. (\A r \in F : r.config \in K) /\ \A c \in K : \A r : r \in P[c] <=> r \in F /\ r.config = c
  OBVIOUS
<1>. HIDE DEF K, P, by_config
<1>6. Parts(P, K, F) /\ UNION {P[c] : c \in K} = F
  <2>1. \A c \in K : P[c] \in SUBSET F
    BY <1>5
  <2>2. \A c, d \in K : c # d => P[c] \cap P[d] = {}
    BY <1>5
  <2>3. \A r \in F : \E c \in K : r \in P[c]
    BY <1>5
  <2>. QED  BY <1>2, <1>4, <2>1, <2>2, <2>3 DEF Parts
<1>7. SumFunction(f) = Cardinality(UNION {P[c] : c \in K})
  BY <1>6, SumOfParts
<1>. HIDE DEF f
<1>8. SumFunction([c \in DOMAIN by_config |-> by_config[c].total]) = Cardinality(Failed(S))
  BY <1>3, <1>6, <1>7 DEF F
<1>. QED  BY <1>8 DEF by_config

LEMMA NewestIsLined ==
    ASSUME NEW S, Shown(S)
    PROVE  Lined(NewestFirst(S), S, Cardinality(S))
<1> DEFINE N == Cardinality(S)
           later(a, b) == a.day > b.day \/ (a.day = b.day /\ a.id > b.id)
           B == {p \in S \X S : later(p[1], p[2])}
           o == NewestFirst(S)
<1>1. IsFiniteSet(S) /\ (\A a, b \in S : a.id = b.id => a = b) /\ \A r \in S : r.day \in Int /\ r.id \in Int
  BY DEF Shown, RunRow
<1>2. o = [k \in 1..N |-> CHOOSE x \in S : Cardinality({y \in S : later(y, x)}) = k - 1]
  BY DEF NewestFirst, Ordered
<1>3. \A a, b \in S : <<a, b>> \in B <=> later(a, b)
  OBVIOUS
<1>4. StrictOrder(B, S)
  <2>1. \A a \in S : ~later(a, a)
    BY <1>1
  <2>2. \A a, b, c \in S : later(a, b) /\ later(b, c) => later(a, c)
    <3>1. SUFFICES ASSUME NEW a \in S, NEW b \in S, NEW c \in S, later(a, b), later(b, c)  PROVE later(a, c)
      OBVIOUS
    <3>2. /\ a.day \in Int /\ b.day \in Int /\ c.day \in Int
          /\ a.id \in Int /\ b.id \in Int /\ c.id \in Int
      BY <1>1
    <3>. QED  BY <3>1, <3>2
  <2>3. \A a, b \in S : a = b \/ later(a, b) \/ later(b, a)
    <3>1. SUFFICES ASSUME NEW a \in S, NEW b \in S, a # b  PROVE later(a, b) \/ later(b, a)
      OBVIOUS
    <3>2. a.day \in Int /\ b.day \in Int /\ a.id \in Int /\ b.id \in Int /\ a.id # b.id
      BY <1>1, <3>1
    <3>. QED  BY <3>2
  <2>. HIDE DEF later, B
  <2>. QED  BY <1>3, <2>1, <2>2, <2>3 DEF StrictOrder
<1>5. o = [k \in 1..N |-> PlacedAt(B, S, k)]
  <2>1. \A x \in S : Cardinality({y \in S : later(y, x)}) = Ahead(B, S, x)
    <3>1. ASSUME NEW x \in S  PROVE {y \in S : later(y, x)} = {y \in S : <<y, x>> \in B}
      <4>. HIDE DEF later, B
      <4>. QED  BY <1>3
    <3>. HIDE DEF later, B
    <3>. QED  BY <3>1 DEF Ahead
  <2>. HIDE DEF later, B
  <2>2. ASSUME NEW k \in 1..N
        PROVE  (CHOOSE x \in S : Cardinality({y \in S : later(y, x)}) = k - 1) = PlacedAt(B, S, k)
    <3>1. \A x : (x \in S /\ Cardinality({y \in S : later(y, x)}) = k - 1) <=> (x \in S /\ Ahead(B, S, x) = k - 1)
      BY <2>1
    <3>. QED  BY <3>1 DEF PlacedAt
  <2>. HIDE DEF o
  <2>. QED  BY <1>2, <2>2
<1>. HIDE DEF later, B, o
<1>6. Lined(o, S, N)
  BY <1>1, <1>4, <1>5, LinedUp DEF N
<1>. QED  BY <1>6 DEF o, N

\* The first twenty.
LEMMA NewestTwenty ==
    ASSUME NEW S, Shown(S), NEW o, o = NewestFirst(S), NEW s, s = FirstOf(20, o)
    PROVE  /\ o \in Seq(S) /\ s \in Seq(S) /\ DOMAIN s = 1..Len(s) /\ Len(s) \in Nat
           /\ \A i \in DOMAIN s : s[i] \in S
           /\ Cardinality(S) <= 20 => s = o
<1> DEFINE most == 20
           m == IF Len(o) < most THEN Len(o) ELSE most
<1>1. Lined(o, S, Cardinality(S))
  BY NewestIsLined
<1>2. o \in Seq(S) /\ Len(o) = Cardinality(S) /\ Len(o) \in Nat
  BY <1>1 DEF Lined
<1>3. s = FirstOf(most, o) /\ most \in Nat
  OBVIOUS
<1>4. Cardinality(S) <= 20 => m = Len(o)
  BY <1>2
<1>. HIDE DEF most
<1>5. m = (IF Len(o) < most THEN Len(o) ELSE most)
  OBVIOUS
<1>. HIDE DEF m
<1>6. /\ FirstOf(most, o) \in Seq(S) /\ m \in Nat /\ Len(FirstOf(most, o)) = m /\ DOMAIN FirstOf(most, o) = 1..m
      /\ m = Len(o) => FirstOf(most, o) = o
  BY <1>2, <1>3, <1>5, FirstOfList
<1>7. s \in Seq(S) /\ Len(s) = m /\ m \in Nat /\ DOMAIN s = 1..m
  BY <1>3, <1>6
<1>8. \A i \in DOMAIN s : s[i] \in S
  BY <1>7
<1>9. Cardinality(S) <= 20 => s = o
  BY <1>3, <1>4, <1>6
<1>. QED  BY <1>2, <1>7, <1>8, <1>9

\* The recent runs of an evaluator, counted by their places.
LEMMA PlacesOfType ==
    ASSUME NEW S, Shown(S), Cardinality(S) <= 20, NEW t
    PROVE  LET recent == RecentRuns(S)
           IN  Cardinality({i \in DOMAIN recent : recent[i].evaluator_type = t})
                   = Cardinality({r \in S : EvaluatorType(r) = t})
<1> DEFINE o == NewestFirst(S)
           N == Cardinality(S)
           recent == RecentRuns(S)
           I == {i \in 1..N : EvaluatorType(o[i]) = t}
           T == {r \in S : EvaluatorType(r) = t}
<1>1. Lined(o, S, N)
  BY NewestIsLined
<1>2. /\ N \in Nat /\ DOMAIN o = 1..N /\ (\A i \in 1..N : o[i] \in S)
      /\ (\A i, j \in 1..N : o[i] = o[j] => i = j) /\ \A x \in S : \E n \in 1..N : o[n] = x
  BY <1>1 DEF Lined
<1>3. FirstOf(20, o) = o
  BY NewestTwenty
<1>4. DOMAIN recent = 1..N /\ \A i \in 1..N : recent[i].evaluator_type = EvaluatorType(o[i])
  <2>1. DOMAIN recent = DOMAIN o /\ \A i \in DOMAIN o : recent[i].evaluator_type = EvaluatorType(o[i])
    BY <1>3 DEF RecentRuns
  <2>. QED  BY <1>2, <2>1
<1>. HIDE DEF o, N, recent
<1>5. {i \in DOMAIN recent : recent[i].evaluator_type = t} = I
  BY <1>4
<1>6. {o[i] : i \in I} = T
  BY <1>2
<1>7. IsFiniteSet(I)
  <2>1. IsFiniteSet(1..N) /\ I \subseteq 1..N
    BY <1>2, FS_Interval
  <2>. HIDE DEF I
  <2>. QED  BY <2>1, FS_Subset
<1>8. \A i, j \in I : o[i] = o[j] => i = j
  BY <1>2
<1>. HIDE DEF I, T
<1>9. Cardinality({o[i] : i \in I}) = Cardinality(I)
  BY <1>7, <1>8, ImageIsFinite
<1>10. Cardinality({i \in DOMAIN recent : recent[i].evaluator_type = t}) = Cardinality(T)
  BY <1>5, <1>6, <1>9
<1>. QED  BY <1>10 DEF recent, T

LEMMA RecentAddUp ==
    ASSUME NEW S, Shown(S), Cardinality(S) <= 20
    PROVE  LET recent(t) == Cardinality({i \in DOMAIN RecentRuns(S) : RecentRuns(S)[i].evaluator_type = t})
           IN  /\ recent("heuristic") = Cardinality(Bucket(S, "heuristic")) + Cardinality(LegacyRuns(S))
               /\ recent("llm") = Cardinality(Bucket(S, "llm"))
<1> DEFINE recent(t) == Cardinality({i \in DOMAIN RecentRuns(S) : RecentRuns(S)[i].evaluator_type = t})
           T == {r \in S : EvaluatorType(r) = "heuristic"}
           J == {r \in S : EvaluatorType(r) = "llm"}
           H == Bucket(S, "heuristic")
           L == LegacyRuns(S)
<1>1. recent("heuristic") = Cardinality(T) /\ recent("llm") = Cardinality(J)
  BY PlacesOfType
<1>2. ASSUME NEW r \in S
      PROVE  /\ EvaluatorType(r) = "llm" <=> r \in Bucket(S, "llm")
             /\ EvaluatorType(r) = "heuristic" <=> r \in L \/ r \in H
             /\ ~(r \in L /\ r \in H)
  <2>1. RunRow(r)
    BY DEF Shown
  <2>. QED  BY <2>1, EvaluatorOfRun DEF LegacyRuns, Bucket
<1>3. Bucket(S, "llm") \subseteq S /\ H \subseteq S /\ L \subseteq S /\ IsFiniteSet(S)
  BY DEF Bucket, LegacyRuns, Shown
<1>. HIDE DEF H, L
<1>4. J = Bucket(S, "llm")
  BY <1>2, <1>3
<1>5. Halves(T, H, L)
  BY <1>2, <1>3 DEF Halves
<1>6. IsFiniteSet(T)
  <2>1. T \subseteq S
    OBVIOUS
  <2>. HIDE DEF T
  <2>. QED  BY <1>3, <2>1, FS_Subset
<1>. HIDE DEF T, J, recent
<1>7. Cardinality(T) = Cardinality(H) + Cardinality(L)
  BY <1>5, <1>6, SplitInTwo
<1>8. /\ recent("heuristic") = Cardinality(H) + Cardinality(L)
      /\ recent("llm") = Cardinality(Bucket(S, "llm"))
  BY <1>1, <1>4, <1>7
<1>. QED  BY <1>8 DEF recent, H, L

\* A summary is what its queries answer for one slice.
LEMMA SummaryOfSlice ==
    ASSUME NEW runs, NEW dataset, NEW S, S = dashboard_aggregate_run_scope(runs, dataset),
           NEW o, o = get_dashboard_summary(runs, dataset)
    PROVE  /\ o.total_runs = Cardinality(S) /\ o.status = StatusCounts(S) /\ o.evaluator = EvaluatorCounts(S)
           /\ o.scale = ScaleMetrics(S) /\ o.cost = CostSummary(S) /\ o.recent_runs = RecentRuns(S)
           /\ o.failure_type_counts = Count(Evaluated(S), Failure)
           /\ o.model_failures = Cardinality(Failed(S))
           /\ o.latency["total"] = get_phase_latency_distribution(S, "total")
BY DEF get_dashboard_summary, Failed

LEMMA SliceIsShown ==
    ASSUME NEW runs, Database(runs), NEW dataset,
           \A r \in runs : r.day \in Nat /\ \A row \in r.ev : \A f, g \in row.failure : f = g
    PROVE  Shown(runs) /\ \A S \in SUBSET runs : Shown(S)
<1>1. ASSUME NEW S \in SUBSET runs  PROVE Shown(S)
  BY FS_Subset DEF Database, Shown
<1>. QED  BY <1>1

\* The page of the run list, as the list takes it of the newest runs.
Listed(Q) == FirstOf(20, NewestFirst(Q))

LEMMA ListOfSlice ==
    ASSUME NEW runs, NEW query, query.offset = 0, query.limit = 20,
           NEW Q, Q = Filtered(runs, query), Shown(Q), NEW listed, listed = list_runs(runs, query)
    PROVE  /\ listed.total = Cardinality(Q) /\ DOMAIN listed.items = DOMAIN Listed(Q)
           /\ \A i \in DOMAIN Listed(Q) : /\ listed.items[i].run_id = Listed(Q)[i].id
                                          /\ listed.items[i].evaluator_type = EvaluatorType(Listed(Q)[i])
<1> DEFINE all == NewestFirst(Q)
           page == FirstOf(query.limit, SubSeq(all, query.offset + 1, Len(all)))
<1>1. all \in Seq(Q)
  BY NewestTwenty
<1>2. SubSeq(all, 1, Len(all)) = all
  <2>. HIDE DEF all
  <2>. QED  BY <1>1
<1>3. query.offset + 1 = 1
  OBVIOUS
<1>4. page = Listed(Q)
  BY <1>2, <1>3 DEF Listed
<1>5. listed.total = Cardinality(Q)
  BY DEF list_runs, count_runs
<1>6. listed.items = [i \in DOMAIN page |-> [run_id |-> page[i].id, status |-> page[i].status,
                                             evaluator_type |-> EvaluatorType(page[i]),
                                             has_evaluation |-> page[i].ev # None]]
  BY DEF list_runs
<1>. HIDE DEF page
<1>. QED  BY <1>4, <1>5, <1>6

LEMMA RecentOfSlice ==
    ASSUME NEW S
    PROVE  /\ DOMAIN RecentRuns(S) = DOMAIN Listed(S)
           /\ \A i \in DOMAIN Listed(S) : RecentRuns(S)[i].run_id = Listed(S)[i].id
BY DEF RecentRuns, Listed

LEMMA FilteredIsSlice ==
    ASSUME NEW runs, NEW dataset, Optional(dataset)
    PROVE  /\ Filtered(runs, Everything(dataset)) \in SUBSET runs
           /\ dataset # None => Filtered(runs, Everything(dataset)) = dashboard_aggregate_run_scope(runs, dataset)
           /\ Everything(dataset).offset = 0 /\ Everything(dataset).limit = 20
<1>1. \A r : r \in Filtered(runs, Everything(dataset)) <=> r \in runs /\ dataset \subseteq {r.dataset}
  BY DEF Filtered, Everything, None
<1>2. ASSUME dataset # None
      PROVE  \A r : dataset \subseteq {r.dataset} <=> r.dataset \in dataset
  <2>1. PICK d \in dataset : TRUE
    BY <1>2 DEF None
  <2>2. dataset = {d}
    BY <2>1 DEF Optional
  <2>. QED  BY <2>2
<1>3. dataset # None => \A r : r \in dashboard_aggregate_run_scope(runs, dataset) <=> r \in runs /\ r.dataset \in dataset
  BY DEF dashboard_aggregate_run_scope
<1>4. Filtered(runs, Everything(dataset)) \in SUBSET runs
  BY <1>1
<1>5. dataset # None => Filtered(runs, Everything(dataset)) \subseteq dashboard_aggregate_run_scope(runs, dataset)
  BY <1>1, <1>2, <1>3
<1>6. dataset # None => dashboard_aggregate_run_scope(runs, dataset) \subseteq Filtered(runs, Everything(dataset))
  BY <1>1, <1>2, <1>3
<1>7. Everything(dataset).offset = 0 /\ Everything(dataset).limit = 20
  BY DEF Everything
<1>. QED  BY <1>4, <1>5, <1>6, <1>7

LEMMA ListAgreesWithSummary ==
    ASSUME Database(input.runs), Optional(input.dataset),
           \A r \in input.runs : r.day \in Nat /\ \A row \in r.ev : \A f, g \in row.failure : f = g,
           NEW o, o = get_dashboard_summary(input.runs, input.dataset)
    PROVE  ListAgrees(o, list_runs(input.runs, Everything(input.dataset)))
<1> DEFINE runs == input.runs
           dataset == input.dataset
           Q == Filtered(runs, Everything(dataset))
           listed == list_runs(runs, Everything(dataset))
           S == dashboard_aggregate_run_scope(runs, dataset)
           items == listed.items
<1>1. Q \in SUBSET runs /\ (dataset # None => Q = S) /\ Everything(dataset).offset = 0 /\ Everything(dataset).limit = 20
  BY FilteredIsSlice
<1>2. Shown(Q)
  <2>1. \A T \in SUBSET runs : Shown(T)
    BY SliceIsShown
  <2>. HIDE DEF Q, runs
  <2>. QED  BY <1>1, <2>1
<1>3. /\ listed.total = Cardinality(Q) /\ DOMAIN items = DOMAIN Listed(Q)
      /\ \A i \in DOMAIN Listed(Q) : /\ items[i].run_id = Listed(Q)[i].id
                                     /\ items[i].evaluator_type = EvaluatorType(Listed(Q)[i])
  <2>1. Q = Filtered(runs, Everything(dataset)) /\ listed = list_runs(runs, Everything(dataset))
    OBVIOUS
  <2>. HIDE DEF Q, listed, runs, dataset
  <2>. QED  BY <1>1, <1>2, <2>1, ListOfSlice
<1>4. o.total_runs = Cardinality(S) /\ o.recent_runs = RecentRuns(S)
  BY SummaryOfSlice
<1>5. \A i \in DOMAIN Listed(Q) : Listed(Q)[i] \in Q
  <2>. HIDE DEF Q
  <2>. QED  BY <1>2, NewestTwenty DEF Listed
<1>6. \A r, s \in runs : r.id = s.id => r = s
  BY DEF Database
<1>7. \A id : \A page \in get_run_detail(runs, id) : \E r \in runs : r.id = id /\ page.evaluator_type = EvaluatorType(r)
  BY DEF get_run_detail
<1>. HIDE DEF Q, S, runs, dataset, listed
<1>8. ASSUME NEW i \in DOMAIN items, NEW page \in get_run_detail(runs, items[i].run_id)
      PROVE  page.evaluator_type = items[i].evaluator_type
  <2>1. i \in DOMAIN Listed(Q)
    BY <1>3
  <2>2. Listed(Q)[i] \in runs /\ items[i].run_id = Listed(Q)[i].id
        /\ items[i].evaluator_type = EvaluatorType(Listed(Q)[i])
    BY <1>1, <1>3, <1>5, <2>1
  <2>3. PICK r \in runs : r.id = items[i].run_id /\ page.evaluator_type = EvaluatorType(r)
    BY <1>7
  <2>4. r = Listed(Q)[i]
    BY <1>6, <2>2, <2>3
  <2>. QED  BY <2>2, <2>3, <2>4
<1>9. ASSUME dataset # None
      PROVE  /\ listed.total = o.total_runs
             /\ [i \in DOMAIN items |-> items[i].run_id] = [i \in DOMAIN o.recent_runs |-> o.recent_runs[i].run_id]
  <2>1. Q = S
    BY <1>1, <1>9
  <2>2. DOMAIN RecentRuns(S) = DOMAIN Listed(S) /\ \A i \in DOMAIN Listed(S) : RecentRuns(S)[i].run_id = Listed(S)[i].id
    BY RecentOfSlice
  <2>3. DOMAIN items = DOMAIN o.recent_runs /\ \A i \in DOMAIN items : items[i].run_id = o.recent_runs[i].run_id
    BY <1>3, <1>4, <2>1, <2>2
  <2>. HIDE DEF items
  <2>. QED  BY <1>3, <1>4, <2>1, <2>3
<1>. QED  BY <1>8, <1>9 DEF ListAgrees, runs, dataset, listed

LEMMA ReportAgreesWithSummary ==
    ASSUME NEW o, o = get_dashboard_summary(input.runs, input.dataset)
    PROVE  ReportAgrees(o, aggregate_all_metrics(input.runs))
<1> DEFINE runs == input.runs
           report == aggregate_all_metrics(runs)
           S == Organic(runs)
           J == Bucket(S, "llm")
<1>1. SUFFICES ASSUME input.dataset = None
               PROVE  /\ report.counts.evaluation_rows["heuristic"] = o.evaluator.heuristic_runs
                      /\ report.counts.evaluation_rows["llm"] = o.evaluator.llm_runs
                      /\ report.counts.configs_tested = o.scale.configs_tested
                      /\ report.costs["llm"] = o.cost.llm.avg
                      /\ o.latency["total"].count > 0 =>
                             report.latencies.all["total"] = [avg |-> o.latency["total"].avg, p95 |-> o.latency["total"].p95]
  BY DEF ReportAgrees
<1>2. S = dashboard_aggregate_run_scope(runs, input.dataset)
  BY <1>1 DEF dashboard_aggregate_run_scope
<1>3. /\ o.evaluator = EvaluatorCounts(S) /\ o.scale = ScaleMetrics(S) /\ o.cost = CostSummary(S)
      /\ o.latency["total"] = get_phase_latency_distribution(S, "total")
  <2>. HIDE DEF S
  <2>. QED  BY <1>2, SummaryOfSlice DEF runs
<1>4. report.counts = Counts(runs) /\ report.costs = Costs(runs) /\ report.latencies = Latencies(runs)
  BY DEF aggregate_all_metrics
<1>5. /\ report.counts.evaluation_rows["heuristic"] = o.evaluator.heuristic_runs
      /\ report.counts.evaluation_rows["llm"] = o.evaluator.llm_runs
      /\ report.counts.configs_tested = o.scale.configs_tested
  <2>. HIDE DEF report, runs
  <2>. QED  BY <1>3, <1>4 DEF Counts, EvaluatorCounts, ScaleMetrics, Buckets
<1>6. report.costs["llm"] = o.cost.llm.avg
  <2>1. report.costs["llm"] = Mean(J, CostRow)
    <3>. HIDE DEF report, runs
    <3>. QED  BY <1>4 DEF Costs, Buckets
  <2>2. o.cost.llm.avg = Mean(Costed(J), CostRow)
    <3>. HIDE DEF S
    <3>. QED  BY <1>3 DEF CostSummary, MeanCost
  <2>3. \A r \in J : r.ev # None
    BY DEF Bucket, InBucket
  <2>. HIDE DEF J
  <2>4. {r \in Costed(J) : CostRow(r) # None} = {r \in J : CostRow(r) # None}
    BY <2>3 DEF Costed
  <2>5. Mean(J, CostRow) = Mean(Costed(J), CostRow)
    BY <2>4 DEF Mean
  <2>. QED  BY <2>1, <2>2, <2>5
<1>7. ASSUME o.latency["total"].count > 0
      PROVE  report.latencies.all["total"] = [avg |-> o.latency["total"].avg, p95 |-> o.latency["total"].p95]
  <2> DEFINE Value(r) == LatencyOf(r, "total")
             count == Cardinality({r \in S : Value(r) # None})
             d == get_phase_latency_distribution(S, "total")
  <2>1. report.latencies.all["total"] = [avg |-> Mean(S, Value), p95 |-> percentile_cont(95, S, Value)]
    <3>1. "total" \in Phases
      BY DEF Phases
    <3>. HIDE DEF report
    <3>. QED  BY <1>4, <3>1 DEF Latencies
  <2>2. d = IF count = 0 THEN [count |-> 0]
            ELSE [count |-> count, min |-> Least(S, "total"), max |-> Most(S, "total"), avg |-> Mean(S, Value),
                  median |-> percentile_cont(50, S, Value), p95 |-> percentile_cont(95, S, Value)]
    BY DEF get_phase_latency_distribution
  <2>. HIDE DEF count, d, Value, S
  <2>3. d.count > 0
    BY <1>3, <1>7 DEF d
  <2>4. count # 0
    <3>1. CASE count = 0
      <4>1. d = [count |-> 0]
        BY <2>2, <3>1
      <4>2. d.count = 0
        BY <4>1
      <4>. QED  BY <2>3, <4>2
    <3>. QED  BY <3>1
  <2>5. d.avg = Mean(S, Value) /\ d.p95 = percentile_cont(95, S, Value)
    BY <2>2, <2>4
  <2>. QED  BY <1>3, <2>1, <2>5 DEF d
<1>. QED  BY <1>5, <1>6, <1>7

\* The parts of a slice are finite.
LEMMA PartsAreFinite ==
    ASSUME NEW S, Shown(S)
    PROVE  /\ \A t : Cardinality(Bucket(S, t)) \in Nat
           /\ Cardinality({r \in S : r.ev = None}) \in Nat
<1>1. IsFiniteSet(S)
  BY DEF Shown
<1>2. \A t : Bucket(S, t) \subseteq S
  BY DEF Bucket
<1>3. {r \in S : r.ev = None} \subseteq S
  OBVIOUS
<1>. QED  BY <1>1, <1>2, <1>3, FS_Subset, FS_CardinalityType

\* States, evaluators, days and recent runs of a slice add up.
LEMMA RunsOfSliceAddUp ==
    ASSUME Shown(Counted), NEW o, o = get_dashboard_summary(input.runs, input.dataset),
           NEW days, days = _time_series(Counted)
    PROVE  RunsAddUp(o, days)
<1> DEFINE S == Counted
           recent(t) == Cardinality({i \in DOMAIN o.recent_runs : o.recent_runs[i].evaluator_type = t})
<1>1. /\ o.total_runs = Cardinality(S) /\ o.status = StatusCounts(S) /\ o.evaluator = EvaluatorCounts(S)
      /\ o.scale = ScaleMetrics(S) /\ o.cost = CostSummary(S) /\ o.recent_runs = RecentRuns(S)
  BY SummaryOfSlice DEF Counted
<1>2. Typed => Cardinality(LegacyRuns(S)) = 0
  <2>1. Typed => LegacyRuns(S) = {}
    BY DEF Typed, LegacyRuns
  <2>. HIDE DEF S
  <2>. QED  BY <2>1, FS_EmptySet
<1>. HIDE DEF S
<1>0. Shown(S)
  BY DEF S
<1>3. o.total_runs = o.status.completed + o.status.failed + o.status.in_progress
  <2>1. /\ o.status.completed = Cardinality(Status(S, {"completed"})) /\ o.status.failed = Cardinality(Status(S, {"failed"}))
        /\ o.status.in_progress = Cardinality({r \in S : r.status \notin {"completed", "failed"}})
    BY <1>1 DEF StatusCounts
  <2>. QED  BY <1>0, <1>1, <2>1, StatesAddUp
<1>4. /\ o.evaluator.heuristic_runs = Cardinality(Bucket(S, "heuristic"))
      /\ o.evaluator.llm_runs = Cardinality(Bucket(S, "llm"))
      /\ o.evaluator.runs_without_evaluation = Cardinality({r \in S : r.ev = None})
  BY <1>1 DEF EvaluatorCounts
<1>5. Typed => o.total_runs = o.evaluator.heuristic_runs + o.evaluator.llm_runs
                                  + o.evaluator.runs_without_evaluation
  <2>1. Cardinality(S) = Cardinality(LegacyRuns(S)) + Cardinality(Bucket(S, "heuristic"))
                             + Cardinality(Bucket(S, "llm")) + Cardinality({r \in S : r.ev = None})
    BY <1>0, EvaluatorsAddUp
  <2>2. /\ Cardinality(Bucket(S, "heuristic")) \in Nat /\ Cardinality(Bucket(S, "llm")) \in Nat
        /\ Cardinality({r \in S : r.ev = None}) \in Nat
    BY <1>0, PartsAreFinite
  <2>. QED  BY <1>1, <1>2, <1>4, <2>1, <2>2
<1>6. Len(days) < 90 => o.total_runs = SumOf(days, "runs")
  <2>1. SUFFICES ASSUME Len(days) < 90  PROVE Cardinality(S) = SumOf(days, "runs")
    BY <1>1
  <2>2. days = _time_series(S)
    BY DEF S
  <2>3. PICK e, L : DaysOf(S, days, e, L)
    BY <1>0, <2>1, <2>2, SeriesShowsDays
  <2>. QED  BY <1>0, <2>3, SeriesAddsUp
<1>7. o.total_runs <= 20 => /\ recent("llm") = o.evaluator.llm_runs
                            /\ Typed => recent("heuristic") = o.evaluator.heuristic_runs
  <2>1. SUFFICES ASSUME Cardinality(S) <= 20
                 PROVE  /\ recent("llm") = Cardinality(Bucket(S, "llm"))
                        /\ Typed => recent("heuristic") = Cardinality(Bucket(S, "heuristic"))
    BY <1>1, <1>4
  <2>2. \A t : recent(t) = Cardinality({i \in DOMAIN RecentRuns(S) : RecentRuns(S)[i].evaluator_type = t})
    BY <1>1
  <2>3. Cardinality(Bucket(S, "heuristic")) \in Nat
    BY <1>0, PartsAreFinite
  <2>. HIDE DEF recent
  <2>4. /\ recent("heuristic") = Cardinality(Bucket(S, "heuristic")) + Cardinality(LegacyRuns(S))
        /\ recent("llm") = Cardinality(Bucket(S, "llm"))
    BY <1>0, <2>1, <2>2, RecentAddUp
  <2>. QED  BY <1>2, <2>3, <2>4
<1>8. o.cost.all.count + o.cost.not_available = o.scale.total_traced_runs
  <2> DEFINE E == Evaluated(S)
             x == Cardinality(Costed(E))
             y == Cardinality(E \ Costed(E))
  <2>1. o.cost.all = MeanCost(E) /\ o.cost.not_available = y
    BY <1>1 DEF CostSummary
  <2>2. o.cost.all.count = x
    BY <2>1 DEF MeanCost
  <2>3. o.scale.total_traced_runs = Cardinality(E)
    BY <1>1 DEF ScaleMetrics
  <2>4. Cardinality(E) = x + y
    BY <1>0, CostsAddUp
  <2>. QED  BY <2>1, <2>2, <2>3, <2>4
<1>. QED  BY <1>3, <1>5, <1>6, <1>7, <1>8 DEF RunsAddUp

LEMMA FailuresOfSliceAddUp ==
    ASSUME Shown(Counted), NEW o, o = get_dashboard_summary(input.runs, input.dataset),
           NEW days, days = _time_series(Counted), NEW by_config, by_config = _failure_analysis(Counted).by_config
    PROVE  FailuresAddUp(o, days, by_config)
<1> DEFINE S == Counted
           counts == o.failure_type_counts
<1>1. counts = Count(Evaluated(S), Failure) /\ o.model_failures = Cardinality(Failed(S))
  BY SummaryOfSlice DEF Counted
<1>. HIDE DEF S
<1>2. Shown(S) /\ days = _time_series(S) /\ by_config = _failure_analysis(S).by_config
  BY DEF S
<1>. HIDE DEF counts
<1>3. Cardinality(Failed(S)) = SumFunction([f \in DOMAIN counts \ {"NO_FAILURE"} |-> counts[f]])
  BY <1>1, <1>2, LabelsAddUp
<1>4. Len(days) < 90 => Cardinality(Failed(S)) = SumOf(days, "failure_count")
  <2>1. SUFFICES ASSUME Len(days) < 90  PROVE Cardinality(Failed(S)) = SumOf(days, "failure_count")
    OBVIOUS
  <2>2. PICK e, L : DaysOf(S, days, e, L)
    BY <1>2, <2>1, SeriesShowsDays
  <2>. QED  BY <1>2, <2>2, SeriesAddsUp
<1>5. Cardinality(Failed(S)) = SumFunction([c \in DOMAIN by_config |-> by_config[c].total])
  BY <1>2, ConfigsAddUp
<1>. QED  BY <1>1, <1>3, <1>4, <1>5 DEF FailuresAddUp, counts

(* SummaryAddsUp (Algorithms): states, evaluators, costs, labels, days and configurations of   *)
(* a slice add up to its total, and the summary, the run list, the page of a run and the        *)
(* metrics report agree, for every database and dataset of the assumptions                      *)
(* (dashboard_summary.py:48-300, dashboard_analytics.py:38-205, run_list.py:21-114,              *)
(* metrics/aggregate.py:118-316).                                                                *)
THEOREM Summing == Spec => []SummaryAddsUp
<1>1. ASSUME Given, input.call = "summary"
      PROVE  SummaryAddsUp
  <2> DEFINE runs == input.runs
             dataset == input.dataset
             o == get_dashboard_summary(runs, dataset)
             a == get_dashboard_analytics(runs, dataset)
  <2>1. /\ Database(runs) /\ Optional(dataset)
        /\ \A r \in runs : r.day \in Nat /\ \A row \in r.ev : \A f, g \in row.failure : f = g
    <3>1. PICK given \in Databases, d \in Datasets : runs = given /\ dataset = d
      BY <1>1 DEF Given, SummaryInput
    <3>. QED  BY <3>1, DatabasesAssumption, DashboardsAssumption
  <2>2. Shown(Counted)
    <3>1. Counted \in SUBSET runs
      BY DEF Counted, dashboard_aggregate_run_scope, Organic
    <3>2. \A S \in SUBSET runs : Shown(S)
      BY <2>1, SliceIsShown
    <3>. QED  BY <3>1, <3>2
  <2>3. a.time_series = _time_series(Counted) /\ a.failures.by_config = _failure_analysis(Counted).by_config
    BY DEF get_dashboard_analytics, Counted
  <2>. HIDE DEF a
  <2>4. RunsAddUp(o, a.time_series)
    BY <2>2, <2>3, RunsOfSliceAddUp
  <2>5. FailuresAddUp(o, a.time_series, a.failures.by_config)
    BY <2>2, <2>3, FailuresOfSliceAddUp
  <2>6. ListAgrees(o, list_runs(runs, Everything(dataset)))
    BY <2>1, ListAgreesWithSummary
  <2>7. ReportAgrees(o, aggregate_all_metrics(runs))
    BY ReportAgreesWithSummary
  <2>. HIDE DEF o
  <2>8. \A x \in {o}, y \in {a} : /\ RunsAddUp(x, y.time_series) /\ FailuresAddUp(x, y.time_series, y.failures.by_config)
                                  /\ ListAgrees(x, list_runs(runs, Everything(dataset)))
                                  /\ ReportAgrees(x, aggregate_all_metrics(runs))
    BY <2>4, <2>5, <2>6, <2>7
  <2>. QED  BY <2>8 DEF SummaryAddsUp, o, a
<1>2. Given => SummaryAddsUp
  BY <1>1 DEF SummaryAddsUp
<1>. QED  BY <1>2, GivenInvariant, PTL
=============================================================================
