--------------------------- MODULE JudgingProofs ----------------------------
(***************************************************************************)
(* What Judging checks on a pool of inputs holds of every input: there is  *)
(* one call, so that the theorems rest on lemmas about the operators of    *)
(* Evaluation and on no invariant but the shape of the input.              *)
(***************************************************************************)
EXTENDS Algorithms, Induction

-----------------------------------------------------------------------------
(* Values that may be missing. *)

\* The one element of a set, and zero for the empty one.
LEMMA OptionalValue ==
    ASSUME NEW x, Optional(x)
    PROVE  /\ ValueOf(x) \in Nat
           /\ x # None => x = {ValueOf(x)}
           /\ x = None => ValueOf(x) = 0
BY DEF Optional, ValueOf, The, None

\* A sum of two counts is missing only when both are.
LEMMA SumIsOptional ==
    ASSUME NEW x, NEW y, Optional(x), Optional(y)
    PROVE  /\ Optional(SumTokens(x, y))
           /\ ValueOf(SumTokens(x, y)) = ValueOf(x) + ValueOf(y)
           /\ SumTokens(x, y) = None <=> x = None /\ y = None
<1>1. CASE x = None /\ y = None
  BY <1>1, OptionalValue DEF SumTokens, Optional, None
<1>2. CASE ~(x = None /\ y = None)
  <2>1. SumTokens(x, y) = {ValueOf(x) + ValueOf(y)}
    BY <1>2 DEF SumTokens, None
  <2>2. ValueOf(x) \in Nat /\ ValueOf(y) \in Nat
    BY OptionalValue
  <2>3. Optional(SumTokens(x, y))
    BY <2>1, <2>2 DEF Optional
  <2>4. SumTokens(x, y) # None
    BY <2>1 DEF None
  <2>. QED  BY <1>2, <2>1, <2>3, <2>4, OptionalValue
<1>. QED  BY <1>1, <1>2

\* Rounding moves a cost by at most half a millionth.
LEMMA HalfEvenIsNear ==
    ASSUME NEW n \in Int
    PROVE  HalfEven(n, 10) \in Int /\ HalfEven(n, 10) * 10 - n \in -5..5
BY DEF HalfEven

-----------------------------------------------------------------------------
(* Costs. *)

\* An estimate is missing without a price or a count, and near what was used.
LEMMA EstimateIsNear ==
    ASSUME NEW rates, rates.input \in Int, rates.output \in Int,
           NEW x, NEW y, Optional(x), Optional(y)
    PROVE  LET usd == estimate_usd_from_tokens(rates, x, y)
               exact == Charged(rates.input) * ValueOf(x) + Charged(rates.output) * ValueOf(y)
           IN  /\ usd \subseteq Int /\ \A a, b \in usd : a = b
               /\ usd = None <=> \/ Charged(rates.input) = 0 /\ Charged(rates.output) = 0
                                 \/ x = None /\ y = None
               /\ exact \in Int
               /\ usd = None => exact = 0
               /\ \A a \in usd : a * 10 - exact \in -5..5
<1> DEFINE exact == Charged(rates.input) * ValueOf(x) + Charged(rates.output) * ValueOf(y)
           sum == (IF rates.input > 0 THEN rates.input * ValueOf(x) ELSE 0)
                  + (IF rates.output > 0 THEN rates.output * ValueOf(y) ELSE 0)
           usd == estimate_usd_from_tokens(rates, x, y)
<1>1. ValueOf(x) \in Nat /\ ValueOf(y) \in Nat
  BY OptionalValue
<1>2. exact \in Int /\ sum = exact
  BY <1>1 DEF Charged
<1>3. /\ Charged(rates.input) = 0 <=> rates.input <= 0
      /\ Charged(rates.output) = 0 <=> rates.output <= 0
  BY DEF Charged
<1>4. CASE (rates.input <= 0 /\ rates.output <= 0) \/ (x = None /\ y = None)
  <2>1. usd = None
    BY <1>4 DEF estimate_usd_from_tokens
  <2>2. CASE rates.input <= 0 /\ rates.output <= 0
    <3>1. Charged(rates.input) = 0 /\ Charged(rates.output) = 0
      BY <1>3, <2>2
    <3>2. exact = 0
      BY <3>1, <1>1
    <3>. QED  BY <2>1, <2>2, <3>1, <3>2 DEF None
  <2>3. CASE x = None /\ y = None
    <3>1. ValueOf(x) = 0 /\ ValueOf(y) = 0
      BY <2>3, OptionalValue
    <3>2. Charged(rates.input) \in Nat /\ Charged(rates.output) \in Nat
      BY DEF Charged
    <3>3. exact = 0
      BY <3>1, <3>2
    <3>. QED  BY <2>1, <2>3, <3>3 DEF None
  <2>. QED  BY <1>4, <2>2, <2>3
<1>5. CASE ~((rates.input <= 0 /\ rates.output <= 0) \/ (x = None /\ y = None))
  <2>1. usd = {HalfEven(exact, 10)}
    BY <1>5, <1>2 DEF estimate_usd_from_tokens
  <2>2. HalfEven(exact, 10) \in Int /\ HalfEven(exact, 10) * 10 - exact \in -5..5
    BY <1>2, HalfEvenIsNear
  <2>. QED  BY <2>1, <2>2, <1>2, <1>3, <1>5 DEF None
<1>. QED  BY <1>4, <1>5
-----------------------------------------------------------------------------
(* The answers of the judge. *)

\* An answer parses exactly when it is clean, and something was read from it
\* exactly when it holds an object.
LEMMA ReadAnswer ==
    ASSUME NEW raw \in Raw, NEW data \in Data
    PROVE  LET x == extract_judge_json_object(raw)
               p == parse_judge_payload(data, x.found)
           IN  /\ x.found <=> HoldsObject(raw)
               /\ _compute_judge_parse_ok(x.warnings \cup p.warnings) <=> Clean(raw)
<1> DEFINE x == extract_judge_json_object(raw)
           p == parse_judge_payload(data, x.found)
<1>0. /\ raw.fence \in {"object", "invalid", "none"} /\ raw.brace \in {"object", "invalid", "none"}
      /\ raw.whole \in {"object", "other", "invalid", "none"}
  BY DEF Raw
<1>1. p.warnings \cap Critical = {}
  BY DEF parse_judge_payload, Critical
<1>2. HoldsObject(raw) <=> /\ raw.whole # "none"
                           /\ raw.fence = "object" \/ raw.brace = "object" \/ raw.whole = "object"
  BY DEF HoldsObject, Places
<1>3. Clean(raw) <=> /\ raw.whole # "none"
                     /\ \/ raw.fence = "object"
                        \/ raw.fence = "none" /\ raw.brace = "object"
                        \/ raw.fence = "none" /\ raw.brace = "none" /\ raw.whole = "object"
  <2>1. (1..(1 - 1) = {}) /\ (1..(2 - 1) = {1}) /\ (1..(3 - 1) = {1, 2}) /\ (1..3 = {1, 2, 3})
    OBVIOUS
  <2>2. \A i \in {1, 2, 3} :
          (\A j \in 1..(i - 1) : Places(raw)[j] = "none")
             <=> (i > 1 => raw.fence = "none") /\ (i > 2 => raw.brace = "none")
    BY DEF Places
  <2>. QED  BY <2>1, <2>2 DEF Clean, Places
<1>4. x.found <=> HoldsObject(raw)
  BY <1>0, <1>2 DEF extract_judge_json_object
<1>5. x.warnings \cap Critical = {} <=> Clean(raw)
  BY <1>0, <1>3 DEF extract_judge_json_object, Critical
<1>. QED  BY <1>1, <1>4, <1>5 DEF _compute_judge_parse_ok

\* The scores and the label kept from an answer.
LEMMA KeepAnswer ==
    ASSUME NEW data \in Data, NEW found \in BOOLEAN
    PROVE  LET p == parse_judge_payload(data, found)
           IN  /\ p.failure \in FailureTypes
               /\ ~found => p.failure = "UNKNOWN"
               /\ \A k \in SCORE_KEYS :
                    /\ p.scores[k] \subseteq 0..100
                    /\ p.scores[k] = None <=> ~found \/ data.scores[k].kind # "number"
                    /\ data.scores[k].n \in 0..100 => p.scores[k] \subseteq {data.scores[k].n}
<1> DEFINE p == parse_judge_payload(data, found)
<1>1. /\ p.failure \in FailureTypes
      /\ ~found => p.failure = "UNKNOWN"
  <2>1. /\ data.label.form \in {"missing", "exact", "loose", "alias", "other"}
        /\ data.label.of \in FailureTypes
    BY DEF Data
  <2>2. \A label : /\ label.form = "missing" => failure_type_for_storage(label) = "UNKNOWN"
                   /\ label.form = "alias" => failure_type_for_storage(label) = "NO_FAILURE"
                   /\ label.form = "other" => failure_type_for_storage(label) = "UNKNOWN"
                   /\ label.form \in {"exact", "loose"} => failure_type_for_storage(label) = label.of
    BY DEF failure_type_for_storage, normalize_failure_type, None, The
  <2>. QED  BY <2>1, <2>2 DEF parse_judge_payload, FailureTypes
<1>2. ASSUME NEW k \in SCORE_KEYS
      PROVE  /\ p.scores[k] \subseteq 0..100
             /\ p.scores[k] = None <=> ~found \/ data.scores[k].kind # "number"
             /\ data.scores[k].n \in 0..100 => p.scores[k] \subseteq {data.scores[k].n}
  <2>1. data.scores[k].n \in Int
    BY DEF Data
  <2>2. p.scores[k] = IF found /\ data.scores[k].kind # "absent" THEN _clamp01_val(data.scores[k]) ELSE None
    BY DEF parse_judge_payload
  <2>3. _clamp01_val(data.scores[k])
            = IF data.scores[k].kind = "number" THEN {Clamp(data.scores[k].n, 100)} ELSE None
    BY DEF _clamp01_val, Number, None
  <2>4. /\ Clamp(data.scores[k].n, 100) \in 0..100
        /\ data.scores[k].n \in 0..100 => Clamp(data.scores[k].n, 100) = data.scores[k].n
    BY <2>1 DEF Clamp
  <2> DEFINE kind == data.scores[k].kind
             n == data.scores[k].n
             c == Clamp(n, 100)
             s == p.scores[k]
  <2>. HIDE DEF p, c, s
  <2>5. CASE found /\ kind = "number"
    <3>1. s = {c}
      BY <2>2, <2>3, <2>5 DEF c, s, p
    <3>2. c \in 0..100 /\ (n \in 0..100 => c = n)
      BY <2>4 DEF c
    <3>3. s \subseteq 0..100 /\ s # None
      BY <3>1, <3>2 DEF None
    <3>. QED  BY <2>5, <3>1, <3>2, <3>3 DEF s
  <2>6. CASE ~(found /\ kind = "number")
    <3>1. s = None
      BY <2>2, <2>3, <2>6 DEF s, p
    <3>. QED  BY <2>6, <3>1 DEF s, None
  <2>. QED  BY <2>5, <2>6 DEF p
<1>. QED  BY <1>1, <1>2

Answered(answer) == Billed(answer) /\ answer.raw \in Raw /\ answer.data \in Data

\* Scores and label that an answer justifies.
Justified(scores, failure, answer) ==
    /\ failure \in FailureTypes
    /\ ~HoldsObject(answer.raw) => failure = "UNKNOWN"
    /\ \A k \in SCORE_KEYS :
         /\ scores[k] \subseteq 0..100
         /\ scores[k] = None <=> ~HoldsObject(answer.raw) \/ answer.data.scores[k].kind # "number"
         /\ answer.data.scores[k].n \in 0..100 => scores[k] \subseteq {answer.data.scores[k].n}

JudgeSays(ev, first, second) ==
    /\ ev.calls = IF Clean(first.raw) THEN 1 ELSE 2
    /\ ev.type = "llm"
    /\ ev.input = IF Clean(first.raw) THEN first.input ELSE SumTokens(first.input, second.input)
    /\ ev.output = IF Clean(first.raw) THEN first.output ELSE SumTokens(first.output, second.output)
    /\ Justified(ev.scores, ev.failure, IF Clean(first.raw) THEN first ELSE second)

\* What the judge hands back: one call when the first answer is clean, otherwise
\* two, with the answer of the last and the tokens of both.
LEMMA JudgeOutcome ==
    ASSUME NEW first, NEW second, Answered(first), Answered(second)
    PROVE  JudgeSays(evaluate_with_llm_judge(first, second), first, second)
<1> DEFINE ev == evaluate_with_llm_judge(first, second)
           kept == IF Clean(first.raw) THEN first ELSE second
           read(answer) == parse_judge_payload(answer.data, extract_judge_json_object(answer.raw).found)
<1>1. \A answer : /\ BuildResult(answer).scores = read(answer).scores
                  /\ BuildResult(answer).failure = read(answer).failure
                  /\ BuildResult(answer).type = "llm"
                  /\ BuildResult(answer).input = answer.input
                  /\ BuildResult(answer).output = answer.output
  BY DEF BuildResult
<1>2. BuildResult(first).ok <=> Clean(first.raw)
  BY ReadAnswer DEF BuildResult, Answered
<1>3. /\ ev.calls = IF Clean(first.raw) THEN 1 ELSE 2
      /\ ev.type = "llm"
      /\ ev.scores = read(kept).scores /\ ev.failure = read(kept).failure
      /\ ev.input = IF Clean(first.raw) THEN first.input ELSE SumTokens(first.input, second.input)
      /\ ev.output = IF Clean(first.raw) THEN first.output ELSE SumTokens(first.output, second.output)
  BY <1>1, <1>2 DEF evaluate_with_llm_judge, WithRetry
<1>4. kept.raw \in Raw /\ kept.data \in Data
  BY DEF Answered
<1>5. /\ extract_judge_json_object(kept.raw).found \in BOOLEAN
      /\ extract_judge_json_object(kept.raw).found <=> HoldsObject(kept.raw)
  BY <1>4, ReadAnswer DEF extract_judge_json_object
<1>. HIDE DEF kept, ev, read
<1>6. Justified(read(kept).scores, read(kept).failure, kept)
  BY <1>4, <1>5, KeepAnswer DEF read, Justified
<1>7. Justified(ev.scores, ev.failure, kept)
  BY <1>3, <1>6
<1>8. kept = IF Clean(first.raw) THEN first ELSE second
  BY DEF kept
<1>9. JudgeSays(ev, first, second)
  BY <1>3, <1>7, <1>8 DEF JudgeSays
<1>. QED  BY <1>9 DEF ev

-----------------------------------------------------------------------------
(* The gate. *)

\* A recall is missing exactly for a text without words that count.
LEMMA RecallIsAFraction ==
    ASSUME NEW tokens, IsFiniteSet(tokens), NEW corpus
    PROVE  /\ token_recall(tokens, corpus) = None <=> tokens = {}
           /\ \A f \in token_recall(tokens, corpus) : f[2] \in Nat /\ f[1] \in 0..f[2]
<1> DEFINE met == tokens \cap significant_tokens(corpus)
<1>1. IsFiniteSet(met) /\ Cardinality(met) \in Nat /\ Cardinality(tokens) \in Nat
  BY FS_Intersection, FS_CardinalityType
<1>2. Cardinality(met) <= Cardinality(tokens)
  BY FS_Subset
<1>3. token_recall(tokens, corpus) = IF tokens = {} THEN {} ELSE {<<Cardinality(met), Cardinality(tokens)>>}
  BY DEF token_recall, None
<1>. HIDE DEF met
<1>4. CASE tokens = {}
  BY <1>3, <1>4 DEF None
<1>5. CASE tokens # {}
  <2>1. token_recall(tokens, corpus) = {<<Cardinality(met), Cardinality(tokens)>>}
    BY <1>3, <1>5
  <2>2. Cardinality(met) \in 0..Cardinality(tokens)
    BY <1>1, <1>2
  <2>3. \A f \in token_recall(tokens, corpus) : f[1] = Cardinality(met) /\ f[2] = Cardinality(tokens)
    BY <2>1
  <2>4. \A f \in token_recall(tokens, corpus) : f[2] \in Nat /\ f[1] \in 0..f[2]
    BY <1>1, <2>2, <2>3
  <2>. QED  BY <1>5, <2>1, <2>4 DEF None
<1>. QED  BY <1>4, <1>5

\* The mean of scores is a score.
Summed(scores) == ScoreSum(scores) \in -(100 * Len(scores))..(100 * Len(scores))

LEMMA ScoresSum == ASSUME NEW scores \in Seq(-100..100)  PROVE Summed(scores)
<1> DEFINE low == -100
           high == 100
<1>0. low \in Int /\ high \in Int /\ scores \in Seq(low..high)
  OBVIOUS
<1>2. Len(scores) \in Nat
  OBVIOUS
<1>3. low * Len(scores) = -(100 * Len(scores)) /\ high * Len(scores) = 100 * Len(scores)
  BY <1>2
<1>. HIDE DEF low, high
<1>1. SeqSum(scores) \in (low * Len(scores))..(high * Len(scores))
  BY <1>0, SumIsBounded
<1>4. ScoreSum(scores) = SeqSum(scores)
  BY DEF ScoreSum, SeqSum
<1>. QED  BY <1>1, <1>3, <1>4 DEF Summed

\* A function on the first numbers is a sequence.
LEMMA FunctionIsSeq == ASSUME NEW S, NEW n \in Nat, NEW f \in [1..n -> S]  PROVE f \in Seq(S)
OBVIOUS

\* The scores of rows, and the label they ask for.
LEMMA RowScores ==
    ASSUME NEW rows \in Seq(HitSet),
           NEW query, IsFiniteSet(query), NEW expected, IsFiniteSet(expected)
    PROVE  LET ev == compute_minimal_retrieval_evaluation(Retrieved(rows), query, expected)
           IN  /\ rows = << >> => /\ ev.relevance = None /\ ev.coverage = None /\ ev.completeness = None
                                  /\ ev.failure = "RETRIEVAL_MISS"
               /\ rows # << >> => ev.failure = classify_heuristic_failure_from_scores(
                                                   FALSE, ev.relevance, ev.coverage, ev.completeness)
               /\ \A f \in ev.relevance : f[2] \in Nat /\ f[1] \in -f[2]..f[2]
               /\ \A f \in ev.coverage \cup ev.completeness : f[2] \in Nat /\ f[1] \in 0..f[2]
<1> DEFINE scores == Retrieved(rows).scores
           ev == compute_minimal_retrieval_evaluation(Retrieved(rows), query, expected)
<1>1. scores = [i \in DOMAIN rows |-> rows[i].score]
  BY DEF Retrieved
<1>2. DOMAIN rows = 1..Len(rows) /\ Len(rows) \in Nat
  OBVIOUS
<1>3. rows = << >> <=> scores = << >>
  <2>1. rows = << >> => DOMAIN scores = {}
    BY <1>1
  <2>2. rows # << >> => Len(rows) > 0
    BY <1>2
  <2>3. rows # << >> => 1 \in DOMAIN scores
    BY <1>1, <1>2, <2>2
  <2>4. rows = << >> => scores = << >>
    BY <1>1
  <2>. QED  BY <2>3, <2>4
<1>4. Len(scores) = Len(rows)
  BY <1>1, <1>2
<1>. HIDE DEF scores
<1>7. Summed(scores)
  <2>1. \A i \in 1..Len(rows) : rows[i].score \in -100..100
    <3>1. \A i \in 1..Len(rows) : rows[i] \in HitSet
      OBVIOUS
    <3>. QED  BY <3>1 DEF HitSet
  <2>2. scores \in [1..Len(rows) -> -100..100]
    BY <1>1, <1>2, <2>1
  <2>. QED  BY <1>2, <2>2, FunctionIsSeq, ScoresSum
<1>5. CASE rows = << >>
  BY <1>3, <1>5 DEF compute_minimal_retrieval_evaluation, scores, None
<1>6. CASE rows # << >>
  <2> DEFINE recall(tokens) == token_recall(significant_tokens(tokens), Retrieved(rows).text)
  <2>1. /\ ev.relevance = {<<ScoreSum(scores), 100 * Len(scores)>>}
        /\ ev.coverage = recall(query) /\ ev.completeness = recall(expected)
        /\ ev.failure = classify_heuristic_failure_from_scores(
                            FALSE, ev.relevance, ev.coverage, ev.completeness)
    BY <1>3, <1>6 DEF compute_minimal_retrieval_evaluation, scores
  <2>2. ScoreSum(scores) \in -(100 * Len(scores))..(100 * Len(scores)) /\ 100 * Len(scores) \in Nat
    BY <1>2, <1>4, <1>7 DEF Summed
  <2>3. IsFiniteSet(significant_tokens(query)) /\ IsFiniteSet(significant_tokens(expected))
    BY FS_Subset DEF significant_tokens
  <2>4. /\ \A f \in recall(query) : f[2] \in Nat /\ f[1] \in 0..f[2]
        /\ \A f \in recall(expected) : f[2] \in Nat /\ f[1] \in 0..f[2]
    BY <2>3, RecallIsAFraction
  <2>. HIDE DEF ev, recall
  <2>5. \A f \in ev.relevance : f[1] = ScoreSum(scores) /\ f[2] = 100 * Len(scores)
    BY <2>1
  <2>6. \A f \in ev.relevance : f[2] \in Nat /\ f[1] \in -f[2]..f[2]
    BY <2>2, <2>5
  <2>. QED  BY <1>6, <2>1, <2>4, <2>6 DEF ev
<1>. QED  BY <1>5, <1>6

\* Scores are fractions.
Fractions(set) == \A f \in set : f[1] \in Int /\ f[2] \in Int

\* The label is the first of the three that the scores ask for.
LEMMA LabelIsFirst ==
    ASSUME NEW ev, Fractions(ev.relevance), Fractions(ev.coverage), Fractions(ev.completeness),
           ev.failure = classify_heuristic_failure_from_scores(FALSE, ev.relevance, ev.coverage,
                                                               ev.completeness)
    PROVE  ev.failure = Asked(ev)
<1> DEFINE low == {i \in DOMAIN Blamed : LowScore(Blamed[i], ev)}
           partial == \E f \in ev.relevance : Below(f, RelevancePartial)
           thin == \E f \in ev.coverage : Below(f, ContextInsufficient)
           short == \E f \in ev.completeness : Below(f, CompletenessIncomplete)
<1>1. /\ DOMAIN Blamed = {1, 2, 3}
      /\ Blamed[1] = "RETRIEVAL_PARTIAL" /\ Blamed[2] = "CONTEXT_INSUFFICIENT"
      /\ Blamed[3] = "ANSWER_INCOMPLETE"
  BY DEF Blamed
<1>2. /\ LowScore("RETRIEVAL_PARTIAL", ev) <=> partial
      /\ LowScore("CONTEXT_INSUFFICIENT", ev) <=> thin
      /\ LowScore("ANSWER_INCOMPLETE", ev) <=> short
  <2>1. ASSUME NEW f, f[1] \in Int, f[2] \in Int
        PROVE  /\ f[1] * 10 < 3 * f[2] <=> Below(f, RelevancePartial)
               /\ f[1] * 10 < 4 * f[2] <=> Below(f, ContextInsufficient)
               /\ f[1] * 10 < 5 * f[2] <=> Below(f, CompletenessIncomplete)
    BY <2>1 DEF Below, RelevancePartial, ContextInsufficient, CompletenessIncomplete
  <2>2. /\ LowScore("RETRIEVAL_PARTIAL", ev) <=> \E f \in ev.relevance : f[1] * 10 < 3 * f[2]
        /\ LowScore("CONTEXT_INSUFFICIENT", ev) <=> \E f \in ev.coverage : f[1] * 10 < 4 * f[2]
        /\ LowScore("ANSWER_INCOMPLETE", ev) <=> \E f \in ev.completeness : f[1] * 10 < 5 * f[2]
    BY DEF LowScore
  <2>. QED  BY <2>1, <2>2 DEF Fractions
<1>3. ev.failure = IF partial THEN "RETRIEVAL_PARTIAL" ELSE IF thin THEN "CONTEXT_INSUFFICIENT"
                   ELSE IF short THEN "ANSWER_INCOMPLETE" ELSE "NO_FAILURE"
  BY DEF classify_heuristic_failure_from_scores
<1>4. low \subseteq {1, 2, 3} /\ (1 \in low <=> partial) /\ (2 \in low <=> thin) /\ (3 \in low <=> short)
  BY <1>1, <1>2
<1>. HIDE DEF low, partial, thin, short
<1>5. low # {} => Min(low) \in low /\ \A i \in low : Min(low) <= i
  <2>1. low # {} => \E m \in low : \A i \in low : m <= i
    <3>1. 1 \in low => \A i \in low : 1 <= i
      BY <1>4
    <3>2. 1 \notin low /\ 2 \in low => \A i \in low : 2 <= i
      BY <1>4
    <3>3. 1 \notin low /\ 2 \notin low /\ 3 \in low => \A i \in low : 3 <= i
      BY <1>4
    <3>. QED  BY <1>4, <3>1, <3>2, <3>3
  <2>. QED  BY <2>1 DEF Min
<1>6. low # {} => Min(low) = IF partial THEN 1 ELSE IF thin THEN 2 ELSE 3
  <2>1. SUFFICES ASSUME low # {}  PROVE Min(low) = IF 1 \in low THEN 1 ELSE IF 2 \in low THEN 2 ELSE 3
    BY <1>4
  <2>2. Min(low) \in {1, 2, 3} /\ Min(low) \in low /\ \A i \in low : Min(low) <= i
    BY <1>4, <1>5, <2>1
  <2>3. 1 \in low => Min(low) <= 1
    BY <2>2
  <2>4. 2 \in low => Min(low) <= 2
    BY <2>2
  <2>. QED  BY <2>2, <2>3, <2>4
<1>7. ev.failure = IF low = {} THEN "NO_FAILURE" ELSE Blamed[Min(low)]
  BY <1>1, <1>3, <1>4, <1>6
<1>. QED  BY <1>7 DEF low, Asked

\* A run that passes the gate has rows and a question, and its relevance and
\* coverage are above the thresholds of the labels.
LEMMA GateIsStricter ==
    ASSUME NEW run, GatePasses(run), run.reads[2] \in Seq(HitSet),
           IsFiniteSet(run.query), IsFiniteSet(run.expected)
    PROVE  LET ev == compute_minimal_retrieval_evaluation(Retrieved(run.reads[2]), run.query, run.expected)
           IN  /\ run.hybrid /\ run.reads[2] # << >> /\ run.query # {}
               /\ ev.failure \in {"NO_FAILURE", "ANSWER_INCOMPLETE"}
<1> DEFINE rows == run.reads[2]
           ev == compute_minimal_retrieval_evaluation(Retrieved(rows), run.query, run.expected)
<1>1. /\ run.hybrid /\ ev.relevance # None /\ ev.coverage # None
      /\ \A g \in ev.relevance : ~Below(g, 55)
      /\ \A g \in ev.coverage : ~Below(g, 42)
  BY DEF GatePasses, hybrid_retrieval_gate_passes
<1>2. run.query # {}
  <2>1. ev.coverage \in {None, token_recall(significant_tokens(run.query), Retrieved(rows).text)}
    BY DEF compute_minimal_retrieval_evaluation
  <2>2. IsFiniteSet(significant_tokens(run.query)) /\ significant_tokens(run.query) \subseteq run.query
    BY FS_Subset DEF significant_tokens
  <2>. QED  BY <1>1, <2>1, <2>2, RecallIsAFraction
<1> DEFINE query == run.query
           expected == run.expected
<1>3. rows \in Seq(HitSet) /\ IsFiniteSet(query) /\ IsFiniteSet(expected)
  OBVIOUS
<1>. HIDE DEF rows, query, expected
<1> DEFINE given == compute_minimal_retrieval_evaluation(Retrieved(rows), query, expected)
<1>3a. /\ rows = << >> => given.relevance = None
       /\ rows # << >> => given.failure = classify_heuristic_failure_from_scores(
                                           FALSE, given.relevance, given.coverage, given.completeness)
       /\ \A f \in given.relevance : f[2] \in Nat /\ f[1] \in -f[2]..f[2]
       /\ \A f \in given.coverage \cup given.completeness : f[2] \in Nat /\ f[1] \in 0..f[2]
  BY <1>3, RowScores
<1>. HIDE DEF given
<1>4. /\ rows = << >> => ev.relevance = None
      /\ rows # << >> => ev.failure = classify_heuristic_failure_from_scores(
                                          FALSE, ev.relevance, ev.coverage, ev.completeness)
      /\ \A f \in ev.relevance : f[2] \in Nat /\ f[1] \in -f[2]..f[2]
      /\ \A f \in ev.coverage \cup ev.completeness : f[2] \in Nat /\ f[1] \in 0..f[2]
  BY <1>3a DEF given, query, expected
<1>. HIDE DEF ev
<1>5. /\ \A g \in ev.coverage : ~Below(g, ContextInsufficient)
      /\ \A g \in ev.relevance : ~Below(g, RelevancePartial)
  <2>1. ASSUME NEW g, g[1] \in Int, g[2] \in Nat
        PROVE  /\ ~Below(g, 42) => ~Below(g, ContextInsufficient)
               /\ ~Below(g, 55) => ~Below(g, RelevancePartial)
    <3>1. ASSUME NEW a \in Int, NEW b \in Nat
          PROVE  (~(a * 100 < 42 * b) => ~(a * 100 < 40 * b)) /\ (~(a * 100 < 55 * b) => ~(a * 100 < 30 * b))
      OBVIOUS
    <3>2. \A h : Below(g, h) <=> g[1] * 100 < h * g[2]
      BY DEF Below
    <3>. QED  BY <2>1, <3>1, <3>2 DEF ContextInsufficient, RelevancePartial
  <2>2. \A g \in ev.coverage \cup ev.relevance : g[1] \in Int /\ g[2] \in Nat
    BY <1>4
  <2>. QED  BY <1>1, <2>1, <2>2
<1>6. rows # << >>
  BY <1>1, <1>4
<1>7. ev.failure \in {"NO_FAILURE", "ANSWER_INCOMPLETE"}
  BY <1>4, <1>5, <1>6 DEF classify_heuristic_failure_from_scores
<1>. QED  BY <1>1, <1>2, <1>6, <1>7 DEF ev, rows

-----------------------------------------------------------------------------
(* Every input is one of the pools. *)

JudgeInput == \E run \in JudgedRuns, gen \in Generations, first, second \in Answers, rates \in Rates :
    input = [call |-> "judge", run |-> run, gen |-> gen, first |-> first, second |-> second,
             rates |-> rates]
CellInput == \E cell \in Cells : input = [call |-> "cell", cell |-> cell]
Inputs == /\ input.call = "judge" => JudgeInput
          /\ input.call = "cell" => CellInput

\* The input of a call is one of its pool.
LEMMA InputsInvariant == Spec => []Inputs
<1>1. Init => Inputs
  BY DEF Init, Idle, Inputs
<1>2. Inputs /\ [Next]_input => Inputs'
  BY DEF Inputs, Next, JudgeInput, CellInput, CallJudge, CallCell, CallChunker, CallCompare, CallRank,
         CallSummary, CallReduction, CallPlan, CallSessions
<1>. QED  BY <1>1, <1>2, PTL DEF Spec

\* What the assumptions say of the arguments of a judged run.
LEMMA JudgedInput ==
    ASSUME Inputs, input.call = "judge"
    PROVE  /\ input.run \in JudgedRuns
           /\ Billed(input.gen) /\ Answered(input.first) /\ Answered(input.second)
           /\ input.rates.input \in Int /\ input.rates.output \in Int
BY CallsAssumption DEF Inputs, Idle, JudgeInput, CellInput, Answered

\* And of its run.
LEMMA JudgedRun ==
    ASSUME NEW run \in JudgedRuns
    PROVE  /\ IsFiniteSet(run.query) /\ IsFiniteSet(run.expected)
           /\ \A i \in 1..4 : run.reads[i] \in Seq(HitSet)
BY WordsAssumption, RunsAssumption, FS_Subset

-----------------------------------------------------------------------------
(* The judge is skipped only where the gate's thresholds imply the label's. *)

\* For every run, and whatever documents are deleted between its reads: a judge
\* is skipped only in hybrid mode, for a run with rows and a question, and what
\* is stored then is a failure of the retrieval only if rows went after the gate,
\* and the one the rows that are left ask for.
THEOREM SkippedIsNoMiss == Spec => []SkippedJudgeFindsNoMiss
<1>1. Inputs => SkippedJudgeFindsNoMiss
  <2> DEFINE run == input.run
             reads == run.reads
             scored(rows) == compute_minimal_retrieval_evaluation(Retrieved(rows), run.query, run.expected)
             base == scored(reads[3])
             skipped == compute_hybrid_skipped_evaluation(
                            Retrieved(reads[3]), Retrieved(reads[4]), run.query, run.expected,
                            generate_rag_answer(input.gen.answer))
  <2>1. SUFFICES ASSUME Inputs, input.call = "judge", Judged.calls = 0
                 PROVE  /\ run.hybrid /\ run.query # {} /\ reads[2] # << >>
                        /\ reads[3] = reads[2] => Judged.failure \in {"NO_FAILURE", "ANSWER_INCOMPLETE"}
                        /\ Judged.failure = IF reads[3] = << >> THEN "RETRIEVAL_MISS" ELSE Asked(Judged.ev)
    BY DEF SkippedJudgeFindsNoMiss
  <2>2. GatePasses(run)
    <3>1. SUFFICES ASSUME ~GatePasses(run)  PROVE FALSE
      OBVIOUS
    <3>2. Judged.calls = evaluate_with_llm_judge(input.first, input.second).calls
      BY <3>1 DEF Judged, Evaluate, FullJudge
    <3>3. JudgeSays(evaluate_with_llm_judge(input.first, input.second), input.first, input.second)
      BY <2>1, JudgedInput, JudgeOutcome
    <3>. QED  BY <2>1, <3>2, <3>3 DEF JudgeSays
  <2>3. Judged.ev = skipped /\ Judged.failure = skipped.failure
    BY <2>2 DEF Judged, Evaluate, SkippedJudge
  <2>4. /\ skipped.failure = base.failure /\ skipped.relevance = base.relevance
        /\ skipped.coverage = base.coverage /\ skipped.completeness = base.completeness
    BY DEF compute_hybrid_skipped_evaluation, compute_minimal_retrieval_evaluation
  <2>5. /\ IsFiniteSet(run.query) /\ IsFiniteSet(run.expected)
        /\ reads[2] \in Seq(HitSet) /\ reads[3] \in Seq(HitSet)
    BY <2>1, JudgedInput, JudgedRun
  <2>6. /\ run.hybrid /\ run.query # {} /\ reads[2] # << >>
        /\ scored(reads[2]).failure \in {"NO_FAILURE", "ANSWER_INCOMPLETE"}
    BY <2>2, <2>5, GateIsStricter
  <2> DEFINE rows == reads[3]
             query == run.query
             expected == run.expected
             found == compute_minimal_retrieval_evaluation(Retrieved(rows), query, expected)
  <2>6a. rows \in Seq(HitSet) /\ IsFiniteSet(query) /\ IsFiniteSet(expected)
    BY <2>5
  <2>. HIDE DEF rows, query, expected
  <2>7. /\ rows = << >> => found.failure = "RETRIEVAL_MISS"
        /\ rows # << >> => found.failure = classify_heuristic_failure_from_scores(
                                              FALSE, found.relevance, found.coverage, found.completeness)
        /\ \A f \in found.relevance : f[2] \in Nat /\ f[1] \in -f[2]..f[2]
        /\ \A f \in found.coverage \cup found.completeness : f[2] \in Nat /\ f[1] \in 0..f[2]
    BY <2>6a, RowScores
  <2>7a. found = base
    BY DEF rows, query, expected
  <2>. HIDE DEF base, skipped, found
  <2>8. Fractions(skipped.relevance) /\ Fractions(skipped.coverage) /\ Fractions(skipped.completeness)
    BY <2>4, <2>7, <2>7a DEF Fractions
  <2>9. rows # << >> => skipped.failure = Asked(skipped)
    BY <2>4, <2>7, <2>8, <2>7a, LabelIsFirst
  <2>10. reads[3] = reads[2] => base.failure \in {"NO_FAILURE", "ANSWER_INCOMPLETE"}
    BY <2>6 DEF base
  <2>. QED  BY <2>3, <2>4, <2>6, <2>7, <2>9, <2>10, <2>7a DEF rows
<1>. QED  BY <1>1, InputsInvariant, PTL

-----------------------------------------------------------------------------
(* The stored answer. *)

\* Whatever a model writes, the judge is called at most twice, what is stored is
\* that of one answer, the scores are between 0 and 1 and the label is known.
THEOREM StoredAnswers == Spec => []StoredAnswerIsSound
<1>1. ASSUME Inputs, input.call = "judge", NEW o, o = Judged
      PROVE  LET kept == IF o.calls = 2 THEN input.second ELSE input.first
             IN  /\ o.failure \in FailureTypes
                 /\ o.calls > 0 =>
                      /\ o.calls = IF Clean(input.first.raw) THEN 1 ELSE 2
                      /\ \A k \in SCORE_KEYS : \A given \in {kept.data.scores[k]} :
                           /\ o.ev.scores[k] \subseteq 0..100
                           /\ o.ev.scores[k] = None <=> ~HoldsObject(kept.raw) \/ given.kind # "number"
                           /\ given.n \in 0..100 => o.ev.scores[k] \subseteq {given.n}
                      /\ ~HoldsObject(kept.raw) => o.failure = "UNKNOWN"
  <2>1. CASE GatePasses(input.run)
    <3> DEFINE run == input.run
               ev == compute_minimal_retrieval_evaluation(Retrieved(run.reads[3]), run.query, run.expected)
               skipped == compute_hybrid_skipped_evaluation(
                              Retrieved(run.reads[3]), Retrieved(run.reads[4]), run.query, run.expected,
                              generate_rag_answer(input.gen.answer))
    <3>1. o.calls = 0 /\ o.failure = skipped.failure
      BY <1>1, <2>1 DEF Judged, Evaluate, SkippedJudge
    <3>2. skipped.failure = ev.failure
      BY DEF compute_hybrid_skipped_evaluation, compute_minimal_retrieval_evaluation
    <3>3. ev.failure \in FailureTypes
      BY DEF compute_minimal_retrieval_evaluation, classify_heuristic_failure_from_scores, FailureTypes
    <3>. QED  BY <3>1, <3>2, <3>3
  <2>2. CASE ~GatePasses(input.run)
    <3> DEFINE first == input.first
               second == input.second
               kept == IF Clean(first.raw) THEN first ELSE second
               ev == evaluate_with_llm_judge(first, second)
    <3>1. o.calls = ev.calls /\ o.ev = ev /\ o.failure = ev.failure
      BY <1>1, <2>2 DEF Judged, Evaluate, FullJudge
    <3>2. Answered(first) /\ Answered(second)
      BY <1>1, JudgedInput
    <3>. HIDE DEF first, second
    <3>3. JudgeSays(ev, first, second)
      BY <3>2, JudgeOutcome
    <3>. HIDE DEF ev, kept
    <3>4. ev.calls = (IF Clean(first.raw) THEN 1 ELSE 2) /\ Justified(ev.scores, ev.failure, kept)
      BY <3>3 DEF JudgeSays, kept
    <3>5. kept = IF o.calls = 2 THEN second ELSE first
      BY <3>1, <3>4 DEF kept
    <3>6. Justified(o.ev.scores, o.failure, IF o.calls = 2 THEN second ELSE first)
      BY <3>1, <3>4, <3>5
    <3>7. o.calls = IF Clean(first.raw) THEN 1 ELSE 2
      BY <3>1, <3>4
    <3>. QED  BY <3>6, <3>7 DEF Justified, first, second
  <2>. QED  BY <2>1, <2>2
<1>2. Inputs => StoredAnswerIsSound
  BY <1>1 DEF StoredAnswerIsSound
<1>. QED  BY <1>2, InputsInvariant, PTL

-----------------------------------------------------------------------------
(* Tokens, costs and counters. *)

\* The tokens the judge reports for its calls are all tokens of those calls.
LEMMA JudgeTokens ==
    ASSUME Inputs, input.call = "judge", NEW of \in {"input", "output"}
    PROVE  LET ev == evaluate_with_llm_judge(input.first, input.second)
           IN  /\ ev.calls \in {1, 2} /\ Optional(ev[of]) /\ Optional(input.gen[of])
               /\ Paid(ev.calls, of) = ValueOf(input.gen[of]) + ValueOf(ev[of])
               /\ Known(ev.calls, of) <=> input.gen[of] # None \/ ev[of] # None
<1> DEFINE first == input.first
           second == input.second
           ev == evaluate_with_llm_judge(first, second)
<1>1. Billed(input.gen) /\ Answered(first) /\ Answered(second)
  BY JudgedInput
<1>2. Optional(input.gen[of]) /\ Optional(first[of]) /\ Optional(second[of])
  BY <1>1 DEF Billed, Answered
<1>. HIDE DEF first, second
<1>3. /\ ev.calls = IF Clean(first.raw) THEN 1 ELSE 2
      /\ ev[of] = IF Clean(first.raw) THEN first[of] ELSE SumTokens(first[of], second[of])
  <2>1. JudgeSays(ev, first, second)
    BY <1>1, JudgeOutcome
  <2>. HIDE DEF ev
  <2>. QED  BY <2>1 DEF JudgeSays
<1>4. /\ ValueOf(input.gen[of]) \in Nat /\ ValueOf(first[of]) \in Nat /\ ValueOf(second[of]) \in Nat
      /\ Optional(SumTokens(first[of], second[of]))
      /\ ValueOf(SumTokens(first[of], second[of])) = ValueOf(first[of]) + ValueOf(second[of])
      /\ SumTokens(first[of], second[of]) = None <=> first[of] = None /\ second[of] = None
  BY <1>2, OptionalValue, SumIsOptional
<1>. HIDE DEF ev
<1>5. CASE Clean(first.raw)
  <2>1. /\ Paid(1, of) = ValueOf(input.gen[of]) + ValueOf(first[of])
        /\ Known(1, of) <=> input.gen[of] # None \/ first[of] # None
    BY <1>4 DEF Paid, Known, first
  <2>. QED  BY <1>2, <1>3, <1>5, <2>1 DEF ev, first, second
<1>6. CASE ~Clean(first.raw)
  <2>1. /\ Paid(2, of) = ValueOf(input.gen[of]) + (ValueOf(first[of]) + ValueOf(second[of]))
        /\ Known(2, of) <=> input.gen[of] # None \/ first[of] # None \/ second[of] # None
    BY <1>4 DEF Paid, Known, first, second
  <2>. QED  BY <1>2, <1>3, <1>4, <1>6, <2>1 DEF ev, first, second
<1>. QED  BY <1>5, <1>6

\* Two rounded costs are within a millionth of the cost of all tokens.
LEMMA TwoCosts ==
    ASSUME NEW rates, rates.input \in Int, rates.output \in Int,
           NEW x1, NEW y1, Optional(x1), Optional(y1), NEW x2, NEW y2, Optional(x2), Optional(y2)
    PROVE  LET cost == SumTokens(estimate_usd_from_tokens(rates, x1, y1),
                                 estimate_usd_from_tokens(rates, x2, y2))
               exact == Charged(rates.input) * (ValueOf(x1) + ValueOf(x2))
                            + Charged(rates.output) * (ValueOf(y1) + ValueOf(y2))
           IN  /\ \A usd \in cost : usd * 10 - exact \in -10..10
               /\ cost = None <=> \/ Charged(rates.input) = 0 /\ Charged(rates.output) = 0
                                  \/ x1 = None /\ y1 = None /\ x2 = None /\ y2 = None
<1> DEFINE usd1 == estimate_usd_from_tokens(rates, x1, y1)
           usd2 == estimate_usd_from_tokens(rates, x2, y2)
           exact1 == Charged(rates.input) * ValueOf(x1) + Charged(rates.output) * ValueOf(y1)
           exact2 == Charged(rates.input) * ValueOf(x2) + Charged(rates.output) * ValueOf(y2)
           exact == Charged(rates.input) * (ValueOf(x1) + ValueOf(x2))
                        + Charged(rates.output) * (ValueOf(y1) + ValueOf(y2))
           free == Charged(rates.input) = 0 /\ Charged(rates.output) = 0
<1>1. /\ usd1 \subseteq Int /\ \A a, b \in usd1 : a = b
      /\ usd1 = None <=> free \/ (x1 = None /\ y1 = None)
      /\ exact1 \in Int /\ (usd1 = None => exact1 = 0)
      /\ \A a \in usd1 : a * 10 - exact1 \in -5..5
  BY EstimateIsNear
<1>2. /\ usd2 \subseteq Int /\ \A a, b \in usd2 : a = b
      /\ usd2 = None <=> free \/ (x2 = None /\ y2 = None)
      /\ exact2 \in Int /\ (usd2 = None => exact2 = 0)
      /\ \A a \in usd2 : a * 10 - exact2 \in -5..5
  BY EstimateIsNear
<1>3. exact = exact1 + exact2
  <2>1. /\ Charged(rates.input) \in Int /\ Charged(rates.output) \in Int
        /\ ValueOf(x1) \in Int /\ ValueOf(x2) \in Int /\ ValueOf(y1) \in Int /\ ValueOf(y2) \in Int
    BY OptionalValue DEF Charged
  <2>2. \A c, a, b \in Int : c * (a + b) = c * a + c * b
    OBVIOUS
  <2>3. /\ Charged(rates.input) * (ValueOf(x1) + ValueOf(x2))
              = Charged(rates.input) * ValueOf(x1) + Charged(rates.input) * ValueOf(x2)
        /\ Charged(rates.output) * (ValueOf(y1) + ValueOf(y2))
              = Charged(rates.output) * ValueOf(y1) + Charged(rates.output) * ValueOf(y2)
    BY <2>1, <2>2
  <2>4. \A a, b, c, d \in Int : (a + b) + (c + d) = (a + c) + (b + d)
    OBVIOUS
  <2>5. /\ Charged(rates.input) * ValueOf(x1) \in Int /\ Charged(rates.input) * ValueOf(x2) \in Int
        /\ Charged(rates.output) * ValueOf(y1) \in Int /\ Charged(rates.output) * ValueOf(y2) \in Int
    BY <2>1
  <2>. QED  BY <2>3, <2>4, <2>5
<1>. HIDE DEF usd1, usd2, exact1, exact2, exact, free
<1>4. /\ usd1 # None => ValueOf(usd1) \in usd1
      /\ usd2 # None => ValueOf(usd2) \in usd2
      /\ usd1 = None => ValueOf(usd1) = 0
      /\ usd2 = None => ValueOf(usd2) = 0
  BY DEF ValueOf, The, None
<1>5. CASE usd1 = None /\ usd2 = None
  <2>1. SumTokens(usd1, usd2) = None
    BY <1>5 DEF SumTokens, None
  <2>. QED  BY <1>1, <1>2, <1>5, <2>1 DEF None, usd1, usd2, free
<1>6. CASE ~(usd1 = None /\ usd2 = None)
  <2>1. SumTokens(usd1, usd2) = {ValueOf(usd1) + ValueOf(usd2)}
    BY <1>6 DEF SumTokens, None
  <2>2. /\ ValueOf(usd1) \in Int /\ ValueOf(usd1) * 10 - exact1 \in -5..5
        /\ ValueOf(usd2) \in Int /\ ValueOf(usd2) * 10 - exact2 \in -5..5
    <3>1. usd1 # None => ValueOf(usd1) \in Int /\ ValueOf(usd1) * 10 - exact1 \in -5..5
      BY <1>1, <1>4
    <3>2. usd2 # None => ValueOf(usd2) \in Int /\ ValueOf(usd2) * 10 - exact2 \in -5..5
      BY <1>2, <1>4
    <3>3. usd1 = None => ValueOf(usd1) = 0 /\ exact1 = 0
      BY <1>1, <1>4
    <3>4. usd2 = None => ValueOf(usd2) = 0 /\ exact2 = 0
      BY <1>2, <1>4
    <3>5. 0 \in Int /\ 0 * 10 - 0 \in -5..5
      OBVIOUS
    <3>. QED  BY <3>1, <3>2, <3>3, <3>4, <3>5
  <2>3. (ValueOf(usd1) + ValueOf(usd2)) * 10 - exact \in -10..10
    BY <1>1, <1>2, <1>3, <2>2
  <2>4. SumTokens(usd1, usd2) # None
    BY <2>1 DEF None
  <2>. QED  BY <1>1, <1>2, <1>6, <2>1, <2>3, <2>4 DEF usd1, usd2, exact, free
<1>. QED  BY <1>5, <1>6

\* Python and SQL find a row in the same bucket when both its marks agree.
LEMMA BucketsAgree ==
    /\ resolved_evaluator_type(TRUE, {"llm"}) = "llm"
    /\ sql_is_llm_bucket(TRUE, {"llm"}) = {TRUE} /\ sql_is_heuristic_bucket(TRUE, {"llm"}) = {FALSE}
    /\ resolved_evaluator_type(FALSE, {"heuristic"}) = "heuristic"
    /\ sql_is_llm_bucket(FALSE, {"heuristic"}) = {FALSE}
    /\ sql_is_heuristic_bucket(FALSE, {"heuristic"}) = {TRUE}
<1>1. /\ resolved_evaluator_type(TRUE, {"llm"}) = "llm"
      /\ resolved_evaluator_type(FALSE, {"heuristic"}) = "heuristic"
  BY DEF resolved_evaluator_type
<1>2. {t = "llm" : t \in {"llm"}} = {TRUE} /\ {t = "llm" : t \in {"heuristic"}} = {FALSE}
  OBVIOUS
<1>3. Or3({TRUE}, {TRUE}) = {TRUE} /\ Or3({FALSE}, {FALSE}) = {FALSE}
  BY DEF Or3
<1>4. {~b : b \in {TRUE}} = {FALSE} /\ {~b : b \in {FALSE}} = {TRUE}
  OBVIOUS
<1>. QED  BY <1>1, <1>2, <1>3, <1>4 DEF sql_is_llm_bucket, sql_is_heuristic_bucket

\* For all counts and prices, also missing ones: every token of the generation
\* and of each call is counted once, the cost is theirs to a millionth, and the
\* counters agree with the calls and with the bucket of the row.
THEOREM AccountsAddUp == Spec => []TokensAndCostAddUp
<1>1. ASSUME Inputs, input.call = "judge", NEW o, o = Judged
      PROVE  LET c == o.counters
                 exact == Price("input") * Paid(o.calls, "input") + Price("output") * Paid(o.calls, "output")
             IN  /\ Exactly(o.calls, "input", c.input) /\ Exactly(o.calls, "output", c.output)
                 /\ o.cost = None <=> \/ Price("input") = 0 /\ Price("output") = 0
                                      \/ ~Known(o.calls, "input") /\ ~Known(o.calls, "output")
                 /\ \A usd \in o.cost : usd * 10 - exact \in -10..10
                 /\ c.cost = o.cost
                 /\ c.attempted = c.skipped + c.used /\ (c.skipped = 1 <=> o.calls = 0)
                 /\ c.llm + c.heuristic = c.total
                 /\ c.llm = 1 <=> resolved_evaluator_type(o.llm, {o.type}) = "llm"
                 /\ sql_is_llm_bucket(o.llm, {o.type}) = {c.llm = 1}
                 /\ sql_is_heuristic_bucket(o.llm, {o.type}) = {c.heuristic = 1}
  <2> DEFINE gen == input.gen
             rates == input.rates
             ev == evaluate_with_llm_judge(input.first, input.second)
             c == o.counters
             exact == Price("input") * Paid(o.calls, "input") + Price("output") * Paid(o.calls, "output")
             Tokens == Exactly(o.calls, "input", c.input) /\ Exactly(o.calls, "output", c.output)
             Cost == /\ o.cost = None <=> \/ Price("input") = 0 /\ Price("output") = 0
                                          \/ ~Known(o.calls, "input") /\ ~Known(o.calls, "output")
                     /\ \A usd \in o.cost : usd * 10 - exact \in -10..10
             Tallied == /\ c.cost = o.cost
                        /\ c.attempted = c.skipped + c.used /\ (c.skipped = 1 <=> o.calls = 0)
                        /\ c.llm + c.heuristic = c.total
             Agreed == /\ c.llm = 1 <=> resolved_evaluator_type(o.llm, {o.type}) = "llm"
                       /\ sql_is_llm_bucket(o.llm, {o.type}) = {c.llm = 1}
                       /\ sql_is_heuristic_bucket(o.llm, {o.type}) = {c.heuristic = 1}
  <2>1. /\ ev.calls \in {1, 2} /\ Optional(gen.input) /\ Optional(gen.output)
        /\ Optional(ev.input) /\ Optional(ev.output)
        /\ Paid(ev.calls, "input") = ValueOf(gen.input) + ValueOf(ev.input)
        /\ Paid(ev.calls, "output") = ValueOf(gen.output) + ValueOf(ev.output)
        /\ Known(ev.calls, "input") <=> gen.input # None \/ ev.input # None
        /\ Known(ev.calls, "output") <=> gen.output # None \/ ev.output # None
    BY <1>1, JudgeTokens
  <2>2. rates.input \in Int /\ rates.output \in Int
    BY <1>1, JudgedInput
  <2>3. Price("input") = Charged(rates.input) /\ Price("output") = Charged(rates.output)
    BY DEF Price
  <2>4. CASE GatePasses(input.run)
    <3> DEFINE cost == estimate_usd_from_tokens(rates, gen.input, gen.output)
    <3>1. /\ o.calls = 0 /\ o.llm = FALSE /\ o.cost = cost
          /\ c = hybrid_skipped_judge_instrumentation(gen, cost)
      BY <1>1, <2>4 DEF Judged, Evaluate, SkippedJudge
    <3>2. o.type = "heuristic"
      <4>1. o.type = compute_hybrid_skipped_evaluation(
                         Retrieved(input.run.reads[3]), Retrieved(input.run.reads[4]),
                         input.run.query, input.run.expected, generate_rag_answer(gen.answer)).type
        BY <1>1, <2>4 DEF Judged, Evaluate, SkippedJudge
      <4>. QED  BY <4>1 DEF compute_hybrid_skipped_evaluation, compute_minimal_retrieval_evaluation
    <3>3. /\ c.input = gen.input /\ c.output = gen.output /\ c.cost = cost /\ c.llm = 0 /\ c.heuristic = 1
          /\ c.total = 1 /\ c.attempted = 1 /\ c.skipped = 1 /\ c.used = 0
      BY <3>1 DEF hybrid_skipped_judge_instrumentation, Counters
    <3>4. /\ Known(0, "input") <=> gen.input # None
          /\ Known(0, "output") <=> gen.output # None
          /\ Paid(0, "input") = ValueOf(gen.input) /\ Paid(0, "output") = ValueOf(gen.output)
      BY <2>1, OptionalValue DEF Known, Paid
    <3>5. Tokens
      BY <2>1, <3>1, <3>3, <3>4, OptionalValue DEF Exactly
    <3>6. Cost
      <4>1. /\ cost = None <=> \/ Charged(rates.input) = 0 /\ Charged(rates.output) = 0
                               \/ gen.input = None /\ gen.output = None
            /\ exact = Charged(rates.input) * ValueOf(gen.input) + Charged(rates.output) * ValueOf(gen.output)
            /\ exact \in Int /\ cost \subseteq Int
            /\ \A usd \in cost : usd * 10 - exact \in -5..5
        BY <2>1, <2>2, <2>3, <3>1, <3>4, EstimateIsNear
      <4>. HIDE DEF cost, exact
      <4>2. \A usd \in cost : usd * 10 - exact \in -10..10
        BY <4>1
      <4>. QED  BY <2>3, <3>1, <3>4, <4>1, <4>2
    <3>7. Tallied
      BY <3>1, <3>3
    <3>8. Agreed
      <4>1. (c.llm = 1) = FALSE /\ (c.heuristic = 1) = TRUE
        BY <3>3
      <4>. HIDE DEF c
      <4>. QED  BY <3>1, <3>2, <4>1, BucketsAgree
    <3>. QED  BY <3>5, <3>6, <3>7, <3>8
  <2>5. CASE ~GatePasses(input.run)
    <3> DEFINE cost == SumTokens(estimate_usd_from_tokens(rates, gen.input, gen.output),
                                 estimate_usd_from_tokens(rates, ev.input, ev.output))
    <3>1. /\ o.calls = ev.calls /\ o.llm = TRUE /\ o.type = ev.type /\ o.cost = cost
          /\ c = full_llm_run_instrumentation(ev, gen, cost)
      BY <1>1, <2>5 DEF Judged, Evaluate, FullJudge
    <3>2. o.type = "llm"
      <4>1. JudgeSays(ev, input.first, input.second)
        BY <1>1, JudgedInput, JudgeOutcome
      <4>. HIDE DEF ev
      <4>. QED  BY <3>1, <4>1 DEF JudgeSays
    <3>3. /\ c.input = SumTokens(gen.input, ev.input) /\ c.output = SumTokens(gen.output, ev.output)
          /\ c.cost = cost /\ c.llm = 1 /\ c.heuristic = 0
          /\ c.total = 1 /\ c.attempted = 1 /\ c.skipped = 0 /\ c.used = 1
      BY <3>1 DEF full_llm_run_instrumentation, Counters
    <3>4. Tokens
      <4>1. /\ Optional(SumTokens(gen.input, ev.input))
            /\ ValueOf(SumTokens(gen.input, ev.input)) = ValueOf(gen.input) + ValueOf(ev.input)
            /\ SumTokens(gen.input, ev.input) = None <=> gen.input = None /\ ev.input = None
            /\ Optional(SumTokens(gen.output, ev.output))
            /\ ValueOf(SumTokens(gen.output, ev.output)) = ValueOf(gen.output) + ValueOf(ev.output)
            /\ SumTokens(gen.output, ev.output) = None <=> gen.output = None /\ ev.output = None
        BY <2>1, SumIsOptional
      <4>. HIDE DEF ev, gen, c
      <4>2. /\ Exactly(ev.calls, "input", SumTokens(gen.input, ev.input))
            /\ Exactly(ev.calls, "output", SumTokens(gen.output, ev.output))
        BY <2>1, <4>1, OptionalValue DEF Exactly
      <4>. QED  BY <3>1, <3>3, <4>2
    <3>5. Cost
      <4>1. /\ cost = None <=> \/ Charged(rates.input) = 0 /\ Charged(rates.output) = 0
                               \/ gen.input = None /\ gen.output = None /\ ev.input = None /\ ev.output = None
            /\ exact = Charged(rates.input) * (ValueOf(gen.input) + ValueOf(ev.input))
                          + Charged(rates.output) * (ValueOf(gen.output) + ValueOf(ev.output))
            /\ \A usd \in cost : usd * 10 - exact \in -10..10
        BY <2>1, <2>2, <2>3, <3>1, TwoCosts
      <4>. HIDE DEF cost, exact, ev
      <4>. QED  BY <2>1, <2>3, <3>1, <4>1
    <3>6. Tallied
      BY <2>1, <3>1, <3>3
    <3>7. Agreed
      <4>1. (c.llm = 1) = TRUE /\ (c.heuristic = 1) = FALSE
        BY <3>3
      <4>. HIDE DEF c
      <4>. QED  BY <3>1, <3>2, <4>1, BucketsAgree
    <3>. QED  BY <3>4, <3>5, <3>6, <3>7
  <2>. QED  BY <2>4, <2>5
<1>2. Inputs => TokensAndCostAddUp
  BY <1>1 DEF TokensAndCostAddUp
<1>. QED  BY <1>2, InputsInvariant, PTL

-----------------------------------------------------------------------------
(* Heuristic cells. *)

\* n hits are kept, in an order that keeps the first one.
Draws(hits, empty, drop, order, n) ==
    /\ hits \in Seq(HitSet) /\ hits # << >>
    /\ \A i, j \in DOMAIN hits : hits[i].chunk = hits[j].chunk => i = j
    /\ empty \in BOOLEAN /\ drop \in BOOLEAN
    /\ n \in Nat /\ n = Len(hits) - IF drop THEN 1 ELSE 0
    /\ order \in [1..n -> 1..n]
    /\ \A i, j \in DOMAIN order : order[i] = order[j] => i = j
    /\ n > 0 => order[1] = 1

\* The hits a profile leaves: those of the search, in another order, none twice.
LEMMA DisturbedHits ==
    ASSUME NEW hits, NEW empty, NEW drop, NEW order, NEW n, Draws(hits, empty, drop, order, n)
    PROVE  LET rows == perturb_search_chunk_hits(hits, empty, drop, order)
           IN  /\ rows \in Seq(HitSet)
               /\ \A i \in DOMAIN rows : \E j \in DOMAIN hits : rows[i] = hits[j]
               /\ \A i, j \in DOMAIN rows : rows[i].chunk = rows[j].chunk => i = j
<1> DEFINE kept == IF drop THEN Tail(hits) ELSE hits
           rows == perturb_search_chunk_hits(hits, empty, drop, order)
           d == IF drop THEN 1 ELSE 0
<1>0. /\ hits \in Seq(HitSet) /\ hits # << >>
      /\ \A i, j \in DOMAIN hits : hits[i].chunk = hits[j].chunk => i = j
      /\ drop \in BOOLEAN /\ n \in Nat /\ n = Len(hits) - IF drop THEN 1 ELSE 0
      /\ order \in [1..n -> 1..n]
      /\ \A i, j \in DOMAIN order : order[i] = order[j] => i = j
      /\ n > 0 => order[1] = 1
  BY DEF Draws
<1>1. Len(hits) \in Nat /\ Len(hits) > 0 /\ DOMAIN hits = 1..Len(hits) /\ n \in Nat
  BY <1>0
<1>8. /\ \A i \in 1..n : order[i] \in 1..n /\ (i = 1 => order[i] = 1)
      /\ \A i, j \in 1..n : order[i] = order[j] => i = j
  <2>1. n \in Nat /\ order \in [1..n -> 1..n]
    BY <1>0
  <2>2. n > 0 => order[1] = 1
    BY <1>0
  <2>3. DOMAIN order = 1..n
    BY <2>1
  <2>4. ASSUME NEW i \in 1..n  PROVE order[i] \in 1..n /\ (i = 1 => order[i] = 1)
    <3>1. n > 0
      BY <2>1
    <3>. QED  BY <2>1, <2>2, <3>1
  <2>5. \A i, j \in 1..n : order[i] = order[j] => i = j
    BY <1>0, <2>3
  <2>. QED  BY <2>4, <2>5
<1>2. /\ kept \in Seq(HitSet) /\ DOMAIN kept = 1..n
      /\ \A i \in 1..n : i + d \in DOMAIN hits /\ kept[i] = hits[i + d]
  <2>1. CASE drop
    <3>1. /\ Tail(hits) \in Seq(HitSet) /\ Len(Tail(hits)) = Len(hits) - 1
          /\ \A i \in 1..Len(Tail(hits)) : Tail(hits)[i] = hits[i + 1]
      BY <1>0, HeadTailProperties
    <3>2. DOMAIN Tail(hits) = 1..n
      BY <1>0, <1>1, <2>1, <3>1, LenProperties
    <3>. QED  BY <1>0, <1>1, <2>1, <3>1, <3>2
  <2>2. CASE ~drop
    BY <1>0, <1>1, <2>2
  <2>. QED  BY <2>1, <2>2
<1>. HIDE DEF kept, d
<1>3. CASE empty
  BY <1>3 DEF perturb_search_chunk_hits
<1>4. CASE ~empty
  <2>1. rows = [i \in 1..n |-> kept[order[i]]]
    <3>1. rows = [i \in 1..n |-> IF i = 1 THEN kept[1] ELSE kept[order[i]]]
      BY <1>0, <1>2, <1>4 DEF perturb_search_chunk_hits, kept
    <3>2. \A i \in 1..n : i = 1 => order[i] = 1
      BY <1>8
    <3>. QED  BY <3>1, <3>2
  <2>. HIDE DEF rows
  <2>2. \A i \in 1..n : /\ order[i] \in 1..n
                        /\ rows[i] = hits[order[i] + d] /\ order[i] + d \in DOMAIN hits
    BY <1>2, <1>8, <2>1
  <2>3. DOMAIN rows = 1..n
    BY <2>1
  <2>4. rows \in Seq(HitSet)
    <3>1. \A i \in 1..n : kept[order[i]] \in HitSet
      <4>1. \A j \in DOMAIN hits : hits[j] \in HitSet
        <5>1. hits \in Seq(HitSet)
          BY <1>0
        <5>. QED  BY <5>1
      <4>. QED  BY <1>2, <1>8, <4>1
    <3>2. rows \in [1..n -> HitSet]
      BY <2>1, <3>1
    <3>. QED  BY <1>1, <3>2, FunctionIsSeq
  <2>5. \A i \in DOMAIN rows : \E j \in DOMAIN hits : rows[i] = hits[j]
    BY <2>2, <2>3
  <2>6. ASSUME NEW i \in 1..n, NEW j \in 1..n, rows[i].chunk = rows[j].chunk
        PROVE  i = j
    <3>1. /\ order[i] + d \in DOMAIN hits /\ order[j] + d \in DOMAIN hits
          /\ hits[order[i] + d].chunk = hits[order[j] + d].chunk
      BY <2>2, <2>6
    <3>2. order[i] + d = order[j] + d
      BY <1>0, <3>1
    <3>3. order[i] = order[j]
      BY <2>2, <3>2 DEF d
    <3>. QED  BY <1>8, <3>3
  <2>. QED  BY <2>3, <2>4, <2>5, <2>6 DEF rows
<1>. QED  BY <1>3, <1>4

\* The rows of a cell.
CellRows(cell) ==
    IF cell.realism = None THEN cell.hits
    ELSE perturb_search_chunk_hits(cell.hits, The(cell.realism).empty, The(cell.realism).drop,
                                   The(cell.realism).order)

\* The rows of a cell are hits of its search, none twice.
LEMMA RowsAreHits ==
    ASSUME NEW cell \in Cells
    PROVE  LET rows == CellRows(cell)
           IN  /\ rows \in Seq(HitSet)
               /\ \A i \in DOMAIN rows : \E j \in DOMAIN cell.hits : rows[i] = cell.hits[j]
               /\ \A i, j \in DOMAIN rows : rows[i].chunk = rows[j].chunk => i = j
<1>1. /\ cell.hits \in Seq(HitSet) /\ cell.hits # << >>
      /\ \A i, j \in DOMAIN cell.hits : cell.hits[i].chunk = cell.hits[j].chunk => i = j
  BY CellsAssumption DEF HitSet
<1>2. CASE cell.realism = None
  BY <1>1, <1>2 DEF CellRows
<1>3. CASE cell.realism # None
  <2> DEFINE drawn == The(cell.realism)
  <2>1. drawn \in cell.realism
    BY <1>3 DEF The, None
  <2>. HIDE DEF drawn
  <2>2. /\ drawn.empty \in BOOLEAN /\ drawn.drop \in BOOLEAN
        /\ drawn.order \in [1..Kept(cell, drawn) -> 1..Kept(cell, drawn)]
        /\ \A i, j \in DOMAIN drawn.order : drawn.order[i] = drawn.order[j] => i = j
        /\ Kept(cell, drawn) > 0 => drawn.order[1] = 1
    BY <2>1, CellsAssumption
  <2>3. CellRows(cell) = perturb_search_chunk_hits(cell.hits, drawn.empty, drawn.drop, drawn.order)
    BY <1>3 DEF CellRows, drawn
  <2> DEFINE n == Kept(cell, drawn)
             hits == cell.hits
             empty == drawn.empty
             drop == drawn.drop
             order == drawn.order
             rows == perturb_search_chunk_hits(hits, empty, drop, order)
  <2>5. /\ n \in Nat /\ n = Len(hits) - IF drop THEN 1 ELSE 0
        /\ empty \in BOOLEAN /\ drop \in BOOLEAN /\ order \in [1..n -> 1..n]
        /\ \A i, j \in DOMAIN order : order[i] = order[j] => i = j
        /\ n > 0 => order[1] = 1
    <3>1. n \in Nat /\ n = Len(hits) - IF drop THEN 1 ELSE 0
      BY <1>1, <2>2 DEF Kept
    <3>. QED  BY <2>2, <3>1
  <2>6. /\ hits \in Seq(HitSet) /\ hits # << >>
        /\ \A i, j \in DOMAIN hits : hits[i].chunk = hits[j].chunk => i = j
    BY <1>1
  <2>. HIDE DEF n, hits, empty, drop, order
  <2>7. /\ rows \in Seq(HitSet)
        /\ \A i \in DOMAIN rows : \E j \in DOMAIN hits : rows[i] = hits[j]
        /\ \A i, j \in DOMAIN rows : rows[i].chunk = rows[j].chunk => i = j
    <3>1. Draws(hits, empty, drop, order, n)
      BY <2>5, <2>6 DEF Draws
    <3>. QED  BY <3>1, DisturbedHits
  <2>. QED  BY <2>3, <2>7 DEF hits, empty, drop, order
<1>. QED  BY <1>2, <1>3

\* Noise leaves a score between 0 and 1.
LEMMA NoiseIsClamped ==
    ASSUME NEW score, \A f \in score : f[1] \in Int /\ f[2] \in Nat, NEW noise \in Int
    PROVE  /\ \A f \in Nudged(score, noise) : f[2] \in Nat /\ f[1] \in 0..f[2]
           /\ score = None => Nudged(score, noise) = None
<1>1. ASSUME NEW f \in Nudged(score, noise)
      PROVE  f[2] \in Nat /\ f[1] \in 0..f[2]
  <2>1. PICK g \in score : f = <<Clamp(g[1] * 100 + noise * g[2], 100 * g[2]), 100 * g[2]>>
    BY <1>1 DEF Nudged
  <2>2. g[1] \in Int /\ g[2] \in Nat
    OBVIOUS
  <2>3. noise * g[2] \in Int
    BY <2>2
  <2>4. g[1] * 100 + noise * g[2] \in Int /\ 100 * g[2] \in Nat
    BY <2>2, <2>3
  <2>5. Clamp(g[1] * 100 + noise * g[2], 100 * g[2]) \in 0..(100 * g[2])
    BY <2>4 DEF Clamp
  <2>. QED  BY <2>1, <2>4, <2>5
<1>2. score = None => Nudged(score, noise) = None
  BY DEF Nudged, None
<1>. QED  BY <1>1, <1>2

\* For every list of hits and whatever a realism profile draws: the stored hits
\* are hits of the search, none twice, the stored scores are in their range, and
\* the label is the first that these scores ask for.
THEOREM DisturbedCells == Spec => []DisturbedAsReported
<1>1. ASSUME Inputs, input.call = "cell", NEW o, o = Cell
      PROVE  /\ \A i \in DOMAIN o.rows : \E j \in DOMAIN input.cell.hits : o.rows[i] = input.cell.hits[j]
             /\ \A i, j \in DOMAIN o.rows : o.rows[i].chunk = o.rows[j].chunk => i = j
             /\ input.cell.realism = None => o.rows = input.cell.hits
             /\ \A f \in o.ev.coverage \cup o.ev.completeness : f[1] \in 0..f[2]
             /\ \A f \in o.ev.relevance : f[1] \in (IF input.cell.realism = None THEN -f[2] ELSE 0)..f[2]
             /\ o.ev.failure = IF o.rows = << >> THEN "RETRIEVAL_MISS" ELSE Asked(o.ev)
  <2> DEFINE cell == input.cell
             rows == CellRows(cell)
             base == compute_minimal_retrieval_evaluation(Retrieved(rows), cell.query, cell.expected)
             drawn == The(cell.realism)
  <2>1. cell \in Cells
    BY <1>1 DEF Inputs, Idle, JudgeInput, CellInput
  <2>2. o.rows = rows /\ o.ev = IF cell.realism = None THEN base ELSE Disturbed(base, drawn.noise)
    BY <1>1 DEF Cell, HeuristicCell, CellRows
  <2>3. /\ rows \in Seq(HitSet)
        /\ \A i \in DOMAIN rows : \E j \in DOMAIN cell.hits : rows[i] = cell.hits[j]
        /\ \A i, j \in DOMAIN rows : rows[i].chunk = rows[j].chunk => i = j
    BY <2>1, RowsAreHits
  <2>4. IsFiniteSet(cell.query) /\ IsFiniteSet(cell.expected)
    BY <2>1, WordsAssumption, CellsAssumption, FS_Subset
  <2>5. cell.realism = None => rows = cell.hits
    BY DEF CellRows
  <2>6. cell.realism # None => drawn.noise \in [relevance : Int, coverage : Int, completeness : Int]
    <3>1. cell.realism # None => drawn \in cell.realism
      BY DEF The, None
    <3>. QED  BY <2>1, <3>1, CellsAssumption
  <2>. HIDE DEF rows, drawn
  <2>7. /\ rows = << >> => /\ base.relevance = None /\ base.coverage = None /\ base.completeness = None
                           /\ base.failure = "RETRIEVAL_MISS"
        /\ rows # << >> => base.failure = classify_heuristic_failure_from_scores(
                                FALSE, base.relevance, base.coverage, base.completeness)
        /\ \A f \in base.relevance : f[2] \in Nat /\ f[1] \in -f[2]..f[2]
        /\ \A f \in base.coverage \cup base.completeness : f[2] \in Nat /\ f[1] \in 0..f[2]
    BY <2>3, <2>4, RowScores
  \* What is left to show, for either kind of cell.
  <2> DEFINE Ranged(ev) ==
               /\ \A f \in ev.coverage \cup ev.completeness : f[2] \in Nat /\ f[1] \in 0..f[2]
               /\ \A f \in ev.relevance :
                    f[2] \in Nat /\ f[1] \in (IF cell.realism = None THEN -f[2] ELSE 0)..f[2]
               /\ rows = << >> => ev.failure = "RETRIEVAL_MISS"
               /\ rows # << >> => ev.failure = classify_heuristic_failure_from_scores(
                                      FALSE, ev.relevance, ev.coverage, ev.completeness)
  <2>8. Ranged(o.ev)
    <3>1. CASE cell.realism = None
      BY <2>2, <2>7, <3>1
    <3>2. CASE cell.realism # None
      <4> DEFINE noise == drawn.noise
                 relevance == Nudged(base.relevance, noise.relevance)
                 coverage == Nudged(base.coverage, noise.coverage)
                 completeness == Nudged(base.completeness, noise.completeness)
      <4>1. noise.relevance \in Int /\ noise.coverage \in Int /\ noise.completeness \in Int
        BY <2>6, <3>2
      <4>2. /\ o.ev.relevance = relevance /\ o.ev.coverage = coverage /\ o.ev.completeness = completeness
            /\ o.ev.failure = classify_low_quality_failure(relevance, coverage, completeness, base.failure)
        BY <2>2, <3>2 DEF Disturbed, compute_minimal_retrieval_evaluation
      <4>3. \A f \in relevance \cup coverage \cup completeness : f[2] \in Nat /\ f[1] \in 0..f[2]
        <5>1. /\ \A f \in base.relevance : f[1] \in Int /\ f[2] \in Nat
              /\ \A f \in base.coverage : f[1] \in Int /\ f[2] \in Nat
              /\ \A f \in base.completeness : f[1] \in Int /\ f[2] \in Nat
          BY <2>7
        <5>. QED  BY <4>1, <5>1, NoiseIsClamped
      <4>4. rows # << >> => base.failure # "RETRIEVAL_MISS"
        BY <2>7 DEF classify_heuristic_failure_from_scores
      <4>5. /\ rows = << >> => o.ev.failure = "RETRIEVAL_MISS"
            /\ rows # << >> => o.ev.failure = classify_heuristic_failure_from_scores(
                                   FALSE, relevance, coverage, completeness)
        BY <2>7, <4>2, <4>4 DEF classify_low_quality_failure
      <4>. HIDE DEF relevance, coverage, completeness, base, noise
      <4>. QED  BY <3>2, <4>2, <4>3, <4>5
    <3>. QED  BY <3>1, <3>2
  <2>9. Fractions(o.ev.relevance) /\ Fractions(o.ev.coverage) /\ Fractions(o.ev.completeness)
    BY <2>8 DEF Fractions
  <2>10. rows # << >> => o.ev.failure = Asked(o.ev)
    BY <2>8, <2>9, LabelIsFirst
  <2>. HIDE DEF base
  <2>. QED  BY <2>2, <2>3, <2>5, <2>8, <2>10
<1>2. Inputs => DisturbedAsReported
  BY <1>1 DEF DisturbedAsReported
<1>. QED  BY <1>2, InputsInvariant, PTL
=============================================================================
