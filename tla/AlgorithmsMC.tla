---------------------------- MODULE AlgorithmsMC ----------------------------
(***************************************************************************)
(* Inputs of Algorithms for TLC: runs around the thresholds of the gate    *)
(* and of the labels, answers of each readability, counts that are         *)
(* missing; every database of a pool of runs; short texts.                 *)
(***************************************************************************)
EXTENDS Algorithms

CONSTANTS
    MaxText,        \* the greatest length of a text
    MaxSessions     \* the most timing sessions of one mode

MCTexts == UNION {[1..n -> Characters] : n \in 1..MaxText}
MCWindows == {w \in [size : 1..3, overlap : 0..2] : w.overlap < w.size}

MCWords == {"a", "why", "how", "since", "then", "never"}

Hit(chunk, score, text) == [chunk |-> chunk, score |-> score, text |-> text]

Found == {<< >>,
          <<Hit(1, 90, {"why", "how"}), Hit(2, 80, {"since"})>>,
          <<Hit(1, 90, {"why"}), Hit(2, 10, {})>>,
          <<Hit(1, 95, {"since"}), Hit(2, 90, {"since"})>>,
          <<Hit(1, 90, {"a"}), Hit(2, 40, {"why", "how"}), Hit(3, -20, {})>>}

\* A read that finds what the one before found, whatever was deleted between some.
Left(hits, gone) == SelectSeq(hits, LAMBDA hit : hit.chunk \notin gone)
Reads(hits, a, b, c) == <<hits, Left(hits, a), Left(hits, b), Left(hits, c)>>
Steady == {Reads(hits, {}, {}, {}) : hits \in Found}

\* The chunks 1 and 3 are of one document, 2 is of another.
Deletions == {{}, {1, 3}, {2}, {1, 2, 3}}
Shrinking == {Reads(hits, d[1], d[2], d[3]) :
                  hits \in {<<Hit(1, 90, {"why"}), Hit(2, 28, {"how"}), Hit(3, 88, {"since"})>>,
                            <<Hit(2, 85, {"why", "how"}), Hit(3, 88, {})>>},
                  d \in {<<a, b, c>> \in Deletions \X Deletions \X Deletions : a \subseteq b /\ b \subseteq c}}

MCJudgedRuns ==
    [hybrid : BOOLEAN, reads : Steady, query : {{"why", "how"}, {"a"}}, expected : {{}, {"since", "then"}}]
    \cup [hybrid : {TRUE}, reads : Shrinking, query : {{"why", "how"}}, expected : {{"since"}}]

MCGenerations == {[answer |-> {"since"}, input |-> {13}, output |-> {7}],
                  [answer |-> {}, input |-> {20}, output |-> None],
                  [answer |-> {"never"}, input |-> None, output |-> None]}

Number1(n) == [kind |-> "number", n |-> n]
Payload(v, label) == [scores |-> [k \in SCORE_KEYS |-> IF k = "faithfulness" THEN v ELSE Number1(50)],
                      label |-> label]
Payloads == {Payload(Number1(130), [form |-> "loose", of |-> "ANSWER_UNSUPPORTED"]),
             Payload(Number1(-1), [form |-> "other", of |-> "UNKNOWN"]),
             Payload([kind |-> "bad", n |-> 0], [form |-> "missing", of |-> "UNKNOWN"])}
Raws == {[fence |-> "object", brace |-> "object", whole |-> "invalid"],
         [fence |-> "none", brace |-> "invalid", whole |-> "object"],
         [fence |-> "none", brace |-> "object", whole |-> "invalid"],
         [fence |-> "invalid", brace |-> "object", whole |-> "invalid"],
         [fence |-> "none", brace |-> "none", whole |-> "other"],
         [fence |-> "none", brace |-> "none", whole |-> "none"]}
Untold(raw) == [raw |-> raw, data |-> Payload(Number1(70), [form |-> "alias", of |-> "NO_FAILURE"]),
                input |-> None, output |-> None]
Told(raw, data) == [raw |-> raw, data |-> data, input |-> {25}, output |-> {5}]
\* Every reading of an answer, every payload of a readable one.
MCAnswers == {Told(raw, Payload(Number1(130), [form |-> "loose", of |-> "ANSWER_UNSUPPORTED"])) : raw \in Raws}
             \cup {Told(raw, data) : raw \in {r \in Raws : r.whole = "object"}, data \in Payloads}
             \cup {Untold(raw) : raw \in Raws}

MCRates == {[input |-> 25, output |-> 101], [input |-> 25, output |-> -1], [input |-> 0, output |-> 0]}

HitLists == {<<Hit(1, 90, {"why"}), Hit(2, 60, {"how"}), Hit(3, 20, {"since"})>>,
             <<Hit(1, 33, {"why", "how"}), Hit(2, 27, {"since"})>>,
             <<Hit(1, 30, {"why", "how"}), Hit(2, -45, {"since"})>>,
             <<Hit(2, 28, {"how"})>>}
Orders(n) == IF n = 0 THEN {<< >>}
             ELSE {<<1>> \o o : o \in {[i \in 1..(n - 1) |-> i + 1], [i \in 1..(n - 1) |-> n + 1 - i]}}
Noise == [relevance : {-5, 0, 5}, coverage : {-12, 12}, completeness : {-5, 0}]
Drawn(hits) ==
    {r \in [empty : BOOLEAN, drop : BOOLEAN, order : UNION {Orders(n) : n \in 0..3}, noise : Noise] :
        Len(r.order) = Len(hits) - IF r.drop THEN 1 ELSE 0}

MCCells ==
    UNION {[hits : {hits}, query : {{"why"}, {"why", "how"}, {}}, expected : {{}, {"since", "then"}},
            realism : {None} \cup {{r} : r \in Drawn(hits)}] : hits \in HitLists}

Plain == [id |-> 0, config |-> 1, case |-> 1, text |-> 1, dataset |-> 1, realism |-> FALSE, day |-> 1,
          status |-> "completed", traced |-> TRUE, gen |-> FALSE,
          lat |-> [phase \in Phases |-> IF phase = "generation" THEN None ELSE {40}],
          ev |-> None, workload |-> None, arm |-> "none", used |-> None]

Scored100(n) == [key \in SCORE_KEYS |-> IF key = "groundedness" THEN None ELSE n]
Heuristic(n, failure) ==
    {[llm |-> FALSE, type |-> {"heuristic"}, score |-> Scored100(n), failure |-> {failure}, cost |-> None]}
Untyped(n) == {[llm |-> FALSE, type |-> None, score |-> Scored100(n), failure |-> None, cost |-> None]}
Llm(n, failure, cost) ==
    {[llm |-> TRUE, type |-> {"llm"}, score |-> Scored100(n), failure |-> {failure}, cost |-> cost]}
Rag(r) == [r EXCEPT !.gen = TRUE, !.lat.generation = {300}, !.lat.total = {420}]

RunPool ==
    LET r(id, config, case, ev) == [Plain EXCEPT !.id = id, !.config = config, !.case = case, !.ev = ev]
    IN  {r(1, 1, 1, Heuristic({40}, "NO_FAILURE")),
         r(2, 1, 2, Heuristic({90}, "RETRIEVAL_PARTIAL")),
         [r(3, 2, 1, Heuristic({65}, "NO_FAILURE")) EXCEPT !.day = 2],
         Rag(r(4, 2, 2, Llm({30}, "ANSWER_UNSUPPORTED", {300}))),
         [Rag(r(5, 1, 1, Llm({20}, "NO_FAILURE", {100}))) EXCEPT !.day = 2],
         [r(6, 2, 1, Heuristic({0}, "RETRIEVAL_PARTIAL")) EXCEPT !.realism = TRUE],
         [r(7, 1, 3, None) EXCEPT !.dataset = 2, !.status = "failed", !.traced = FALSE],
         [r(8, 2, 3, Untyped({70})) EXCEPT !.dataset = 2],
         [r(9, 2, 2, None) EXCEPT !.status = "running", !.lat.total = None]}

MCDatabases == SUBSET RunPool
MCDatasets == {None, {1}, {2}}

Matching(id, w, arm, used) ==
    [Rag(Plain) EXCEPT !.id = id, !.ev = Llm({50}, "NO_FAILURE", None), !.workload = w, !.arm = arm, !.used = used]
WorkloadPool ==
    {Matching(1, {"w1"}, "llm_only", {1}), Matching(2, {"w1"}, "llm_only", {1}), Matching(3, {"w1"}, "hybrid", {0}),
     Matching(4, {"w1"}, "hybrid", {1}), Matching(5, {"w2"}, "llm_only", {1}), Matching(6, {"w2"}, "hybrid", {1}),
     [Matching(7, {"w1"}, "hybrid", {0}) EXCEPT !.realism = TRUE], Matching(8, None, "hybrid", {0}),
     [Matching(9, {"w2"}, "hybrid", {0}) EXCEPT !.gen = FALSE]}

\* n runs of each arm, around the thresholds of the tiers.
Arms(n) == {Matching(k, {"w1"}, "llm_only", {1}) : k \in 1..n}
           \cup {Matching(100 + k, {"w1"}, "hybrid", {k % 2}) : k \in 1..n}
MCWorkloads == SUBSET WorkloadPool \cup {Arms(n) : n \in {9, 10}}

\* The query cases 2 and 3 have the same text.
PlanPool ==
    LET r(id, case, failure) == [Plain EXCEPT !.id = id, !.case = case, !.text = IF case = 3 THEN 2 ELSE case,
                                              !.ev = Heuristic({10 * (id % 4)}, failure)]
    IN  {r(1, 1, "RETRIEVAL_MISS"), r(2, 1, "RETRIEVAL_MISS"), r(3, 1, "RETRIEVAL_PARTIAL"),
         r(4, 1, "CHUNK_FRAGMENTATION"), r(5, 2, "RETRIEVAL_MISS"), r(6, 2, "RETRIEVAL_PARTIAL"),
         r(7, 3, "RETRIEVAL_PARTIAL"), r(8, 4, "RETRIEVAL_MISS"), r(9, 5, "NO_FAILURE"), r(10, 5, "NO_FAILURE")}

Timed == {[id |-> n, run |-> n, mode |-> "manual", synthetic |-> n = 7, start |-> 0, insight |-> None,
           end |-> None] : n \in {5, 7}}

Alike(target) == [b \in ToSet(ALL_BUCKETS) |-> target]
MCPlans == [runs : SUBSET PlanPool, sessions : {Timed}, limit : {4, 200},
            targets : {Alike(n) : n \in 1..3} \cup {GROUP_TARGETS}]

\* Completed sessions of each mode, made and patched one by one; those on run 6,
\* a disturbed run, and those that end before they start do not count.
Held(manual, assisted, stray) ==
    LET hold(held, from, n, mode, run, end) ==
            Hold(RunPool, held, from, n, mode, [run |-> run, start |-> 5, end |-> end])
    IN  hold(hold(hold(hold({}, 1, manual, "manual", 1, 9), 101, assisted, "assisted", 2, 7),
                  201, stray, "manual", 6, 9), 301, stray, "assisted", 3, 4)

MCExperiments ==
    {[runs |-> RunPool, sessions |-> Held(manual, assisted, stray), free |-> 401,
      next |-> [mode \in Modes |-> [run |-> 1, start |-> 5, end |-> 9]]] :
        manual \in 0..MaxSessions, assisted \in 0..MaxSessions, stray \in 0..1}

MCQueries ==
    {q \in [ids : {<<2, 1, 2>>, <<1, 3>>}, type : {"both", "llm"}, dataset : {None, {1}},
            min : {None, {3}}, strict : BOOLEAN, realism : BOOLEAN] :
        (q.strict => ~q.realism) /\ (q.type = "llm" => q.min = None /\ ~q.realism)}

\* Rows as the ranking sees them; ids need not be in order.
Averages == {None, {0}, {500}, {1000}}
Ranked(x) == [id |-> x[1], traced_runs |-> x[3], unique_query_count |-> x[3],
              score |-> [key \in SCORE_KEYS |-> [avg |-> x[2]]]]
MCRankings ==
    {<<Ranked(x), Ranked(y), Ranked(z)>> : x \in {2} \X Averages \X {9}, y \in {1} \X Averages \X {0, 7, 8, 10},
                                           z \in {3} \X Averages \X {10, 15}}
=============================================================================
