------------------------------ MODULE Diagnosis ------------------------------
(***************************************************************************)
(* The diagnosis experiment: which runs are candidates, how they are scored, *)
(* and the plan that shares them out between the manual and the assisted    *)
(* group; and the timing sessions.  Runs are those of Aggregates.           *)
(***************************************************************************)
EXTENDS Dashboards

FAILURE_TO_BUCKET ==
    [f \in FailureTypes |->
        CASE f \in {"RETRIEVAL_MISS", "RETRIEVAL_PARTIAL", "CHUNK_FRAGMENTATION"} -> "retrieval_related"
          [] f \in {"ANSWER_UNSUPPORTED", "ANSWER_INCOMPLETE", "CONTEXT_TRUNCATION"} ->
                "generation_incomplete"
          [] f \in {"MIXED_FAILURE", "UNKNOWN", "CONTEXT_INSUFFICIENT"} -> "mixed_ambiguous"
          [] f = "NO_FAILURE" -> "easy_control"]

ALL_BUCKETS == <<"retrieval_related", "generation_incomplete", "mixed_ambiguous", "easy_control">>

GROUP_TARGETS == [b \in ToSet(ALL_BUCKETS) |-> CASE b = "retrieval_related" -> 4
                                                 [] b = "generation_incomplete" -> 3
                                                 [] b = "mixed_ambiguous" -> 2
                                                 [] b = "easy_control" -> 1]

classify_bucket(failure) ==
    IF failure = "" THEN "easy_control"
    ELSE IF failure \in FailureTypes THEN FAILURE_TO_BUCKET[failure] ELSE "mixed_ambiguous"

-----------------------------------------------------------------------------
(* Timing sessions (see build_diagnosis_timing_evidence). *)

create_diagnosis_session(runs, sessions, id, run, mode, start, synthetic) ==
    IF run \in {r.id : r \in runs} /\ mode \in {"manual", "assisted"}
    THEN sessions \cup {[id |-> id, run |-> run, mode |-> mode, synthetic |-> synthetic,
                         start |-> start, insight |-> None, end |-> None]}
    ELSE sessions

\* A value that is not given keeps the old one.
patch_diagnosis_session(sessions, id, insight, end) ==
    {IF s.id # id THEN s
     ELSE [s EXCEPT !.insight = IF insight = None THEN @ ELSE insight,
                    !.end = IF end = None THEN @ ELSE end] : s \in sessions}

list_diagnosis_sessions_for_run(sessions, run) ==
    Ordered({s \in sessions : s.run = run}, LAMBDA a, b : a.id < b.id)

-----------------------------------------------------------------------------
(* Candidates, newest first. *)

Sessions(sessions, run, mode) ==
    Cardinality({s \in sessions : s.run = run /\ s.mode = mode /\ ~s.synthetic})

_fetch_candidates(runs, sessions, dataset, limit) ==
    LET completed == {r \in Evaluated(Status(runs, {"completed"})) : dataset \subseteq {r.dataset}}
        newest == FirstOf(limit, Ordered(completed, LAMBDA a, b : a.id > b.id))
    IN  [i \in DOMAIN newest |->
            LET r == newest[i]
            IN  [run_id |-> r.id, case |-> r.case, text |-> r.text, score |-> Row(r).score,
                 failure |-> IF Failure(r) = None THEN "NO_FAILURE" ELSE The(Failure(r)),
                 sessions |-> Sessions(sessions, r.id, "manual") + Sessions(sessions, r.id, "assisted")]]

\* Four hundred times the difficulty.
compute_difficulty(c) ==
    SumFunction([key \in SCORE_KEYS \ {"groundedness"} |->
                    IF c.score[key] = None THEN 50 ELSE 100 - Clamp(The(c.score[key]), 100)])

\* Twenty times the score.  A text is the normalised one of a query, which several
\* cases may share.
Scored(candidates, i) ==
    LET c == candidates[i]
        bucket == classify_bucket(c.failure)
        seen == Cardinality({j \in 1..(i - 1) : candidates[j].text = c.text})
    IN  [c |-> c, bucket |-> bucket,
         score |-> (IF bucket = "easy_control" THEN -1000 ELSE 800) + compute_difficulty(c)
                       - 600 * seen - 200 * c.sessions]

score_candidates(candidates) ==
    Ordered({Scored(candidates, i) : i \in DOMAIN candidates},
            LAMBDA a, b : a.score > b.score \/ (a.score = b.score /\ a.c.run_id > b.c.run_id))

-----------------------------------------------------------------------------
(* The plan. *)

Picked(groups, mode) == ToSet(groups[mode])
Cases(groups, mode) == {sc.c.case : sc \in Picked(groups, mode)}
PickFor(groups, mode, sc) == [groups EXCEPT ![mode] = Append(@, sc)]

\* Mutant: a tie always goes to the manual group, even when it is full.
PickManual(groups, sc, target) ==
    IF Len(groups.manual) + Len(groups.assisted) < 2 * target THEN PickFor(groups, "manual", sc)
    ELSE groups

\* A candidate goes to the group that lacks more and has not got its query
\* case; to the manual group of two equal ones; if both have the case, to the
\* manual group as long as that lacks any.
Pick(groups, sc, target) ==
    LET needs(mode) == target - Len(groups[mode])
        can(mode) == needs(mode) > 0 /\ sc.c.case \notin Cases(groups, mode)
        manual == can("manual") /\ (can("assisted") => needs("manual") >= needs("assisted"))
    IN  IF manual THEN PickFor(groups, "manual", sc)
        ELSE IF can("assisted") THEN PickFor(groups, "assisted", sc)
        ELSE IF needs("manual") > 0 THEN PickFor(groups, "manual", sc)
        ELSE IF needs("assisted") > 0 THEN PickFor(groups, "assisted", sc)
        ELSE groups

\* The places of a bucket's candidates.
Pool(scored, bucket) == {i \in DOMAIN scored : scored[i].bucket = bucket}

GroupsOf(scored, bucket, target) ==
    FoldLeft(LAMBDA groups, sc : IF sc.bucket = bucket THEN Pick(groups, sc, target) ELSE groups,
             [manual |-> << >>, assisted |-> << >>], scored)

_make_slot(sc, mode) ==
    [run_id |-> sc.c.run_id, mode |-> mode, bucket |-> sc.bucket, failure |-> sc.c.failure,
     difficulty |-> HalfEven(1000 * compute_difficulty(sc.c), 400), sessions |-> sc.c.sessions]

build_experiment_plan(scored, targets) ==
    LET groups == [b \in ToSet(ALL_BUCKETS) |-> GroupsOf(scored, b, targets[b])]
        slots(mode) == FlattenSeq([i \in DOMAIN ALL_BUCKETS |->
                           LET g == groups[ALL_BUCKETS[i]][mode]
                           IN  [k \in DOMAIN g |-> _make_slot(g[k], mode)]])
        available(b) == Cardinality(Pool(scored, b))
    IN  [manual_slots |-> slots("manual"), assisted_slots |-> slots("assisted"),
         short |-> {b \in ToSet(ALL_BUCKETS) : available(b) < 2 * targets[b]},
         incomplete |-> Len(slots("manual")) + Len(slots("assisted")) < 20,
         bucket_summary |-> [b \in ToSet(ALL_BUCKETS) |->
             [available |-> available(b), needed_total |-> 2 * targets[b],
              assigned |-> Len(groups[b].manual) + Len(groups[b].assisted)]]]

plan_to_export_rows(plan) == plan.manual_slots \o plan.assisted_slots

-----------------------------------------------------------------------------
(* The script's views of the same data. *)

_print_buckets(scored) ==
    [b \in ToSet(ALL_BUCKETS) |->
        [pool |-> FirstOf(10, SelectSeq(scored, LAMBDA sc : sc.bucket = b)),
         enough |-> Cardinality(Pool(scored, b)) >= 2 * GROUP_TARGETS[b]]]

\* How many more completed sessions the script asks for, per mode and tier.
_export_sessions(runs, sessions, dataset) ==
    LET evidence == build_diagnosis_timing_evidence(runs, sessions, dataset)
        missing(mode, n) == IF evidence.completed[mode] >= n THEN 0 ELSE n - evidence.completed[mode]
    IN  [rows |-> {s \in sessions : ~s.synthetic /\ \E r \in runs : r.id = s.run /\ dataset \subseteq {r.dataset}},
         evidence |-> evidence,
         missing |-> [mode \in {"manual", "assisted"} |->
                         IF evidence.tier # "insufficient" THEN << >>
                         ELSE <<missing(mode, 5), missing(mode, 10)>>]]
=============================================================================
