----------------------------- MODULE Algorithms -----------------------------
(***************************************************************************)
(* The pure algorithms: those of Judging and Comparing, and the chunker,   *)
(* the dashboards and the diagnosis experiment, each called once with one  *)
(* input and compared with what its callers rely on, stated independently. *)
(***************************************************************************)
EXTENDS Judging, Comparing, Chunker, Diagnosis

CONSTANTS
    Characters,     \* what texts are made of
    Texts,          \* the texts that are split
    Windows,        \* [size, overlap], as _validate_chunk_params lets them pass
    Datasets,       \* optional datasets that a dashboard is asked for
    Workloads,      \* sets of runs of matched workloads
    Plans,          \* [runs, sessions, targets, limit]
    Experiments     \* [runs, sessions, free, next], see CallSessions

ASSUME TextsAssumption == Texts \subseteq Seq(Characters)
ASSUME WindowsAssumption == \A w \in Windows : w.size \in Nat \ {0} /\ w.overlap \in 0..(w.size - 1)

\* What the dashboards read of a run besides; a run of a matched workload has
\* used the judge once or not at all (trace_instrumentation.py:35-95).
ASSUME DashboardsAssumption ==
    /\ \A d \in Datasets : Optional(d)
    /\ \A runs \in Databases : \A r \in runs :
         r.day \in Nat /\ \A row \in r.ev : \A f, g \in row.failure : f = g
ASSUME WorkloadsAssumption ==
    \A runs \in Workloads :
        /\ Database(runs)
        /\ \A r \in runs : r.used \in {None, {0}, {1}} /\ \A v, w \in r.workload : v = w

ASSUME PlansAssumption ==
    \A p \in Plans : /\ Database(p.runs) /\ IsFiniteSet(p.sessions) /\ p.limit \in Nat
                      /\ p.targets \in [ToSet(ALL_BUCKETS) -> Nat]

\* Timing sessions of runs; the next ones are held on runs that count.
Modes == {"manual", "assisted"}
ASSUME ExperimentsAssumption ==
    \A e \in Experiments :
        /\ Database(e.runs) /\ IsFiniteSet(e.sessions) /\ e.free \in Nat
        /\ \A s \in e.sessions : /\ s.id \in 0..(e.free - 1) /\ s.mode \in Modes /\ s.synthetic \in BOOLEAN
                                 /\ s.start \in Nat /\ Optional(s.insight) /\ Optional(s.end)
        /\ \A s, t \in e.sessions : s.id = t.id => s = t
        /\ \A mode \in Modes :
             LET n == e.next[mode]
             IN  n.start \in Nat /\ n.end \in Nat /\ n.start <= n.end
                 /\ \E r \in e.runs : r.id = n.run /\ ~r.realism

-----------------------------------------------------------------------------
(* The chunker. *)

CallChunker ==
    \E text \in Texts, window \in Windows, strategy \in {"fixed", "recursive"} :
        input' = [call |-> "chunk", text |-> text, strategy |-> strategy, window |-> window]

Chunks == ChunkText(input.text, input.strategy, input.window.size, input.window.overlap)
Split(strategy) == input.call = "chunk" /\ input.strategy = strategy

(* Fixed windows stand in the text where their offsets say, follow each other, miss no      *)
(* character but blanks, and none is longer than the size (services/chunker.py:56-86).       *)
FixedWindows ==
    Split("fixed") =>
        LET text == strip(input.text)
        IN  /\ InOrder(Chunks.chunks) /\ Covered(text, Chunks.chunks) /\ Located(text, Chunks.chunks)
            /\ \A k \in DOMAIN Chunks.chunks : Len(Chunks.chunks[k].content) <= input.window.size

(* The pieces of the recursive strategy hold every letter once and in the order of the text,  *)
(* and a piece exceeds the size by at most the end of the sentence it was given back; chunks   *)
(* whose pieces were all found stand where their offsets say.  Their offsets follow the order  *)
(* of the text, and every letter lies in one of them, where no space stands between two words; *)
(* there none raises either (services/chunker.py:89-180).                                      *)
RecursivePieces ==
    Split("recursive") =>
        LET text == strip(input.text)
            pieces == SplitRecursive(text, input.window.size)
            chunks == Chunks.chunks
        IN  /\ Letters(FlattenSeq(pieces)) = Letters(text)
            /\ \A k \in DOMAIN pieces : Len(pieces[k]) <= input.window.size + 1
            /\ ~Chunks.raised => Located(text, chunks)
            /\ SpacedBySentences(text) =>
                 /\ ~Chunks.raised /\ InOrder(chunks)
                 /\ \A i \in DOMAIN text : IsLetter(text[i]) =>
                        \E k \in DOMAIN chunks : chunks[k].start < i /\ i <= chunks[k].end

(* "Split text into ordered chunks with source offsets" (services/chunker.py:27): every text *)
(* is split, none raises.  Two words put in one piece without their blank are not found.     *)
RecursiveFindsItsPieces == Split("recursive") => ~Chunks.raised

-----------------------------------------------------------------------------
(* The dashboards on one state of the database. *)

CallSummary == \E runs \in Databases, dataset \in Datasets :
    input' = [call |-> "summary", runs |-> runs, dataset |-> dataset]

Everything(dataset) == [dataset |-> dataset, config |-> None, status |-> None, evaluator |-> None,
                        limit |-> 20, offset |-> 0]
SumOf(s, of) == SumFunction([i \in DOMAIN s |-> s[i][of]])
Counted == dashboard_aggregate_run_scope(input.runs, input.dataset)

\* No row is from before the evaluator type was stored.
Typed == \A r \in Counted : \A row \in r.ev : row.llm \/ row.type # None

\* States and evaluators, in the counts, the days and the recent runs.
RunsAddUp(o, days) ==
    LET recent(t) == Cardinality({i \in DOMAIN o.recent_runs : o.recent_runs[i].evaluator_type = t})
    IN  /\ o.total_runs = o.status.completed + o.status.failed + o.status.in_progress
        /\ Typed => o.total_runs = o.evaluator.heuristic_runs + o.evaluator.llm_runs
                                       + o.evaluator.runs_without_evaluation
        /\ Len(days) < 90 => o.total_runs = SumOf(days, "runs")
        /\ o.total_runs <= 20 => /\ recent("llm") = o.evaluator.llm_runs
                                 /\ Typed => recent("heuristic") = o.evaluator.heuristic_runs
        /\ o.cost.all.count + o.cost.not_available = o.scale.total_traced_runs

\* Failures by label, by day and by configuration.
FailuresAddUp(o, days, by_config) ==
    LET labels == DOMAIN o.failure_type_counts \ {"NO_FAILURE"}
    IN  /\ o.model_failures = SumFunction([f \in labels |-> o.failure_type_counts[f]])
        /\ Len(days) < 90 => o.model_failures = SumOf(days, "failure_count")
        /\ o.model_failures = SumFunction([c \in DOMAIN by_config |-> by_config[c].total])

\* The run list shows the runs that the summary counts, and says of a run what
\* its page says.
ListAgrees(o, listed) ==
    /\ \A i \in DOMAIN listed.items : \A page \in get_run_detail(input.runs, listed.items[i].run_id) :
           page.evaluator_type = listed.items[i].evaluator_type
    /\ input.dataset # None =>
         /\ listed.total = o.total_runs
         /\ [i \in DOMAIN listed.items |-> listed.items[i].run_id]
                = [i \in DOMAIN o.recent_runs |-> o.recent_runs[i].run_id]

ReportAgrees(o, report) ==
    input.dataset = None =>
        /\ report.counts.evaluation_rows["heuristic"] = o.evaluator.heuristic_runs
        /\ report.counts.evaluation_rows["llm"] = o.evaluator.llm_runs
        /\ report.counts.configs_tested = o.scale.configs_tested
        /\ report.costs["llm"] = o.cost.llm.avg
        /\ o.latency["total"].count > 0 =>
               report.latencies.all["total"] = [avg |-> o.latency["total"].avg, p95 |-> o.latency["total"].p95]

(* The figures of one slice agree: states, evaluators, costs and labels each add up to the   *)
(* total, the days and the configurations add up to the summary, and a dataset's summary      *)
(* counts the runs that the run list of the dataset shows; the list and the page of a run    *)
(* name the same evaluator, and without a dataset the metrics report says what the summary    *)
(* says.  Series are cut at 90 days and recent runs at 20.  Where a row has no evaluator type *)
(* the evaluators do not add up: it is of the heuristic bucket (evaluator_bucket.py:5-6), but *)
(* SQL's NOT of a NULL counts it nowhere (dashboard_summary.py:48-300,                         *)
(* dashboard_analytics.py:38-205, run_list.py:21-114, metrics/aggregate.py:118-316).           *)
SummaryAddsUp ==
    input.call = "summary" =>
        \A o \in {get_dashboard_summary(input.runs, input.dataset)},
           a \in {get_dashboard_analytics(input.runs, input.dataset)} :
            /\ RunsAddUp(o, a.time_series) /\ FailuresAddUp(o, a.time_series, a.failures.by_config)
            /\ ListAgrees(o, list_runs(input.runs, Everything(input.dataset)))
            /\ ReportAgrees(o, aggregate_all_metrics(input.runs))

CallReduction == \E runs \in Workloads :
    input' = [call |-> "reduction", runs |-> runs]

(* A reduction of judge calls is claimed only for a workload measured in both arms, by runs  *)
(* that are organic, tagged and complete, and is never more than all the calls; it is total    *)
(* only if no hybrid run used the judge and, where every llm_only run did, nothing if all did; *)
(* a tier counts no run twice (dashboard_evidence.py:123-219).                                 *)
ReductionIsHonest ==
    input.call = "reduction" =>
        LET measured == {r \in Organic(input.runs) :
                            r.ev # None /\ r.gen /\ r.used # None /\ r.workload # None}
            arm(w, a) == {r \in measured : r.workload = {w} /\ r.arm = a}
        IN  \A o \in {build_llm_reduction_evidence(input.runs, None)} :
            /\ o = build_llm_reduction_evidence(measured, None)
            /\ \A w \in DOMAIN o.workloads :
                 LET f == o.workloads[w].reduction  only == arm(w, "llm_only")  hybrid == arm(w, "hybrid")
                 IN  /\ only # {} /\ hybrid # {} /\ f[1] <= f[2]
                     /\ f[1] = f[2] <=> \A r \in hybrid : r.used = {0}
                     /\ (\A r \in only : r.used = {1}) => (f[1] = 0 <=> \A r \in hybrid : r.used = {1})
            /\ \A a \in {"llm_only", "hybrid"} :
                 LET n == Cardinality({r \in measured : r.arm = a})
                 IN  /\ n < 3 => o.tier = "sparse"
                     /\ n < 10 => o.tier # "normal"

-----------------------------------------------------------------------------
(* The diagnosis experiment. *)

CallPlan == \E p \in Plans :
    input' = [call |-> "plan", runs |-> p.runs, sessions |-> p.sessions, targets |-> p.targets, limit |-> p.limit]

Candidates == score_candidates(_fetch_candidates(input.runs, input.sessions, None, input.limit))

RunIds(slots) == {slots[i].run_id : i \in DOMAIN slots}
OfBucket(slots, b) == Cardinality({i \in DOMAIN slots : slots[i].bucket = b})

\* The places of a bucket's candidates that are in some slots, all of query case q.
Repeats(slots, scored, b, q) ==
    {i \in Pool(scored, b) : scored[i].c.run_id \in RunIds(slots) /\ scored[i].c.case = q}

\* A query case that was chosen twice is in both groups, but for one that is full.
SharesRepeats(plan, scored, b, target) ==
    \A q \in {scored[i].c.case : i \in Pool(scored, b)} :
        Cardinality(Repeats(plan_to_export_rows(plan), scored, b, q)) > 1 =>
            \A slots \in {plan.manual_slots, plan.assisted_slots} :
                Repeats(slots, scored, b, q) # {} \/ OfBucket(slots, b) = target

\* The manual and the assisted slots of a bucket, full as far as there are candidates.
FillsBucket(plan, scored, b, target) ==
    LET m == OfBucket(plan.manual_slots, b)
        a == OfBucket(plan.assisted_slots, b)
        pool == Pool(scored, b)
        n == Cardinality(pool)
        chosen == RunIds(plan_to_export_rows(plan))
    IN  /\ m <= target /\ a <= target
        /\ m + a = IF n < 2 * target THEN n ELSE 2 * target
        /\ b \in plan.short <=> m + a < 2 * target
        /\ target = GROUP_TARGETS[b] => (_print_buckets(scored)[b].enough <=> b \notin plan.short)
        /\ \A i, j \in pool : scored[i].c.run_id \in chosen /\ scored[j].c.run_id \notin chosen
                                  => scored[i].score >= scored[j].score
        /\ (\A i, j \in pool : scored[i].c.case = scored[j].c.case => i = j) => m - a \in {0, 1}

(* A plan fills both groups of every bucket as far as candidates go, never beyond the target, *)
(* with the best candidates and no run twice; it warns exactly when a bucket is not full; and *)
(* groups of different queries differ by one run at most.  Within a bucket a query case that   *)
(* is chosen twice is in both groups while both have room: lines 251 and 286 say that it is    *)
(* kept out of one, lines 309-325 ask each group for the cases it has itself                   *)
(* (diagnosis_experiment_design.py:148-214, :243-360).                                         *)
PlanFillsTheGroups ==
    input.call = "plan" =>
        \A scored \in {Candidates} : \A plan \in {build_experiment_plan(scored, input.targets)} :
            /\ Cardinality(RunIds(plan_to_export_rows(plan))) = Len(plan_to_export_rows(plan))
            /\ \A b \in ToSet(ALL_BUCKETS) : /\ FillsBucket(plan, scored, b, input.targets[b])
                                              /\ SharesRepeats(plan, scored, b, input.targets[b])

\* n sessions of a mode, made and patched one by one from the id `from'.
Hold(runs, sessions, from, n, mode, next) ==
    FoldLeft(LAMBDA held, id : patch_diagnosis_session(
                 create_diagnosis_session(runs, held, id, next.run, mode, next.start, FALSE), id, None, {next.end}),
             sessions, [k \in 1..n |-> from + k - 1])

\* The sessions so far, an id that is free with all that follow, and the
\* sessions that are held next: on which run, from when until when.
CallSessions == \E e \in Experiments :
    input' = [call |-> "sessions", runs |-> e.runs, sessions |-> e.sessions, free |-> e.free, next |-> e.next]

After(manual, assisted) ==
    Hold(input.runs, Hold(input.runs, input.sessions, input.free, manual, "manual", input.next["manual"]),
         input.free + manual, assisted, "assisted", input.next["assisted"])

\* Sessions that are real, on a run that is not disturbed, and ended.
Timely(mode) ==
    {s \in input.sessions : /\ s.mode = mode /\ ~s.synthetic /\ \E e \in s.end : e >= s.start
                            /\ \E r \in input.runs : r.id = s.run /\ ~r.realism}
Lasted(s) == The(s.end) - s.start

(* Whoever holds the sessions that the script asks for reaches the tier it names: the numbers *)
(* printed by the script and the thresholds of the dashboard agree, whatever sessions do not   *)
(* count; and assisted diagnosis is called faster, or slower, only if some session was         *)
(* (list_diagnosis_candidates.py:355-373, dashboard_evidence.py:27-120).                        *)
MissingLeadsToTier ==
    input.call = "sessions" =>
        \A asked \in {_export_sessions(input.runs, input.sessions, None)} :
            /\ \A k \in DOMAIN asked.missing["manual"] :
                 \A held \in {After(asked.missing["manual"][k], asked.missing["assisted"][k])} :
                     LET tier == build_diagnosis_timing_evidence(input.runs, held, None).tier
                     IN  tier # "insufficient" /\ (k = 2 => tier = "normal")
            /\ asked.missing["manual"] = << >> => \A mode \in Modes : Cardinality(Timely(mode)) >= 5
            /\ \A x \in asked.evidence.delta :
                 /\ x[1] > 0 => \E s \in Timely("manual"), t \in Timely("assisted") : Lasted(s) > Lasted(t)
                 /\ x[1] < 0 => \E s \in Timely("manual"), t \in Timely("assisted") : Lasted(s) < Lasted(t)

-----------------------------------------------------------------------------
Next == input = Idle /\ (\/ CallJudge \/ CallCell \/ CallChunker \/ CallCompare \/ CallRank
                         \/ CallSummary \/ CallReduction \/ CallPlan \/ CallSessions)
Spec == Init /\ [][Next]_input
=============================================================================
