--------------------------- MODULE MCReachEpisode ---------------------------
(* Model checking of ReachEpisode: constants come from the configurations.  The *)
(* assumptions hold the evaluation and the replay store, over bounded inputs,   *)
(* against what their users rely on; TLC evaluates them with every run.        *)
EXTENDS EvalRun, ReplayStore

-----------------------------------------------------------------------------
(* The evaluation.                                                          *)

Quiet(left, right) ==
    [answered |-> TRUE, stop |-> FALSE, attempt |-> "timeout", left |-> left,
     right |-> right, targets |-> TRUE, rgb |-> TRUE]

Far == Quiet({Threshold + 3}, {Threshold + 3})
Near == Quiet({Threshold - 1}, {Threshold + 3})
Blind == Quiet({}, {})
Silent == [Far EXCEPT !.answered = FALSE]
Stops == [Far EXCEPT !.stop = TRUE]
Bumps == [Near EXCEPT !.attempt = "collision"]

SomeRounds == {Far, Near, Blind, Silent, Stops, Bumps}
SomeTrips == [1..3 -> SomeRounds] \cup
    {[k \in 1..MaxRounds |-> IF k \in S THEN Blind ELSE Far] : S \in SUBSET (1..MaxRounds)}

-----------------------------------------------------------------------------
(* Every call of the model is a round that was begun, and a parse failure is  *)
(* the outcome of its episode: the report's two counts of them are one.       *)
ASSUME CallsAreRounds ==
    \A a \in Arms, t \in SomeTrips :
        LET e == EvalEpisode(a, t)
        IN  /\ e.rounds <= MaxRounds /\ e.grounded + e.fails = e.rounds
            /\ e.fails = (IF e.outcome = "vlm_parse_fail" THEN 1 ELSE 0)

\* A success is what the last executed round measured; an episode that nothing
\* measured succeeds never, whatever the model says.
ASSUME SuccessWasSeen ==
    \A a \in Arms, t \in SomeTrips :
        LET e == EvalEpisode(a, t)
        IN  e.outcome = "success" <=>
                /\ e.fails = 0 /\ e.rounds > 0
                /\ a \in {"left", "both"} => e.left # {} /\ Read(e.left) < Threshold
                /\ a \in {"right", "both"} => e.right # {} /\ Read(e.right) < Threshold

\* The episode's final distance is the last one measured in it, also where the
\* model gave no answer afterwards: the averages leave out the episodes that
\* measured nothing, and no others.
ASSUME FinalIsLastSeen ==
    \A a \in Arms, t \in SomeTrips :
        LET e == EvalEpisode(a, t)
            seen == {k \in 1..(e.rounds - e.fails) : t[k].left # {}}
        IN  e.left = IF seen = {} THEN {}
                     ELSE t[CHOOSE k \in seen : \A j \in seen : j <= k].left

\* The report adds up: each episode has one outcome, and the successes and parse
\* failures are those of the distribution printed beside them.
SomeResults ==
    {EvalEpisode("left", t) :
        t \in {<<Near>>, <<Silent>>, <<Stops>>, <<Bumps>>, <<Blind, Silent>>}}

ASSUME ReportAddsUp ==
    \A results \in UNION {[1..n -> SomeResults] : n \in 0..2} :
        LET report == Report(results)
            Of(o) == IF o \in DOMAIN report.outcomes THEN report.outcomes[o] ELSE 0
        IN  /\ report.episodes =
                   FoldSet(LAMBDA o, n : n + Of(o), 0, DOMAIN report.outcomes)
            /\ report.successes = Of("success")
            /\ report.parseFail = Of("vlm_parse_fail")
            /\ report.leftSeen <= report.episodes

\* The gap is of the two runs: equal runs have none, and one that never succeeds
\* or never answers makes no division by zero (compute_distillation_gap).
ASSUME GapIsRelative ==
    \A s \in 0..3, l \in {0, 200, 1500} :
        LET run == [successes |-> s, episodes |-> 3, latency |-> l]
            gap == Gap(run, run)
        IN  gap.success \in {0, 100} /\ gap.latency = gap.speedup

-----------------------------------------------------------------------------
(* The replay store.                                                        *)

SomeFiles ==
    {[run |-> r, dir |-> Directory(o), ep |-> e, level |-> l, outcome |-> o,
      reads |-> k, name |-> n] :
        r \in {"r1", "r2"}, e \in {"e1"}, l \in {0, 1}, o \in {"success", "timeout"},
        k \in BOOLEAN, n \in {"json", "tmp"}}

SomeStores == {{}} \cup {{f, g} : f, g \in SomeFiles}

\* Success and failure split a run whatever failure is asked for, and a file that
\* is half written or does not parse is in neither (iterate, count, success_rate).
ASSUME OutcomesSplitTheRun ==
    \A S \in SomeStores, run \in {"r1", "r2"} :
        LET all == Iterate(S, {run}, {})
            won == Iterate(S, {run}, {"success"})
            lost == Iterate(S, {run}, {"collision"})
        IN  /\ all = won \cup lost /\ won \cap lost = {}
            /\ \A f \in all : f.reads /\ f.name = "json" /\ f.run = run
            /\ won = {f \in all : f.outcome = "success"}
            /\ Iterate(S, {}, {}) =
                   Iterate(S, {"r1"}, {}) \cup Iterate(S, {"r2"}, {})

\* A kill in the middle of a write, or a write that raises, changes nothing that a
\* reader sees, and a finished one adds its episode and no other (write).
ASSUME WritesAreAtomic ==
    \A S \in SomeStores, o \in {"success", "timeout"} :
        LET e == [run |-> "r1", ep |-> "e2", level |-> 0, outcome |-> o]
            Seen(store) == Iterate(store, {}, {})
        IN  /\ Seen(BeginWrite(S, e)) = Seen(S)
            /\ Seen(Write(S, e, TRUE)) = Seen(S)
            /\ {f.ep : f \in Seen(Write(BeginWrite(S, e), e, FALSE)) \ Seen(S)} = {"e2"}

\* The metrics of the levels of a run add up to the run's.
ASSUME LevelsAddUp ==
    \A S \in SomeStores, run \in {"r1", "r2"} :
        LET Of(l) == LevelMetrics(S, run, l)
        IN  /\ Of(0).total + Of(1).total = Cardinality(Iterate(S, {run}, {}))
            /\ Of(0).successes + Of(1).successes =
                   Cardinality(Iterate(S, {run}, {"success"}))
=============================================================================
