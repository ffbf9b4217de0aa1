----------------------------- MODULE MCStudent ------------------------------
(* Model checking of Student: a base protocol after one with adapters.  The     *)
(* assumptions say what two launches of a driver without completion markers     *)
(* may come to, and how the re-measurement counts; TLC evaluates them with the  *)
(* run.                                                                        *)
EXTENDS Student, PlainDrivers

MCTable ==
    [a15 |-> <<[name |-> "b_B_main_ret", adapters |-> {"B_main"}],
               [name |-> "a_base_ret", adapters |-> {}]>>,
     a17 |-> <<[name |-> "a17_text_only", adapters |-> {"A_ctrl_rat"}],
               [name |-> "a17_image_only", adapters |-> {"A_ctrl_rat"}]>>]
MCRemeasured == {"A_ctrl_rat"}

\* Where the distillation starts: with one replay or as many as the bound allows, and
\* then with an adapter of all of them or none.  What an earlier copy had left on the
\* server does not matter: the one distillation overwrites it or does not use it.
MCInit ==
    /\ Init
    /\ \A r \in Runs :
           /\ local[r] > 0
           /\ adapter[r] = 0 \/ adapter[r] = MaxReplays
           /\ remote[r] = adapter[r]

MCSpec == MCInit /\ [][Next]_vars /\ Fairness

-----------------------------------------------------------------------------
(* The plain drivers.                                                       *)

FirstLaunch == [skip |-> 0, until |-> 99, files |-> "right", converter |-> "stock", fails |-> {}]

\* Launches with at most one thing out of order.
SomeLaunches(script) ==
    {[FirstLaunch EXCEPT !.files = f, !.converter = c, !.until = u] :
        f \in {"right", "short", "refused"}, c \in {"stock", "edited"}, u \in {7, 99}}
    \cup {[FirstLaunch EXCEPT !.fails = {i}] : i \in DOMAIN script}

\* The operator resumes at the step that stopped, or before it.
Resumes(disk, script) ==
    {[l EXCEPT !.skip = s] : l \in SomeLaunches(script),
                             s \in 0..(IF disk.halted = 0 THEN 8 ELSE disk.halted)}

Outcomes(script, arms) ==
    LET first == {Launched(script, FreshDisk(arms), l) : l \in SomeLaunches(script)}
    IN  first \cup UNION {{Launched(script, d, l) : l \in Resumes(d, script)} : d \in first}

NoTraining(script, launches) ==
    {l \in launches : \A i \in l.fails : script[i].op # "train"}

Matched(pair) == pair.kto.on = pair.sft.id

\* Whatever one launch of L2 or its resumption meets, the student that answers a
\* collect was trained on files of the right size and form, on both sides.
ASSUME EvalsFollowTheGates ==
    \A d \in Outcomes(L2Script, {L2Arm}) : \A pair \in d.collected :
        pair.sft.rows = {"right"} /\ pair.kto.rows = {"right"}

\* Where no training fails its KTO adapter is on top of its SFT adapter.
ASSUME LoudFailuresKeepPairs ==
    LET starts == NoTraining(L2Script, SomeLaunches(L2Script))
        Next2(d) == NoTraining(L2Script, Resumes(d, L2Script))
    IN  \A l \in starts :
            LET d == Launched(L2Script, FreshDisk({L2Arm}), l)
            IN  \A r \in Next2(d) : \A pair \in Launched(L2Script, d, r).collected : Matched(pair)

\* A resumption trains the SFT adapter again; a KTO training that fails behind tee
\* then leaves the KTO adapter of the first launch, and the pair is evaluated.
\* The markers of the second D11 driver are what rules this out there.
ASSUME MaskedFailureMixesPairs ==
    \E d \in Outcomes(L2Script, {L2Arm}) : \E pair \in d.collected : ~Matched(pair)

\* The first launch pins the files it made, also when their row counts are wrong:
\* it stops, and so does every later launch that makes the right ones.
ASSUME TheFirstPinStays ==
    \A u \in {7, 99} :
        LET d == Launched(L2Script, FreshDisk({L2Arm}),
                          [FirstLaunch EXCEPT !.files = "short", !.until = u])
        IN  /\ d.halted = 2
            /\ \A l \in Resumes(d, L2Script) : Launched(L2Script, d, l).halted \in {1, 2}

\* The first D11 driver gives the exporter options it does not have: no launch and
\* no resumption gets past step 7, and nothing is evaluated.
ASSUME FirstDriverStopsAtExport ==
    LET arms == <<"A_ctrl_rat", "B_main">>
        script == V1Script(arms, <<[name |-> "A_ctrl_rat", arm |-> "A_ctrl_rat"],
                                   [name |-> "C_retrieval", arm |-> "A_ctrl_rat"]>>)
    IN  /\ \A d \in Outcomes(script, ToSet(arms)) : d.collected = {}
        /\ Launched(script, FreshDisk(ToSet(arms)), FirstLaunch).halted = 7
-----------------------------------------------------------------------------
(* The re-measurement that a night begins with.                             *)

Cost == INSTANCE CostHarness

\* Episodes of a source run by their number of rounds; every round after the first
\* was criticised.
SourceRun(lengths) ==
    [i \in DOMAIN lengths |->
        [id |-> i, filed |-> {"success"}, rebuilds |-> TRUE, answered |-> lengths[i],
         rounds |-> [k \in 1..lengths[i] |-> [quotes |-> k > 1, final |-> TRUE]]]]

Rounds(run) == [i \in DOMAIN run |-> Len(run[i].rounds)]

Planned(plan) == FoldLeft(LAMBDA n, x : n + x.take, 0, plan)

Measure == [steps |-> 4, perEpisode |-> 2, cap |-> 0, warmup |-> FALSE, dry |-> FALSE,
            replies |-> <<>>]

SomeRuns == {SourceRun(l) : l \in UNION {[1..n -> 1..3] : n \in 1..3}}
SomeMeasures == {[Measure EXCEPT !.steps = n, !.perEpisode = m] : n \in 0..5, m \in 1..3}
FaultyMeasures ==
    {[Measure EXCEPT !.replies = r, !.cap = c, !.warmup = w] :
        r \in [1..3 -> {"answer", "garbled", "noise", "refused", "broken"}],
        c \in {0, 2, 5}, w \in BOOLEAN}
FaultyRun == SourceRun(<<2, 1, 3>>)
Measured(h, name, run) == Cost!RunProtocol(h, Cost!Protocols[name], run, 0)

\* Where every episode has a round, exactly n_steps steps are planned, or all there
\* are within the limit per episode (select_steps, "until --n_steps steps are
\* taken"); only the last planned episode can be cut short by n_steps.
ASSUME PlanIsExact ==
    \A run \in SomeRuns, h \in SomeMeasures :
        LET plan == Cost!SelectSteps(run, h)
            Offer(i) == IF Rounds(run)[i] < h.perEpisode THEN Rounds(run)[i] ELSE h.perEpisode
            all == Planned([i \in DOMAIN run |-> [take |-> Offer(i)]])
        IN  /\ Planned(plan) = IF all < h.steps THEN all ELSE h.steps
            /\ \A i \in DOMAIN plan : plan[i].episode = run[i]
            /\ \A i \in 1..(Len(plan) - 1) : plan[i].take = Offer(i)

\* An episode whose first answer failed is dumped without rounds, and selection
\* ends there instead of passing over it: fewer steps are measured than were asked.
ASSUME EmptyEpisodeEndsThePlan ==
    /\ Planned(Cost!SelectSteps(SourceRun(<<2, 0, 3>>), Measure)) = 2
    /\ Planned(Cost!SelectSteps(SourceRun(<<2, 3>>), Measure)) = 4

\* Without faults the calls per step are one, and one recap over the mean rounds of
\* the whole source run, whichever steps were selected.
ASSUME CostIsOfTheProtocol ==
    \A run \in SomeRuns, h \in SomeMeasures, name \in DOMAIN Cost!Protocols :
        LET f == Cost!CallsPerStep(Measured(h, name, run), run)
            mean == <<Planned([i \in DOMAIN run |-> [take |-> Rounds(run)[i]]]), Len(run)>>
            recap == IF Cost!Protocols[name].recap THEN mean[2] ELSE 0
        IN  h.steps > 0 => f[1] * mean[1] = f[2] * (mean[1] + recap)

\* Whatever the server does, a failed step is the last of its episode, a step costs
\* at most three posts for each of three attempts, the cap is never passed, and a
\* call is missing from the log only where a body was not JSON or the transport broke
\* in a way that the client does not retry.
ASSUME FaultsAreAccounted ==
    \A h \in FaultyMeasures, name \in DOMAIN Cost!Protocols :
        LET log == Measured(h, name, FaultyRun)
            logged == Cost!Total(log.steps) + Cost!Total(log.recaps)
            quiet == ToSet(h.replies) \cap {"noise", "broken"} = {}
        IN  /\ \A i, j \in DOMAIN log.steps :
                  log.steps[i].id = log.steps[j].id /\ i < j => log.steps[i].ok
            /\ \A s \in ToSet(log.steps) : s.calls <= 9
            /\ h.cap > 0 => log.posts <= h.cap
            /\ logged <= log.posts
            /\ quiet /\ ~h.warmup => logged = log.posts

\* Only the last measured round of an episode can fall back on another distance than
\* the one its prompt had shown (dist_source).
ASSUME DistancesAreExact ==
    \A run \in SomeRuns : \A s \in ToSet(Measured(Measure, "teacher", run).steps) :
        s.source = "next_critic_exact" <=> s.round < Rounds(run)[s.id]

\* The exhausted cap is called a safe stop of the run.  It is a RuntimeError that
\* run_stage1 and _request_vlm_recap turn into a failed step and no lesson: the run
\* goes on through every planned episode with steps that made no call, and reports
\* fewer calls per step than an uncapped one.
ASSUME CapIsNotAStop ==
    \A c \in 1..3 :
        LET capped == Measured([Measure EXCEPT !.cap = c], "teacher", FaultyRun)
            free == Measured(Measure, "teacher", FaultyRun)
            f == Cost!CallsPerStep(capped, FaultyRun)
            g == Cost!CallsPerStep(free, FaultyRun)
        IN  /\ {s.id : s \in ToSet(capped.steps)} = {s.id : s \in ToSet(free.steps)}
            /\ Last(capped.steps).calls = 0
            /\ f[1] * g[2] < g[1] * f[2]

\* Over a buffer that is not the frozen one nothing is measured by the protocols that
\* look at it; an episode that cannot be rebuilt loses the report of every protocol.
ASSUME NothingFromAWrongBuffer ==
    LET runs(r) == [name \in DOMAIN Cost!Protocols |-> r]
        broken == [FaultyRun EXCEPT ![2].rebuilds = FALSE]
        all == <<"teacher", "student_bare", "student_retrieval">>
    IN  /\ Cost!Invocation(Measure, all, runs(FaultyRun), FALSE) = [logs |-> <<>>, report |-> <<>>]
        /\ Len(Cost!Invocation(Measure, <<"student_bare">>, runs(FaultyRun), FALSE).report) = 1
        /\ Len(Cost!Invocation(Measure, all, runs(FaultyRun), TRUE).report) = 3
        /\ Cost!Invocation(Measure, all, [runs(FaultyRun) EXCEPT !["student_retrieval"] = broken],
                           TRUE).report = <<>>
=============================================================================
