---------------------------- MODULE MCPushMemory ----------------------------
(* Model checking of PushMemory: two processes on one root, with an episode per *)
(* class of outcome.  The assumptions hold the analyses over such runs, on      *)
(* bounded inputs, against what their documentation says of them; TLC evaluates *)
(* them with the run.                                                         *)
EXTENDS PushMemory, ResetAnalysis, LifeWindows, PushRecords, PushGeometry

MCSymmetry == Permutations(Procs)

E(outcome, dists, disps, dumped) ==
    [outcome |-> outcome, init |-> 12, dists |-> dists, disps |-> disps, dumped |-> dumped]

MCEpisodes ==
    {E("success", <<8, 3>>, <<4, 5>>, TRUE),
     E("timeout", <<4, 9, 9>>, <<8, 5, 0>>, TRUE),
     E("timeout", <<20, 14, 14>>, <<8, 6, 0>>, TRUE),
     E("vlm_parse_fail", <<>>, <<>>, TRUE),
     E("push_plateau", <<12, 12>>, <<0, 0>>, FALSE)}

MCRoots ==
    {{},
     {[task |-> "push", rung |-> "3", lesson |-> OfLevel2 \cup OfLevel3,
       disclosed |-> Disclosed("3"), image |-> TRUE]},
     {[task |-> "reach", rung |-> "none", lesson |-> {}, disclosed |-> {}, image |-> TRUE]}}

-----------------------------------------------------------------------------
(* Pairing.  Runs of three episodes, whose replays may be missing and whose    *)
(* files may have been written in either order.                              *)

Logged(eps, seeds) ==
    FlattenSeq([k \in DOMAIN eps |->
        <<[kind |-> "episode", idx |-> k, ep |-> eps[k]], [kind |-> "other"]>>
            \o (IF seeds[k] = {} THEN <<>>
                ELSE <<[kind |-> "seed", seed |-> CHOOSE s \in seeds[k] : TRUE]>>)])

SomeRun(wins, present, swapped, lostReset) ==
    LET eps == <<"e1", "e2", "e3">>
        found == SelectSeq(eps, LAMBDA e : e \in present)
    IN  [log |-> Logged(eps, [k \in 1..3 |-> IF k \in lostReset THEN {} ELSE {k}]),
         replays |-> [e \in present |-> [success |-> e \in wins, fp |-> {0}]],
         written |-> IF swapped /\ Len(found) > 1
                     THEN <<found[2], found[1]>> \o SubSeq(found, 3, Len(found))
                     ELSE found]

SomeRuns ==
    {SomeRun(w, p, s, l) : w \in SUBSET {"e1", "e2", "e3"},
        p \in {{"e1", "e2", "e3"}, {"e1", "e3"}}, s \in BOOLEAN, l \in {{}, {2}}}

Complete(r) == Len(r.written) = 3 /\ Cardinality(DOMAIN EpisodesOf(r)) = 3

\* The gate is all or nothing: one replay or reset missing in one run sends every
\* contrast to the unpaired test, of what the runs have in common (14.2).
ASSUME GateIsAllOrNothing ==
    \A x, y \in SomeRuns :
        /\ Primary(<<x, y>>, 3) = "mcnemar" <=> Complete(x) /\ Complete(y)
        /\ \A i \in Common(<<x, y>>) : EpisodesOf(x)[i].seed = i

\* Two protocols that pass the gate among more runs pass their own, and then both
\* analyses make the same contrast of them.
ASSUME FewerRunsPassToo ==
    \A x, y \in SomeRuns : LET z == SomeRun({"e1"}, {"e1", "e2", "e3"}, FALSE, {})
        IN  GatePasses(<<z, x, y>>, 3) =>
                /\ L2Gate(x, y, 3)
                /\ L2Contrast(x, y, 3) = Contrast(x, y, <<z, x, y>>, 3, 100)

\* The recount of two runs and their contrast, against reported cells or none.
Recount(x, y, cells) ==
    RecountMismatches(<<[run |-> x, reported |-> {}], [run |-> y, reported |-> {}]>>,
                      <<[x |-> 1, y |-> 2, reported |-> cells]>>, 3)

\* The independent recount finds the cells of the paired analysis wherever it
\* reports no mismatch and the files were written in the order of the episodes.
ASSUME RecountAgrees ==
    \A x, y \in SomeRuns :
        (/\ Recount(x, y, {}) = 0
         /\ OrderAgreement(x) = 3 /\ OrderAgreement(y) = 3
         /\ Primary(<<x, y>>, 3) = "mcnemar")
            => RecountCells(x, y) = Cells(x, y, Common(<<x, y>>))

\* It trusts the modification times: files restored in another order change the
\* cells of two complete runs, and without a reported number nothing objects.
ASSUME RecountTrustsTheTimes ==
    \E x, y \in SomeRuns :
        /\ Complete(x) /\ Complete(y)
        /\ Recount(x, y, {}) = 0
        /\ RecountCells(x, y) # Cells(x, y, Common(<<x, y>>))

\* What no report has is never a mismatch, however much is missing; what a report
\* that is there lacks always is one.  The later report is the one compared.
ASSUME AbsenceIsNoMismatch ==
    LET d11 == {[a |-> 1, b |-> 2]}
        l2 == {[b |-> 3]}
        a15 == {[c |-> -1]}
    IN  /\ \A found \in 0..3, name \in {"a", "b", "c"} :
               LET status == Status(found, Reported(d11, l2, a15, name))
               IN  /\ name = "c" => status = "MISMATCH"
                   /\ name = "b" /\ status = "MATCH" => found = 3
                   /\ Status(found, Reported({}, {}, {}, name)) = "NOT FOUND"
        /\ \A x, y \in SomeRuns : Complete(x) /\ Complete(y) => Recount(x, y, {}) = 0

\* The log of another arm that mentions the run is taken only where no log of the
\* arm does.
ASSUME LogOfTheArmFirst ==
    \A logs \in [1..3 -> [names : BOOLEAN, large : BOOLEAN, arm : BOOLEAN]] :
        \A l \in CollectLog(logs) :
            l.names /\ (l.arm \/ \A m \in ToSet(logs) : m.arm => ~m.names \/ m.large)

\* The exploratory pack aligns by index alone: where the gate of the confirmatory
\* analysis passes it has the same cells, but an episode without its reset is in it.
ASSUME ExploratoryIsLooser ==
    /\ \A x, y \in SomeRuns :
           LET r == Rescued(x, <<y, y, y>>)
           IN  /\ Common(<<x, y>>) \subseteq r.common
               /\ Primary(<<x, y>>, 3) = "mcnemar" =>
                      Cardinality(r.by[1]) = Cells(x, y, Common(<<x, y>>)).b
               /\ r.all \subseteq r.by[1]
    /\ \E x, y \in SomeRuns : Common(<<x, y>>) # Rescued(x, <<y, y, y>>).common

\* Without an episode that retrieval alone solves, nothing of the pack is written.
ASSUME NoRescueNoFile ==
    \A x, y \in SomeRuns : \A differ \in BOOLEAN :
        LET r == Rescued(x, <<y, y, y>>)
        IN  ExploratoryWritten([k \in 1..5 |-> <<-200>>], r, differ) =>
                \E i \in DOMAIN NamedEpisodes(x) : NamedEpisodes(x)[i]

\* The two references are told apart by their middle, and a tie is no memory.
ASSUME CloserToIsTheMiddle ==
    \A a, b \in {-240, -235, -197, -196, -158, 0} :
        CloserTo(<<a, b>>) = "mem-teacher" <=> a + b > MemoryShift + MemorylessShift

\* The paired test does not care which run is named first, one more win of the
\* leading run never takes significance away, across the change from the exact
\* test to the approximation too, and the smaller level implies the larger one.
ASSUME McNemarIsFair ==
    \A b, c \in 0..30 : \A level \in {50, 100} :
        McNemarSignificant(b, c, level) =>
            /\ McNemarSignificant(c, b, level)
            /\ b >= c => McNemarSignificant(b + 1, c, level)
            /\ McNemarSignificant(b, c, 50)

\* Without discordant pairs, or with equally many, nothing is significant in
\* either test.
ASSUME NoDifferenceNoClaim ==
    \A n \in 1..30 : \A level \in {50, 100} :
        /\ ~McNemarSignificant(n, n, level) /\ ~McNemarSignificant(0, 0, level)
        /\ \A s \in 0..n : ~ZSignificant(s, s, n, level)

-----------------------------------------------------------------------------
(* The life of the push memory.                                              *)

Life(corr, valid, significant) ==
    [k \in DOMAIN corr |-> [index |-> k, valid |-> k \in valid, corr |-> corr[k],
                            significant |-> k \in significant,
                            successes |-> corr[Len(corr) + 1 - k]]]

SomeLives ==
    {Life(corr, v, s) : corr \in {<<0, 1, 2, 3, 4, 5>>, <<5, 4, 3, 2, 1, 0>>,
                                  <<0, 2, 1, 4, 3, 5>>, <<1, 1, 1, 1, 1, 1>>,
                                  <<2, 0, 3, 1, 0, 2>>},
        v \in {1..6} \cup {(1..6) \ {k} : k \in 1..6} \cup {3..6}, s \in {{}, {6}}}

ShortLives ==
    UNION {{Life(corr, 1..k, {k}) : corr \in [1..k -> 0..2]} : k \in 1..4}

\* With four valid windows or fewer no order of them is rare enough: whatever the
\* life does, the verdict is a plateau, or uninformative.
ASSUME FewWindowsArePlateau ==
    \A life \in ShortLives : LifeVerdict(life) \in {"plateau", "uninformative"}

\* A climb needs the sixth window, valid and significant by itself; a perfect rise
\* without it is a plateau, while a fall needs no such window.
ASSUME ClimbNeedsTheEnd ==
    /\ \A life \in SomeLives :
           LifeVerdict(life) = "climb" => life[6].valid /\ life[6].significant
    /\ LifeVerdict(Life(<<0, 1, 2, 3, 4, 5>>, 1..6, {6})) = "climb"
    /\ LifeVerdict(Life(<<0, 1, 2, 3, 4, 5>>, 1..6, 1..5)) = "plateau"
    /\ LifeVerdict(Life(<<0, 1, 2, 3, 4, 5>>, 1..5, 1..5)) = "plateau"

\* Two lives are symmetric, and neither climb nor fall is claimed from one alone.
ASSUME BothLivesClaim ==
    LET verdicts == {"climb", "shortcut", "degrade", "plateau", "uninformative"}
    IN  \A v, w \in verdicts :
            /\ JointVerdict(v, w) = JointVerdict(w, v)
            /\ \A claim \in {"climb", "degrade", "shortcut"} :
                   JointVerdict(v, w) = claim <=> v = claim /\ w = claim

LifeEpisode(seed, recap, lesson) ==
    [seed |-> seed, success |-> recap, recap |-> recap, hits |-> <<recap, TRUE>>,
     moved |-> seed = 3, lesson |-> lesson, angle |-> TRUE]

SomeEpisodes ==
    {[k \in 1..n |-> LifeEpisode(order[k], k = 2, lesson)] :
        n \in 1..5, lesson \in {"none", "assertive"},
        order \in {<<1, 2, 3, 4, 5>>, <<5, 3, 4, 1, 2>>}}

\* The windows follow the seeds whatever the order of the files: no episode is in
\* two of them, the buffer never shrinks from one to the next, and less than one
\* window is left out, unless all the life is one window.
ASSUME WindowsFollowTheSeeds ==
    \A eps \in SomeEpisodes, size \in 1..3 :
        LET ws == Windows(eps, size)
            used == FlattenSeq(ws)
        IN  /\ \A i, j \in DOMAIN used : i < j => used[i].seed < used[j].seed
            /\ Len(eps) - Len(used) < size
            /\ \A w \in DOMAIN ws : w > 1 =>
                   WindowRow(eps, size, w).buffer >= WindowRow(eps, size, w - 1).buffer
            /\ \A w \in DOMAIN ws :
                   LET row == WindowRow(eps, size, w)
                   IN  row.assertive <= row.keyword /\ row.keyword <= row.still
-----------------------------------------------------------------------------
(* The simulator's own reset, with a limit of four steps instead of 720.      *)

TimeLimit == 4

ResetRuns ==
    LET Ep(steps, dir) ==
            [steps |-> steps, dir |-> dir, success |-> dir = "success",
             jumps |-> [i \in 1..(steps - 1) |-> IF i = TimeLimit - 2 THEN 9 ELSE 1]]
    IN  [1..3 -> {Ep(n, d) : n \in {0, 2, 3, 5},
                    d \in {"success", "failure", "parse_fail_quarantine", "lost"}}]

KnownSteps(eps, dirs) == \A k \in DOMAIN eps : eps[k].dir \in dirs \/ eps[k].steps = 0

\* Where no earlier step is unknown, the derived boundary is the step at which the
\* simulator does reset: its own count since the reset is then the limit; and the
\* jump confirms it.  (analyse_run)
ASSUME BoundaryIsTheReset ==
    \A eps \in ResetRuns : \A dirs \in {ConfirmatoryDirs, AllDirs} :
        KnownSteps(SubSeq(eps, 1, 2), dirs) =>
            LET row == Rows(Loaded(eps, dirs), TimeLimit)[3]
            IN  \A b \in row.boundary :
                    /\ b = TimeLimit - 2
                    /\ row.cross => row.confirmed

\* A replay that is not found although it recorded steps pulls the next boundary
\* in, never out: the sensitivity loses successes and gains none.  It does lose
\* some, and only the unconfirmed jump tells.
ASSUME LostStepsOnlyTakeAway ==
    /\ \A eps \in ResetRuns :
        LET known == Rows(Loaded(eps, AllDirs \cup {"lost"}), TimeLimit)
            found == Rows(Loaded(eps, ConfirmatoryDirs), TimeLimit)
        IN  \A k \in DOMAIN eps :
                /\ found[k].sens => known[k].sens
                /\ \A b \in found[k].boundary, c \in known[k].boundary : b <= c
                /\ found[k].cross /\ ~known[k].cross => ~found[k].confirmed
    /\ \E eps \in ResetRuns :
        LET found == Rows(Loaded(eps, ConfirmatoryDirs), TimeLimit)
        IN  \E k \in DOMAIN eps : eps[k].steps < TimeLimit - 2 + 1 /\ found[k].success
                                  /\ ~found[k].sens

\* Every success is counted once: before the boundary or after it.
ASSUME SuccessesAreSplit ==
    \A eps \in ResetRuns :
        LET t == Totals(Rows(Loaded(eps, ConfirmatoryDirs), TimeLimit))
        IN  t.asRun = t.sens + t.afterBoundary

\* Without a crossing the two contrasts are one, and a run whose successes all come
\* late loses them to one whose come early, in the sensitivity alone.
ASSUME CrossingsMakeTheDifference ==
    LET y == Rows(Loaded([k \in 1..3 |->
                [steps |-> 2, dir |-> "success", success |-> TRUE, jumps |-> <<1>>]],
                AllDirs), TimeLimit)
    IN  \A eps \in ResetRuns :
            LET x == Rows(Loaded(eps, AllDirs), TimeLimit)
            IN  /\ Totals(x).cross = 0 => Sensitivity(x, y, 100) = AsRun(x, y, 100)
                /\ Sensitivity(x, y, 100).difference
                       = AsRun(x, y, 100).difference - Totals(x).afterBoundary

-----------------------------------------------------------------------------
(* The records of push episodes.                                             *)

\* The validator's verdict is the one that was shown, whatever the distances, but
\* at the dead band itself: there it refuses an episode whose report was "no
\* significant progress", the verdict of a difference of exactly one centimetre.
ASSUME VerdictsAgreeOffTheEdge ==
    \A start, end \in 0..40 :
        LET shown == Verdicts(start, end)
            expected == ExpectedVerdict(start, end)
        IN  /\ expected \in shown
            /\ shown = {expected} <=> ~(end - start \in {-DeadBand, DeadBand})
            /\ shown # {expected} => "flat" \in shown

\* What the loop records of the frame passes; of two recorded grids one line
\* passes for one of them only, and any line where the bounds are not recorded.
ASSUME FrameLineIsItsGrid ==
    \A convention \in BOOLEAN, a, b \in {"narrow", "wide"} :
        LET e == FrameRecord(convention, a)
        IN  /\ FramePasses(e)
            /\ FramePasses([e EXCEPT !.bounds = {b}]) <=> a = b \/ ~convention
            /\ FramePasses([e EXCEPT !.bounds = {}])

\* A hit that does not carry its lesson is never counted, as a saved recap has
\* neither of the names that are looked up: the leak rate is that of the episodes
\* recorded with their lessons.
ASSUME LeaksNeedTheLesson ==
    \A lessons \in [1..2 -> {{}, {"plain"}, {"coordinates"}}] :
        LET hits == [i \in 1..2 |-> [ep |-> <<"e1", "e2">>[i], lesson |-> lessons[i]]]
            disk == [f \in {SavedAs("r1", "e1"), SavedAs("r1", "e2")} |-> "coordinates"]
            seen == Leaks(hits, disk)
        IN  /\ seen.injected = Cardinality({i \in 1..2 : lessons[i] # {}})
            /\ seen.leaked = Cardinality({i \in 1..2 : lessons[i] = {"coordinates"}})
-----------------------------------------------------------------------------
(* The r-tracker.                                                            *)

Perfect(g) == [k \in 1..g |-> k]

\* The ranks of equal values are equal and their sum is that of the places; the
\* correlation asks for nothing but the order.
ASSUME RanksAreFair ==
    \A xs \in [1..4 -> 0..2] :
        /\ Sum(Rank(xs)) = 4 * 5
        /\ \A i, j \in 1..4 : xs[i] < xs[j] <=> Rank(xs)[i] < Rank(xs)[j]
        /\ Spearman(xs, xs) = Spearman(xs, [i \in 1..4 |-> xs[i] * xs[i] * xs[i]])

\* "the permutation monotonicity test cannot reach alpha = 0.05 with G < 5 - even a
\* PERFECT climb gives min p = 0.084 at G = 4 (only 1 of 4! orderings ...)"
\* (p2_r_tracker.py:130-133).  It does give that, but 1 of 4! would be 0.042: the
\* state of the shuffle alternates between odd and even, so that of the orderings of
\* four, or five, values it reaches one half only, the original among them.
ASSUME ShuffleReachesHalf ==
    LET Reached(g) == {Shuffle(Perfect(g), seed) : seed \in 7..506}
    IN  /\ Cardinality(Reached(3)) = 6
        /\ Cardinality(Reached(4)) = 12
        /\ Cardinality(Reached(5)) = 60
        /\ \A g \in 3..5 : Perfect(g) \in Reached(g)

ASSUME PerfectClimb ==
    /\ LET rank == ClimbRank(Perfect(4), 500) IN (1000 * rank) \div 501 = 83
    /\ 20 * ClimbRank(Perfect(5), 500) < 501

\* A shuffle loses no value, and what does not vary is above no band.
ASSUME BandNeedsVariation ==
    /\ \A seed \in 1..50 : LET s == Shuffle(<<5, 5, 7, 9, 11>>, seed)
                           IN  \A v \in {5, 7, 9, 11} :
                                   CountOf(s, LAMBDA e : e = v) = IF v = 5 THEN 2 ELSE 1
    /\ ~AboveBand(<<3, 3, 3, 3, 3, 3>>, <<1, 2, 3, 4, 5, 6>>, 100)
    /\ AboveBand(<<1, 2, 3, 4, 5, 6>>, <<1, 2, 3, 4, 5, 6>>, 100)

\* Correlations are reported of one rung only, of three episodes or more, each with
\* a target; an episode without a recorded target, or of another label, is left out.
ASSUME RIsPerRung ==
    LET One(eef, rung, label) ==
            [eef |-> eef, stage1 |-> {9}, bounds |-> {}, ee |-> {0}, cube |-> {1},
             goal |-> {2}, rung |-> rung, label |-> label]
        some == {One(t, r, l) : t \in {{}, {4}}, r \in {"1", "1b"}, l \in {"pilot", "smoke"}}
    IN  \A eps \in [1..4 -> some] : \A label \in {{}, {"pilot"}}, rung \in {{}, {"1"}} :
            LET inputs == RInputs(eps, label, rung)
            IN  RReport(eps, label, rung) = "correlations" =>
                    /\ Len(inputs) >= 3
                    /\ \A e, f \in ToSet(inputs) : e.rung = f.rung /\ R1Target(e) # {}

\* The ladder of rungs ends, and no round without a report counts as near.
ASSUME LadderEnds ==
    /\ \A n \in 0..6 : RungDecision(n, "3") \in {"stop", "collect"}
    /\ NextRung(NextRung(NextRung("1"))) = "stop"
    /\ \A e \in [1..2 -> [moved : BOOLEAN, min : {{}, {4}, {30}}]] :
           LET c == ContactSummary(<<e>>)
           IN  /\ c.touched <= c.rounds
               /\ c.within = 1 <=> {4} \in {e[1].min, e[2].min}
-----------------------------------------------------------------------------
(* The geometry of the push task.                                            *)

ScanTrial(end, moved, final) == [end |-> end, moved |-> moved, final |-> final]
ScanTrials ==
    {ScanTrial("ran", FALSE, 4000), ScanTrial("ran", TRUE, 4000),
     ScanTrial("ran", FALSE, 5004), ScanTrial("ran", FALSE, 5006),
     ScanTrial("timeout", FALSE, 0), ScanTrial("nan", FALSE, 0)}

\* What the scan calls a success is solvable in the derivation; what is solvable
\* without it was reached by an approach that disturbed the cube, or is within the
\* rounding of the record.  A variant that was cut short decides nothing.
ASSUME SolvableIsWider ==
    LET c == [x |-> 400, y |-> 100, theta |-> 0, dist |-> 70]
    IN  \A trials \in [1..4 -> ScanTrials] :
            LET r == RunConfig(c, trials)
                tried == {trials[k] : k \in DOMAIN r.tried}
            IN  /\ r.success => Solvable(r)
                /\ Solvable(r) /\ ~r.success =>
                       {ScanTrial("ran", TRUE, 4000), ScanTrial("ran", FALSE, 5004)}
                           \cap tried # {}
                /\ Solvable(r) => \E t \in tried : t.end = "ran"

\* A scan that is stopped anywhere and resumed with the same configurations ends
\* with the file of a scan that was not, and has judged each configuration once.
ASSUME ResumeIsUninterrupted ==
    LET At(x, theta) == [x |-> x, y |-> 100, theta |-> theta, dist |-> 70]
        configs == <<At(400, 0), At(340, 0), At(400, 15), At(400, 0), At(430, 15)>>
    IN  \A ends \in [1..5 -> ScanTrials] : \A k \in 0..5 :
            LET trials == [i \in 1..5 |-> [v \in 1..4 |-> ends[i]]]
                whole == Scan(NoCheckpoint, configs, trials, 5)
                stopped == Scan(NoCheckpoint, configs, trials, k)
            IN  /\ Scan(FromFile(TRUE, {stopped}), configs, trials, 5) = whole
                /\ Completed(whole) = ToSet(configs)
                /\ Len(whole.results) + Len(whole.skipped) = Cardinality(ToSet(configs))

\* A scan of a grid in which a point is solved from -minus to plus degrees.
GridScan(xs, ys, thetas, dists, plus, minus) ==
    LET Records(p) ==
            {[config |-> [x |-> p[1], y |-> p[2], theta |-> th, dist |-> d],
              success |-> TRUE, disturbed |-> FALSE, tried |-> <<>>,
              final |-> {IF th <= plus[p] /\ -th <= minus[p] THEN 3000 ELSE 9000}] :
                th \in thetas, d \in dists}
    IN  [xs |-> xs, ys |-> ys, thetas |-> thetas, dists |-> dists,
         results |-> FoldSet(LAMBDA r, s : Append(s, r), <<>>,
                                UNION {Records(p) : p \in xs \X ys})]

SmallScan(thetas, plus, minus) ==
    GridScan({370, 400, 430}, {100, 130}, thetas, {70}, plus, minus)

Wider(th) == <<15, 30>>[th]
Points == {370, 400, 430} \X {100, 130}
Reaches == {[p \in Points |-> IF p[1] = 370 THEN 30 ELSE r[p]] :
                r \in [{400, 430} \X {100, 130} -> {0, 15, 30}]}

\* Unscanned, or scanned and not solved.
Unsolved(scan, box, theta) ==
    {c \in DOMAIN scan.results : /\ <<c.x, c.y>> \in BoxPoints(scan, box)
                                 /\ Magnitude(c.theta) <= theta
                                 /\ ~Solvable(scan.results[c])}

\* On an even grid a region stands for what was solved: nothing unsolved is in it,
\* it reaches as far to both sides as its candidate asks, a wider candidate never
\* has more points, and one point that is solved is enough for a region.
ASSUME RegionIsSolved ==
    \A plus \in Reaches : \A low \in {0, 30} :
        LET scan == Merge(<<SmallScan({-30, -15, 0, 15, 30}, plus,
                                      [p \in Points |-> IF p[2] = 100 THEN low ELSE 30])>>)
            table == CandidateTable(scan, <<15, 30>>)
            Number(k) == Cardinality(UNION {BoxPoints(scan, b) : b \in table[k].box})
        IN  /\ \A k \in 1..2 : \A b \in table[k].box :
                   /\ Unsolved(scan, b, Wider(k)) = {} /\ b[1] >= KeepOut
                   /\ table[k].plus >= Wider(k) /\ table[k].minus >= Wider(k)
            /\ Number(2) <= Number(1)
            /\ \A k \in 1..2 :
                   table[k].box = {} <=>
                       \A p \in Points : p[1] >= KeepOut =>
                                            ~PointSolved(scan, p[1], p[2], -Wider(k), Wider(k))

\* "pick 60 or the highest passing candidate" (wp3a_p4c_derive.py:265): it is the
\* lowest one that passes.
ASSUME NarrowestIsTaken ==
    LET all == [p \in Points |-> 30]
        table == CandidateTable(Merge(<<SmallScan({-30, -15, 0, 15, 30}, all, all)>>),
                                <<15, 30>>)
    IN  table[2].box # {} /\ BestCandidate(table).theta = 15

\* The step between the two lowest angles stands for all of them: with a file merged
\* in whose angles are others, a region passes over a direction that was scanned and
\* not solved, or nothing passes although all that was scanned is solved.
ASSUME UnevenAnglesMislead ==
    LET all == [p \in Points |-> 30]
        gap == [SmallScan({15}, [p \in Points |-> 0], all) EXCEPT !.xs = {400}]
        passed == Merge(<<SmallScan({-30, 0, 30}, all, all), gap>>)
        failed == Merge(<<SmallScan({-30, -15, 0, 15, 30}, all, all),
                          SmallScan({-25}, all, all)>>)
    IN  /\ \E b \in CandidateTable(passed, <<30>>)[1].box : Unsolved(passed, b, 30) # {}
        /\ CandidateTable(failed, <<30>>)[1].box = {}
        /\ \A c \in DOMAIN failed.results : Solvable(failed.results[c])

\* A later file overrides an earlier one, whichever of them was the better.
ASSUME LaterFileOverrides ==
    LET all == [p \in Points |-> 30]
        none == [p \in Points |-> -15]
        good == SmallScan({0}, all, all)
        bad == SmallScan({0}, none, none)
    IN  /\ CandidateTable(Merge(<<bad, good>>), <<0>>)[1].box # {}
        /\ CandidateTable(Merge(<<good, bad>>), <<0>>)[1].box = {}
        /\ Cardinality(Merge(<<good, bad>>).overwritten) = 6

\* The pinned region is one that the derivation can return.
ASSUME PinIsDerivable ==
    LET xs == {370, 400, 430, 460, 490}
        ys == {-20, 10, 40, 70, 100, 130}
        thetas == {15 * i : i \in -5..5}
        reach == [p \in xs \X ys |->
                     IF Inside(p[1], Pin4c.x, 0) /\ Inside(p[2], Pin4c.y, 0) THEN 75 ELSE 60]
        scan == Merge(<<GridScan(xs, ys, thetas, {70, 100}, reach, reach)>>)
    IN  LargestBox(scan, Pin4c.theta) = {Pin4c.x \o Pin4c.y}

\* Every draw of Pin-4b passes its gate if the cube does not drift: the goal is
\* ahead and not yet reached, clipped or not.  A drift that the gate allows for can
\* still fail it.
ASSUME DrawsPassTheGate ==
    LET Draw(cube, dx, dy, drift) ==
            [cube |-> cube, settled |-> <<cube[1] + drift, cube[2]>>,
             goal |-> OffsetReset(cube, dx, dy).goal,
             same |-> TRUE, still |-> TRUE, static |-> TRUE, near |-> TRUE]
        cubes == {<<10 * i, 10 * j>> : i \in 38..42, j \in 5..15}
    IN  /\ \A cube \in cubes, i \in 7..10, j \in -4..4 :
               Gate4bPasses(Draw(cube, 10 * i, 10 * j, 0))
        /\ \E cube \in cubes : ~Gate4bPasses(Draw(cube, 70, 0, 9))

\* A polar draw lies as far from its cube as it says, to the millimetre, and no goal
\* is already reached.
ASSUME PolarDrawIsItsDistance ==
    \A i \in -5..5, dist \in 70..100 : \A r \in PolarReset(1, <<430, 40>>, 15 * i, dist) :
        LET dx == r.goal[1] - r.cube[1]
            dy == r.goal[2] - r.cube[2]
        IN  /\ Inside(dx * dx + dy * dy, <<(dist - 2) * (dist - 2), (dist + 2) * (dist + 2)>>, 0)
            /\ 100 * (dist - 2) > GoalRadius

\* The gate of Pin-4c asks for a spread from the sixtieth episode on: sixty in one
\* direction fail, ten in each of six pass, and fewer than sixty always do.
ASSUME SpreadFromSixty ==
    LET Ep(angle) == [cube |-> <<430, 40>>, angle |-> angle, dist |-> 80, sample |-> {},
                      same |-> TRUE, still |-> TRUE, static |-> TRUE]
        Six(n) == [k \in 1..n |-> Ep(-62 + 25 * (k % 6))]
        Same(n) == [k \in 1..n |-> Ep(40)]
    IN  /\ Gate4cExit(Six(60)) = 0 /\ Gate4cExit(Same(60)) = 1
        /\ \A n \in {1, 30, 59} : Gate4cExit(Same(n)) = 0
        /\ \A angle \in -80..80 :
               Gate4cExit(<<Ep(angle)>>) = 0 <=> Magnitude(angle) <= 76

\* Whatever is asked for, a round has a heading: its own, the one before, or forward.
ASSUME HeadingIsKept ==
    \A n \in {0, 40, 80, 120}, u \in {"left", "vertical"}, previous \in {{}, {"right"}} :
        LET s == PushSegment(n, u, previous)
        IN  /\ Cardinality(s.heading) = 1 /\ s.target <= LeadBudget
            /\ n = 0 /\ previous # {} => s.heading = previous
            /\ s.clamped <=> s.target < n

GuardGrid == {<<20 * i, 20 * j, 10 * k>> : i \in -5..4, j \in -3..4, k \in -7..9}

GuardScene(lo, hi) == [table |-> [x |-> <<0, 60>>, y |-> <<0, 60>>, top |-> 20],
                       boxes |-> <<[lo |-> lo, hi |-> hi]>>, ground |-> -50]

\* The guard leaves what is free where it is, and what it returns stays where it is
\* when it is guarded again: not under the table, not under the ground, on a face of
\* the box at most.  A box that hangs into the margin of the table undoes this.
ASSUME GuardClears ==
    LET scene == GuardScene(<<-60, -20, 10>>, <<-30, 20, 60>>)
        hanging == GuardScene(<<0, 0, 35>>, <<60, 60, 90>>)
    IN  /\ \A p \in GuardGrid :
               LET q == SceneGuard(p, scene)
               IN  /\ SceneGuard(q, scene) = q
                   /\ ~UnderTable(q, scene.table) /\ q[3] >= scene.ground + Margin
                   /\ q # p => \/ UnderTable(p, scene.table) \/ InBox(p, scene.boxes[1])
                               \/ p[3] < scene.ground + Margin
        /\ \E p \in GuardGrid : UnderTable(SceneGuard(p, hanging), hanging.table)
=============================================================================
