------------------------- MODULE MCTrainingPipeline -------------------------
(* Model checking of TrainingPipeline: two episodes, of three rounds and one,  *)
(* and campaigns that differ from a plain one in one respect each.  The        *)
(* assumptions hold the pure parts of the training data, on bounded inputs,    *)
(* against what their documentation says of them; TLC evaluates them with the  *)
(* run.                                                                      *)
EXTENDS TrainingPipeline, RationaleFilter, PerArmSamples, TrainExamples

Round(full, text, spatial) ==
    [meta |-> TRUE, image |-> TRUE, full |-> full, dumpedText |-> text,
     spatial |-> spatial]

Injected(recaps) == [kind |-> "injected", recaps |-> recaps]
Episode(ep) == [kind |-> "episode", ep |-> ep]

Plain ==
    [log |-> <<Episode("e1"), Injected(<<"r1", "r2">>), Episode("e2"), Injected(<<"r1">>)>>,
     recaps |-> [r \in {"r1", "r2"} |-> "text"],
     episodes |->
        [e1 |-> [outcome |-> "success", dumped |-> TRUE,
                 rounds |-> <<Round("prose", "", TRUE), Round("coords", "", TRUE),
                              Round("", "prose", FALSE)>>,
                 traj |-> <<9, 7, 7, 5, 5>>],
         e2 |-> [outcome |-> "failure", dumped |-> TRUE,
                 rounds |-> <<Round("prose", "", TRUE), Round("blank", "prose", TRUE)>>,
                 traj |-> <<9, 7, 6, 6>>]]]

MCCampaigns ==
    {Plain,
     \* e2 retrieved from an empty buffer
     [Plain EXCEPT !.log = <<Injected(<<"r1">>), Episode("e1"), Injected(<<"r2">>),
                             [kind |-> "empty"], Episode("e2")>>],
     \* a recap is gone, the other does not parse
     [Plain EXCEPT !.recaps = [r1 |-> "bad", r2 |-> "absent"]],
     \* the recaps have no text, and an episode is logged twice
     [Plain EXCEPT !.recaps = [r \in {"r1", "r2"} |-> "blank"],
                   !.log = @ \o <<Episode("e1"), Episode("e2")>>],
     \* images, a meta round and a meta.json are missing
     [Plain EXCEPT !.episodes.e1.rounds[1].image = FALSE,
                   !.episodes.e1.rounds[2].meta = FALSE,
                   !.episodes.e2.dumped = FALSE],
     \* the last round's response is nowhere
     [Plain EXCEPT !.episodes.e1.rounds[3].dumpedText = "",
                   !.episodes.e2.rounds[1].full = "",
                   !.episodes.e2.rounds[1].dumpedText = "prose",
                   !.episodes.e2.rounds[1].spatial = FALSE]}

MCArmOrder == <<"A_ctrl_rat", "B_main">>
MCSourceOf == [A_ctrl_rat |-> "native", B_main |-> "retrieval"]
MCProtocols ==
    <<[name |-> "A_ctrl_rat", arm |-> "A_ctrl_rat"],
      [name |-> "B_main", arm |-> "B_main"],
      [name |-> "C_retrieval", arm |-> "A_ctrl_rat"]>>

-----------------------------------------------------------------------------
(* The filter.                                                              *)

Line(kind, intent, past, words, numbers, cube, spatial) ==
    [kind |-> kind, intent |-> intent, past |-> past, words |-> words,
     numbers |-> numbers, cube |-> cube, spatial |-> spatial]

SampleWords == {{}, {<<"x", 1>>}, {<<"x", -1>>}, {<<"x", -1>>, <<"y", 1>>}}
SampleNumbers == {{}, {<<"x", 3>>}, {<<"y", 0>>}}

SampleLines ==
    {Line("prose", i, p, w, n, {}, w # {}) :
        i, p \in BOOLEAN, w \in SampleWords, n \in SampleNumbers}

Place(x, y) == [a \in Axes |-> CASE a = "x" -> x [] a = "y" -> y [] OTHER -> 0]
SampleMoves == {{}} \cup {{Place(x, y)} : x, y \in {-2, 0, 3}}

Origin == Place(0, 0)
SampleThoughts == {<<a>> : a \in SampleLines} \cup {<<a, b>> : a, b \in SampleLines}

\* A thought is flagged only for an axis on which all that it plans points the
\* other way than the arm was sent: naming both directions is never flagged
\* (rule_1_direction).
ASSUME FlaggedMeansOpposed ==
    \A t \in SampleThoughts, m \in {{Place(-2, 0)}, {Place(3, 3)}} :
        RuleDirection(t, m, Origin) = "inconsistent" <=>
            \E to \in m, axis \in {"x", "y"} :
                LET plans == {s \in ToSet(t) : s.intent}
                    signs == {d \in {-1, 1} : \E s \in plans :
                                 \/ <<axis, d>> \in s.words
                                 \/ \E v \in -3..3 : <<axis, v>> \in s.numbers /\ v * d > 0}
                IN  to[axis] # 0 /\ signs = {IF to[axis] > 0 THEN -1 ELSE 1}

\* What is only observed or remembered changes no verdict (Amendment 4 v2).
ASSUME ObservationsClaimNothing ==
    \A t \in SampleThoughts, m \in SampleMoves :
        RuleDirection(t, m, Origin)
            = RuleDirection(SelectSeq(t, LAMBDA s : s.intent), m, Origin)

Seen(cube) == Line("prose", FALSE, FALSE, {}, {}, cube, TRUE)

\* A claim about the cube is contradicted by its other side alone: at less than
\* the dead band from the arm nothing is.
ASSUME ContradictionNeedsTheOtherSide ==
    \A offset \in {-25, -10, -9, 0, 9, 10, 25}, sign \in {-1, 1} :
        RuleGeometry(<<Seen({<<"x", sign>>})>>, Place(2, 0), {Place(20 + offset, 0)})
            = IF offset * sign <= -10 THEN "contradicts_gt" ELSE "consistent_with_gt"

Gist == Line("marker", FALSE, FALSE, {}, {}, {}, FALSE)
Quote == Line("quote", FALSE, TRUE, {<<"x", -1>>}, {}, {}, TRUE)
Plan == Line("prose", TRUE, FALSE, {<<"x", 1>>}, {}, {}, TRUE)

FilterRow(target, label) ==
    [run |-> "run", ep |-> "e1", target |-> target, move |-> {Place(3, 0)},
     ee |-> Origin, label |-> label]

\* Lessons are not the row's own claims, but a thought that itself looks like a
\* quoted lesson cuts off what stands before it.
ASSUME LessonsAreNotClaims ==
    /\ OwnThought(<<Gist, Quote, Quote, Plan>>) = <<Plan>>
    /\ OwnThought(<<Quote, Plan>>) = <<Quote, Plan>>
    /\ OwnThought(<<Gist, Plan>>) = <<>>
    /\ OwnThought(<<Gist, Quote, Plan, Quote>>) = <<>>

Policies == {"strict", "vacuity_only", "asymmetric_kto", "flags_only_a6"}
Blank == Line("prose", FALSE, FALSE, {}, {}, {}, FALSE)
FilterRows ==
    <<FilterRow(<<Gist, Quote, Plan>>, "desirable"), FilterRow(<<Blank>>, "undesirable"),
      FilterRow(<<Gist>>, "desirable"),
      FilterRow(<<Plan, Blank>>, "none")>>

Replay(dir, parses, traj) ==
    [run |-> "run", dir |-> dir, parses |-> parses, ep |-> {"e1"}, cube |-> {},
     traj |-> traj]
Nearing == <<[dist |-> {9}, ee |-> {Place(1, 1)}], [dist |-> {4}, ee |-> {Place(-2, 0)}],
             [dist |-> {}, ee |-> {Place(0, 2)}], [dist |-> {4}, ee |-> {Place(3, 0)}]>>

\* No rule but vacuity ever drops a row, whatever its label; flags_only_a6 drops
\* none; and every row has its line in the table of reasons.
ASSUME OnlyVacuityDrops ==
    \A policy \in Policies :
        LET out == Filtered(policy, FilterRows, <<Replay("success", TRUE, Nearing)>>)
        IN  /\ Len(out.reasons) = Len(FilterRows)
            /\ Len(out.rows) = IF policy = "flags_only_a6" THEN 4 ELSE 2
            /\ policy # "flags_only_a6" =>
                  \A i \in DOMAIN out.rows : ~out.rows[i].rule3

\* The cube stands where the arm first came nearest to it.
ASSUME CubeIsTheNearestPlace ==
    /\ CubeLookup(<<Replay("success", TRUE, Nearing)>>, {"run"})
          = [ep \in {"e1"} |-> Place(-20, 0)]
    /\ CubeLookup(<<Replay("success", FALSE, Nearing)>>, {"run"}) = <<>>
    /\ CubeLookup(<<Replay("success", TRUE, Nearing)>>, {"other"}) = <<>>
    /\ CubeLookup(<<Replay("failure", TRUE, <<>>)>>, {"run"}) = <<>>

-----------------------------------------------------------------------------
(* The per-arm rows.                                                        *)

ArmRound(full, text) ==
    [meta |-> TRUE, image |-> TRUE, full |-> full, dumpedText |-> text, spatial |-> TRUE]
Step(l, r) == [left |-> l, right |-> r]

\* Four steps: the left arm nears in the first round only, the right in both.
ArmEpisodes(outcome, dumped) ==
    [e1 |-> [outcome |-> outcome, dumped |-> dumped,
             rounds |-> <<ArmRound("prose", ""), ArmRound("", "prose")>>,
             traj |-> <<Step(9, 9), Step(5, 7), Step(5, 7), Step(5, 3)>>],
     e2 |-> [outcome |-> "success", dumped |-> TRUE,
             rounds |-> <<ArmRound("prose", "")>>, traj |-> <<Step(9, 9), Step(1, 1)>>]]

Rescores == {[ep \in {"e1"} |-> [left |-> l, right |-> r]] : l, r \in BOOLEAN}
ArmOutcomes == {"success", "failure"}

\* Each arm is labelled by its own rounds and its own reach, the replay's
\* directory plays no part, and the SFT pool is the desirable part of the KTO
\* pool.
ASSUME ArmsAreJudgedAlone ==
    \A rescore \in Rescores, outcome \in ArmOutcomes, source \in {"native", "none"} :
        LET episodes == ArmEpisodes(outcome, TRUE)
            kto == BuildSamplesPerArm(episodes, rescore, source, 1, TRUE, FALSE)
            sft == BuildSamplesPerArm(episodes, rescore, source, 1, TRUE, TRUE)
            LabelOf(arm) == IF rescore["e1"][arm] THEN "desirable" ELSE "undesirable"
        IN  /\ {<<row.arm, row.round, row.label>> : row \in kto}
                  = {<<"left", 1, LabelOf("left")>>, <<"right", 1, LabelOf("right")>>,
                     <<"right", 2, LabelOf("right")>>}
            /\ sft = {row \in kto : row.label = "desirable"}
            /\ DesirableInstances(sft) = DesirableInstances(kto)
            /\ DesirableInstances(kto) = {<<"e1", arm>> : arm \in
                                             {a \in ScoredArms : rescore["e1"][a]}}

\* A row never asks for the other arm's target, unless the raw response is all
\* there is.
ASSUME TargetsAreSingleArm ==
    \A rescore \in Rescores, source \in {"native", "none", "retrieval"} :
        \A row \in BuildSamplesPerArm(ArmEpisodes("failure", TRUE), rescore, source,
                                      1, FALSE, FALSE) :
            /\ OtherArm(row.arm) \notin row.target
            /\ row.arm \notin row.target => row.target = {"raw"} /\ source # "none"

ASSUME UndumpedEpisodesGiveNothing ==
    BuildSamplesPerArm(ArmEpisodes("success", FALSE),
                       [ep \in {"e1"} |-> Step(TRUE, TRUE)], "native", 1, TRUE, FALSE) = {}

\* The state comes from one place for both arms, and the gate lets pass what was
\* not measured.
ASSUME StateIsOfOneInstant ==
    LET start == Step({}, {4})
        traj == <<Step({1}, {2}), Step({3}, {4}), Step({5}, {6})>>
    IN  /\ StateAtRound(start, traj, 1) = Step({1}, {2})
        /\ StateAtRound(start, traj, 2) = Step({5}, {6})
        /\ StateAtRound(start, traj, 3) = start
        /\ StateAtRound(Step({7}, {4}), traj, 1) = Step({7}, {4})
        /\ ~AboveDistanceGate({5}, {}) /\ AboveDistanceGate({5}, {6})
        /\ ~AboveDistanceGate({}, {6})
        /\ MinRound(1, TRUE) = 2 /\ MinRound(3, TRUE) = 3

-----------------------------------------------------------------------------
(* The examples.                                                            *)

FileLine(json, label, image, blank) ==
    [json |-> json, label |-> label, image |-> image, blank |-> blank]

FileLines ==
    {FileLine(j, l, i, b) : j \in {"blank", "bad", "ok"},
        l \in {"desirable", "undesirable", "none"}, i, b \in BOOLEAN}

\* The KTO set is the labelled part of what SFT would load, and no parsed line is
\* neither loaded nor reported.
ASSUME KtoLoadsTheLabelled ==
    \A a, b \in FileLines :
        LET lines == <<a, b, a>>
        IN  /\ LoadKto(lines) = SelectSeq(LoadSft(lines), Labelled)
            /\ Len(LoadKto(lines)) + SkippedKto(lines) = Len(SelectSeq(lines, Parsed))

Responses == UNION {[1..n -> {"word", "LEFT", "RIGHT"}] : n \in 0..4}

\* No label falls on the prompt; stage 4A trains on the whole answer, 4B from
\* the first target line on; and nothing remains of an answer that the prompt
\* leaves no room for.
ASSUME SupervisionIsTheAnswer ==
    \A response \in Responses, stage \in {"4A", "4B"}, prompt \in 1..3, max \in 2..9 :
        LET trained == Supervised(stage, prompt, response, max)
            text == prompt + Len(response) + 1
            lefts == {i \in DOMAIN response : response[i] = "LEFT"}
            starts == IF lefts # {} THEN lefts
                      ELSE {i \in DOMAIN response : response[i] = "RIGHT"}
        IN  /\ \A i \in trained : i > prompt /\ i <= max
            /\ trained = {i \in (prompt + 1)..text :
                             /\ i <= max
                             /\ stage = "4A" \/ starts = {}
                                  \/ \E s \in starts : i >= prompt + s}
            /\ \A longer \in {{text}, {text, text + 2}} :
                   Predicted(Collated(trained, longer)) = trained

\* Both classes weigh the same, and neither less than 1.
ASSUME BalanceEvens ==
    \A d, u \in 1..6 :
        LET w == AutoBalance(d, u)
        IN  /\ d * w.desirable[1] * w.undesirable[2] = u * w.undesirable[1] * w.desirable[2]
            /\ w.desirable[1] >= w.desirable[2] /\ w.undesirable[1] >= w.undesirable[2]

\* The reference policy is the policy without what is trained, and the policy is
\* in force again when a reference pass ends.
ASSUME ReferenceIsFrozen ==
    \A args \in SUBSET {"warm_start", "frozen_adapter", "auto_balance"} :
        AcceptsModes(args) =>
            /\ AdaptersOf(args).reference
                  = AdaptersOf(args).policy \ AdaptersOf(args).trained
            /\ ReferencePass(args).during = AdaptersOf(args).reference
            /\ ReferencePass(args).after = AdaptersOf(args).policy

\* The baseline makes no batch of worsened examples look neutral, and the same
\* number of rows gives every arm the same exposure.
ASSUME BaselineAndExposure ==
    /\ \A v \in [1..3 -> -2..2] :
          Baseline(v) >= 0 /\ ((\A i \in 1..3 : v[i] <= 0) => Baseline(v) = 0)
    /\ Pull(TRUE) = -Pull(FALSE)
    /\ \A n \in 0..20 : EffectiveSteps(n, 2, 2, 0, 3) = 3 * (IF n < 4 THEN 1 ELSE n \div 4)
-----------------------------------------------------------------------------
(* The labels of the dual-arm campaign.                                      *)

ReachThreshold == 2

ArmTrips == UNION {[1..n -> [ScoredArms -> {1, 2, 3}]] : n \in 0..2}
JointSuccess(traj) == traj # <<>> /\ \A arm \in ScoredArms : Last(traj)[arm] < ReachThreshold

TripEpisodes == {[e1 |-> [traj |-> t], e2 |-> [traj |-> u]] : t, u \in ArmTrips}
TripRecaps(episodes) ==
    [ep \in {"e1", "e3"} |->
        [success |-> ep = "e1" /\ JointSuccess(episodes.e1.traj), reached |-> {}]]

\* The labels never contradict the joint outcome, tagging twice is tagging once
\* and leaves the joint label alone, and a recap that was not rescored is judged
\* by its joint label among the others; one episode without a trajectory leaves
\* no labels for any.  (L2 Amendment 1a)
ASSUME LabelsExtendTheJointOne ==
    \A episodes \in TripEpisodes :
        /\ Rescore(episodes, ReachThreshold) = {} <=>
               episodes.e1.traj = <<>> \/ episodes.e2.traj = <<>>
        /\ \A rescore \in Rescore(episodes, ReachThreshold) :
            LET before == TripRecaps(episodes)
                after == Retag(before, rescore)
            IN  /\ Retag(after, rescore) = after
                /\ \A ep \in DOMAIN before : after[ep].success = before[ep].success
                /\ \A arm \in ScoredArms :
                       /\ before["e1"].success => SuccessLabel(after["e1"], arm)
                       /\ SuccessLabel(after["e1"], arm) = rescore["e1"][arm]
                       /\ SuccessLabel(after["e3"], arm) = before["e3"].success

-----------------------------------------------------------------------------
(* The rows of the pipeline, as the filter reads them.                      *)

LinesOf(w, row) ==
    LET round == w.episodes[row.ep].rounds[row.round]
        Prose(spatial) == <<Line("prose", TRUE, FALSE, {}, {}, {}, spatial)>>
    IN  (IF "gist" \in row.target
         THEN <<Gist>> \o [i \in DOMAIN Quoted(w, row.ep) |-> Quote] ELSE <<>>)
        \o (IF "thought" \in row.target THEN Prose(round.spatial) ELSE <<>>)
        \o (IF "action" \in row.target THEN Prose(TRUE) ELSE <<>>)
        \o (IF "raw" \in row.target
            THEN Prose(Response(round) = "coords" \/ round.spatial) ELSE <<>>)

\* What the pipeline's model calls vacuous is what the filter's model drops.
ASSUME VacuousIsTheRule ==
    \A w \in MCCampaigns, source \in {"native", "retrieval", "gist_only", "none"} :
        \A row \in BuildSamples(w, source, FALSE, TRUE) :
            Vacuous(w, row)
                <=> RuleVacuity(OwnThought(LinesOf(w, row))) = "vacuous_no_spatial_token"
=============================================================================
