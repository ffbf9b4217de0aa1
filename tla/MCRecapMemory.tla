--------------------------- MODULE MCRecapMemory ----------------------------
(* Model checking of RecapMemory with RecapPrompt over it.  The sets come    *)
(* from the configurations; of four recaps one has a lesson of one line, one *)
(* of two, and two have a line that looks like a part of the preamble.  The   *)
(* assumptions hold the recap of an episode of up to three rounds against     *)
(* what stage4_recap.py says of it; TLC evaluates them with every run.       *)
EXTENDS RecapPrompt, RecapGeneration

SomeLessons == <<<<>>, <<"prose">>, <<"tail lessons">>, <<"prose", "image line">>>>

MCLessonOf ==
    LET ids == SetToSeq(Ids)
    IN  [r \in Ids |-> SomeLessons[CHOOSE k \in DOMAIN ids : ids[k] = r]]

-----------------------------------------------------------------------------
(* The recap of an episode.                                                 *)

Round(left, right, png) == [left |-> left, right |-> right, png |-> png]

Episode(outcome, arm, rounds, dumped, endPng, endBytes, reply) ==
    [outcome |-> outcome, arm |-> arm, rounds |-> rounds, dumped |-> dumped,
     endPng |-> endPng, startBytes |-> TRUE, endBytes |-> endBytes, reply |-> reply,
     embeds |-> TRUE, saves |-> TRUE]

\* Distances on both sides of the thresholds, equal to them and at the target.
SomeDistances == {0, 9, 10, 14, 15, 16}
SomeTrips == UNION {[1..n -> SomeDistances] : n \in 1..3}

ReachEpisodes ==
    {Episode(o, "left", [k \in DOMAIN t |-> Round(t[k], 0, TRUE)], TRUE, TRUE, TRUE, {60}) :
        o \in {"success", "timeout"}, t \in SomeTrips}

PictureEpisodes ==
    {Episode(o, a, <<Round(20, 12, p1), Round(9, 9, p2), Round(12, 20, TRUE)>>,
             d, p, b, w) :
        o \in {"success", "timeout"}, a \in {"left", "right", "both"},
        p1, p2, d, p, b \in BOOLEAN, w \in {{}, {0}, {60}, {140}}}

-----------------------------------------------------------------------------
(* The picture that goes with the lesson shows what the class speaks of: an  *)
(* arm that came close and left again is shown where it was closest, never   *)
(* at its end; one that went away is shown at its farthest, never after its  *)
(* first round (_select_key_round, Q5).                                      *)
ASSUME KeyRoundShowsTheClass ==
    \A e \in ReachEpisodes : \A r \in KeyRound(e) :
        LET d == Distances(e)
        IN  /\ OutcomeClass(e) = "near_miss" =>
                   r < Len(d) /\ d[r] < 10 /\ \A k \in DOMAIN d : d[r] <= d[k]
            /\ OutcomeClass(e) = "wrong_direction" =>
                   r > 1 /\ d[r] > d[1] + 5 /\ \A k \in DOMAIN d : d[r] >= d[k]

\* The class is one of the two only for a failure, and never both ways: an arm
\* that was near once is a near miss however far it went (_classify_outcome).
ASSUME NearnessWins ==
    \A e \in ReachEpisodes :
        LET d == Distances(e)
            wasNear == \E k \in DOMAIN d : d[k] < 10
        IN  /\ OutcomeClass(e) = "near_miss" <=>
                   e.outcome # "success" /\ wasNear /\ d[Len(d)] > 10
            /\ OutcomeClass(e) = "wrong_direction" =>
                   e.outcome # "success" /\ (wasNear => d[Len(d)] <= 10)

\* The prompt speaks of each image by its place among those sent, unless the end
\* image is missing: then the key image is sent second and called Image 3
\* (_build_recap_user_prompt and _request_vlm_recap).
ASSUME NumbersNeedTheEndImage ==
    \A e \in PictureEpisodes :
        (\A k \in DOMAIN ImagesSent(e) : <<ImagesSent(e)[k], k>> \in ImageNumbers(e))
            <=> (HasFinal(e) \/ ~HasKey(e))

\* Of an episode of two arms only the left one is judged (generate_recap).
ASSUME OneArmIsJudged ==
    \A e \in PictureEpisodes :
        LET swapped == [e EXCEPT !.rounds = [r \in DOMAIN e.rounds |->
                            [e.rounds[r] EXCEPT !.right = 99 - @]]]
        IN  e.arm = "both" => Recap(swapped) = Recap(e)

\* A saved recap has a lesson of at most the limit, and the image by which
\* retrieval shows it exactly where the first round was dumped: the others take a
\* place among the hits and are never shown (_load_past_image_b64_list).
ASSUME ShownOnlyFromADump ==
    \A e \in PictureEpisodes : \A rec \in Recap(e) :
        /\ rec.words \in 1..MaxWords
        /\ "init_pre" \in rec.anchors <=> e.dumped /\ e.rounds[1].png
        /\ rec.success => rec.key = {}
-----------------------------------------------------------------------------
(* The backfill of a finished run.                                           *)

ReplayFiles(ep) ==
    {[ep |-> ep, dir |-> IF o = "success" THEN "success" ELSE "failure", reads |-> reads,
      arm |-> arm, outcome |-> o, empty |-> FALSE, answered |-> answered, meta |-> meta,
      dumped |-> dumped, pngs |-> pngs, endPng |-> endPng, reply |-> reply,
      embeds |-> TRUE, saves |-> TRUE] :
        o \in {"success", "timeout"}, reads, dumped, endPng \in BOOLEAN,
        arm \in {"left", "both"}, answered \in 0..2, pngs \in SUBSET {1, 2},
        meta \in {<<>>, <<[left |-> 20, right |-> 3]>>,
                  <<[left |-> 6, right |-> 20], [left |-> 30, right |-> 3]>>},
        reply \in {{}, {60}}}

FileRuns ==
    LET First == {f \in ReplayFiles("e1") : f.dumped /\ f.pngs = {1, 2} /\ f.endPng}
        Second == {f \in ReplayFiles("e2") : f.reads /\ f.dumped /\ f.arm = "left"
                                              /\ f.pngs = {1} /\ f.answered = 1}
    IN  {<<f, g>> : f \in First, g \in Second}

\* With its dump an episode gets the recap that it would have got when it ended;
\* without one it gets none, although it would have had a recap then.
ASSUME BackfillIsTheLiveRecap ==
    \A f \in ReplayFiles("e1") :
        /\ f.dumped /\ 1 \in f.pngs => Recap(EpisodeFrom(f)) = Recap(EpisodeLive(f))
        /\ ~(f.dumped /\ 1 \in f.pngs) => Recap(EpisodeFrom(f)) = {}

EpisodesOf(made) == {made[i].ep : i \in DOMAIN made}

\* It can be run again: what the first run made is not made twice, a limited run
\* makes the first recaps of the whole one, and successes come first.
ASSUME BackfillResumes ==
    \A files \in FileRuns, failures \in BOOLEAN :
        LET all == Backfill(files, {}, failures, {}).made
            one == Backfill(files, {}, failures, {1}).made
        IN  /\ Backfill(files, EpisodesOf(all), failures, {}).made = <<>>
            /\ one = SubSeq(all, 1, Len(one))
            /\ one \o Backfill(files, EpisodesOf(one), failures, {}).made = all
            /\ \A i, j \in DOMAIN all :
                   i < j /\ all[j].recap.success => all[i].recap.success

\* The encoder fails, or the write of the record.
Broken(f) == {[f EXCEPT !.embeds = FALSE], [f EXCEPT !.saves = FALSE]}

\* An exception that the collect loop would survive ends a backfill, and hides the
\* files behind it: what was made before is a beginning of the whole, and a run
\* after the repair completes it.  Without a lesson only the encoder can end it, as
\* nothing is written then.
ASSUME BackfillAborts ==
    \A files \in FileRuns, k \in 1..2 : \A f \in Broken(files[k]) :
        LET all == Backfill(files, {}, TRUE, {}).made
            run == Backfill([files EXCEPT ![k] = f], {}, TRUE, {})
            needed == f.reads /\ RoundsOf(f) # <<>>
        IN  /\ run.aborted <=> needed /\ (f.embeds => f.reply # {})
            /\ run.made = SubSeq(all, 1, Len(run.made))
            /\ run.aborted => files[k].ep \notin EpisodesOf(run.made)
            /\ run.made \o Backfill(files, EpisodesOf(run.made), TRUE, {}).made = all
=============================================================================
