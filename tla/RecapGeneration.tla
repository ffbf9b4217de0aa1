--------------------------- MODULE RecapGeneration ----------------------------
(***************************************************************************)
(* What becomes of one finished episode in memory: _emit_recap of collect.  *)
(* py and generate_recap of stage4_recap.py.  An episode e is a record      *)
(*    outcome, arm      the active arm: "left", "right" or "both"           *)
(*    rounds            its answered rounds: [left, right (the distances in *)
(*                      cm at the end), png (round_NN_pre.png is there)]    *)
(*    dumped, endPng    whether it has a dump directory, with the end image *)
(*    startBytes, endBytes  whether the images are in memory                *)
(*    reply             the number of words the teacher writes, none where  *)
(*                      the call raises                                     *)
(*    embeds, saves     whether the encoder and the buffer's write succeed; *)
(*                      otherwise they raise                                *)
(* Absent things are empty sets.                                            *)
(***************************************************************************)
EXTENDS Integers, FiniteSets, SequencesExt

NearMissThreshold == 10
WorseBy == 5
MaxWords == 100

-----------------------------------------------------------------------------
(* The rounds and their class.                                              *)

\* The recap judges one arm: the left one unless only the right is active.
RoundDistance(e, r) ==
    IF e.arm = "right" THEN e.rounds[r].right ELSE e.rounds[r].left

Distances(e) == [r \in DOMAIN e.rounds |-> RoundDistance(e, r)]

FirstWith(s, Best(_)) ==
    CHOOSE i \in DOMAIN s : Best(s[i]) /\ \A j \in 1..(i - 1) : ~Best(s[j])

Lowest(s) == FirstWith(s, LAMBDA d : \A x \in ToSet(s) : d <= x)
Highest(s) == FirstWith(s, LAMBDA d : \A x \in ToSet(s) : d >= x)

\* Near at some time and far at the end; farther at the end than after the first
\* round, unless that ended at the target itself; or the bare outcome.
OutcomeClass(e) ==
    LET d == Distances(e)
        NearMiss == d[Lowest(d)] < NearMissThreshold /\ d[Len(d)] > NearMissThreshold
        WrongDirection == d[1] # 0 /\ d[Len(d)] > d[1] + WorseBy
    IN  CASE e.outcome = "success" -> "success"
          [] e.outcome # "success" /\ d = <<>> -> e.outcome
          [] e.outcome # "success" /\ d # <<>> /\ NearMiss -> "near_miss"
          [] e.outcome # "success" /\ d # <<>> /\ ~NearMiss /\ WrongDirection ->
                "wrong_direction"
          [] OTHER -> e.outcome

\* The round whose image goes with the lesson.
KeyRound(e) ==
    LET d == Distances(e)
    IN  CASE d = <<>> \/ OutcomeClass(e) = "success" -> {}
          [] OutcomeClass(e) = "near_miss" -> {Lowest(d)}
          [] OutcomeClass(e) = "wrong_direction" -> {Highest(d)}
          [] OTHER -> {Len(d) \div 2 + 1}

-----------------------------------------------------------------------------
(* The images.                                                              *)

\* The files that the record points to, and that retrieval will show.
Anchors(e) ==
    IF ~e.dumped THEN {}
    ELSE {a \in {"init_pre", "final_post", "key_round_pre"} :
             CASE a = "init_pre" -> e.rounds[1].png
               [] a = "final_post" -> e.endPng
               [] a = "key_round_pre" -> \E r \in KeyRound(e) : e.rounds[r].png}

HasInit(e) == "init_pre" \in Anchors(e) \/ e.startBytes
HasFinal(e) == "final_post" \in Anchors(e) \/ e.endBytes
HasKey(e) == "key_round_pre" \in Anchors(e)

\* The images of the request, in the order they are sent.
ImagesSent(e) ==
    <<"init">> \o (IF HasFinal(e) THEN <<"final">> ELSE <<>>)
               \o (IF HasKey(e) THEN <<"key">> ELSE <<>>)

\* The number by which the prompt speaks of each image.
ImageNumbers(e) ==
    {<<"init", 1>>} \cup (IF HasFinal(e) THEN {<<"final", 2>>} ELSE {})
                    \cup (IF HasKey(e) THEN {<<"key", 3>>} ELSE {})

\* The facts of the prompt: the arms' own positions, the measured distances and
\* what the robot predicted, never where the target is.
PromptFacts(e) ==
    {"outcome", "class", "round_count", "init_ee", "landed_ee", "first_prediction"}
    \cup (IF HasFinal(e) THEN {"final_ee", "final_distance"} ELSE {})
    \cup (IF HasKey(e) THEN {"key_distance", "key_prediction"} ELSE {})

-----------------------------------------------------------------------------
(* The record.                                                              *)

\* A longer lesson is cut at the limit and put on one line; an exception gives
\* none.
LessonWords(e) ==
    CHOOSE n \in 0..MaxWords :
        IF e.reply = {} THEN n = 0
        ELSE \A w \in e.reply : n = IF w <= MaxWords THEN w ELSE MaxWords

\* The start image is embedded before the teacher is asked, and the record is
\* written once there is a lesson: an exception from either leaves generate_recap.
Raises(e) ==
    /\ e.rounds # <<>>
    /\ HasInit(e)
    /\ ~e.embeds \/ (LessonWords(e) > 0 /\ ~e.saves)

\* One record, or none: without answered rounds, an image or a lesson, and where
\* it raises (the collect loop reports that and goes on).
Recap(e) ==
    IF e.rounds = <<>> \/ ~HasInit(e) \/ LessonWords(e) = 0 \/ Raises(e) THEN {}
    ELSE {[outcome |-> e.outcome, success |-> e.outcome = "success",
           class |-> OutcomeClass(e), anchors |-> Anchors(e), key |-> KeyRound(e),
           rounds |-> Len(e.rounds), distance |-> RoundDistance(e, Len(e.rounds)),
           words |-> LessonWords(e)]}
-----------------------------------------------------------------------------
(* recap_from_existing_replays.py: the recaps of a finished run, made from  *)
(* its replays and dumps instead of at the end of each episode.  A replay   *)
(* file is a record                                                        *)
(*    ep, dir, reads    its episode, where it lies, whether it is JSON      *)
(*    arm, outcome      of the episode                                      *)
(*    empty             whether its trajectory is                           *)
(*    answered          how many stage-1 answers it holds                   *)
(*    meta              the distances of the rounds in meta.json, <<>> if   *)
(*                      the file is not there or cannot be read             *)
(*    dumped, pngs, endPng   the dump directory: is it there, the rounds    *)
(*                      with an image, the end image                        *)
(*    reply, embeds, saves   as above                                       *)

\* What is not a number is neither near nor worse than anything.
NoDistance == NearMissThreshold

\* The rounds that both the answers and the metadata know.
RoundsOf(f) ==
    LET n == IF f.meta # <<>> /\ Len(f.meta) < f.answered THEN Len(f.meta)
             ELSE f.answered
        Distance(r, arm) == IF r \in DOMAIN f.meta THEN f.meta[r][arm] ELSE NoDistance
    IN  [r \in 1..n |-> [left |-> Distance(r, "left"), right |-> Distance(r, "right"),
                         png |-> f.dumped /\ r \in f.pngs]]

\* The finished episode as the backfill hands it over: no image is in memory.
EpisodeFrom(f) ==
    [outcome |-> f.outcome, arm |-> f.arm, rounds |-> RoundsOf(f), dumped |-> f.dumped,
     endPng |-> f.endPng, startBytes |-> FALSE, endBytes |-> FALSE, reply |-> f.reply,
     embeds |-> f.embeds, saves |-> f.saves]

\* And as the collect loop had handed it over.
EpisodeLive(f) == [EpisodeFrom(f) EXCEPT !.startBytes = TRUE, !.endBytes = TRUE]

\* Successes first, failures only when asked for.
Candidates(files, includeFailures) ==
    LET In(dir) == SelectSeq(files, LAMBDA f : f.dir = dir)
    IN  In("success") \o (IF includeFailures THEN In("failure") ELSE <<>>)

\* What is in the buffer was looked at once, before the first file.
Skips(f, existing) ==
    ~f.reads \/ f.ep \in existing \/ f.empty \/ RoundsOf(f) = <<>>

\* The limit counts the recaps that were made, not the files.  Nothing here catches
\* what generate_recap raises: the run ends there, with what it had made.
Backfill(files, existing, includeFailures, limit) ==
    FoldLeft(LAMBDA run, f :
                IF run.aborted \/ (\E n \in limit : Len(run.made) >= n)
                               \/ Skips(f, existing) THEN run
                ELSE [made |-> run.made \o SetToSeq({[ep |-> f.ep, recap |-> r] :
                                                        r \in Recap(EpisodeFrom(f))}),
                      aborted |-> Raises(EpisodeFrom(f))],
             [made |-> <<>>, aborted |-> FALSE], Candidates(files, includeFailures))

\* _active_arm_from_task and _active_arm_for_level: one rule for both.
ActiveArm(ending) == IF ending \in {"left", "right"} THEN ending ELSE "both"
=============================================================================
