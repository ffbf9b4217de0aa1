------------------------------- MODULE EvalRun --------------------------------
(***************************************************************************)
(* An evaluation of one endpoint: the round loop of eval.py over a whole    *)
(* episode, the report of run_eval, and the comparison that 05_eval.py      *)
(* prints.  The ladder of one round is ReachEpisode.EvalVerdict.            *)
(*                                                                         *)
(* A round is what the model and the simulator make of it:                  *)
(*    answered     stage 1 gives a response         stop, attempt           *)
(*    left, right  the distances at its end; none without a trajectory      *)
(*    targets      the ground truth can be resolved                         *)
(*    rgb          the camera gives an image, before and after              *)
(***************************************************************************)
EXTENDS ReachEpisode, FiniteSets, SequencesExt

\* What a comparison reads for a distance that is not known: NaN is never below
\* the threshold.
Read(d) == IF d = {} THEN Threshold ELSE CHOOSE x \in d : TRUE

Played ==
    [outcome |-> "max_rounds", over |-> FALSE, rounds |-> 0, fails |-> 0,
     left |-> {}, right |-> {}, history |-> <<>>, count |-> 0, grounded |-> 0,
     of |-> 0, images |-> {}]

\* The round is counted before the model is asked.
Unanswered(e) ==
    [e EXCEPT !.outcome = "vlm_parse_fail", !.over = TRUE, !.fails = 1,
              !.rounds = @ + 1]

\* A round without a trajectory leaves the distances of the one before, and they
\* are judged and put into the history again.
Answered(a, e, r) ==
    LET moved == r.left # {} \/ r.right # {}
        left == IF moved THEN r.left ELSE e.left
        right == IF moved THEN r.right ELSE e.right
        last == [left |-> Read(left), right |-> Read(right)]
        history == IF left # {} /\ right # {} THEN Append(e.history, last)
                                              ELSE e.history
        verdict == EvalVerdict(a, last, r.attempt, r.stop, history, e.count)
    IN  [e EXCEPT !.left = left, !.right = right, !.history = history,
                  !.count = NoProgressAfter(history, @),
                  !.rounds = @ + 1, !.of = e.rounds,
                  !.grounded = @ + (IF r.targets THEN 1 ELSE 0),
                  !.over = verdict # "continue",
                  !.outcome = IF verdict = "continue" THEN @ ELSE verdict]

\* The critic's comparison is of the round before, from the second round on; the
\* images are the frames before and after each executed round.
Play(a, e, r) ==
    IF e.over THEN e
    ELSE LET after == IF r.answered THEN Answered(a, e, r) ELSE Unanswered(e)
             n == after.rounds
         IN  [after EXCEPT !.images = @ \cup
                 (IF ~r.rgb THEN {} ELSE {<<n, "pre">>}) \cup
                 (IF ~r.rgb \/ ~r.answered THEN {} ELSE {<<n, "post">>})]

EvalEpisode(a, trip) ==
    FoldLeft(LAMBDA e, r : Play(a, e, r), Played,
             SubSeq(trip, 1, IF Len(trip) < MaxRounds THEN Len(trip) ELSE MaxRounds))

-----------------------------------------------------------------------------
(* run_eval.                                                                *)

SumOf(field, results) == FoldLeft(LAMBDA n, e : n + e[field], 0, results)

WithOutcome(o, results) == Len(SelectSeq(results, LAMBDA e : e.outcome = o))

\* Averages stay sums and counts; an average over nothing is NaN, and counts 0.
Report(results) ==
    [episodes |-> Len(results),
     successes |-> WithOutcome("success", results),
     rounds |-> SumOf("rounds", results),
     calls |-> SumOf("rounds", results),
     parseFail |-> SumOf("fails", results),
     grounded |-> SumOf("grounded", results),
     leftSeen |-> Len(SelectSeq(results, LAMBDA e : e.left # {})),
     leftSum |-> FoldLeft(LAMBDA n, e : IF e.left = {} THEN n ELSE n + Read(e.left), 0, results),
     outcomes |-> [o \in {e.outcome : e \in ToSet(results)} |-> WithOutcome(o, results)]]

\* compute_distillation_gap, in percent; latencies are milliseconds per call.
Percent(x, y) == IF y > 0 THEN (100 * x) \div y ELSE 0

Gap(teacher, student) ==
    [success |-> Percent(student.successes * teacher.episodes,
                         teacher.successes * student.episodes),
     latency |-> Percent(student.latency, teacher.latency),
     speedup |-> Percent(teacher.latency, student.latency)]

\* 05_eval.py: each side unless it is skipped; the gap where both were run.
Evaluation(skipTeacher, skipStudent) ==
    {s \in {"teacher", "student", "gap"} :
        CASE s = "teacher" -> ~skipTeacher
          [] s = "student" -> ~skipStudent
          [] s = "gap" -> ~skipTeacher /\ ~skipStudent}
=============================================================================
