----------------------------- MODULE ReachEpisode -----------------------------
(***************************************************************************)
(* One episode of the reach instrument: the round loop of run_collect_loop *)
(* (aiongenos/orchestrator/collect.py) over the simulator interface        *)
(* (isaaclab_env_interface.py), and beside it the verdict that the eval    *)
(* loop (eval.py) would give on the same rounds.                           *)
(*                                                                         *)
(* Distances are integers in one unit.  The episode's own task (the scene: *)
(* target poses and joint offsets) is a number that the simulator advances *)
(* whenever it resets itself inside env.step.                              *)
(***************************************************************************)
EXTENDS Integers, Sequences

CONSTANTS
    MaxRounds,      \* max_subgoals_per_episode
    Window,         \* plateau_window
    Patience,       \* plateau_patience
    MinProgress,    \* plateau_min_progress_m
    Threshold,      \* subgoal_success_threshold_m
    EnvThreshold,   \* the literal 0.05 of execute_command
    Dists,          \* the distances a measurement may show
    StepsPerRound,  \* sim_steps_per_subgoal
    EpisodeLength,  \* the simulator's max_episode_length, in env steps
    Arms            \* the scored arms a run may ask for: "left", "right", "both"

ASSUME EpisodeAssumption ==
    /\ MaxRounds \in Nat \ {0}
    /\ Window \in Nat \ {0}
    /\ Patience \in Nat \ {0}
    /\ MinProgress \in Nat
    /\ Threshold \in Nat
    /\ EnvThreshold \in Nat
    /\ Dists \subseteq Nat
    /\ StepsPerRound \in Nat \ {0}
    /\ EpisodeLength \in Nat
    /\ EpisodeLength > StepsPerRound
    /\ Arms \subseteq {"left", "right", "both"}

Outcomes == {"success", "collision", "vlm_stop_premature", "vlm_parse_fail",
             "timeout"}

VARIABLES
    pc,            \* "reset", "prompt", "execute", "judge" or "ended"
    arm,           \* scored_arm: eval_scored_arm, or the level name's arm
    round,         \* round_idx
    envSteps,      \* the simulator's episode_length_buf
    scene,         \* which reset the present target and pose come from
    terminated,    \* the simulator has reported a termination
    stop,          \* stage1_result.stop of the round under way
    attempt,       \* AttemptResult.outcome of the last executed command
    measured,      \* the last distances of every executed round
    scenes,        \* the scene in which each of those was measured
    noProgress,    \* no_progress_rounds
    interactions,  \* len(vlm_interactions)
    lastStart,     \* [round, scene] behind prev_predicted_*, prev_dist_*
    feedback,      \* the comparison that the round's critic feedback makes
    outcome,       \* EpisodeOutcome
    plateau        \* "plateau" \in flags

episodeVars == <<pc, arm, round, envSteps, scene, terminated, stop, attempt,
                 measured, scenes, noProgress, interactions, lastStart,
                 feedback, outcome, plateau>>

-----------------------------------------------------------------------------
(* The decision ladder.                                                    *)

Measurements == [left : Dists, right : Dists]

Combined(m) == m.left + m.right

\* ok: success reads only the scored arm; both arms where none is scored.
Reached(a, m) ==
    /\ a \in {"left", "both"} => m.left < Threshold
    /\ a \in {"right", "both"} => m.right < Threshold

\* sum(history[first..last]) of the combined distances.
SumFromTo(h, first, last) ==
    LET sum[i \in Nat] == IF i < first THEN 0 ELSE sum[i - 1] + Combined(h[i])
    IN  sum[last]

\* prior_mean is finite, and prior_mean - recent_mean > plateau_eps.
HasPrior(h) == Len(h) >= 2 * Window

\* Mutant of Progressed: an improvement by exactly the minimum counts.
ProgressedByMinimum(h) ==
    LET n == Len(h)
    IN  SumFromTo(h, n - 2 * Window + 1, n - Window)
            - SumFromTo(h, n - Window + 1, n) >= MinProgress * Window

Progressed(h) ==
    LET n == Len(h)
        recent == SumFromTo(h, n - Window + 1, n)
        prior == SumFromTo(h, n - 2 * Window + 1, n - Window)
    IN  prior - recent > MinProgress * Window

\* Mutant of NoProgressAfter: progress pauses the counter and does not reset it.
NoProgressNotReset(h, count) ==
    IF ~HasPrior(h) THEN 0
    ELSE IF Progressed(h) THEN count ELSE count + 1

\* no_progress_rounds after the round that made the history h.
NoProgressAfter(h, count) ==
    IF ~HasPrior(h) \/ Progressed(h) THEN 0 ELSE count + 1

-----------------------------------------------------------------------------
(* The simulator.                                                          *)

\* env.step k times.  When episode_length_buf reaches the limit, or the task
\* terminates (in the last of the k), IsaacLab resets the environment inside
\* that step and counts from 0 again.
StepEnv(k, term) ==
    LET timedOut == envSteps + k >= EpisodeLength
        counted == IF timedOut THEN envSteps + k - EpisodeLength ELSE envSteps + k
    IN  /\ envSteps' = IF term THEN 0 ELSE counted
        /\ scene' = scene + (IF timedOut THEN 1 ELSE 0)
                          + (IF term /\ counted > 0 THEN 1 ELSE 0)

\* Mutant of Attempts: range(sim_steps + 1).
AttemptsOneStepMore ==
    {a \in [outcome : {"success", "collision", "timeout"},
            steps : 1..(StepsPerRound + 1), term : BOOLEAN, last : Measurements] :
        LET both == a.last.left < EnvThreshold /\ a.last.right < EnvThreshold
        IN  /\ (a.outcome = "success") <=> both
            /\ (a.outcome = "collision") <=> a.term /\ ~both
            /\ (a.outcome = "timeout") => a.steps = StepsPerRound + 1}

\* What execute_command may return: it leaves its loop early when both arms are
\* inside its own threshold, or else when the simulator reports termination.
Attempts ==
    {a \in [outcome : {"success", "collision", "timeout"}, steps : 1..StepsPerRound,
            term : BOOLEAN, last : Measurements] :
        LET both == a.last.left < EnvThreshold /\ a.last.right < EnvThreshold
        IN  /\ (a.outcome = "success") <=> both
            /\ (a.outcome = "collision") <=> a.term /\ ~both
            /\ (a.outcome = "timeout") => a.steps = StepsPerRound}

-----------------------------------------------------------------------------
Init ==
    /\ pc = "reset"
    /\ arm \in Arms
    /\ round = 0
    /\ envSteps = 0
    /\ scene = 0
    /\ terminated = FALSE
    /\ stop = FALSE
    /\ attempt = "none"
    /\ measured = <<>>
    /\ scenes = <<>>
    /\ noProgress = 0
    /\ interactions = 0
    /\ lastStart = [round |-> 0, scene |-> 0]
    /\ feedback = [of |-> 0, from |-> 0, to |-> 0]
    /\ outcome = "timeout"
    /\ plateau = FALSE

\* env.reset(seed): a fresh scene, then one hold-in-place step so that the
\* camera has a frame.
Reset ==
    /\ pc = "reset"
    /\ pc' = "prompt"
    /\ scene' = 1
    /\ envSteps' = 1
    /\ UNCHANGED <<arm, round, terminated, stop, attempt, measured, scenes,
                   noProgress, interactions, lastStart, feedback, outcome,
                   plateau>>

\* The critic feedback of a later round compares the previous round's
\* prediction and start with the state read now.
Feedback ==
    feedback' = IF round > 0
                THEN [of |-> lastStart.round, from |-> lastStart.scene,
                      to |-> scene]
                ELSE [of |-> 0, from |-> 0, to |-> 0]

\* Mutant of Stage1Answers: range(max_rounds + 1).
Stage1AnswersOnceMore ==
    /\ pc = "prompt"
    /\ round <= MaxRounds
    /\ Feedback
    /\ stop' \in BOOLEAN
    /\ interactions' = interactions + 1
    /\ lastStart' = [round |-> round + 1, scene |-> scene]
    /\ pc' = "execute"
    /\ UNCHANGED <<arm, round, envSteps, scene, terminated, attempt, measured,
                   scenes, noProgress, outcome, plateau>>

\* Mutant of Stage1Answers: prev_* are set in the first round only.
Stage1AnswersStale ==
    /\ pc = "prompt"
    /\ round < MaxRounds
    /\ Feedback
    /\ stop' \in BOOLEAN
    /\ interactions' = interactions + 1
    /\ lastStart' = IF round = 0 THEN [round |-> 1, scene |-> scene]
                                ELSE lastStart
    /\ pc' = "execute"
    /\ UNCHANGED <<arm, round, envSteps, scene, terminated, attempt, measured,
                   scenes, noProgress, outcome, plateau>>

\* run_stage1 returns a parsed target, with or without STOP.
Stage1Answers ==
    /\ pc = "prompt"
    /\ round < MaxRounds
    /\ Feedback
    /\ stop' \in BOOLEAN
    /\ interactions' = interactions + 1
    /\ lastStart' = [round |-> round + 1, scene |-> scene]
    /\ pc' = "execute"
    /\ UNCHANGED <<arm, round, envSteps, scene, terminated, attempt, measured,
                   scenes, noProgress, outcome, plateau>>

\* Mutant of Stage1Fails: the break leaves the initial TIMEOUT in place.
Stage1FailsUnnamed ==
    /\ pc = "prompt"
    /\ round < MaxRounds
    /\ Feedback
    /\ pc' = "ended"
    /\ UNCHANGED <<arm, round, envSteps, scene, terminated, stop, attempt,
                   measured, scenes, noProgress, interactions, lastStart,
                   outcome, plateau>>

\* run_stage1 returns None: its retries are spent, or the server is gone.
Stage1Fails ==
    /\ pc = "prompt"
    /\ round < MaxRounds
    /\ Feedback
    /\ outcome' = "vlm_parse_fail"
    /\ pc' = "ended"
    /\ UNCHANGED <<arm, round, envSteps, scene, terminated, stop, attempt,
                   measured, scenes, noProgress, interactions, lastStart,
                   plateau>>

\* env.execute_command and the measurement of its last time step.
ExecuteCommand ==
    /\ pc = "execute"
    /\ \E a \in Attempts :
        /\ StepEnv(a.steps, a.term)
        /\ terminated' = (terminated \/ a.term)
        /\ attempt' = a.outcome
        /\ measured' = Append(measured, a.last)
    /\ scenes' = Append(scenes, scene')
    /\ pc' = "judge"
    /\ UNCHANGED <<arm, round, stop, noProgress, interactions, lastStart,
                   feedback, outcome, plateau>>

Finish(o) ==
    /\ outcome' = o
    /\ pc' = "ended"

\* Mutant of Judge (F19): STOP is looked at before success.
JudgeStopFirst ==
    /\ pc = "judge"
    /\ LET last == measured[Len(measured)]
           count == NoProgressAfter(measured, noProgress)
       IN  \/ stop /\ Finish("vlm_stop_premature") /\ UNCHANGED <<round, noProgress, plateau>>
           \/ ~stop /\ Reached(arm, last) /\ Finish("success")
                 /\ UNCHANGED <<round, noProgress, plateau>>
           \/ /\ ~stop /\ ~Reached(arm, last) /\ attempt = "collision"
              /\ Finish("collision")
              /\ UNCHANGED <<round, noProgress, plateau>>
           \/ /\ ~stop /\ ~Reached(arm, last) /\ attempt # "collision"
              /\ noProgress' = count
              /\ IF count >= Patience
                 THEN Finish("timeout") /\ plateau' = TRUE /\ UNCHANGED round
                 ELSE /\ round' = round + 1
                      /\ pc' = "prompt"
                      /\ UNCHANGED <<outcome, plateau>>
    /\ UNCHANGED <<arm, envSteps, scene, terminated, stop, attempt, measured,
                   scenes, interactions, lastStart, feedback>>

\* The termination checks, in their order; the plateau counter moves only when
\* the three before it have passed.
Judge ==
    /\ pc = "judge"
    /\ LET last == measured[Len(measured)]
           count == NoProgressAfter(measured, noProgress)
       IN  \/ /\ Reached(arm, last)
              /\ Finish("success")
              /\ UNCHANGED <<round, noProgress, plateau>>
           \/ /\ ~Reached(arm, last) /\ attempt = "collision"
              /\ Finish("collision")
              /\ UNCHANGED <<round, noProgress, plateau>>
           \/ /\ ~Reached(arm, last) /\ attempt # "collision" /\ stop
              /\ Finish("vlm_stop_premature")
              /\ UNCHANGED <<round, noProgress, plateau>>
           \/ /\ ~Reached(arm, last) /\ attempt # "collision" /\ ~stop
              /\ noProgress' = count
              /\ IF count >= Patience
                 THEN Finish("timeout") /\ plateau' = TRUE /\ UNCHANGED round
                 ELSE /\ round' = round + 1
                      /\ pc' = "prompt"
                      /\ UNCHANGED <<outcome, plateau>>
    /\ UNCHANGED <<arm, envSteps, scene, terminated, stop, attempt, measured,
                   scenes, interactions, lastStart, feedback>>

\* Mutant of RoundsExhausted: the limit is compared one round too late.
RoundsExhaustedLate ==
    /\ pc = "prompt"
    /\ round = MaxRounds + 1
    /\ pc' = "ended"
    /\ UNCHANGED <<arm, round, envSteps, scene, terminated, stop, attempt,
                   measured, scenes, noProgress, interactions, lastStart,
                   feedback, outcome, plateau>>

\* The for-loop runs out of rounds and leaves the initial outcome in place.
RoundsExhausted ==
    /\ pc = "prompt"
    /\ round = MaxRounds
    /\ pc' = "ended"
    /\ UNCHANGED <<arm, round, envSteps, scene, terminated, stop, attempt,
                   measured, scenes, noProgress, interactions, lastStart,
                   feedback, outcome, plateau>>

Next ==
    \/ Reset
    \/ Stage1Answers
    \/ Stage1Fails
    \/ ExecuteCommand
    \/ Judge
    \/ RoundsExhausted

\* One thread runs the loop: it takes every step it can.
Fairness == WF_episodeVars(Next)

Spec == Init /\ [][Next]_episodeVars

FairSpec == Spec /\ Fairness
-----------------------------------------------------------------------------
(* The verdict of the eval loop on the same round (eval.py, _run_episode).  *)

\* "plateau" is an outcome of its own there, and "continue" is none.
EvalVerdict(a, last, att, stp, h, count) ==
    LET n == Len(h)
        prior == SumFromTo(h, n - 2 * Window + 1, n - Window)
        recent == SumFromTo(h, n - Window + 1, n)
        stale == n >= 2 * Window /\ prior - recent <= MinProgress * Window
    IN  CASE Reached(a, last) -> "success"
          [] ~Reached(a, last) /\ att = "collision" -> "collision"
          [] ~Reached(a, last) /\ att # "collision" /\ stp -> "vlm_stop_premature"
          [] OTHER -> IF stale /\ count + 1 >= Patience THEN "plateau"
                                                        ELSE "continue"

\* What the collect loop's judgement is called there.
AsEvalVerdict(p, o, flagged) ==
    CASE p # "ended" -> "continue"
      [] p = "ended" /\ flagged -> "plateau"
      [] OTHER -> o

-----------------------------------------------------------------------------
(* Properties.                                                             *)

TypeOK ==
    /\ pc \in {"reset", "prompt", "execute", "judge", "ended"}
    /\ arm \in Arms
    /\ round \in 0..MaxRounds
    /\ envSteps \in Nat
    /\ scene \in Nat
    /\ terminated \in BOOLEAN
    /\ stop \in BOOLEAN
    /\ attempt \in {"none", "success", "collision", "timeout"}
    /\ measured \in Seq(Measurements)
    /\ scenes \in Seq(Nat)
    /\ noProgress \in Nat
    /\ interactions \in Nat
    /\ lastStart \in [round : Nat, scene : Nat]
    /\ feedback \in [of : Nat, from : Nat, to : Nat]
    /\ outcome \in Outcomes
    /\ plateau \in BOOLEAN

\* An ended episode is a success exactly when its last executed round left the
\* scored arm (or both) inside the threshold: neither STOP, nor a collision in
\* the same round, nor a parse failure in a later one, hides or fakes a success.
VerdictMatchesMeasurement ==
    LET scored == IF arm = "both" THEN {"left", "right"} ELSE {arm}
        OnTarget(m) == \A side \in scored : m[side] < Threshold
    IN  pc = "ended" =>
            (outcome = "success" <=>
                measured # <<>> /\ OnTarget(measured[Len(measured)]))

Stagnant(h) == HasPrior(h) /\ ~Progressed(h)

\* The plateau flag is set exactly when the window mean failed to improve after
\* each of the last Patience rounds, recomputed from the whole history: the
\* incremental counter neither fires early nor runs past the limit.
PlateauIsStagnation ==
    LET Stuck == /\ Len(measured) >= Patience
                 /\ \A k \in 0..(Patience - 1) :
                        Stagnant(SubSeq(measured, 1, Len(measured) - k))
    IN  /\ plateau => Stuck
        /\ pc = "prompt" => ~Stuck

\* The replay's interactions, and the feedback of a round, belong to the rounds
\* they claim: one interaction per executed round (and one more for the round
\* under way), and the feedback compares the round just before.
RoundsAligned ==
    /\ pc \in {"prompt", "ended"} => interactions = Len(measured)
    /\ pc \in {"execute", "judge"} =>
        /\ interactions = round + 1
        /\ round > 0 => feedback.of = round

\* Every distance of an episode that the task does not terminate is measured
\* against the episode's own target: no round is judged in a scene that an
\* automatic reset has put in its place.
TargetLocked == ~terminated => \A i \in DOMAIN scenes : scenes[i] = 1

\* The target does hold still up to the simulator's limit, the boundary that
\* the sensitivity analysis (a15_p1_autoreset_sensitivity.py) draws: with the
\* warm-up step counted, a round that ends before the limit is judged in the
\* scene the episode began with.
LockedBeforeBoundary ==
    ~terminated =>
        \A i \in DOMAIN scenes :
            1 + i * StepsPerRound < EpisodeLength => scenes[i] = 1

\* The eval loop would give every judged round the verdict the collect loop
\* gives it, although the two loops are separate copies of the ladder.
EvalAgrees ==
    [][pc = "judge" =>
        AsEvalVerdict(pc', outcome', plateau') =
            EvalVerdict(arm, measured[Len(measured)], attempt, stop, measured,
                        noProgress)]_episodeVars

\* Every episode ends: the round limit bounds the loop whatever the model says.
EpisodeEnds == <>(pc = "ended")

Contract ==
    INSTANCE EpisodeContract WITH
        ended <- pc = "ended",
        rounds <- Len(measured),
        PlateauFloor <- 2 * Window + Patience - 1

\* The episode keeps the contract that the collect run relies on.
KeepsContract == Contract!Spec
=============================================================================
