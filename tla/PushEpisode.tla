----------------------------- MODULE PushEpisode -----------------------------
(***************************************************************************)
(* One episode of the push instrument: the body of run_push_collect_loop   *)
(* (aiongenos/orchestrator/push_collect.py) from the budget check that     *)
(* opens the run to the recap that closes the episode.                     *)
(*                                                                         *)
(* A round is summed up by what its segment showed: the cube was seen to   *)
(* move (contact), it was displaced by the minimum (moved), it lies on the *)
(* goal (reached); and by the scenes in which it began and ended.  The     *)
(* push task has one termination, the time limit.                          *)
(***************************************************************************)
EXTENDS Integers, Sequences

CONSTANTS
    RoundCap,       \* PUSH_ROUND_CAP
    PlateauRounds,  \* PUSH_PLATEAU_ROUNDS
    SegmentSteps,   \* the values of steps_per_segment
    Limits,         \* the simulator's max_episode_length, in env steps
    ScriptLengths   \* len(scripted_targets); 0 when the model drives

ASSUME PushAssumption ==
    /\ RoundCap \in Nat /\ RoundCap > 1
    /\ PlateauRounds \in Nat \ {0}
    /\ SegmentSteps \subseteq Nat \ {0}
    /\ Limits \subseteq Nat
    /\ ScriptLengths \subseteq Nat

VARIABLES
    pc,         \* "check", "reset", "prompt", "segment", "judge", "finish",
                \* "ended" or "refused"
    steps,      \* steps_per_segment
    limit,      \* max_episode_length of the simulator
    script,     \* len(scripted_targets), 0 for none
    pin12,      \* the plateau counter arms at first contact (rung 1b and later)
    switched,   \* verdict_contact_switch
    recapping,  \* recap_buffer is given and not read-only
    envSteps,   \* the simulator's episode_length_buf
    scene,      \* which reset the present scene comes from
    lastCount,  \* last_step_count
    round,      \* round_idx
    stop,       \* parsed.stop of the round under way
    segment,    \* what the last executed segment showed
    rounds,     \* round_meta: the recorded rounds
    armed,      \* plateau_armed_round, 0 for None
    still,      \* plateau_count
    feedback,   \* the comparison that critic_feedback makes; of 0 for none
    autoReset,  \* auto_reset
    outcome,    \* EpisodeOutcome
    final,      \* the scene of the recorded end state, 0 for None
    endImage,   \* the scene on the end image that is kept, 0 for none
    recap       \* the scenes of a saved recap, none until then

pushVars == <<pc, steps, limit, script, pin12, switched, recapping, envSteps,
              scene, lastCount, round, stop, segment, rounds, armed, still,
              feedback, autoReset, outcome, final, endImage, recap>>

settings == <<steps, limit, script, pin12, switched, recapping>>

Outcomes == {"success", "push_plateau", "vlm_stop_premature", "vlm_parse_fail",
             "timeout", "scripted_end"}

Metrics == {"tip_cube", "cube_goal"}

\* A cube that was displaced was seen to move.
Rounds == {r \in [contact : BOOLEAN, moved : BOOLEAN, reached : BOOLEAN,
                  from : Nat, to : Nat] : r.moved => r.contact}

Scripted == script > 0

MaxRounds == IF Scripted THEN script ELSE RoundCap

\* _round_touched
Touched(r) == r.contact \/ r.moved

-----------------------------------------------------------------------------
Init ==
    /\ pc = "check"
    /\ steps \in SegmentSteps
    /\ limit \in Limits
    /\ script \in ScriptLengths
    /\ pin12 \in BOOLEAN
    /\ switched \in BOOLEAN
    /\ recapping \in BOOLEAN
    /\ envSteps = 0
    /\ scene = 0
    /\ lastCount = 0
    /\ round = 0
    /\ stop = FALSE
    /\ segment = [contact |-> FALSE, moved |-> FALSE, reached |-> FALSE,
                  from |-> 0, to |-> 0]
    /\ rounds = <<>>
    /\ armed = IF pin12 THEN 0 ELSE 1
    /\ still = 0
    /\ feedback = [of |-> 0, from |-> 0, to |-> 0, metric |-> "cube_goal"]
    /\ autoReset = FALSE
    /\ outcome = "timeout"
    /\ final = 0
    /\ endImage = 0
    /\ recap = [from |-> 0, to |-> 0]

\* Mutant of EnoughBudget: the limit is held against the bare steps of the rounds.
EnoughBudgetWithoutMargin(k, l) == l > RoundCap * k

\* The limit exceeds PUSH_ROUND_CAP * steps_per_segment * PUSH_EP_LEN_MARGIN, 1.5.
EnoughBudget(k, l) == 2 * l > 3 * (RoundCap * k)

\* _check_episode_budget raises before anything is recorded.
CheckEpisodeBudget ==
    /\ pc = "check"
    /\ pc' = IF EnoughBudget(steps, limit) THEN "reset" ELSE "refused"
    /\ UNCHANGED <<settings, envSteps, scene, lastCount, round, stop, segment,
                   rounds, armed, still, feedback, autoReset, outcome, final,
                   endImage, recap>>

\* env.reset(seed) with its warm-up step, and the first count of the detector.
Reset ==
    /\ pc = "reset"
    /\ scene' = 1
    /\ envSteps' = 1
    /\ lastCount' = envSteps'
    /\ pc' = "prompt"
    /\ UNCHANGED <<settings, round, stop, segment, rounds, armed, still,
                   feedback, autoReset, outcome, final, endImage, recap>>

\* Mutant of ContactBefore: the previous round itself counts.
ContactBeforeOrIn(n) == \E i \in 1..n : Touched(rounds[i])

\* any(round_touched[:round_idx - 1]): a round before the n-th touched the cube.
ContactBefore(n) == \E i \in 1..(n - 1) : Touched(rounds[i])

\* The report of round r-1 in round r.
GiveFeedback ==
    feedback' =
        IF round = 0
        THEN feedback
        ELSE [of |-> round, from |-> rounds[round].from, to |-> scene,
              metric |-> IF switched /\ ~ContactBefore(round) THEN "tip_cube"
                                                               ELSE "cube_goal"]

\* Mutant of GetTarget: range(max_rounds + 1).
GetTargetOnceMore ==
    /\ pc = "prompt"
    /\ round <= MaxRounds
    /\ GiveFeedback
    /\ stop' \in BOOLEAN
    /\ Scripted => ~stop'
    /\ pc' = "segment"
    /\ UNCHANGED <<settings, envSteps, scene, lastCount, round, segment, rounds,
                   armed, still, autoReset, outcome, final, endImage, recap>>

\* run_stage1_eef returns a target, or the script gives one.
GetTarget ==
    /\ pc = "prompt"
    /\ round < MaxRounds
    /\ GiveFeedback
    /\ stop' \in BOOLEAN
    /\ Scripted => ~stop'
    /\ pc' = "segment"
    /\ UNCHANGED <<settings, envSteps, scene, lastCount, round, segment, rounds,
                   armed, still, autoReset, outcome, final, endImage, recap>>

\* Mutant of ParseFails: the break leaves the initial TIMEOUT in place.
ParseFailsUnnamed ==
    /\ pc = "prompt"
    /\ round < MaxRounds
    /\ ~Scripted
    /\ GiveFeedback
    /\ pc' = "finish"
    /\ UNCHANGED <<settings, envSteps, scene, lastCount, round, stop, segment,
                   rounds, armed, still, autoReset, outcome, final, endImage,
                   recap>>

ParseFails ==
    /\ pc = "prompt"
    /\ round < MaxRounds
    /\ ~Scripted
    /\ GiveFeedback
    /\ outcome' = "vlm_parse_fail"
    /\ pc' = "finish"
    /\ UNCHANGED <<settings, envSteps, scene, lastCount, round, stop, segment,
                   rounds, armed, still, autoReset, final, endImage, recap>>

\* Mutant of RoundsExhausted: the limit is compared one round too late.
RoundsExhaustedLate ==
    /\ pc = "prompt"
    /\ round = MaxRounds + 1
    /\ pc' = "finish"
    /\ UNCHANGED <<settings, envSteps, scene, lastCount, round, stop, segment,
                   rounds, armed, still, feedback, autoReset, outcome, final,
                   endImage, recap>>

\* The for-loop runs out of rounds and leaves the initial outcome in place.
RoundsExhausted ==
    /\ pc = "prompt"
    /\ round = MaxRounds
    /\ pc' = "finish"
    /\ UNCHANGED <<settings, envSteps, scene, lastCount, round, stop, segment,
                   rounds, armed, still, feedback, autoReset, outcome, final,
                   endImage, recap>>

\* env.step k times: at the limit IsaacLab resets the environment inside the
\* step and counts from 0 again.
StepEnv(k) ==
    LET timedOut == envSteps + k >= limit
    IN  /\ envSteps' = IF timedOut THEN envSteps + k - limit ELSE envSteps + k
        /\ scene' = IF timedOut THEN scene + 1 ELSE scene

\* env.execute_push_segment takes all its steps, and the cube is looked at.
ExecuteSegment ==
    /\ pc = "segment"
    /\ StepEnv(steps)
    /\ \E contact, moved, reached \in BOOLEAN :
        /\ moved => contact
        /\ segment' = [contact |-> contact, moved |-> moved, reached |-> reached,
                       from |-> scene, to |-> scene']
    /\ pc' = "judge"
    /\ UNCHANGED <<settings, lastCount, round, stop, rounds, armed, still,
                   feedback, autoReset, outcome, final, endImage, recap>>

\* The count has dropped: the round is not recorded and the episode ends.
EndOnAutoReset ==
    /\ pc = "judge"
    /\ envSteps < lastCount
    /\ autoReset' = TRUE
    /\ pc' = "finish"
    /\ UNCHANGED <<settings, envSteps, scene, lastCount, round, stop, segment,
                   rounds, armed, still, feedback, outcome, final, endImage,
                   recap>>

-----------------------------------------------------------------------------
(* The decision ladder: success, plateau, STOP.                             *)

Finish(o) ==
    /\ outcome' = o
    /\ pc' = "finish"
    /\ UNCHANGED round

\* Pin-12: the round of the first contact arms the counter, and counts.
Arm == armed' = IF armed = 0 /\ Touched(segment) THEN round + 1 ELSE armed

\* Mutant of Stagnate: rounds before the arming round count too.
StagnateUnarmed == still' = IF segment.moved THEN 0 ELSE still + 1

Stagnate ==
    still' = CASE armed' = 0    -> still
               [] segment.moved -> 0
               [] OTHER         -> still + 1

\* Mutant of JudgeRound: the detector keeps comparing with the first count.
JudgeRoundFirstCount ==
    /\ pc = "judge"
    /\ envSteps >= lastCount
    /\ rounds' = Append(rounds, segment)
    /\ Arm
    /\ \/ segment.reached /\ Finish("success") /\ UNCHANGED still
       \/ /\ ~segment.reached
          /\ Stagnate
          /\ \/ still' >= PlateauRounds /\ Finish("push_plateau")
             \/ still' < PlateauRounds /\ stop /\ Finish("vlm_stop_premature")
             \/ /\ still' < PlateauRounds /\ ~stop
                /\ round' = round + 1
                /\ pc' = "prompt"
                /\ UNCHANGED outcome
    /\ UNCHANGED <<settings, envSteps, scene, lastCount, stop, segment,
                   feedback, autoReset, final, endImage, recap>>

\* Mutant of JudgeRound: STOP is taken at its word before the cube is looked at.
JudgeRoundStopFirst ==
    /\ pc = "judge"
    /\ envSteps >= lastCount
    /\ lastCount' = envSteps
    /\ rounds' = Append(rounds, segment)
    /\ Arm
    /\ \/ stop /\ Finish("vlm_stop_premature") /\ UNCHANGED still
       \/ ~stop /\ segment.reached /\ Finish("success") /\ UNCHANGED still
       \/ /\ ~stop /\ ~segment.reached
          /\ Stagnate
          /\ \/ still' >= PlateauRounds /\ Finish("push_plateau")
             \/ /\ still' < PlateauRounds
                /\ round' = round + 1
                /\ pc' = "prompt"
                /\ UNCHANGED outcome
    /\ UNCHANGED <<settings, envSteps, scene, stop, segment, feedback,
                   autoReset, final, endImage, recap>>

JudgeRound ==
    /\ pc = "judge"
    /\ envSteps >= lastCount
    /\ lastCount' = envSteps
    /\ rounds' = Append(rounds, segment)
    /\ Arm
    /\ \/ segment.reached /\ Finish("success") /\ UNCHANGED still
       \/ /\ ~segment.reached
          /\ Stagnate
          /\ \/ still' >= PlateauRounds /\ Finish("push_plateau")
             \/ still' < PlateauRounds /\ stop /\ Finish("vlm_stop_premature")
             \/ /\ still' < PlateauRounds /\ ~stop
                /\ round' = round + 1
                /\ pc' = "prompt"
                /\ UNCHANGED outcome
    /\ UNCHANGED <<settings, envSteps, scene, stop, segment, feedback,
                   autoReset, final, endImage, recap>>

\* The replay is written, and a recap when there is a recorded round to recap
\* and the end scene is the episode's own; the recap may still fail.
WriteEpisode ==
    /\ pc = "finish"
    /\ outcome' = IF Scripted /\ outcome = "timeout" THEN "scripted_end"
                                                     ELSE outcome
    /\ final' = IF autoReset THEN 0 ELSE scene
    /\ endImage' = scene
    /\ \/ /\ recapping /\ ~autoReset /\ ~Scripted /\ rounds # <<>>
          /\ recap' = [from |-> rounds[1].from, to |-> scene]
       \/ UNCHANGED recap
    /\ pc' = "ended"
    /\ UNCHANGED <<settings, envSteps, scene, lastCount, round, stop, segment,
                   rounds, armed, still, feedback, autoReset>>

Next ==
    \/ CheckEpisodeBudget
    \/ Reset
    \/ GetTarget
    \/ ParseFails
    \/ RoundsExhausted
    \/ ExecuteSegment
    \/ EndOnAutoReset
    \/ JudgeRound
    \/ WriteEpisode

Spec == Init /\ [][Next]_pushVars

\* One thread runs the loop: it takes every step it can.
FairSpec == Spec /\ WF_pushVars(Next)

-----------------------------------------------------------------------------
(* Properties.                                                             *)

TypeOK ==
    /\ pc \in {"check", "reset", "prompt", "segment", "judge", "finish", "ended",
               "refused"}
    /\ steps \in SegmentSteps /\ limit \in Limits /\ script \in ScriptLengths
    /\ pin12 \in BOOLEAN /\ switched \in BOOLEAN /\ recapping \in BOOLEAN
    /\ envSteps \in Nat /\ scene \in Nat /\ lastCount \in Nat
    /\ round \in 0..MaxRounds
    /\ stop \in BOOLEAN
    /\ segment \in Rounds
    /\ rounds \in Seq(Rounds)
    /\ armed \in 0..(MaxRounds + 1)
    /\ still \in 0..PlateauRounds
    /\ feedback \in [of : Nat, from : Nat, to : Nat, metric : Metrics]
    /\ autoReset \in BOOLEAN
    /\ outcome \in Outcomes
    /\ final \in Nat /\ endImage \in Nat
    /\ recap \in [from : Nat, to : Nat]

\* What is recorded of an episode comes from its own scene: every round, the
\* report of a round, the end poses and a saved recap.  A reset inside a segment
\* of a script that outlasts the limit leaves none of them (the end image is
\* another matter, see EndImageIsOwn).
OneSceneOnly ==
    /\ \A i \in DOMAIN rounds : rounds[i].from = 1 /\ rounds[i].to = 1
    /\ feedback.from = feedback.to
    /\ final \in {0, 1}
    /\ recap.from = recap.to

\* "After an auto-reset the end state is a fresh reset -> not recorded" (comment
\* at final_cube_pose_b): neither is the picture of it.
EndImageIsOwn == endImage \in {0, 1}

\* The budget check suffices: an episode that the model drives never meets the
\* simulator's limit, warm-up step and last step included.
ModelDrivenNeverResets == ~Scripted => scene \in {0, 1} /\ ~autoReset

\* A plateau is called exactly when the last PlateauRounds rounds left the cube
\* where it was and, from rung 1b on, the first of them or an earlier round had
\* touched it: no earlier, and never a round later.
PlateauNeedsContact ==
    LET Stuck(n) ==
            /\ n >= PlateauRounds
            /\ \A k \in 0..(PlateauRounds - 1) : ~rounds[n - k].moved
            /\ pin12 => \E i \in 1..(n - PlateauRounds + 1) : Touched(rounds[i])
    IN  /\ outcome = "push_plateau" => Stuck(Len(rounds))
        /\ pc = "prompt" => \A n \in 1..Len(rounds) : ~Stuck(n)

\* An ended episode is a success exactly when the last recorded round left the
\* cube on the goal, whether or not the model said STOP.
SuccessIsMeasured ==
    pc = "ended" =>
        (outcome = "success" <=> rounds # <<>> /\ rounds[Len(rounds)].reached)

\* Every run ends its episode or refuses to start it.
EpisodeEnds == <>(pc \in {"ended", "refused"})

Executed == Len(rounds) + (IF pc = "judge" \/ autoReset THEN 1 ELSE 0)

Contract(n) ==
    INSTANCE EpisodeContract WITH
        MaxRounds <- n,
        PlateauFloor <- n,
        Outcomes <- Outcomes \cup {"env_auto_reset"},
        ended <- pc = "ended",
        rounds <- Executed,
        outcome <- IF pc # "ended" THEN "timeout"
                   ELSE IF autoReset THEN "env_auto_reset" ELSE outcome

\* The push episode keeps the contract of the reach episode, with an ending of
\* its own where the simulator resets.
RoundLimits == {RoundCap} \cup ScriptLengths

KeepsContract ==
    /\ \E n \in RoundLimits : n = MaxRounds /\ Contract(n)!Init
    /\ [][\E n \in RoundLimits :
            /\ n = MaxRounds
            /\ [Contract(n)!Next]_(Contract(n)!contractVars)]_pushVars
=============================================================================
