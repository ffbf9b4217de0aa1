--------------------------- MODULE PushEpisodeProofs ---------------------------
(***************************************************************************)
(* Theorems of PushEpisode for every round cap, patience, segment length,  *)
(* simulator limit and length of a script.                                 *)
(***************************************************************************)
EXTENDS PushValidate, TLAPS

-----------------------------------------------------------------------------
(* The inductive invariants.                                               *)

Before == {"check", "reset", "refused"}

\* Where the counters stand relative to the loop.
Aligned ==
    /\ pc \in Before => round = 0 /\ rounds = <<>>
    /\ pc \in {"prompt", "segment", "judge"} => Len(rounds) = round
    /\ pc \in {"segment", "judge"} => round < MaxRounds
    /\ pc \notin {"finish", "ended"} => still < PlateauRounds

TypeInv == TypeOK /\ Aligned

\* The recorded part of the episode lies in scene 1, and the detector has the
\* count with which the present segment began.
OneScene ==
    /\ pc \in Before => scene = 0 /\ ~autoReset
    /\ pc \notin {"check", "refused"} => EnoughBudget(steps, limit)
    /\ pc \in {"prompt", "segment"} => scene = 1 /\ lastCount = envSteps
    /\ pc = "judge" =>
        /\ segment.from = 1 /\ segment.to = scene
        /\ scene # 1 => envSteps < lastCount
    /\ pc \in {"finish", "ended"} => autoReset \/ scene = 1
    /\ OneSceneOnly

SceneInv == TypeInv /\ OneScene

\* Without a script the simulator's count is that of the rounds, and there is
\* room for the rest of them.
Budgeted ==
    ~Scripted =>
        /\ scene = (IF pc \in Before THEN 0 ELSE 1)
        /\ ~autoReset
        /\ pc \in {"prompt", "segment"} => envSteps = 1 + round * steps
        /\ pc = "judge" => envSteps = 1 + (round + 1) * steps /\ lastCount <= envSteps

BudgetInv == SceneInv /\ Budgeted

-----------------------------------------------------------------------------
(* Types.                                                                  *)

LEMMA RoundLimitType == TypeOK => MaxRounds \in Nat
  BY PushAssumption DEF PushAssumption, TypeOK, MaxRounds

LEMMA InitTypeInv == Init => TypeInv
<1> SUFFICES ASSUME Init PROVE TypeInv
  OBVIOUS
<1> USE PushAssumption DEF PushAssumption, Init
<1>1. MaxRounds \in Nat
  BY DEF MaxRounds
<1>2. segment \in Rounds
  BY DEF Rounds
<1>3. /\ feedback \in [of : Nat, from : Nat, to : Nat, metric : Metrics]
      /\ recap \in [from : Nat, to : Nat] /\ rounds \in Seq(Rounds)
  BY DEF Metrics
<1>4. armed \in 0..(MaxRounds + 1) /\ still \in 0..PlateauRounds
  BY <1>1
<1>5. TypeOK
  <2>1. round \in 0..MaxRounds
    BY <1>1
  <2>2. pc = "check" /\ outcome \in Outcomes
    BY DEF Outcomes
  <2>3. envSteps \in Nat /\ scene \in Nat /\ lastCount \in Nat /\ final \in Nat
    OBVIOUS
  <2> QED  BY <1>2, <1>3, <1>4, <2>1, <2>2, <2>3 DEF TypeOK
<1>6. Aligned
  BY DEF Aligned, Before
<1> QED  BY <1>5, <1>6 DEF TypeInv

\* The settings of an episode do not change.
LEMMA SettingsKept ==
    [Next]_pushVars => UNCHANGED settings /\ MaxRounds' = MaxRounds
                                          /\ (Scripted' <=> Scripted)
<1> SUFFICES ASSUME [Next]_pushVars
             PROVE  UNCHANGED settings
  BY DEF settings, MaxRounds, Scripted
<1> USE DEF settings
<1>1. CASE CheckEpisodeBudget \/ Reset \/ GetTarget \/ ParseFails
  BY <1>1 DEF CheckEpisodeBudget, Reset, GetTarget, ParseFails
<1>2. CASE RoundsExhausted \/ ExecuteSegment \/ EndOnAutoReset
  BY <1>2 DEF RoundsExhausted, ExecuteSegment, EndOnAutoReset
<1>3. CASE JudgeRound \/ WriteEpisode
  BY <1>3 DEF JudgeRound, WriteEpisode
<1>4. CASE UNCHANGED pushVars
  BY <1>4 DEF pushVars
<1> QED  BY <1>1, <1>2, <1>3, <1>4 DEF Next

\* The report of a round keeps its type.
LEMMA FeedbackType ==
    ASSUME TypeInv, GiveFeedback, pc = "prompt"
    PROVE  feedback' \in [of : Nat, from : Nat, to : Nat, metric : Metrics]
<1> USE DEF TypeInv, TypeOK, Metrics
<1>1. CASE round = 0
  BY <1>1 DEF GiveFeedback
<1>2. CASE round # 0
  <2>1. round \in Nat /\ rounds[round] \in Rounds
    BY <1>2, RoundLimitType DEF Aligned
  <2>2. rounds[round].from \in Nat
    BY <2>1 DEF Rounds
  <2> QED  BY <1>2, <2>1, <2>2 DEF GiveFeedback
<1> QED  BY <1>1, <1>2

\* The steps that neither execute nor judge a segment.
LEMMA LoopStepsTypeInv ==
    ASSUME TypeInv,
           CheckEpisodeBudget \/ Reset \/ GetTarget \/ ParseFails
               \/ RoundsExhausted \/ EndOnAutoReset
    PROVE  TypeInv'
<1>0. MaxRounds \in Nat /\ MaxRounds' = MaxRounds
  BY SettingsKept, RoundLimitType DEF Next, TypeInv
<1> USE DEF TypeInv, TypeOK, Aligned, Before, settings
<1>1. CASE CheckEpisodeBudget
  BY <1>0, <1>1 DEF CheckEpisodeBudget
<1>2. CASE Reset
  BY <1>0, <1>2 DEF Reset
<1>3. CASE GetTarget
  <2>1. feedback' \in [of : Nat, from : Nat, to : Nat, metric : Metrics]
    BY <1>3, FeedbackType DEF GetTarget
  <2> QED  BY <1>0, <1>3, <2>1 DEF GetTarget
<1>4. CASE ParseFails
  <2>1. feedback' \in [of : Nat, from : Nat, to : Nat, metric : Metrics]
    BY <1>4, FeedbackType DEF ParseFails
  <2> QED  BY <1>0, <1>4, <2>1 DEF ParseFails, Outcomes
<1>5. CASE RoundsExhausted
  BY <1>0, <1>5 DEF RoundsExhausted
<1>6. CASE EndOnAutoReset
  BY <1>0, <1>6 DEF EndOnAutoReset
<1> QED  BY <1>1, <1>2, <1>3, <1>4, <1>5, <1>6

\* The simulator's counters stay numbers.
LEMMA StepEnvType ==
    ASSUME TypeOK, StepEnv(steps)
    PROVE  envSteps' \in Nat /\ scene' \in Nat
<1> USE PushAssumption DEF PushAssumption, TypeOK
<1>1. steps \in Nat /\ limit \in Nat /\ envSteps \in Nat /\ scene \in Nat
  OBVIOUS
<1>2. CASE envSteps + steps >= limit
  BY <1>1, <1>2 DEF StepEnv
<1>3. CASE ~(envSteps + steps >= limit)
  BY <1>1, <1>3 DEF StepEnv
<1> QED  BY <1>2, <1>3

LEMMA ExecuteTypeInv == TypeInv /\ ExecuteSegment => TypeInv'
<1> SUFFICES ASSUME TypeInv, ExecuteSegment PROVE TypeInv'
  OBVIOUS
<1>0. MaxRounds \in Nat /\ MaxRounds' = MaxRounds
  BY SettingsKept, RoundLimitType DEF Next, TypeInv
<1>1. envSteps' \in Nat /\ scene' \in Nat /\ scene \in Nat
  BY StepEnvType DEF ExecuteSegment, TypeInv, TypeOK
<1>2. segment' \in Rounds
  BY <1>1 DEF ExecuteSegment, Rounds
<1> QED
  BY <1>0, <1>1, <1>2 DEF ExecuteSegment, TypeInv, TypeOK, Aligned, Before, settings

\* What judging a round does to the loop, whichever way it ends.
LEMMA JudgeRoundEffect ==
    ASSUME TypeInv, JudgeRound
    PROVE  /\ pc = "judge" /\ pc' \in {"finish", "prompt"}
           /\ outcome' \in Outcomes
           /\ pc' = "prompt" => round' = round + 1 /\ still' < PlateauRounds
           /\ pc' = "finish" => round' = round
           /\ still' \in 0..PlateauRounds
           /\ armed' \in 0..(MaxRounds + 1)
           /\ rounds' = Append(rounds, segment)
           /\ rounds' \in Seq(Rounds) /\ Len(rounds') = Len(rounds) + 1
<1> USE DEF TypeInv, TypeOK
<1>0. MaxRounds \in Nat /\ round \in Nat /\ PlateauRounds \in Nat \ {0}
  BY RoundLimitType, PushAssumption DEF PushAssumption
<1>1. pc = "judge" /\ still \in Nat /\ still < PlateauRounds /\ round < MaxRounds
  BY <1>0 DEF JudgeRound, Aligned
<1>2. rounds' = Append(rounds, segment) /\ rounds' \in Seq(Rounds)
      /\ Len(rounds') = Len(rounds) + 1
  BY DEF JudgeRound
<1>3. armed' \in 0..(MaxRounds + 1)
  BY <1>0, <1>1 DEF JudgeRound, Arm
<1>4. still' \in 0..PlateauRounds
  <2>1. CASE UNCHANGED still
    BY <1>0, <1>1, <2>1
  <2>2. CASE Stagnate
    BY <1>0, <1>1, <2>2 DEF Stagnate
  <2> QED  BY <2>1, <2>2 DEF JudgeRound
<1>5. \/ pc' = "finish" /\ round' = round /\ outcome' \in Outcomes
      \/ pc' = "prompt" /\ round' = round + 1 /\ still' < PlateauRounds
         /\ outcome' \in Outcomes
  BY DEF JudgeRound, Finish, Outcomes
<1> QED  BY <1>1, <1>2, <1>3, <1>4, <1>5

LEMMA JudgeTypeInv == TypeInv /\ JudgeRound => TypeInv'
<1> SUFFICES ASSUME TypeInv, JudgeRound PROVE TypeInv'
  OBVIOUS
<1>0. MaxRounds \in Nat /\ MaxRounds' = MaxRounds /\ UNCHANGED settings
  BY SettingsKept, RoundLimitType DEF Next, TypeInv
<1>1. /\ lastCount' \in Nat
      /\ UNCHANGED <<envSteps, scene, stop, segment, feedback, autoReset, final,
                     endImage, recap>>
  BY DEF JudgeRound, TypeInv, TypeOK
<1>2. round < MaxRounds /\ round \in Nat /\ Len(rounds) = round
  BY <1>0, JudgeRoundEffect DEF TypeInv, TypeOK, Aligned
<1>3. TypeOK'
  BY <1>0, <1>1, <1>2, JudgeRoundEffect DEF TypeInv, TypeOK, settings
<1>4. Aligned'
  BY <1>0, <1>2, JudgeRoundEffect DEF Aligned, Before
<1> QED  BY <1>3, <1>4 DEF TypeInv

LEMMA WriteTypeInv == TypeInv /\ WriteEpisode => TypeInv'
<1> SUFFICES ASSUME TypeInv, WriteEpisode PROVE TypeInv'
  OBVIOUS
<1>0. MaxRounds \in Nat /\ MaxRounds' = MaxRounds /\ UNCHANGED settings
  BY SettingsKept, RoundLimitType DEF Next, TypeInv
<1> USE DEF TypeInv, TypeOK
<1>1. outcome' \in Outcomes /\ final' \in Nat
  BY DEF WriteEpisode, Outcomes
<1>2. recap' \in [from : Nat, to : Nat]
  <2>1. CASE UNCHANGED recap
    BY <2>1
  <2>2. CASE rounds # <<>> /\ recap' = [from |-> rounds[1].from, to |-> scene]
    <3>1. rounds[1] \in Rounds
      BY <2>2
    <3> QED  BY <2>2, <3>1 DEF Rounds
  <2> QED  BY <2>1, <2>2 DEF WriteEpisode
<1> QED
  BY <1>0, <1>1, <1>2 DEF WriteEpisode, Aligned, Before, settings

LEMMA StepTypeInv == TypeInv /\ [Next]_pushVars => TypeInv'
<1>1. TypeInv /\ UNCHANGED pushVars => TypeInv'
  BY DEF pushVars, TypeInv, TypeOK, Aligned, MaxRounds, Scripted
<1> QED
  BY <1>1, LoopStepsTypeInv, ExecuteTypeInv, JudgeTypeInv, WriteTypeInv DEF Next

\* The push episode's state has its types, whatever the script and the limit.
THEOREM TypeCorrect == Spec => []TypeOK
<1>1. TypeInv => TypeOK
  BY DEF TypeInv
<1> QED  BY <1>1, InitTypeInv, StepTypeInv, PTL DEF Spec

-----------------------------------------------------------------------------
(* One scene.                                                              *)

\* The limits that the budget check lets pass leave room for the rounds of the
\* cap, the warm-up step and the last step.
LEMMA BudgetSuffices ==
    ASSUME NEW k \in Nat \ {0}, NEW l \in Nat, EnoughBudget(k, l)
    PROVE  /\ RoundCap * k \in Nat
           /\ 1 + RoundCap * k < l
           /\ k < l
<1>1. RoundCap \in Nat /\ RoundCap > 1
  BY PushAssumption DEF PushAssumption
<1>2. RoundCap * k \in Nat
  BY <1>1
<1>3. RoundCap * k >= 2 * k
  <2>1. PICK d \in Nat : RoundCap = 2 + d
    <3>1. RoundCap - 2 \in Nat /\ RoundCap = 2 + (RoundCap - 2)
      BY <1>1
    <3> QED  BY <3>1
  <2>2. RoundCap * k = 2 * k + d * k /\ d * k \in Nat
    BY <2>1
  <2> QED  BY <2>2
<1> DEFINE need == RoundCap * k
<1>4. 2 * l > 3 * need
  BY DEF EnoughBudget
<1>5. need \in Nat /\ need >= 2 * k
  BY <1>2, <1>3
<1> HIDE DEF need
<1>6. 1 + need < l /\ k < l
  BY <1>4, <1>5
<1> QED  BY <1>2, <1>6 DEF need

LEMMA SettingsType ==
    TypeOK => steps \in Nat \ {0} /\ limit \in Nat
  BY PushAssumption DEF PushAssumption, TypeOK

\* A reset inside a segment of at most the limit's steps lowers the count.
LEMMA ExecuteOneScene == SceneInv /\ ExecuteSegment => OneScene'
<1> SUFFICES ASSUME SceneInv, ExecuteSegment PROVE OneScene'
  OBVIOUS
<1>1. /\ steps \in Nat \ {0} /\ limit \in Nat /\ steps < limit
      /\ envSteps \in Nat /\ scene = 1 /\ lastCount = envSteps
  BY SettingsType, BudgetSuffices
     DEF SceneInv, OneScene, TypeInv, TypeOK, ExecuteSegment
<1>2. StepEnv(steps) /\ pc' = "judge" /\ segment'.from = scene
      /\ segment'.to = scene' /\ UNCHANGED <<steps, limit, lastCount, rounds,
                                             feedback, final, recap>>
  BY DEF ExecuteSegment, settings
<1>3. scene' # 1 => envSteps' < lastCount
  BY <1>1, <1>2 DEF StepEnv
<1>4. EnoughBudget(steps, limit)
  BY DEF SceneInv, OneScene, ExecuteSegment
<1>5. OneSceneOnly'
  BY <1>2 DEF SceneInv, OneScene, OneSceneOnly
<1> QED  BY <1>1, <1>2, <1>3, <1>4, <1>5 DEF OneScene, Before, EnoughBudget

\* A segment that the detector lets pass began and ended in scene 1.
LEMMA JudgeOneScene == SceneInv /\ JudgeRound => OneScene'
<1> SUFFICES ASSUME SceneInv, JudgeRound PROVE OneScene'
  OBVIOUS
<1>1. /\ pc = "judge" /\ envSteps >= lastCount /\ lastCount' = envSteps
      /\ UNCHANGED <<steps, limit, envSteps, scene, feedback, autoReset, final,
                     endImage, recap>>
  BY DEF JudgeRound, settings
<1>2. envSteps \in Nat /\ lastCount \in Nat
  BY DEF SceneInv, TypeInv, TypeOK
<1>3. scene = 1 /\ segment.from = 1 /\ segment.to = 1
  BY <1>1, <1>2 DEF SceneInv, OneScene
<1>4. /\ pc' \in {"finish", "prompt"} /\ rounds' = Append(rounds, segment)
      /\ rounds \in Seq(Rounds) /\ segment \in Rounds
  BY JudgeRoundEffect DEF SceneInv, TypeInv, TypeOK
<1>5. OneSceneOnly'
  <2>1. ASSUME NEW i \in DOMAIN rounds'
        PROVE  rounds'[i].from = 1 /\ rounds'[i].to = 1
    <3>1. CASE i \in DOMAIN rounds
      <4>1. rounds'[i] = rounds[i]
        BY <1>4, <3>1
      <4> QED  BY <3>1, <4>1 DEF SceneInv, OneScene, OneSceneOnly
    <3>2. CASE i \notin DOMAIN rounds
      <4>1. rounds'[i] = segment
        BY <1>4, <2>1, <3>2
      <4> QED  BY <1>3, <4>1
    <3> QED  BY <3>1, <3>2
  <2> QED  BY <1>1, <2>1 DEF SceneInv, OneScene, OneSceneOnly
<1>6. EnoughBudget(steps, limit)
  BY <1>1 DEF SceneInv, OneScene
<1> QED
  BY <1>1, <1>3, <1>4, <1>5, <1>6 DEF OneScene, Before, EnoughBudget

\* The report of a round compares two states of scene 1.
LEMMA FeedbackOneScene ==
    ASSUME SceneInv, GiveFeedback, pc = "prompt"
    PROVE  feedback'.from = feedback'.to
<1>1. CASE round = 0
  BY <1>1 DEF GiveFeedback, SceneInv, OneScene, OneSceneOnly
<1>2. CASE round # 0
  <2>1. round \in DOMAIN rounds /\ scene = 1
    BY <1>2, RoundLimitType
       DEF SceneInv, OneScene, TypeInv, TypeOK, Aligned
  <2>2. rounds[round].from = 1
    BY <2>1 DEF SceneInv, OneScene, OneSceneOnly
  <2> QED  BY <1>2, <2>1, <2>2 DEF GiveFeedback
<1> QED  BY <1>1, <1>2

LEMMA StepSceneInv == SceneInv /\ [Next]_pushVars => SceneInv'
<1> SUFFICES ASSUME SceneInv, [Next]_pushVars PROVE OneScene'
  BY StepTypeInv DEF SceneInv
<1> USE DEF SceneInv, OneScene, OneSceneOnly, Before, EnoughBudget, settings
<1>1. CASE CheckEpisodeBudget
  BY <1>1 DEF CheckEpisodeBudget
<1>2. CASE Reset
  BY <1>2 DEF Reset
<1>3. CASE GetTarget
  BY <1>3, FeedbackOneScene DEF GetTarget
<1>4. CASE ParseFails
  BY <1>4, FeedbackOneScene DEF ParseFails
<1>5. CASE RoundsExhausted
  BY <1>5 DEF RoundsExhausted
<1>6. CASE ExecuteSegment
  BY <1>6, ExecuteOneScene
<1>7. CASE EndOnAutoReset
  BY <1>7 DEF EndOnAutoReset
<1>8. CASE JudgeRound
  BY <1>8, JudgeOneScene
<1>9. CASE WriteEpisode
  <2>1. /\ pc = "finish" /\ pc' = "ended" /\ final' \in {0, 1}
        /\ UNCHANGED <<settings, scene, rounds, feedback, autoReset>>
    BY <1>9 DEF WriteEpisode
  <2>2. recap'.from = recap'.to
    <3>1. CASE UNCHANGED recap
      BY <3>1
    <3>2. CASE /\ ~autoReset /\ rounds # <<>>
               /\ recap' = [from |-> rounds[1].from, to |-> scene]
      <4>1. 1 \in DOMAIN rounds
        BY <3>2 DEF TypeInv, TypeOK
      <4> QED  BY <2>1, <3>2, <4>1
    <3> QED  BY <1>9, <3>1, <3>2 DEF WriteEpisode
  <2> QED  BY <2>1, <2>2
<1>10. CASE UNCHANGED pushVars
  BY <1>10 DEF pushVars
<1> QED
  BY <1>1, <1>2, <1>3, <1>4, <1>5, <1>6, <1>7, <1>8, <1>9, <1>10 DEF Next

LEMMA InitSceneInv == Init => SceneInv
<1> SUFFICES ASSUME Init PROVE OneScene
  BY InitTypeInv DEF SceneInv
<1> QED  BY DEF Init, OneScene, OneSceneOnly, Before

\* Nothing that is kept of a push episode comes from a scene that an automatic
\* reset put in place of the episode's own, however long the script.
THEOREM OneSceneCorrect == Spec => []OneSceneOnly
<1>1. SceneInv => OneSceneOnly
  BY DEF SceneInv, OneScene
<1> QED  BY <1>1, InitSceneInv, StepSceneInv, PTL DEF Spec

-----------------------------------------------------------------------------
(* The budget check.                                                       *)

\* Round r of the cap ends before the limit.
LEMMA RoundFits ==
    ASSUME BudgetInv, ~Scripted, pc \in {"segment", "judge"}
    PROVE  /\ round * steps \in Nat
           /\ (round + 1) * steps = round * steps + steps
           /\ 1 + (round + 1) * steps < limit
<1>1. /\ steps \in Nat \ {0} /\ limit \in Nat /\ EnoughBudget(steps, limit)
      /\ round \in Nat /\ round < RoundCap /\ RoundCap \in Nat
  BY SettingsType, RoundLimitType, PushAssumption
     DEF PushAssumption, BudgetInv, SceneInv, OneScene, TypeInv, TypeOK, Aligned,
         MaxRounds
<1>2. 1 + RoundCap * steps < limit /\ RoundCap * steps \in Nat
  BY <1>1, BudgetSuffices
<1>3. PICK d \in Nat : RoundCap = (round + 1) + d
  <2>1. RoundCap - (round + 1) \in Nat
        /\ RoundCap = (round + 1) + (RoundCap - (round + 1))
    BY <1>1
  <2> QED  BY <2>1
<1>4. /\ RoundCap * steps = (round + 1) * steps + d * steps
      /\ d * steps \in Nat /\ (round + 1) * steps \in Nat /\ round * steps \in Nat
      /\ (round + 1) * steps = round * steps + steps
  BY <1>1, <1>3
<1> QED  BY <1>1, <1>2, <1>4

LEMMA StepBudgeted == BudgetInv /\ [Next]_pushVars => BudgetInv'
<1> SUFFICES ASSUME BudgetInv, [Next]_pushVars, ~Scripted PROVE Budgeted'
  BY StepSceneInv, SettingsKept DEF BudgetInv, Budgeted
<1>0. UNCHANGED steps /\ UNCHANGED limit /\ ~Scripted'
  BY SettingsKept DEF settings
<1>1. /\ scene = (IF pc \in Before THEN 0 ELSE 1) /\ ~autoReset
      /\ pc \in {"prompt", "segment"} => envSteps = 1 + round * steps
      /\ pc = "judge" =>
             envSteps = 1 + (round + 1) * steps /\ lastCount <= envSteps
  BY DEF BudgetInv, Budgeted
<1> USE <1>0, <1>1 DEF Budgeted, Before
<1>2. CASE CheckEpisodeBudget
  BY <1>2 DEF CheckEpisodeBudget
<1>3. CASE Reset
  <2>1. round = 0 /\ 0 * steps = 0
    BY <1>3, SettingsType
       DEF Reset, BudgetInv, SceneInv, TypeInv, Aligned
  <2> QED  BY <1>3, <2>1 DEF Reset
<1>4. CASE GetTarget
  BY <1>4 DEF GetTarget
<1>5. CASE ParseFails
  BY <1>5 DEF ParseFails
<1>6. CASE RoundsExhausted
  BY <1>6 DEF RoundsExhausted
<1>7. CASE ExecuteSegment
  <2>1. pc = "segment" /\ pc' = "judge" /\ StepEnv(steps)
        /\ UNCHANGED <<round, lastCount, autoReset>>
    BY <1>7 DEF ExecuteSegment
  <2>2. /\ steps \in Nat \ {0} /\ limit \in Nat /\ envSteps \in Nat
        /\ lastCount = envSteps
    BY <2>1, SettingsType DEF BudgetInv, SceneInv, OneScene, TypeInv, TypeOK
  <2>3. /\ round * steps \in Nat
        /\ (round + 1) * steps = round * steps + steps
        /\ 1 + (round + 1) * steps < limit
    BY <2>1, RoundFits
  <2>4. envSteps + steps = 1 + (round + 1) * steps
    BY <2>1, <2>2, <2>3
  <2>5. ~(envSteps + steps >= limit)
    BY <2>2, <2>3, <2>4
  <2>6. scene' = scene /\ envSteps' = envSteps + steps
    BY <2>1, <2>5 DEF StepEnv
  <2> QED  BY <2>1, <2>2, <2>4, <2>6
<1>8. CASE EndOnAutoReset
  <2>1. lastCount <= envSteps /\ envSteps < lastCount
        /\ envSteps \in Nat /\ lastCount \in Nat
    BY <1>8 DEF EndOnAutoReset, BudgetInv, SceneInv, TypeInv, TypeOK
  <2> QED  BY <2>1
<1>9. CASE JudgeRound
  <2>1. pc = "judge" /\ UNCHANGED <<scene, envSteps, autoReset>>
    BY <1>9 DEF JudgeRound
  <2>2. \/ pc' = "finish" /\ round' = round
        \/ pc' = "prompt" /\ round' = round + 1
    BY <1>9, JudgeRoundEffect DEF BudgetInv, SceneInv
  <2> QED  BY <2>1, <2>2
<1>10. CASE WriteEpisode
  BY <1>10 DEF WriteEpisode
<1>11. CASE UNCHANGED pushVars
  BY <1>11 DEF pushVars
<1> QED
  BY <1>2, <1>3, <1>4, <1>5, <1>6, <1>7, <1>8, <1>9, <1>10, <1>11 DEF Next

\* The budget check with its margin keeps an episode that the model drives away
\* from the simulator's limit, for every cap of at least two rounds.
THEOREM BudgetCheckSuffices == Spec => []ModelDrivenNeverResets
<1>1. Init => BudgetInv
  BY InitSceneInv DEF Init, BudgetInv, Budgeted, Before
<1>2. BudgetInv => ModelDrivenNeverResets
  BY DEF BudgetInv, Budgeted, ModelDrivenNeverResets
<1> QED  BY <1>1, <1>2, StepBudgeted, PTL DEF Spec

-----------------------------------------------------------------------------
(* The verdict.                                                            *)

LastReached == rounds # <<>> /\ rounds[Len(rounds)].reached

\* Until the loop is left there is no verdict and no success to miss; from then
\* on the outcome and the last recorded round agree.
Verdict ==
    /\ pc \notin {"finish", "ended"} => outcome = "timeout" /\ ~LastReached
    /\ pc \in {"finish", "ended"} => (outcome = "success" <=> LastReached)

VerdictInv == TypeInv /\ Verdict

LEMMA JudgeVerdict == VerdictInv /\ JudgeRound => Verdict'
<1> SUFFICES ASSUME VerdictInv, JudgeRound PROVE Verdict'
  OBVIOUS
<1>1. /\ pc = "judge" /\ outcome = "timeout" /\ pc' \in {"finish", "prompt"}
      /\ rounds' = Append(rounds, segment)
      /\ rounds \in Seq(Rounds) /\ segment \in Rounds
  BY JudgeRoundEffect DEF VerdictInv, Verdict, TypeInv, TypeOK
<1>2. rounds' # <<>> /\ rounds'[Len(rounds')] = segment
  BY <1>1
<1>3. LastReached' <=> segment.reached
  BY <1>2 DEF LastReached
<1>4. CASE segment.reached
  <2>1. pc' = "finish" /\ outcome' = "success"
    BY <1>4 DEF JudgeRound, Finish
  <2> QED  BY <1>3, <1>4, <2>1 DEF Verdict
<1>5. CASE ~segment.reached
  <2>1. \/ pc' = "finish" /\ outcome' # "success"
        \/ pc' = "prompt" /\ outcome' = outcome
    BY <1>5 DEF JudgeRound, Finish
  <2> QED  BY <1>1, <1>3, <1>5, <2>1 DEF Verdict
<1> QED  BY <1>4, <1>5

LEMMA StepVerdict == VerdictInv /\ [Next]_pushVars => VerdictInv'
<1> SUFFICES ASSUME VerdictInv, [Next]_pushVars PROVE Verdict'
  BY StepTypeInv DEF VerdictInv
<1> USE DEF VerdictInv, Verdict, LastReached
<1>1. CASE CheckEpisodeBudget \/ Reset \/ GetTarget
  BY <1>1 DEF CheckEpisodeBudget, Reset, GetTarget
<1>2. CASE ParseFails
  BY <1>2 DEF ParseFails
<1>3. CASE RoundsExhausted \/ EndOnAutoReset
  BY <1>3 DEF RoundsExhausted, EndOnAutoReset
<1>4. CASE ExecuteSegment
  BY <1>4 DEF ExecuteSegment
<1>5. CASE JudgeRound
  BY <1>5, JudgeVerdict
<1>6. CASE WriteEpisode
  <2>1. /\ pc = "finish" /\ pc' = "ended" /\ UNCHANGED rounds
        /\ outcome' = "success" <=> outcome = "success"
    BY <1>6 DEF WriteEpisode
  <2> QED  BY <2>1
<1>7. CASE UNCHANGED pushVars
  BY <1>7 DEF pushVars
<1> QED  BY <1>1, <1>2, <1>3, <1>4, <1>5, <1>6, <1>7 DEF Next

\* An ended push episode is a success exactly when its last recorded round left
\* the cube on the goal.
THEOREM SuccessCorrect == Spec => []SuccessIsMeasured
<1>1. Init => VerdictInv
  BY InitTypeInv DEF Init, VerdictInv, Verdict, LastReached
<1>2. VerdictInv => SuccessIsMeasured
  BY DEF VerdictInv, Verdict, LastReached, SuccessIsMeasured
<1> QED  BY <1>1, <1>2, StepVerdict, PTL DEF Spec
-----------------------------------------------------------------------------
(* The plateau.                                                            *)

\* The n-th round is the last of PlateauRounds rounds that left the cube where
\* it was, the first of which touched it or came after one that did.
StuckAt(n) ==
    /\ n >= PlateauRounds
    /\ \A k \in 0..(PlateauRounds - 1) : ~rounds[n - k].moved
    /\ pin12 => \E i \in 1..(n - PlateauRounds + 1) : Touched(rounds[i])

\* The arming round is the first that touched the cube.
ArmedAtContact ==
    /\ armed = 0 => pin12 /\ \A i \in 1..Len(rounds) : ~Touched(rounds[i])
    /\ armed # 0 /\ ~pin12 => armed = 1
    /\ armed # 0 /\ pin12 =>
         /\ armed <= Len(rounds) /\ Touched(rounds[armed])
         /\ \A i \in 1..(armed - 1) : ~Touched(rounds[i])

\* The counter is the length of the streak of unmoved rounds that ends with the
\* last one and does not reach back beyond the arming round.
CountsStreak ==
    /\ armed = 0 => still = 0
    /\ \A i \in 1..Len(rounds) : i > Len(rounds) - still => ~rounds[i].moved
    /\ armed # 0 => still <= Len(rounds) - armed + 1
    /\ armed # 0 /\ still < Len(rounds) - armed + 1 => rounds[Len(rounds) - still].moved

Counter == ArmedAtContact /\ CountsStreak

Left == {"finish", "ended"}

Plateau ==
    /\ pc \notin Left => Counter /\ \A n \in 1..Len(rounds) : ~StuckAt(n)
    /\ outcome = "push_plateau" => pc \in Left /\ StuckAt(Len(rounds))

PlateauInv == VerdictInv /\ Plateau

\* A new round arms the counter when it is the first contact.
LEMMA JudgeArms ==
    ASSUME TypeInv, ArmedAtContact, JudgeRound
    PROVE  ArmedAtContact'
<1>1. /\ rounds \in Seq(Rounds) /\ segment \in Rounds /\ armed \in Nat
      /\ round = Len(rounds) /\ rounds' = Append(rounds, segment) /\ Arm
      /\ pin12' = pin12
  BY RoundLimitType DEF TypeInv, TypeOK, Aligned, JudgeRound, settings
<1>2. /\ Len(rounds') = Len(rounds) + 1 /\ rounds'[Len(rounds) + 1] = segment
      /\ \A i \in 1..Len(rounds) : rounds'[i] = rounds[i]
  BY <1>1
<1>3. Len(rounds) \in Nat
  BY <1>1
<1>4. CASE armed # 0
  <2>1. armed' = armed
    BY <1>1, <1>4 DEF Arm
  <2> QED  BY <1>1, <1>2, <1>3, <1>4, <2>1 DEF ArmedAtContact, Touched
<1>5. CASE armed = 0 /\ Touched(segment)
  <2>1. armed' = Len(rounds) + 1 /\ pin12
    BY <1>1, <1>5 DEF Arm, ArmedAtContact
  <2> QED  BY <1>1, <1>2, <1>3, <1>5, <2>1 DEF ArmedAtContact, Touched
<1>6. CASE armed = 0 /\ ~Touched(segment)
  <2>1. armed' = 0 /\ pin12
    BY <1>1, <1>6 DEF Arm, ArmedAtContact
  <2> QED  BY <1>1, <1>2, <1>3, <1>6, <2>1 DEF ArmedAtContact, Touched
<1> QED  BY <1>4, <1>5, <1>6

\* A new round that does not end in success lengthens the streak or breaks it.
LEMMA JudgeCounts ==
    ASSUME TypeInv, Counter, JudgeRound, ~segment.reached
    PROVE  CountsStreak'
<1>1. /\ rounds \in Seq(Rounds) /\ segment \in Rounds /\ armed \in Nat
      /\ still \in Nat /\ round = Len(rounds) /\ Len(rounds) \in Nat
      /\ rounds' = Append(rounds, segment) /\ Arm /\ Stagnate
  BY RoundLimitType, PushAssumption
     DEF PushAssumption, TypeInv, TypeOK, Aligned, JudgeRound
<1>2. /\ Len(rounds') = Len(rounds) + 1 /\ rounds'[Len(rounds) + 1] = segment
      /\ \A i \in 1..Len(rounds) : rounds'[i] = rounds[i]
  BY <1>1
<1>3. armed' # 0 => armed' >= 1 /\ armed' <= Len(rounds) + 1
  <2>1. armed # 0 => armed <= Len(rounds) + 1
    BY <1>1 DEF Counter, ArmedAtContact
  <2> QED  BY <1>1, <2>1 DEF Arm
<1>4. armed' \in Nat
  BY <1>1 DEF Arm
<1>5. CASE armed' = 0
  <2>1. armed = 0 /\ still = 0 /\ still' = 0
    BY <1>1, <1>5 DEF Arm, Stagnate, Counter, CountsStreak
  <2> QED  BY <1>1, <1>2, <1>5, <2>1 DEF CountsStreak
<1>6. CASE armed' # 0 /\ segment.moved
  <2>1. still' = 0
    BY <1>1, <1>6 DEF Stagnate
  <2> QED  BY <1>1, <1>2, <1>3, <1>4, <1>6, <2>1 DEF CountsStreak
<1>7. CASE armed' # 0 /\ ~segment.moved
  <2>1. still' = still + 1
    BY <1>1, <1>7 DEF Stagnate
  <2>2. ASSUME NEW i \in 1..Len(rounds'), i > Len(rounds') - still'
        PROVE  ~rounds'[i].moved
    <3>1. CASE i = Len(rounds) + 1
      BY <1>2, <1>7, <3>1
    <3>2. CASE i # Len(rounds) + 1
      <4>1. i \in 1..Len(rounds) /\ i > Len(rounds) - still
        BY <1>1, <1>2, <2>1, <2>2, <3>2
      <4> QED  BY <1>2, <4>1 DEF Counter, CountsStreak
    <3> QED  BY <3>1, <3>2
  <2>3. CASE armed # 0
    <3>1. armed' = armed
      BY <1>1, <2>3 DEF Arm
    <3>2. still' <= Len(rounds') - armed' + 1
      BY <1>1, <1>2, <2>1, <2>3, <3>1 DEF Counter, CountsStreak
    <3>3. ASSUME still' < Len(rounds') - armed' + 1
          PROVE  rounds'[Len(rounds') - still'].moved
      <4>1. still < Len(rounds) - armed + 1 /\ rounds[Len(rounds) - still].moved
        BY <1>1, <1>2, <2>1, <2>3, <3>1, <3>3 DEF Counter, CountsStreak
      <4>2. Len(rounds') - still' = Len(rounds) - still
            /\ Len(rounds) - still \in 1..Len(rounds)
        BY <1>1, <1>2, <2>1, <2>3, <4>1
      <4> QED  BY <1>2, <4>1, <4>2
    <3> QED  BY <1>7, <2>2, <3>2, <3>3 DEF CountsStreak
  <2>4. CASE armed = 0
    <3>1. still = 0 /\ armed' = Len(rounds) + 1
      BY <1>1, <1>7, <2>4 DEF Arm, Counter, CountsStreak
    <3> QED  BY <1>1, <1>2, <1>7, <2>1, <2>2, <3>1 DEF CountsStreak
  <2> QED  BY <2>3, <2>4
<1> QED  BY <1>5, <1>6, <1>7

\* The counter reaches the patience exactly when the last round is a stuck one.
LEMMA CounterMeansStuck ==
    TypeOK /\ Counter /\ rounds # <<>> =>
        /\ still >= PlateauRounds => StuckAt(Len(rounds))
        /\ still < PlateauRounds => ~StuckAt(Len(rounds))
<1> SUFFICES ASSUME TypeOK, Counter, rounds # <<>>
             PROVE  /\ still >= PlateauRounds => StuckAt(Len(rounds))
                    /\ still < PlateauRounds => ~StuckAt(Len(rounds))
  OBVIOUS
<1> DEFINE n == Len(rounds)
<1>1. /\ n \in Nat /\ still \in Nat /\ armed \in Nat
      /\ PlateauRounds \in Nat \ {0} /\ pin12 \in BOOLEAN
  BY RoundLimitType, PushAssumption DEF PushAssumption, TypeOK
<1>2. ASSUME still >= PlateauRounds
      PROVE  StuckAt(n)
  <2>1. armed # 0 /\ armed <= n - PlateauRounds + 1
    BY <1>1, <1>2 DEF Counter, CountsStreak
  <2>2. \A k \in 0..(PlateauRounds - 1) : ~rounds[n - k].moved
    BY <1>1, <1>2, <2>1 DEF Counter, CountsStreak
  <2>3. pin12 => Touched(rounds[armed]) /\ armed \in 1..(n - PlateauRounds + 1)
    BY <1>1, <2>1 DEF Counter, ArmedAtContact
  <2> QED  BY <1>1, <2>1, <2>2, <2>3 DEF StuckAt
<1>3. ASSUME still < PlateauRounds, StuckAt(n)
      PROVE  FALSE
  <2>1. armed # 0 /\ armed <= n - PlateauRounds + 1
    <3>1. CASE pin12
      <4>1. PICK i \in 1..(n - PlateauRounds + 1) : Touched(rounds[i])
        BY <1>3, <3>1 DEF StuckAt
      <4>2. i \in 1..n
        BY <1>1, <4>1
      <4>3. armed # 0
        BY <4>1, <4>2 DEF Counter, ArmedAtContact
      <4>4. ~(i < armed)
        BY <1>1, <3>1, <4>1, <4>2, <4>3 DEF Counter, ArmedAtContact
      <4> QED  BY <1>1, <4>2, <4>3, <4>4
    <3>2. CASE ~pin12
      BY <1>1, <1>3, <3>2 DEF Counter, ArmedAtContact, StuckAt
    <3> QED  BY <3>1, <3>2
  <2>2. rounds[n - still].moved
    BY <1>1, <1>3, <2>1 DEF Counter, CountsStreak
  <2>3. still \in 0..(PlateauRounds - 1)
    BY <1>1, <1>3
  <2> QED  BY <1>3, <2>2, <2>3 DEF StuckAt
<1> QED  BY <1>2, <1>3

\* What the earlier rounds show does not change.
LEMMA StuckKept ==
    ASSUME TypeOK, NEW n \in 1..Len(rounds), pin12' = pin12,
           NEW s \in Rounds, rounds' = Append(rounds, s)
    PROVE  StuckAt(n)' <=> StuckAt(n)
<1>1. /\ PlateauRounds \in Nat \ {0} /\ rounds \in Seq(Rounds) /\ n \in Nat
      /\ Len(rounds) \in Nat
  BY PushAssumption DEF PushAssumption, TypeOK
<1>2. \A i \in 1..Len(rounds) : rounds'[i] = rounds[i]
  BY <1>1
<1>3. ASSUME n >= PlateauRounds
      PROVE  /\ \A k \in 0..(PlateauRounds - 1) : rounds'[n - k] = rounds[n - k]
             /\ \A i \in 1..(n - PlateauRounds + 1) : rounds'[i] = rounds[i]
  BY <1>1, <1>2, <1>3
<1> QED  BY <1>1, <1>3 DEF StuckAt, Touched

LEMMA JudgePlateau == PlateauInv /\ JudgeRound => Plateau'
<1> SUFFICES ASSUME PlateauInv, JudgeRound PROVE Plateau'
  OBVIOUS
<1>1. /\ TypeInv /\ TypeInv' /\ Counter /\ pc = "judge"
      /\ \A n \in 1..Len(rounds) : ~StuckAt(n)
      /\ outcome # "push_plateau"
  BY JudgeTypeInv DEF PlateauInv, Plateau, Left, VerdictInv, JudgeRound
<1>2. /\ pc' \in {"finish", "prompt"} /\ rounds' = Append(rounds, segment)
      /\ rounds \in Seq(Rounds) /\ segment \in Rounds /\ pin12' = pin12
      /\ Len(rounds') = Len(rounds) + 1 /\ Len(rounds) \in Nat
      /\ still' \in Nat /\ PlateauRounds \in Nat
  BY <1>1, JudgeRoundEffect, PushAssumption
     DEF PushAssumption, TypeInv, TypeOK, JudgeRound, settings
<1>3. CASE segment.reached
  BY <1>3 DEF JudgeRound, Finish, Plateau, Left
<1>4. CASE ~segment.reached
  <2>1. Counter'
    BY <1>1, <1>4, JudgeArms, JudgeCounts DEF Counter
  <2>2. (/\ still >= PlateauRounds => StuckAt(Len(rounds))
         /\ still < PlateauRounds => ~StuckAt(Len(rounds)))'
    <3>1. TypeOK' /\ (rounds # <<>>)'
      BY <1>1, <1>2 DEF TypeInv
    <3> QED  BY <2>1, <3>1, CounterMeansStuck, PTL
  <2>3. CASE still' >= PlateauRounds
    <3>1. pc' = "finish"
      BY <1>2, <1>4, <2>3 DEF JudgeRound, Finish
    <3> QED  BY <2>2, <2>3, <3>1 DEF Plateau, Left
  <2>4. CASE still' < PlateauRounds
    <3>1. outcome' # "push_plateau"
      BY <1>1, <1>2, <1>4, <2>4 DEF JudgeRound, Finish
    <3>2. ASSUME NEW n \in 1..Len(rounds')
          PROVE  ~StuckAt(n)'
      <4>1. CASE n = Len(rounds')
        BY <2>2, <2>4, <4>1 DEF StuckAt
      <4>2. CASE n # Len(rounds')
        <5>1. n \in 1..Len(rounds)
          BY <1>2, <4>2
        <5>2. StuckAt(n)' <=> StuckAt(n)
          BY <1>1, <1>2, <5>1, StuckKept DEF TypeInv
        <5> QED  BY <1>1, <5>1, <5>2
      <4> QED  BY <4>1, <4>2
    <3> QED  BY <2>1, <3>1, <3>2 DEF Plateau
  <2> QED  BY <1>2, <2>3, <2>4
<1> QED  BY <1>3, <1>4

\* A step that records nothing and leaves the counters alone.
LEMMA QuietPlateau ==
    ASSUME PlateauInv, TypeInv', UNCHANGED <<pin12, rounds, armed, still>>,
           pc' \notin Left => pc \notin Left,
           outcome' = "push_plateau" => outcome = "push_plateau",
           pc \in Left => pc' \in Left
    PROVE  Plateau'
<1>1. \A n \in 1..Len(rounds) : StuckAt(n)' <=> StuckAt(n)
  BY DEF StuckAt, Touched
<1>2. StuckAt(Len(rounds))' <=> StuckAt(Len(rounds))
  BY DEF StuckAt, Touched
<1>3. Counter' <=> Counter
  BY DEF Counter, ArmedAtContact, CountsStreak, Touched
<1> QED  BY <1>1, <1>2, <1>3 DEF PlateauInv, Plateau

LEMMA StepPlateau == PlateauInv /\ [Next]_pushVars => PlateauInv'
<1> SUFFICES ASSUME PlateauInv, [Next]_pushVars PROVE Plateau'
  BY StepVerdict DEF PlateauInv
<1>0. TypeInv'
  BY StepTypeInv DEF PlateauInv, VerdictInv
<1> USE DEF Left, settings
<1>1. CASE CheckEpisodeBudget \/ Reset \/ GetTarget
  BY <1>0, <1>1, QuietPlateau DEF CheckEpisodeBudget, Reset, GetTarget
<1>2. CASE ParseFails \/ RoundsExhausted \/ EndOnAutoReset
  BY <1>0, <1>2, QuietPlateau DEF ParseFails, RoundsExhausted, EndOnAutoReset
<1>3. CASE ExecuteSegment
  BY <1>0, <1>3, QuietPlateau DEF ExecuteSegment
<1>4. CASE JudgeRound
  BY <1>4, JudgePlateau
<1>5. CASE WriteEpisode
  BY <1>0, <1>5, QuietPlateau DEF WriteEpisode
<1>6. CASE UNCHANGED pushVars
  BY <1>0, <1>6, QuietPlateau DEF pushVars
<1> QED  BY <1>1, <1>2, <1>3, <1>4, <1>5, <1>6 DEF Next

LEMMA InitPlateauInv == Init => PlateauInv
<1> SUFFICES ASSUME Init PROVE Verdict /\ Plateau
  BY InitTypeInv DEF PlateauInv, VerdictInv
<1>1. rounds = <<>> /\ Len(rounds) = 0 /\ still = 0 /\ outcome = "timeout"
      /\ pc = "check" /\ armed = (IF pin12 THEN 0 ELSE 1) /\ pin12 \in BOOLEAN
  BY DEF Init
<1>2. Counter
  BY <1>1 DEF Counter, ArmedAtContact, CountsStreak
<1> QED  BY <1>1, <1>2 DEF Verdict, LastReached, Plateau, Left

\* A plateau is called in the first round in which the patience has run out
\* since the first contact, and in no other.
THEOREM PlateauCorrect == Spec => []PlateauNeedsContact
<1>1. PlateauInv => PlateauNeedsContact
  BY DEF PlateauInv, Plateau, Left, StuckAt, PlateauNeedsContact
<1> QED  BY <1>1, InitPlateauInv, StepPlateau, PTL DEF Spec
-----------------------------------------------------------------------------
(* The contract.                                                           *)

\* When the loop has been left, the recorded rounds justify the outcome.
Counted ==
    /\ pc \notin Left => ~autoReset
    /\ pc = "finish" /\ ~autoReset =>
         \/ outcome = "timeout" /\ Len(rounds) = MaxRounds
         \/ outcome = "vlm_parse_fail" /\ Len(rounds) < MaxRounds
         \/ outcome \notin {"timeout", "vlm_parse_fail"} /\ Len(rounds) > 0

ContractInv == VerdictInv /\ Counted

LEMMA StepContractInv == ContractInv /\ [Next]_pushVars => ContractInv'
<1> SUFFICES ASSUME ContractInv, [Next]_pushVars PROVE Counted'
  BY StepVerdict DEF ContractInv
<1>0. /\ MaxRounds' = MaxRounds /\ MaxRounds \in Nat
      /\ pc = "prompt" => Len(rounds) = round /\ outcome = "timeout"
  BY SettingsKept, RoundLimitType
     DEF ContractInv, VerdictInv, Verdict, TypeInv, Aligned
<1> USE DEF ContractInv, Counted, Left
<1>1. CASE CheckEpisodeBudget \/ Reset \/ GetTarget \/ ExecuteSegment
  BY <1>0, <1>1 DEF CheckEpisodeBudget, Reset, GetTarget, ExecuteSegment
<1>2. CASE ParseFails
  <2>1. round < MaxRounds /\ pc = "prompt" /\ outcome' = "vlm_parse_fail"
        /\ UNCHANGED <<rounds, autoReset>> /\ pc' = "finish"
    BY <1>2 DEF ParseFails
  <2> QED  BY <1>0, <2>1
<1>3. CASE RoundsExhausted
  BY <1>0, <1>3 DEF RoundsExhausted
<1>4. CASE EndOnAutoReset
  BY <1>4 DEF EndOnAutoReset
<1>5. CASE JudgeRound
  <2>1. /\ pc = "judge" /\ pc' \in {"finish", "prompt"}
        /\ Len(rounds') = Len(rounds) + 1 /\ Len(rounds) \in Nat
    BY <1>5, JudgeRoundEffect DEF VerdictInv, TypeInv, TypeOK
  <2>2. /\ autoReset' = autoReset
        /\ pc' = "finish" =>
               outcome' \in {"success", "push_plateau", "vlm_stop_premature"}
    BY <1>5 DEF JudgeRound, Finish
  <2> QED  BY <2>1, <2>2
<1>6. CASE WriteEpisode
  BY <1>6 DEF WriteEpisode
<1>7. CASE UNCHANGED pushVars
  BY <1>0, <1>7 DEF pushVars
<1> QED  BY <1>1, <1>2, <1>3, <1>4, <1>5, <1>6, <1>7 DEF Next

LEMMA InitContractInv == Init => ContractInv
<1> SUFFICES ASSUME Init PROVE Verdict /\ Counted
  BY InitTypeInv DEF ContractInv, VerdictInv
<1> QED  BY DEF Init, Verdict, LastReached, Counted, Left

LEMMA LimitIsKnown == TypeOK => MaxRounds \in RoundLimits
  BY DEF TypeOK, MaxRounds, RoundLimits

LEMMA InitRefines ==
    Init => \E n \in RoundLimits : n = MaxRounds /\ Contract(n)!Init
<1> SUFFICES ASSUME Init
             PROVE  \E n \in RoundLimits : n = MaxRounds /\ Contract(n)!Init
  OBVIOUS
<1>1. PICK n \in RoundLimits : n = MaxRounds
  BY InitTypeInv, LimitIsKnown DEF TypeInv
<1>2. Executed = 0
  BY DEF Init, Executed
<1>3. Contract(n)!Init
  BY <1>2 DEF Init, Contract!Init
<1> QED  BY <1>1, <1>3

\* The recorded rounds and outcome, when the episode ends.
LEMMA WriteEnds ==
    ASSUME ContractInv, WriteEpisode, NEW n \in RoundLimits, n = MaxRounds
    PROVE  Contract(n)!End
<1>1. /\ pc = "finish" /\ pc' = "ended" /\ UNCHANGED <<rounds, autoReset>>
      /\ Len(rounds) \in Nat /\ n \in Nat
      /\ outcome \in Outcomes
  BY RoundLimitType DEF ContractInv, VerdictInv, TypeInv, TypeOK, WriteEpisode
<1> DEFINE o == IF autoReset THEN "env_auto_reset" ELSE outcome'
           result == IF autoReset' THEN "env_auto_reset" ELSE outcome'
<1>2. Executed' = Executed
  BY <1>1 DEF Executed
<1>3. o \in Outcomes \cup {"env_auto_reset"} /\ result = o
  BY <1>1 DEF WriteEpisode, Outcomes
<1>4. Contract(n)!Justified(o, Executed)
  <2>1. CASE autoReset
    BY <1>1, <2>1 DEF Executed, Contract!Justified
  <2>2. CASE ~autoReset
    <3>1. Executed = Len(rounds)
      BY <1>1, <2>2 DEF Executed
    <3>2. o = (IF Scripted /\ outcome = "timeout" THEN "scripted_end" ELSE outcome)
      BY <2>2 DEF WriteEpisode
    <3>3. Scripted => n > 0
      BY DEF MaxRounds, Scripted
    <3> QED
      BY <1>1, <2>2, <3>1, <3>2, <3>3
         DEF ContractInv, Counted, Contract!Justified
  <2> QED  BY <2>1, <2>2
<1> QED
  BY <1>1, <1>2, <1>3, <1>4 DEF Contract!End

LEMMA StepRefines ==
    ContractInv /\ [Next]_pushVars =>
        [\E n \in RoundLimits :
            /\ n = MaxRounds
            /\ [Contract(n)!Next]_(Contract(n)!contractVars)]_pushVars
<1> SUFFICES ASSUME ContractInv, [Next]_pushVars
             PROVE  \E n \in RoundLimits :
                        /\ n = MaxRounds
                        /\ [Contract(n)!Next]_(Contract(n)!contractVars)
  OBVIOUS
<1>1. PICK n \in RoundLimits : n = MaxRounds
  BY LimitIsKnown DEF ContractInv, VerdictInv, TypeInv
<1> SUFFICES [Contract(n)!Next]_(Contract(n)!contractVars)
  BY <1>1
<1>2. /\ Len(rounds) \in Nat /\ MaxRounds \in Nat
      /\ pc = "segment" => Len(rounds) < MaxRounds
  BY RoundLimitType DEF ContractInv, VerdictInv, TypeInv, TypeOK, Aligned
<1> USE DEF Contract!Next, Contract!contractVars
<1>3. CASE CheckEpisodeBudget \/ Reset \/ GetTarget
  BY <1>3 DEF CheckEpisodeBudget, Reset, GetTarget, Executed
<1>4. CASE ParseFails \/ RoundsExhausted
  BY <1>4 DEF ParseFails, RoundsExhausted, Executed
<1>5. CASE EndOnAutoReset
  BY <1>5 DEF EndOnAutoReset, Executed
<1>6. CASE ExecuteSegment
  <2>1. /\ pc = "segment" /\ pc' = "judge" /\ UNCHANGED <<rounds, autoReset>>
        /\ ~autoReset
    BY <1>6 DEF ExecuteSegment, ContractInv, Counted, Left
  <2>2. Executed = Len(rounds) /\ Executed' = Len(rounds) + 1
    BY <1>2, <2>1 DEF Executed
  <2> QED  BY <1>1, <1>2, <2>1, <2>2 DEF Contract!ExecuteRound
<1>7. CASE JudgeRound
  <2>1. /\ pc = "judge" /\ pc' \in {"finish", "prompt"} /\ ~autoReset /\ ~autoReset'
        /\ Len(rounds') = Len(rounds) + 1
    BY <1>7, JudgeRoundEffect
       DEF JudgeRound, ContractInv, VerdictInv, Counted, Left
  <2>2. Executed' = Executed
    BY <1>2, <2>1 DEF Executed
  <2> QED  BY <2>1, <2>2
<1>8. CASE WriteEpisode
  BY <1>1, <1>8, WriteEnds
<1>9. CASE UNCHANGED pushVars
  BY <1>9 DEF pushVars, Executed
<1> QED
  BY <1>3, <1>4, <1>5, <1>6, <1>7, <1>8, <1>9 DEF Next

\* The push episode implements EpisodeContract, the contract that the reach
\* episode keeps, for every cap, script and simulator limit.
THEOREM ImplementsContract == Spec => KeepsContract
<1> QED
  BY InitContractInv, StepContractInv, InitRefines, StepRefines, PTL
     DEF Spec, KeepsContract

-----------------------------------------------------------------------------
(* What the validator reads back.                                          *)

\* The report that the round under way was given, before that round is recorded.
Reports(to) ==
    /\ feedback.of = round
    /\ round > 0 => /\ feedback.from = rounds[round].from
                    /\ feedback.to = to
                    /\ feedback.metric = MetricOf(round + 1)

\* A report is matched from the prompt that makes it to the record of its round;
\* a timeout that no reset cut short has all its rounds.
RecordInv ==
    /\ pc \in Before => feedback.of = 0
    /\ pc = "prompt" => (round = 0 /\ feedback.of = 0) \/ round = Reported
    /\ pc = "segment" => Reports(scene)
    /\ pc = "judge" => Reports(segment.from)
    /\ Reported = Len(rounds) => ReportPasses(Reported)
    /\ pc = "finish" /\ outcome = "timeout" => autoReset \/ Len(rounds) = MaxRounds
    /\ pc = "ended" /\ outcome = "timeout" => autoReset \/ Len(rounds) = RoundCap

ReadInv == TypeInv /\ RecordInv

LEMMA InitRecordInv == Init => RecordInv
  BY DEF Init, RecordInv, Before, Reported

\* Only a recorded round changes what the rounds say of a report.
LEMMA SameRecord ==
    ASSUME UNCHANGED <<rounds, switched, feedback>>
    PROVE  /\ Reported' = Reported
           /\ \A r : ReportPasses(r)' <=> ReportPasses(r)
           /\ \A r : MetricOf(r)' = MetricOf(r)
  BY DEF Reported, ReportPasses, MetricOf

\* The report that a prompt makes.
LEMMA PromptReports ==
    ASSUME ReadInv, pc = "prompt", GiveFeedback, UNCHANGED <<rounds, round, switched>>
    PROVE  /\ feedback'.of = round
           /\ round > 0 => /\ feedback'.from = rounds[round].from
                           /\ feedback'.to = scene
                           /\ feedback'.metric = MetricOf(round + 1)
<1>1. round \in Nat /\ Len(rounds) = round
  BY RoundLimitType DEF ReadInv, TypeInv, TypeOK, Aligned
<1>2. CASE round = 0
  <2>1. feedback' = feedback /\ feedback.of = 0
    <3>1. feedback.of \in Nat
      BY DEF ReadInv, TypeInv, TypeOK
    <3> QED
      BY <1>2, <3>1 DEF GiveFeedback, ReadInv, RecordInv, Reported
  <2> QED
    BY <1>2, <2>1
<1>3. CASE round # 0
  <2>1. feedback' = [of |-> round, from |-> rounds[round].from, to |-> scene,
              metric |-> IF switched /\ ~ContactBefore(round) THEN "tip_cube"
                                                               ELSE "cube_goal"]
    BY <1>3 DEF GiveFeedback
  <2>2. ~ContactBefore(round) <=>
            \A i \in 1..((round + 1) - 2) : ~(rounds[i].contact \/ rounds[i].moved)
    <3>1. (round + 1) - 2 = round - 1
      BY <1>1
    <3> QED
      BY <3>1 DEF ContactBefore, Touched
  <2>3. feedback'.metric = MetricOf(round + 1)
    BY <2>1, <2>2 DEF MetricOf
  <2> QED
    BY <2>1, <2>3
<1> QED
  BY <1>2, <1>3

LEMMA PromptRecordInv ==
    ASSUME ReadInv, GetTarget \/ ParseFails
    PROVE  RecordInv'
<1>1. /\ pc = "prompt" /\ GiveFeedback /\ round \in Nat /\ Len(rounds) = round
      /\ UNCHANGED <<rounds, round, switched, scene>>
  BY RoundLimitType DEF GetTarget, ParseFails, settings, ReadInv, TypeInv, TypeOK, Aligned
<1>2. feedback'.of = round
  BY <1>1, PromptReports
<1>3. Reported' # Len(rounds')
  BY <1>1, <1>2 DEF Reported
<1>4. CASE GetTarget
  <2>1. Reports(scene)'
    <3>1. MetricOf(round + 1)' = MetricOf(round + 1)
      BY <1>1, <1>4 DEF GetTarget, settings, MetricOf
    <3> QED
      BY <1>1, <3>1, PromptReports DEF Reports
  <2> QED
    BY <1>3, <1>4, <2>1 DEF GetTarget, RecordInv, Before
<1>5. CASE ParseFails
  BY <1>3, <1>5 DEF ParseFails, RecordInv, Before
<1> QED
  BY <1>4, <1>5

\* A recorded round is the one that its report was made for.
LEMMA JudgeRecordInv == ReadInv /\ JudgeRound => RecordInv'
<1> SUFFICES ASSUME ReadInv, JudgeRound PROVE RecordInv'
  OBVIOUS
<1>1. /\ pc = "judge" /\ pc' \in {"finish", "prompt"} /\ rounds' = Append(rounds, segment)
      /\ rounds \in Seq(Rounds) /\ segment \in Rounds /\ Len(rounds) = round /\ round \in Nat
      /\ pc' = "prompt" => round' = round + 1
      /\ UNCHANGED <<feedback, switched>>
  BY JudgeRoundEffect, RoundLimitType
     DEF JudgeRound, settings, ReadInv, TypeInv, TypeOK, Aligned
<1>2. /\ Len(rounds') = round + 1 /\ rounds'[round + 1] = segment
      /\ \A i \in 1..round : rounds'[i] = rounds[i]
  BY <1>1
<1>3. Reports(segment.from)
  BY <1>1 DEF ReadInv, RecordInv
<1>4. Reported' = round + 1
  BY <1>1, <1>3 DEF Reported, Reports
<1>6. (Reported = Len(rounds) => ReportPasses(Reported))'
  <2>1. PICK r : r = round + 1
    OBVIOUS
  <2>2. ReportPasses(r)'
    <3>1. CASE round = 0
      BY <1>1, <1>3, <2>1, <3>1 DEF ReportPasses, Reports
    <3>2. CASE round > 0
      <4>1. /\ feedback'.of = r - 1 /\ r # 1
            /\ feedback'.from = rounds'[r - 1].from
            /\ feedback'.to = rounds'[r].from
        BY <1>1, <1>2, <1>3, <2>1, <3>2 DEF Reports
      <4>2. feedback'.metric = MetricOf(r)
        BY <1>1, <1>3, <2>1, <3>2 DEF Reports
      <4>3. \A i \in 1..(r - 2) : rounds'[i] = rounds[i]
        BY <1>1, <1>2, <2>1
      <4>4. MetricOf(r)' = MetricOf(r)
        BY <1>1, <4>3 DEF MetricOf
      <4> QED
        BY <4>1, <4>2, <4>4 DEF ReportPasses
    <3> QED
      BY <1>1, <3>1, <3>2
  <2> QED
    BY <1>4, <2>1, <2>2 DEF ReportPasses, Reported
<1>7. pc' = "finish" => outcome' # "timeout"
  BY <1>1 DEF JudgeRound, Finish
<1> QED
  BY <1>1, <1>4, <1>6, <1>7 DEF RecordInv, Before

LEMMA OtherRecordInv ==
    ASSUME ReadInv, CheckEpisodeBudget \/ Reset \/ RoundsExhausted \/ ExecuteSegment
                        \/ EndOnAutoReset \/ WriteEpisode
    PROVE  RecordInv'
<1>0. UNCHANGED <<rounds, switched, feedback, round>> /\ MaxRounds' = MaxRounds
  BY SettingsKept DEF Next, CheckEpisodeBudget, Reset, RoundsExhausted, ExecuteSegment,
         EndOnAutoReset, WriteEpisode, settings
<1>1. (Reported = Len(rounds) => ReportPasses(Reported))'
  <2>1. PICK r : r = Reported
    OBVIOUS
  <2>2. Reported' = r /\ (ReportPasses(r)' <=> ReportPasses(r))
    BY <1>0, <2>1, SameRecord
  <2> QED
    BY <1>0, <2>1, <2>2 DEF ReadInv, RecordInv, ReportPasses, Reported
<1>2. CASE CheckEpisodeBudget
  BY <1>0, <1>1, <1>2 DEF CheckEpisodeBudget, ReadInv, RecordInv, Before
<1>3. CASE Reset
  BY <1>0, <1>1, <1>3 DEF Reset, ReadInv, RecordInv, TypeInv, Aligned, Before
<1>4. CASE RoundsExhausted
  <2>1. Len(rounds) = MaxRounds
    BY <1>4 DEF RoundsExhausted, ReadInv, TypeInv, Aligned
  <2> QED
    BY <1>0, <1>1, <1>4, <2>1 DEF RoundsExhausted, RecordInv, Before
<1>5. CASE ExecuteSegment
  <2>1. pc = "segment" /\ pc' = "judge" /\ segment'.from = scene
    BY <1>5 DEF ExecuteSegment
  <2>2. Reports(scene)
    BY <2>1 DEF ReadInv, RecordInv
  <2>3. MetricOf(round + 1)' = MetricOf(round + 1)
    BY <1>0 DEF MetricOf
  <2>4. Reports(segment.from)'
    BY <1>0, <2>1, <2>2, <2>3 DEF Reports
  <2> QED
    BY <1>1, <2>1, <2>4 DEF RecordInv, Before
<1>6. CASE EndOnAutoReset
  BY <1>0, <1>1, <1>6 DEF EndOnAutoReset, RecordInv, Before
<1>7. CASE WriteEpisode
  <2>1. /\ pc = "finish" /\ pc' = "ended" /\ UNCHANGED autoReset
        /\ outcome' = "timeout" => outcome = "timeout" /\ ~Scripted
    BY <1>7 DEF WriteEpisode
  <2>2. outcome' = "timeout" => autoReset' \/ Len(rounds') = RoundCap
    BY <1>0, <2>1 DEF ReadInv, RecordInv, MaxRounds
  <2> QED
    BY <1>1, <2>1, <2>2 DEF RecordInv, Before
<1> QED
  BY <1>2, <1>3, <1>4, <1>5, <1>6, <1>7

LEMMA StepReadInv == ReadInv /\ [Next]_pushVars => ReadInv'
<1>1. ReadInv /\ Next => RecordInv'
  BY PromptRecordInv, JudgeRecordInv, OtherRecordInv DEF Next
<1>2. ReadInv /\ UNCHANGED pushVars => RecordInv'
  <2> SUFFICES ASSUME ReadInv, UNCHANGED pushVars PROVE RecordInv'
    OBVIOUS
  <2> QED
    BY DEF pushVars, ReadInv, RecordInv, Reported, ReportPasses, Reports, MetricOf,
           MaxRounds, Scripted
<1> QED
  BY <1>1, <1>2, StepTypeInv DEF ReadInv

\* With every round on record or a reset in between, the checks of an ended episode
\* come down to the flag of the reset.
LEMMA RecordIsValid == ReadInv => ValidatorAgrees
<1> SUFFICES ASSUME ReadInv PROVE ValidatorAgrees
  OBVIOUS
<1>1. FlagsPass <=> ~autoReset
  <2>1. "env_auto_reset" \in Flags <=> autoReset
    BY DEF Flags
  <2>2. Flags \subseteq FlagWhitelist
    BY DEF Flags, FlagWhitelist
  <2> QED
    BY <2>1, <2>2 DEF FlagsPass
<1>2. pc = "ended" /\ ~autoReset => ~PrematureTimeout
  <2>1. RoundCap \in Nat
    BY PushAssumption DEF PushAssumption
  <2> QED
    BY <2>1 DEF PrematureTimeout, ReadInv, RecordInv
<1>3. Reported = Len(rounds) => ReportPasses(Reported)
  BY DEF ReadInv, RecordInv
<1>4. autoReset \in BOOLEAN
  BY DEF ReadInv, TypeInv, TypeOK
<1>5. pc = "ended" => (Valid <=> ~autoReset)
  BY <1>1, <1>2, <1>4 DEF Valid
<1> QED
  BY <1>3, <1>5 DEF ValidatorAgrees

\* The offline validator and the loop agree on every episode that can be recorded:
\* for every cap, patience, limit and script, each report that a round carries
\* matches the recorded rounds, and an ended episode is rejected exactly when the
\* simulator reset inside it (wp3a_push_validate.py against push_collect.py).
THEOREM ValidatorCorrect == Spec => []ValidatorAgrees
<1>1. Init => ReadInv
  BY InitTypeInv, InitRecordInv DEF ReadInv
<1> QED
  BY <1>1, StepReadInv, RecordIsValid, PTL DEF Spec
=============================================================================
