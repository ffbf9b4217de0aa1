--------------------------- MODULE ReachEpisodeProofs ---------------------------
(***************************************************************************)
(* Theorems of ReachEpisode for every round limit, window, patience,       *)
(* threshold, set of distances and simulator limit.                        *)
(***************************************************************************)
EXTENDS ReachEpisode, TLAPS, WellFoundedInduction

-----------------------------------------------------------------------------
(* The inductive invariant: types, the position of the counters relative   *)
(* to the loop, and what the earlier rounds have ruled out.                 *)

\* A round under way lies below the limit, and nothing but its counters has
\* been executed or recorded.
Aligned ==
    /\ pc = "reset" => round = 0
    /\ Len(measured) <= MaxRounds
    /\ pc \in {"reset", "prompt", "execute"} => Len(measured) = round
    /\ pc = "judge" => Len(measured) = round + 1
    /\ pc \in {"execute", "judge"} => round < MaxRounds
    /\ pc \in {"reset", "prompt", "ended"} => interactions = Len(measured)
    /\ pc \in {"execute", "judge"} => interactions = round + 1
    /\ pc \in {"execute", "judge"} => lastStart.round = round + 1
    /\ pc = "prompt" /\ round > 0 => lastStart.round = round
    /\ pc \in {"execute", "judge"} /\ round > 0 => feedback.of = round

TypeInv == TypeOK /\ Aligned

\* While the round loop runs, no verdict has been reached.
Undecided ==
    /\ pc # "ended" => outcome = "timeout"
    /\ pc \in {"prompt", "execute"} /\ measured # <<>> =>
           ~Reached(arm, measured[Len(measured)])

\* An ended episode has the verdict of its last measurement.
Decided ==
    pc = "ended" =>
        (outcome = "success" <=>
            measured # <<>> /\ Reached(arm, measured[Len(measured)]))

VerdictInv == TypeInv /\ Undecided /\ Decided

\* The plateau counter counts rounds that have a full history behind them.
Counted ==
    pc # "ended" =>
        \/ noProgress = 0
        \/ noProgress <= Len(measured) - 2 * Window
                             + (IF pc = "judge" THEN 0 ELSE 1)

\* The first i measurements of an episode show stagnation.
StagnantAt(h, i) == Stagnant(SubSeq(h, 1, i))

\* How many measurements the plateau counter has seen.
Judged == IF pc = "judge" THEN Len(measured) - 1 ELSE Len(measured)

\* The counter is the length of the longest stretch of stagnant rounds that
\* ends with the last judged one, and is below the patience.
Streak ==
    /\ noProgress <= Judged
    /\ noProgress < Patience
    /\ \A k \in 0..(noProgress - 1) : StagnantAt(measured, Judged - k)
    /\ noProgress < Judged => ~StagnantAt(measured, Judged - noProgress)

PlateauInv ==
    /\ TypeInv
    /\ pc # "ended" => Streak /\ ~plateau
    /\ PlateauIsStagnation

\* Before the simulator's limit the episode's own scene is on, and the
\* simulator has counted no more than the steps commanded so far.
Locked ==
    /\ Len(scenes) = Len(measured)
    /\ /\ pc # "reset" /\ ~terminated
       /\ 1 + Len(scenes) * StepsPerRound < EpisodeLength
       =>
           scene = 1 /\ envSteps <= 1 + Len(scenes) * StepsPerRound
    /\ LockedBeforeBoundary

LockedInv == TypeInv /\ Locked

-----------------------------------------------------------------------------
\* What execute_command returns is a measurement and a number of steps.
LEMMA AttemptsType ==
    ASSUME NEW a \in Attempts
    PROVE  /\ a.outcome \in {"success", "collision", "timeout"}
           /\ a.steps \in 1..StepsPerRound
           /\ a.term \in BOOLEAN
           /\ a.last \in Measurements
  BY DEF Attempts

\* The simulator's counters stay numbers.
LEMMA StepEnvType ==
    ASSUME NEW k \in Nat, NEW term \in BOOLEAN, envSteps \in Nat, scene \in Nat,
           StepEnv(k, term)
    PROVE  envSteps' \in Nat /\ scene' \in Nat
<1> EpisodeLength \in Nat
  BY EpisodeAssumption DEF EpisodeAssumption
<1>1. CASE envSteps + k >= EpisodeLength
  BY <1>1 DEF StepEnv
<1>2. CASE ~(envSteps + k >= EpisodeLength)
  BY <1>2 DEF StepEnv
<1> QED  BY <1>1, <1>2

\* The plateau counter stays a number, and is reset or moves by one.
LEMMA CountType ==
    ASSUME NEW h, NEW count \in Nat
    PROVE  /\ NoProgressAfter(h, count) \in Nat
           /\ NoProgressAfter(h, count) # 0 =>
                /\ NoProgressAfter(h, count) = count + 1
                /\ HasPrior(h)
  BY DEF NoProgressAfter

\* Types and alignment hold at the start of every episode.
LEMMA InitTypeInv == Init => TypeInv
<1> SUFFICES ASSUME Init PROVE TypeInv
  OBVIOUS
<1> USE EpisodeAssumption DEF EpisodeAssumption, Init
<1>1. measured \in Seq(Measurements) /\ scenes \in Seq(Nat)
  OBVIOUS
<1>2. /\ lastStart \in [round : Nat, scene : Nat]
      /\ feedback \in [of : Nat, from : Nat, to : Nat]
  OBVIOUS
<1>3. TypeOK
  <2> SUFFICES /\ round \in 0..MaxRounds
               /\ outcome \in Outcomes
    BY <1>1, <1>2 DEF TypeOK
  <2> QED  BY DEF Outcomes
<1>4. Aligned
  BY DEF Aligned
<1> QED  BY <1>3, <1>4 DEF TypeInv

\* One lemma for the steps that execute nothing.
LEMMA LoopStepsTypeInv ==
    TypeInv /\ (Reset \/ Stage1Answers \/ Stage1Fails \/ RoundsExhausted)
        => TypeInv'
<1> USE EpisodeAssumption DEF EpisodeAssumption, TypeInv, TypeOK, Aligned, Outcomes
<1>1. TypeInv /\ Reset => TypeInv'
  BY DEF Reset
<1>2. TypeInv /\ Stage1Answers => TypeInv'
  BY DEF Stage1Answers, Feedback
<1>3. TypeInv /\ Stage1Fails => TypeInv'
  BY DEF Stage1Fails, Feedback
<1>4. TypeInv /\ RoundsExhausted => TypeInv'
  BY DEF RoundsExhausted
<1> QED  BY <1>1, <1>2, <1>3, <1>4

LEMMA ExecuteTypeInv == TypeInv /\ ExecuteCommand => TypeInv'
<1> SUFFICES ASSUME TypeInv, ExecuteCommand PROVE TypeInv'
  OBVIOUS
<1> USE EpisodeAssumption DEF EpisodeAssumption, TypeInv, TypeOK
<1>1. PICK a \in Attempts : /\ StepEnv(a.steps, a.term)
                            /\ terminated' = (terminated \/ a.term)
                            /\ attempt' = a.outcome
                            /\ measured' = Append(measured, a.last)
  BY DEF ExecuteCommand
<1>7. a.steps \in Nat /\ a.term \in BOOLEAN /\ a.last \in Measurements
  BY AttemptsType
<1>2. envSteps' \in Nat /\ scene' \in Nat
  BY <1>1, <1>7, StepEnvType
<1>3. measured' \in Seq(Measurements) /\ Len(measured') = Len(measured) + 1
  BY <1>1, AttemptsType
<1>4. scenes' \in Seq(Nat) /\ attempt' \in {"none", "success", "collision", "timeout"}
  BY <1>1, <1>2, AttemptsType DEF ExecuteCommand
<1>8. terminated' \in BOOLEAN
  BY <1>1, <1>7
<1>5. TypeOK'
  BY <1>2, <1>3, <1>4, <1>8 DEF ExecuteCommand, Outcomes
<1>6. Aligned'
  BY <1>3 DEF ExecuteCommand, Aligned
<1> QED  BY <1>5, <1>6

LEMMA JudgeTypeInv == TypeInv /\ Judge => TypeInv'
<1> SUFFICES ASSUME TypeInv, Judge PROVE TypeInv'
  OBVIOUS
<1> USE EpisodeAssumption DEF EpisodeAssumption, TypeInv, TypeOK
<1> DEFINE count == NoProgressAfter(measured, noProgress)
<1>1. count \in Nat
  BY CountType
<1> HIDE DEF count
<1>2. \/ pc' = "ended" /\ outcome' \in Outcomes /\ round' = round
      \/ pc' = "prompt" /\ outcome' = outcome /\ round' = round + 1
  BY DEF Judge, Finish, Outcomes
<1>3. noProgress' \in Nat /\ plateau' \in BOOLEAN
  BY <1>1 DEF Judge, count
<1>4. UNCHANGED <<arm, envSteps, scene, terminated, stop, attempt, measured,
                  scenes, interactions, lastStart, feedback>> /\ pc = "judge"
  BY DEF Judge
<1>5. TypeOK'
  BY <1>2, <1>3, <1>4 DEF Aligned
<1>6. Aligned'
  BY <1>2, <1>4 DEF Aligned
<1> QED  BY <1>5, <1>6

\* Types and alignment are kept by every step.
LEMMA StepTypeInv == TypeInv /\ [Next]_episodeVars => TypeInv'
<1>1. TypeInv /\ UNCHANGED episodeVars => TypeInv'
  BY DEF episodeVars, TypeInv, TypeOK, Aligned
<1> QED
  BY <1>1, LoopStepsTypeInv, ExecuteTypeInv, JudgeTypeInv DEF Next

\* The episode's state has its types, whatever the round limit.
THEOREM TypeCorrect == Spec => []TypeOK
<1>1. TypeInv => TypeOK
  BY DEF TypeInv
<1> QED  BY <1>1, InitTypeInv, StepTypeInv, PTL DEF Spec

\* Interactions and critic feedback belong to the rounds they claim.
THEOREM Alignment == Spec => []RoundsAligned
<1>1. TypeInv => RoundsAligned
  BY DEF TypeInv, Aligned, RoundsAligned
<1> QED  BY <1>1, InitTypeInv, StepTypeInv, PTL DEF Spec

-----------------------------------------------------------------------------
(* The verdict.                                                            *)

\* The scored arms of VerdictMatchesMeasurement are those that Reached reads.
LEMMA ReachedScored ==
    ASSUME arm \in Arms, NEW m
    PROVE  LET scored == IF arm = "both" THEN {"left", "right"} ELSE {arm}
           IN  Reached(arm, m) <=> \A side \in scored : m[side] < Threshold
  BY EpisodeAssumption DEF EpisodeAssumption, Reached

LEMMA InitVerdict == Init => Undecided /\ Decided
  BY DEF Init, Undecided, Decided

LEMMA JudgeVerdict == VerdictInv /\ Judge => (Undecided /\ Decided)'
<1> SUFFICES ASSUME VerdictInv, Judge PROVE (Undecided /\ Decided)'
  OBVIOUS
<1> DEFINE last == measured[Len(measured)]
<1>1. pc = "judge" /\ UNCHANGED <<arm, measured>> /\ measured # <<>>
  BY DEF Judge, VerdictInv, TypeInv, TypeOK, Aligned
<1>2. outcome = "timeout"
  BY <1>1 DEF VerdictInv, Undecided
<1>3. CASE Reached(arm, last)
  <2>1. pc' = "ended" /\ outcome' = "success"
    BY <1>3 DEF Judge, Finish
  <2> QED  BY <2>1, <1>1, <1>3 DEF Undecided, Decided, Reached
<1>4. CASE ~Reached(arm, last)
  <2>1. \/ pc' = "ended" /\ outcome' # "success"
        \/ pc' = "prompt" /\ outcome' = outcome
    BY <1>4 DEF Judge, Finish
  <2> QED  BY <2>1, <1>1, <1>2, <1>4 DEF Undecided, Decided, Reached
<1> QED  BY <1>3, <1>4

LEMMA StepVerdict == VerdictInv /\ [Next]_episodeVars => VerdictInv'
<1> SUFFICES ASSUME VerdictInv, [Next]_episodeVars PROVE VerdictInv'
  OBVIOUS
<1>1. TypeInv'
  BY StepTypeInv DEF VerdictInv
<1> USE DEF VerdictInv, Undecided, Decided, Reached
<1>2. CASE Reset
  <2>1. pc = "reset" /\ pc' = "prompt" /\ UNCHANGED <<measured, outcome, arm>>
    BY <1>2 DEF Reset
  <2>2. measured \in Seq(Measurements) /\ Len(measured) = 0
    BY <2>1 DEF TypeInv, TypeOK, Aligned
  <2>3. measured = <<>>
    BY <2>2
  <2> QED  BY <1>1, <2>1, <2>3
<1>3. CASE Stage1Answers
  BY <1>1, <1>3 DEF Stage1Answers
<1>4. CASE Stage1Fails
  BY <1>1, <1>4 DEF Stage1Fails
<1>5. CASE ExecuteCommand
  <2>1. pc' = "judge" /\ outcome' = outcome /\ pc = "execute"
    BY <1>5 DEF ExecuteCommand
  <2> QED  BY <1>1, <2>1
<1>6. CASE Judge
  BY <1>1, <1>6, JudgeVerdict
<1>7. CASE RoundsExhausted
  BY <1>1, <1>7 DEF RoundsExhausted
<1>8. CASE UNCHANGED episodeVars
  BY <1>1, <1>8 DEF episodeVars
<1> QED  BY <1>2, <1>3, <1>4, <1>5, <1>6, <1>7, <1>8 DEF Next

\* An ended episode is a success exactly when its last executed round left the
\* scored arms inside the threshold.
THEOREM VerdictCorrect == Spec => []VerdictMatchesMeasurement
<1>1. Init => VerdictInv
  BY InitTypeInv, InitVerdict DEF VerdictInv
<1>2. VerdictInv => VerdictMatchesMeasurement
  BY ReachedScored
     DEF VerdictInv, Decided, VerdictMatchesMeasurement, TypeInv, TypeOK
<1> QED  BY <1>1, <1>2, StepVerdict, PTL DEF Spec

-----------------------------------------------------------------------------
(* The target of an episode.                                               *)

\* One more round adds StepsPerRound steps to the budget.
LEMMA BudgetGrows ==
    ASSUME NEW n \in Nat
    PROVE  /\ n * StepsPerRound \in Nat
           /\ (n + 1) * StepsPerRound = n * StepsPerRound + StepsPerRound
  BY EpisodeAssumption DEF EpisodeAssumption

LEMMA ExecuteLocked == LockedInv /\ ExecuteCommand => Locked'
<1> SUFFICES ASSUME LockedInv, ExecuteCommand PROVE Locked'
  OBVIOUS
<1> DEFINE n == Len(scenes)
           budget == 1 + n * StepsPerRound
<1>1. PICK a \in Attempts : /\ StepEnv(a.steps, a.term)
                            /\ terminated' = (terminated \/ a.term)
                            /\ measured' = Append(measured, a.last)
  BY DEF ExecuteCommand
<1>2. /\ a.steps \in 1..StepsPerRound /\ a.steps \in Nat /\ a.term \in BOOLEAN
      /\ StepsPerRound \in Nat /\ EpisodeLength \in Nat
  BY AttemptsType, EpisodeAssumption DEF EpisodeAssumption
<1>3. /\ envSteps \in Nat /\ scene \in Nat /\ scenes \in Seq(Nat)
      /\ measured \in Seq(Measurements) /\ n \in Nat /\ pc = "execute"
      /\ scenes' = Append(scenes, scene') /\ scene' \in Nat
  BY <1>1, <1>2, StepEnvType DEF LockedInv, TypeInv, TypeOK, ExecuteCommand
<1>4. budget \in Nat /\ 1 + (n + 1) * StepsPerRound = budget + StepsPerRound
  BY <1>2, <1>3, BudgetGrows
<1>5. Len(scenes') = n + 1 /\ Len(scenes') = Len(measured')
  BY <1>1, <1>3, AttemptsType DEF LockedInv, Locked
<1> HIDE DEF budget
<1>6. ASSUME budget + StepsPerRound < EpisodeLength, ~terminated'
      PROVE  scene' = 1 /\ envSteps' <= budget + StepsPerRound
  <2>3. ~terminated /\ ~a.term
    BY <1>1, <1>2, <1>6 DEF LockedInv, TypeInv, TypeOK
  <2>1. scene = 1 /\ envSteps <= budget
    BY <1>2, <1>3, <1>4, <1>6, <2>3 DEF LockedInv, Locked, budget
  <2>2. ~(envSteps + a.steps >= EpisodeLength)
    BY <2>1, <1>2, <1>3, <1>4, <1>6
  <2> QED  BY <2>1, <2>2, <2>3, <1>1, <1>2, <1>3, <1>4 DEF StepEnv
<1>7. ASSUME ~terminated', NEW i \in DOMAIN scenes', 1 + i * StepsPerRound < EpisodeLength
      PROVE  scenes'[i] = 1
  <2>1. CASE i \in DOMAIN scenes
    <3>1. scenes'[i] = scenes[i]
      BY <2>1, <1>3
    <3>2. ~terminated
      BY <1>1, <1>2, <1>7 DEF LockedInv, TypeInv, TypeOK
    <3> QED  BY <3>1, <3>2, <2>1, <1>7 DEF LockedInv, Locked, LockedBeforeBoundary
  <2>2. CASE i \notin DOMAIN scenes
    <3>1. i = n + 1 /\ scenes'[i] = scene'
      BY <2>2, <1>3, <1>5
    <3> QED  BY <3>1, <1>4, <1>6, <1>7
  <2> QED  BY <2>1, <2>2
<1>8. LockedBeforeBoundary'
  BY <1>7 DEF LockedBeforeBoundary
<1> QED  BY <1>4, <1>5, <1>6, <1>8 DEF Locked

LEMMA StepLocked == LockedInv /\ [Next]_episodeVars => LockedInv'
<1> SUFFICES ASSUME LockedInv, [Next]_episodeVars PROVE LockedInv'
  OBVIOUS
<1>1. TypeInv'
  BY StepTypeInv DEF LockedInv
<1>2. CASE ExecuteCommand
  BY <1>1, <1>2, ExecuteLocked DEF LockedInv
<1>3. CASE Reset
  <2>1. Len(scenes) = 0 /\ Len(measured) = 0 /\ scenes \in Seq(Nat)
    BY <1>3 DEF Reset, LockedInv, Locked, TypeInv, TypeOK, Aligned
  <2>2. scene' = 1 /\ envSteps' = 1 /\ UNCHANGED <<scenes, measured>>
    BY <1>3 DEF Reset
  <2>3. LockedBeforeBoundary'
    BY <2>1, <2>2 DEF LockedBeforeBoundary
  <2>4. 0 * StepsPerRound = 0
    BY EpisodeAssumption DEF EpisodeAssumption
  <2> QED  BY <1>1, <2>1, <2>2, <2>3, <2>4 DEF LockedInv, Locked
<1>4. ASSUME \/ Stage1Answers \/ Stage1Fails \/ Judge \/ RoundsExhausted
             \/ UNCHANGED episodeVars
      PROVE  LockedInv'
  <2>1. /\ UNCHANGED <<scenes, measured, scene, envSteps, terminated>>
        /\ pc # "reset" \/ pc' = pc
    BY <1>4 DEF Stage1Answers, Stage1Fails, Judge, RoundsExhausted, episodeVars
  <2> QED  BY <1>1, <2>1 DEF LockedInv, Locked, LockedBeforeBoundary
<1> QED  BY <1>2, <1>3, <1>4 DEF Next

LEMMA InitLocked == Init => LockedInv
<1>1. Init => Locked
  BY DEF Init, Locked, LockedBeforeBoundary
<1> QED  BY <1>1, InitTypeInv DEF LockedInv

\* A round that ends before the simulator's limit is measured in the scene that
\* the episode began with.
THEOREM LockedUpToBoundary == Spec => []LockedBeforeBoundary
<1>1. LockedInv => LockedBeforeBoundary
  BY DEF LockedInv, Locked
<1> QED  BY <1>1, InitLocked, StepLocked, PTL DEF Spec

\* Were the simulator's limit beyond the steps of the longest episode and its
\* warm-up step, no target would move: what the comment of the reach
\* configuration intends.
THEOREM LongEnoughLocks ==
    ASSUME 1 + MaxRounds * StepsPerRound < EpisodeLength
    PROVE  Spec => []TargetLocked
<1>1. LockedInv => TargetLocked
  <2> SUFFICES ASSUME LockedInv, ~terminated, NEW i \in DOMAIN scenes
               PROVE  scenes[i] = 1
    BY DEF TargetLocked
  <2>1. /\ i \in Nat /\ i <= MaxRounds
        /\ MaxRounds \in Nat /\ StepsPerRound \in Nat /\ EpisodeLength \in Nat
    <3>1. /\ scenes \in Seq(Nat) /\ Len(scenes) = Len(measured)
          /\ Len(measured) <= MaxRounds
      BY DEF LockedInv, Locked, TypeInv, TypeOK, Aligned
    <3> QED  BY <3>1, EpisodeAssumption DEF EpisodeAssumption
  <2>2. i * StepsPerRound <= MaxRounds * StepsPerRound
    BY <2>1
  <2>3. i * StepsPerRound \in Nat /\ MaxRounds * StepsPerRound \in Nat
    BY <2>1
  <2>4. 1 + i * StepsPerRound < EpisodeLength
    BY <2>1, <2>2, <2>3
  <2> QED  BY <2>4 DEF LockedInv, Locked, LockedBeforeBoundary
<1> QED  BY <1>1, InitLocked, StepLocked, PTL DEF Spec

-----------------------------------------------------------------------------
(* The episode implements the contract.                                    *)

ContractInv == VerdictInv /\ Counted

\* A plateau needs two windows of rounds and then its patience.
LEMMA PlateauNeedsRounds ==
    ASSUME ContractInv, pc = "judge",
           NoProgressAfter(measured, noProgress) >= Patience
    PROVE  Len(measured) >= 2 * Window + Patience - 1
<1> DEFINE count == NoProgressAfter(measured, noProgress)
<1>1. /\ Patience \in Nat \ {0} /\ Window \in Nat \ {0}
      /\ noProgress \in Nat /\ Len(measured) \in Nat
  BY EpisodeAssumption
     DEF EpisodeAssumption, ContractInv, VerdictInv, TypeInv, TypeOK
<1>2. count = noProgress + 1 /\ Len(measured) >= 2 * Window
  BY <1>1, CountType DEF HasPrior
<1>3. noProgress = 0 \/ noProgress <= Len(measured) - 2 * Window
  BY <1>1 DEF ContractInv, Counted
<1> QED  BY <1>1, <1>2, <1>3

LEMMA JudgeCounted == ContractInv /\ Judge => Counted'
<1> SUFFICES ASSUME ContractInv, Judge, pc' # "ended" PROVE Counted'
  BY DEF Counted
<1> DEFINE count == NoProgressAfter(measured, noProgress)
<1>1. /\ Window \in Nat /\ noProgress \in Nat /\ Len(measured) \in Nat
      /\ pc = "judge" /\ UNCHANGED measured
  BY EpisodeAssumption
     DEF EpisodeAssumption, ContractInv, VerdictInv, TypeInv, TypeOK, Judge
<1>2. pc' = "prompt" /\ noProgress' = count
  BY DEF Judge, Finish
<1>3. count = 0 \/ (count = noProgress + 1 /\ Len(measured) >= 2 * Window)
  BY <1>1, CountType DEF HasPrior
<1>4. noProgress = 0 \/ noProgress <= Len(measured) - 2 * Window
  BY <1>1 DEF ContractInv, Counted
<1> HIDE DEF count
<1> QED  BY <1>1, <1>2, <1>3, <1>4 DEF Counted

LEMMA StepContractInv == ContractInv /\ [Next]_episodeVars => ContractInv'
<1> SUFFICES ASSUME ContractInv, [Next]_episodeVars PROVE ContractInv'
  OBVIOUS
<1>1. VerdictInv'
  BY StepVerdict DEF ContractInv
<1>2. CASE Judge
  BY <1>1, <1>2, JudgeCounted DEF ContractInv
<1>3. CASE ExecuteCommand
  <2>1. PICK a \in Attempts : measured' = Append(measured, a.last)
    BY <1>3 DEF ExecuteCommand
  <2>2. /\ Len(measured') = Len(measured) + 1 /\ Len(measured) \in Nat
        /\ Window \in Nat /\ noProgress \in Nat
    BY <2>1, AttemptsType, EpisodeAssumption
       DEF EpisodeAssumption, ContractInv, VerdictInv, TypeInv, TypeOK
  <2>3. pc = "execute" /\ pc' = "judge" /\ noProgress' = noProgress
    BY <1>3 DEF ExecuteCommand
  <2> QED  BY <1>1, <2>2, <2>3 DEF ContractInv, Counted
<1>4. ASSUME \/ Reset \/ Stage1Answers \/ Stage1Fails \/ RoundsExhausted
             \/ UNCHANGED episodeVars
      PROVE  ContractInv'
  <2>1. /\ UNCHANGED <<measured, noProgress>>
        /\ pc # "judge" \/ pc' = pc
        /\ pc' # "judge" \/ pc' = pc
        /\ pc = "ended" => pc' = pc
    BY <1>4 DEF Reset, Stage1Answers, Stage1Fails, RoundsExhausted, episodeVars
  <2> QED  BY <1>1, <2>1 DEF ContractInv, Counted
<1> QED  BY <1>2, <1>3, <1>4 DEF Next

LEMMA InitContractInv == Init => ContractInv
  BY InitTypeInv, InitVerdict DEF Init, ContractInv, VerdictInv, Counted

LEMMA InitRefines == Init => Contract!Init
  BY DEF Init, Contract!Init

\* Every step executes a round, ends the episode, or is invisible.
LEMMA StepRefines ==
    ContractInv /\ [Next]_episodeVars => [Contract!Next]_(Contract!contractVars)
<1> SUFFICES ASSUME ContractInv, [Next]_episodeVars
             PROVE  [Contract!Next]_(Contract!contractVars)
  OBVIOUS
<1>1. /\ MaxRounds \in Nat /\ round \in 0..MaxRounds /\ Len(measured) \in Nat
      /\ Aligned /\ Undecided /\ measured \in Seq(Measurements)
      /\ Window \in Nat /\ Patience \in Nat
  BY EpisodeAssumption
     DEF EpisodeAssumption, ContractInv, VerdictInv, TypeInv, TypeOK
<1> USE DEF Contract!Next, Contract!contractVars
<1>2. CASE Stage1Fails
  <2>1. pc = "prompt" /\ pc' = "ended" /\ outcome' = "vlm_parse_fail"
        /\ UNCHANGED measured /\ round < MaxRounds
    BY <1>2 DEF Stage1Fails
  <2>2. Contract!Justified("vlm_parse_fail", Len(measured))
    BY <1>1, <2>1 DEF Contract!Justified, Aligned
  <2> QED  BY <2>1, <2>2 DEF Contract!End, Outcomes
<1>3. CASE ExecuteCommand
  <2>1. PICK a \in Attempts : measured' = Append(measured, a.last)
    BY <1>3 DEF ExecuteCommand
  <2>2. Len(measured') = Len(measured) + 1 /\ Len(measured) < MaxRounds
    BY <1>1, <1>3, <2>1, AttemptsType DEF ExecuteCommand, Aligned
  <2> QED  BY <1>3, <2>2 DEF ExecuteCommand, Contract!ExecuteRound
<1>4. CASE Judge
  <2>1. /\ pc = "judge" /\ UNCHANGED measured /\ Len(measured) > 0
        /\ outcome = "timeout"
    BY <1>1, <1>4 DEF Judge, Aligned, Undecided
  <2>2. CASE pc' = "ended"
    <3>1. \/ outcome' \in {"success", "collision", "vlm_stop_premature"}
          \/ outcome' = "timeout"
             /\ NoProgressAfter(measured, noProgress) >= Patience
      BY <1>4, <2>2 DEF Judge, Finish
    <3>2. Contract!Justified(outcome', Len(measured))
      BY <1>1, <2>1, <3>1, PlateauNeedsRounds DEF Contract!Justified
    <3> QED  BY <2>1, <2>2, <3>1, <3>2 DEF Contract!End, Outcomes
  <2>3. CASE pc' # "ended"
    BY <1>4, <2>1, <2>3 DEF Judge, Finish
  <2> QED  BY <2>2, <2>3
<1>5. CASE RoundsExhausted
  <2>1. /\ pc = "prompt" /\ pc' = "ended" /\ Len(measured) = MaxRounds
        /\ outcome = "timeout" /\ UNCHANGED <<measured, outcome>>
    BY <1>1, <1>5 DEF RoundsExhausted, Aligned, Undecided
  <2>2. Contract!Justified("timeout", Len(measured))
    BY <2>1 DEF Contract!Justified
  <2> QED  BY <2>1, <2>2 DEF Contract!End, Outcomes
<1>6. CASE Reset \/ Stage1Answers \/ UNCHANGED episodeVars
  BY <1>6 DEF Reset, Stage1Answers, episodeVars
<1> QED  BY <1>2, <1>3, <1>4, <1>5, <1>6 DEF Next

\* The episode implements EpisodeContract: what the collect run relies on.
THEOREM ImplementsContract == Spec => KeepsContract
<1> QED
  BY InitContractInv, StepContractInv, InitRefines, StepRefines, PTL
     DEF Spec, KeepsContract, Contract!Spec

-----------------------------------------------------------------------------
(* The plateau.                                                            *)

\* A further measurement leaves the earlier prefixes as they were.
LEMMA PrefixKept ==
    ASSUME NEW S, NEW h \in Seq(S), NEW x \in S, NEW i \in 0..Len(h)
    PROVE  SubSeq(Append(h, x), 1, i) = SubSeq(h, 1, i)
  OBVIOUS

LEMMA PrefixWhole ==
    ASSUME NEW S, NEW h \in Seq(S)
    PROVE  SubSeq(h, 1, Len(h)) = h
  OBVIOUS

\* A streak below the patience is no plateau.
LEMMA ShortStreak ==
    ASSUME NEW h, Len(h) \in Nat, NEW count \in Nat, count < Patience,
           count < Len(h) => ~StagnantAt(h, Len(h) - count)
    PROVE  ~(/\ Len(h) >= Patience
             /\ \A k \in 0..(Patience - 1) : StagnantAt(h, Len(h) - k))
  BY EpisodeAssumption DEF EpisodeAssumption

LEMMA ExecutePlateau == PlateauInv /\ ExecuteCommand => PlateauInv'
<1> SUFFICES ASSUME PlateauInv, ExecuteCommand PROVE PlateauInv'
  OBVIOUS
<1>1. TypeInv'
  BY ExecuteTypeInv DEF PlateauInv
<1>2. PICK a \in Attempts : measured' = Append(measured, a.last)
  BY DEF ExecuteCommand
<1>3. /\ pc = "execute" /\ pc' = "judge" /\ UNCHANGED <<noProgress, plateau>>
      /\ noProgress \in Nat /\ measured \in Seq(Measurements)
      /\ Len(measured) \in Nat /\ Len(measured') = Len(measured) + 1
      /\ Streak /\ ~plateau
  BY <1>2, AttemptsType DEF PlateauInv, TypeInv, TypeOK, ExecuteCommand
<1>4. Judged = Len(measured) /\ Judged' = Len(measured)
  BY <1>3 DEF Judged
<1>5. \A i \in 0..Len(measured) :
          StagnantAt(measured', i) <=> StagnantAt(measured, i)
  BY <1>2, <1>3, AttemptsType, PrefixKept DEF StagnantAt
<1>6. Streak'
  <2>1. ASSUME NEW k \in 0..(noProgress - 1)
        PROVE  StagnantAt(measured', Judged' - k)
    BY <1>3, <1>4, <1>5 DEF Streak
  <2>2. noProgress < Judged' => ~StagnantAt(measured', Judged' - noProgress)
    BY <1>3, <1>4, <1>5 DEF Streak
  <2> QED  BY <1>3, <1>4, <2>1, <2>2 DEF Streak
<1> QED  BY <1>1, <1>3, <1>6 DEF PlateauInv, PlateauIsStagnation

LEMMA JudgePlateau == PlateauInv /\ Judge => PlateauInv'
<1> SUFFICES ASSUME PlateauInv, Judge PROVE PlateauInv'
  OBVIOUS
<1> DEFINE count == NoProgressAfter(measured, noProgress)
           n == Len(measured)
<1>1. TypeInv'
  BY JudgeTypeInv DEF PlateauInv
<1>2. /\ pc = "judge" /\ UNCHANGED measured /\ ~plateau /\ Streak
      /\ noProgress \in Nat /\ measured \in Seq(Measurements) /\ n \in Nat
      /\ n > 0 /\ Patience \in Nat \ {0} /\ Judged = n - 1
  BY EpisodeAssumption
     DEF EpisodeAssumption, PlateauInv, TypeInv, TypeOK, Aligned, Judge, Judged
<1>3. /\ noProgress <= n - 1 /\ noProgress < Patience
      /\ \A k \in 0..(noProgress - 1) : StagnantAt(measured, n - 1 - k)
      /\ noProgress < n - 1 => ~StagnantAt(measured, n - 1 - noProgress)
  BY <1>2 DEF Streak
<1>4. \/ count = 0 /\ ~StagnantAt(measured, n)
      \/ count = noProgress + 1 /\ StagnantAt(measured, n)
  <2>1. StagnantAt(measured, n) <=> HasPrior(measured) /\ ~Progressed(measured)
    <3>1. SubSeq(measured, 1, n) = measured
      BY <1>2, PrefixWhole
    <3> QED  BY <3>1 DEF StagnantAt, Stagnant
  <2> QED  BY <2>1, <1>2 DEF NoProgressAfter
<1> HIDE DEF count, n
<1>5. ASSUME count # 0
      PROVE  \A k \in 0..(count - 1) : StagnantAt(measured, n - k)
  <2> SUFFICES ASSUME NEW k \in 0..(count - 1) PROVE StagnantAt(measured, n - k)
    OBVIOUS
  <2>1. CASE k = 0
    BY <2>1, <1>2, <1>4, <1>5
  <2>2. CASE k # 0
    <3>1. k - 1 \in 0..(noProgress - 1) /\ n - 1 - (k - 1) = n - k
      BY <2>2, <1>2, <1>4, <1>5
    <3> QED  BY <3>1, <1>3
  <2> QED  BY <2>1, <2>2
<1>6. \/ pc' = "ended" /\ ~plateau'
      \/ pc' = "ended" /\ plateau' /\ count >= Patience
      \/ pc' = "prompt" /\ ~plateau' /\ noProgress' = count /\ ~(count >= Patience)
  BY <1>2 DEF Judge, Finish, count
<1>7. CASE pc' = "ended" /\ ~plateau'
  BY <1>1, <1>7 DEF PlateauInv, PlateauIsStagnation
<1>8. CASE pc' = "ended" /\ plateau' /\ count >= Patience
  <2>1. count = Patience /\ n >= Patience
    BY <1>8, <1>2, <1>3, <1>4
  <2>2. \A k \in 0..(Patience - 1) : StagnantAt(measured', n - k)
    BY <2>1, <1>2, <1>5
  <2>3. Len(measured') = n
    BY <1>2 DEF n
  <2>4. PlateauIsStagnation'
    BY <1>8, <2>1, <2>2, <2>3 DEF PlateauIsStagnation, StagnantAt
  <2> QED  BY <1>1, <1>8, <2>4 DEF PlateauInv
<1>9. CASE pc' = "prompt" /\ ~plateau' /\ noProgress' = count /\ ~(count >= Patience)
  <2>1. Judged' = n /\ measured' = measured
    BY <1>2, <1>9 DEF Judged, n
  <2>2. /\ count <= n /\ count < Patience
        /\ \A k \in 0..(count - 1) : StagnantAt(measured, n - k)
    BY <1>2, <1>3, <1>4, <1>5, <1>9
  <2>3. count < n => ~StagnantAt(measured, n - count)
    <3>1. CASE count = 0
      BY <3>1, <1>2, <1>4
    <3>2. CASE count # 0
      <4>1. count = noProgress + 1 /\ n - count = n - 1 - noProgress
        BY <3>2, <1>2, <1>4
      <4> QED  BY <4>1, <1>2, <1>3
    <3> QED  BY <3>1, <3>2
  <2>4. Streak'
    BY <1>9, <2>1, <2>2, <2>3 DEF Streak
  <2>5. PlateauIsStagnation'
    <3>1. ~(/\ Len(measured') >= Patience
            /\ \A k \in 0..(Patience - 1) :
                   StagnantAt(measured', Len(measured') - k))
      BY <1>2, <1>4, <2>1, <2>2, <2>3, ShortStreak DEF n
    <3> QED  BY <3>1, <1>9 DEF PlateauIsStagnation, StagnantAt
  <2> QED  BY <1>1, <1>9, <2>4, <2>5 DEF PlateauInv
<1> QED  BY <1>6, <1>7, <1>8, <1>9

LEMMA StepPlateau == PlateauInv /\ [Next]_episodeVars => PlateauInv'
<1> SUFFICES ASSUME PlateauInv, [Next]_episodeVars PROVE PlateauInv'
  OBVIOUS
<1>1. TypeInv'
  BY StepTypeInv DEF PlateauInv
<1>2. CASE ExecuteCommand
  BY <1>2, ExecutePlateau
<1>3. CASE Judge
  BY <1>3, JudgePlateau
<1>4. ASSUME \/ Stage1Answers \/ Stage1Fails \/ RoundsExhausted
             \/ UNCHANGED episodeVars
      PROVE  PlateauInv'
  <2>1. /\ UNCHANGED <<measured, noProgress, plateau>>
        /\ \/ pc' = pc
           \/ pc = "prompt" /\ pc' \in {"execute", "ended"}
    BY <1>4 DEF Stage1Answers, Stage1Fails, RoundsExhausted, episodeVars
  <2> QED  BY <1>1, <2>1 DEF PlateauInv, Streak, Judged, PlateauIsStagnation
<1>5. CASE Reset
  <2>1. /\ UNCHANGED <<measured, noProgress, plateau>>
        /\ pc = "reset" /\ pc' = "prompt" /\ Len(measured) = 0
        /\ Streak /\ ~plateau
    BY <1>5 DEF Reset, PlateauInv, TypeInv, Aligned
  <2>2. Streak' /\ ~plateau'
    BY <2>1 DEF Streak, Judged
  <2>3. PlateauIsStagnation'
    BY <2>1, <2>2, EpisodeAssumption
       DEF EpisodeAssumption, PlateauIsStagnation
  <2> QED  BY <1>1, <2>2, <2>3 DEF PlateauInv
<1> QED  BY <1>2, <1>3, <1>4, <1>5 DEF Next

LEMMA InitPlateau == Init => PlateauInv
<1> SUFFICES ASSUME Init PROVE PlateauInv
  OBVIOUS
<1>1. Patience \in Nat \ {0} /\ Len(measured) = 0 /\ Judged = 0
  BY EpisodeAssumption DEF EpisodeAssumption, Init, Judged
<1>2. Streak /\ ~plateau
  BY <1>1 DEF Init, Streak
<1>3. PlateauIsStagnation
  BY <1>1 DEF Init, PlateauIsStagnation
<1> QED  BY <1>2, <1>3, InitTypeInv DEF PlateauInv

\* The plateau flag is set exactly on the last Patience rounds' stagnation, for
\* every window, patience and minimum progress.
THEOREM PlateauCorrect == Spec => []PlateauIsStagnation
<1>1. PlateauInv => PlateauIsStagnation
  BY DEF PlateauInv
<1> QED  BY <1>1, InitPlateau, StepPlateau, PTL DEF Spec

-----------------------------------------------------------------------------
(* The sums of the plateau windows: the recursive function in SumFromTo is *)
(* well defined, and an integer wherever the history has measurements.      *)

\* A non-empty set of numbers has a least element.
LEMMA LeastNumber ==
    ASSUME NEW T \in SUBSET Nat, T # {}
    PROVE  \E m \in T : \A k \in T : m <= k
<1> DEFINE R == OpToRel(<, Nat)
<1>1. PICK m \in T : \A k \in T : <<k, m>> \notin R
  <2>1. IsWellFoundedOn(R, Nat)
    BY NatLessThanWellFounded
  <2> HIDE DEF R
  <2> QED  BY <2>1, WFMin
<1>2. \A k \in T : k < m => <<k, m>> \in R
  BY DEF OpToRel
<1> HIDE DEF R
<1>3. \A k \in T : ~(k < m)
  BY <1>1, <1>2
<1> QED  BY <1>3

\* f satisfies the recursion of SumFromTo on the set N of indices.
Sums(f, N, h, first) ==
    f = [i \in N |-> IF i < first THEN 0 ELSE f[i - 1] + Combined(h[i])]

\* Partial sums exist up to every n.
LEMMA PartialSums ==
    ASSUME NEW h, NEW first \in Nat \ {0}
    PROVE  \A n \in Nat : \E f : Sums(f, 0..n, h, first)
<1> DEFINE T == {n \in Nat : ~\E f : Sums(f, 0..n, h, first)}
<1>1. CASE T = {}
  BY <1>1
<1>2. CASE T # {}
  <2>1. PICK m \in T : \A k \in T : m <= k
    BY <1>2, LeastNumber
  <2>2. CASE m = 0
    <3> DEFINE f == [i \in 0..0 |-> 0]
    <3>1. Sums(f, 0..0, h, first)
      BY DEF Sums
    <3> QED  BY <2>2, <3>1, <2>1
  <2>3. CASE m # 0
    <3>1. m \in Nat /\ m - 1 \in Nat /\ m - 1 \notin T
      BY <2>1, <2>3
    <3>2. PICK f : Sums(f, 0..(m - 1), h, first)
      BY <3>1
    <3> DEFINE g == [i \in 0..m |->
                IF i < first THEN 0 ELSE f[i - 1] + Combined(h[i])]
    <3>3. \A i \in 0..m :
             g[i] = IF i < first THEN 0 ELSE f[i - 1] + Combined(h[i])
      OBVIOUS
    <3>4. g = [i \in 0..m |-> g[i]]
      OBVIOUS
    <3> HIDE DEF g
    <3>5. \A i \in 0..(m - 1) : g[i] = f[i]
      BY <3>1, <3>2, <3>3 DEF Sums
    <3>6. \A i \in 0..m :
             g[i] = IF i < first THEN 0 ELSE g[i - 1] + Combined(h[i])
      <4> SUFFICES ASSUME NEW i \in 0..m, i >= first PROVE g[i - 1] = f[i - 1]
        BY <3>3
      <4> QED  BY <3>1, <3>5
    <3>7. Sums(g, 0..m, h, first)
      BY <3>4, <3>6 DEF Sums
    <3> QED  BY <3>7, <2>1
  <2> QED  BY <2>2, <2>3
<1> QED  BY <1>1, <1>2

\* Partial sums agree where both are defined.
LEMMA SumsAgree ==
    ASSUME NEW h, NEW first \in Nat \ {0}
    PROVE  \A n, m \in Nat : \A f, g :
               Sums(f, 0..n, h, first) /\ Sums(g, 0..m, h, first)
                   => \A i \in Nat : i <= n /\ i <= m => f[i] = g[i]
<1> SUFFICES ASSUME NEW n \in Nat, NEW m \in Nat, NEW f, NEW g,
                    Sums(f, 0..n, h, first), Sums(g, 0..m, h, first)
             PROVE  \A i \in Nat : i <= n /\ i <= m => f[i] = g[i]
  OBVIOUS
<1> DEFINE T == {i \in Nat : i <= n /\ i <= m /\ f[i] # g[i]}
<1>1. CASE T = {}
  BY <1>1
<1>2. CASE T # {}
  <2>1. PICK i \in T : \A k \in T : i <= k
    BY <1>2, LeastNumber
  <2>2. i \in 0..n /\ i \in 0..m
    BY <2>1
  <2>3. /\ f[i] = IF i < first THEN 0 ELSE f[i - 1] + Combined(h[i])
        /\ g[i] = IF i < first THEN 0 ELSE g[i - 1] + Combined(h[i])
    BY <2>2 DEF Sums
  <2>4. i >= first => i - 1 \in Nat /\ i - 1 \notin T
    BY <2>1
  <2>5. i >= first => f[i - 1] = g[i - 1]
    BY <2>4, <2>2
  <2> QED  BY <2>1, <2>3, <2>5
<1> QED  BY <1>1, <1>2

\* The sum over all naturals exists.
LEMMA SumsExist ==
    ASSUME NEW h, NEW first \in Nat \ {0}
    PROVE  \E f : Sums(f, Nat, h, first)
<1> DEFINE p == [n \in Nat |-> CHOOSE f : Sums(f, 0..n, h, first)]
           g == [i \in Nat |-> p[i][i]]
<1>1. \A n \in Nat : Sums(p[n], 0..n, h, first)
  BY PartialSums
<1> HIDE DEF p
<1>2. \A i \in Nat : g[i] = IF i < first THEN 0 ELSE g[i - 1] + Combined(h[i])
  <2> SUFFICES ASSUME NEW i \in Nat
               PROVE g[i] = IF i < first THEN 0 ELSE g[i - 1] + Combined(h[i])
    OBVIOUS
  <2>1. PICK f : f = p[i] /\ Sums(f, 0..i, h, first)
    BY <1>1
  <2>2. f[i] = IF i < first THEN 0 ELSE f[i - 1] + Combined(h[i])
    <3>1. i \in 0..i
      OBVIOUS
    <3> QED  BY <2>1, <3>1 DEF Sums
  <2>3. ASSUME i >= first PROVE f[i - 1] = g[i - 1]
    <3>1. PICK k \in Nat : k = i - 1
      BY <2>3
    <3>2. PICK e : e = p[k] /\ Sums(e, 0..k, h, first)
      BY <1>1
    <3>3. k <= i /\ k <= k
      BY <3>1
    <3>4. \A j \in Nat : j <= i /\ j <= k => f[j] = e[j]
      <4>1. Sums(f, 0..i, h, first)
        BY <2>1
      <4>2. Sums(e, 0..k, h, first)
        BY <3>2
      <4> QED  BY <4>1, <4>2, SumsAgree
    <3> QED  BY <3>1, <3>2, <3>3, <3>4
  <2> QED  BY <2>1, <2>2, <2>3
<1>3. g = [i \in Nat |-> g[i]]
  OBVIOUS
<1> HIDE DEF g
<1>4. Sums(g, Nat, h, first)
  BY <1>2, <1>3 DEF Sums
<1> QED  BY <1>4

LEMMA SumFromToInt ==
    ASSUME NEW h \in Seq(Measurements), NEW first \in Nat \ {0}, NEW last \in Nat,
           last <= Len(h)
    PROVE  SumFromTo(h, first, last) \in Int
<1> DEFINE s == CHOOSE f : Sums(f, Nat, h, first)
<1>1. Sums(s, Nat, h, first)
  BY SumsExist
<1>2. SumFromTo(h, first, last) = s[last]
  BY DEF SumFromTo, Sums
<1> HIDE DEF s
<1> DEFINE T == {i \in Nat : i <= Len(h) /\ s[i] \notin Int}
<1>3. CASE T # {}
  <2>1. PICK i \in T : \A k \in T : i <= k
    BY <1>3, LeastNumber
  <2>2. s[i] = IF i < first THEN 0 ELSE s[i - 1] + Combined(h[i])
    BY <1>1, <2>1 DEF Sums
  <2>3. i >= first => i - 1 \in Nat /\ i - 1 \notin T
    BY <2>1
  <2>4. i >= first => s[i - 1] \in Int
    BY <2>3, <2>1
  <2>5. i >= first => h[i] \in Measurements
    BY <2>1
  <2>6. ASSUME NEW m \in Measurements PROVE Combined(m) \in Int
    <3>1. m.left \in Dists /\ m.right \in Dists
      BY DEF Measurements
    <3>2. \A d \in Dists : d \in Int
      BY EpisodeAssumption DEF EpisodeAssumption
    <3>3. m.left \in Int /\ m.right \in Int
      BY <3>1, <3>2
    <3> QED  BY <3>3 DEF Combined
  <2> QED  BY <2>1, <2>2, <2>4, <2>5, <2>6
<1>4. CASE T = {}
  BY <1>2, <1>4
<1> QED  BY <1>3, <1>4

-----------------------------------------------------------------------------
(* The eval loop's copy of the ladder.                                      *)

\* The eval loop's test of the two windows is the negation of the collect
\* loop's: their sums are numbers whenever the history is long enough.
LEMMA StaleIsNoProgress ==
    ASSUME NEW h \in Seq(Measurements)
    PROVE  LET n == Len(h)
               prior == SumFromTo(h, n - 2 * Window + 1, n - Window)
               recent == SumFromTo(h, n - Window + 1, n)
           IN  n >= 2 * Window /\ prior - recent <= MinProgress * Window
                   <=> HasPrior(h) /\ ~Progressed(h)
<1> DEFINE n == Len(h)
           prior == SumFromTo(h, n - 2 * Window + 1, n - Window)
           recent == SumFromTo(h, n - Window + 1, n)
<1>1. n \in Nat /\ Window \in Nat \ {0} /\ MinProgress \in Nat
  BY EpisodeAssumption DEF EpisodeAssumption
<1>2. HasPrior(h) <=> n >= 2 * Window
  BY DEF HasPrior
<1>3. ASSUME n >= 2 * Window
      PROVE  prior - recent <= MinProgress * Window <=> ~Progressed(h)
  <2>1. /\ n - 2 * Window + 1 \in Nat \ {0} /\ n - Window \in Nat
        /\ n - Window + 1 \in Nat \ {0} /\ n - Window <= n
    BY <1>1, <1>3
  <2>2. prior \in Int /\ recent \in Int
    <3>1. \A first \in Nat \ {0}, final \in Nat :
              final <= Len(h) => SumFromTo(h, first, final) \in Int
      BY SumFromToInt
    <3>2. n <= Len(h)
      BY <1>1
    <3> QED  BY <1>1, <2>1, <3>1, <3>2
  <2>3. Progressed(h) <=> prior - recent > MinProgress * Window
    BY DEF Progressed
  <2>4. MinProgress * Window \in Int
    BY <1>1
  <2> HIDE DEF prior, recent
  <2> QED  BY <2>2, <2>3, <2>4
<1> QED  BY <1>2, <1>3

\* The verdict of the eval loop, with the collect loop's counter in it.
LEMMA EvalVerdictByCount ==
    ASSUME NEW h \in Seq(Measurements), NEW a, NEW last, NEW att,
           NEW stp \in BOOLEAN, NEW count \in Nat
    PROVE  EvalVerdict(a, last, att, stp, h, count) =
               IF Reached(a, last) THEN "success"
               ELSE IF att = "collision" THEN "collision"
               ELSE IF stp THEN "vlm_stop_premature"
               ELSE IF NoProgressAfter(h, count) >= Patience THEN "plateau"
               ELSE "continue"
<1> DEFINE n == Len(h)
           stale == /\ n >= 2 * Window
                    /\ SumFromTo(h, n - 2 * Window + 1, n - Window)
                           - SumFromTo(h, n - Window + 1, n)
                               <= MinProgress * Window
<1>1. NoProgressAfter(h, count) = IF stale THEN count + 1 ELSE 0
  BY StaleIsNoProgress DEF NoProgressAfter
<1>2. EvalVerdict(a, last, att, stp, h, count) =
          CASE Reached(a, last) -> "success"
            [] ~Reached(a, last) /\ att = "collision" -> "collision"
            [] ~Reached(a, last) /\ att # "collision" /\ stp -> "vlm_stop_premature"
            [] OTHER -> IF stale /\ count + 1 >= Patience THEN "plateau"
                                                          ELSE "continue"
  BY DEF EvalVerdict
<1> HIDE DEF stale
<1>3. Patience \in Nat \ {0}
  BY EpisodeAssumption DEF EpisodeAssumption
<1>4. NoProgressAfter(h, count) >= Patience <=> stale /\ count + 1 >= Patience
  BY <1>1, <1>3
<1> QED  BY <1>2, <1>4

\* A step of Judge gives the eval loop's verdict.
LEMMA JudgeAgrees ==
    PlateauInv /\ Undecided /\ Judge =>
        AsEvalVerdict(pc', outcome', plateau') =
            EvalVerdict(arm, measured[Len(measured)], attempt, stop, measured,
                        noProgress)
<1> SUFFICES ASSUME PlateauInv, Undecided, Judge
             PROVE  AsEvalVerdict(pc', outcome', plateau') =
                        EvalVerdict(arm, measured[Len(measured)], attempt, stop,
                                    measured, noProgress)
  OBVIOUS
<1> DEFINE last == measured[Len(measured)]
           count == NoProgressAfter(measured, noProgress)
<1>1. /\ ~plateau /\ stop \in BOOLEAN /\ noProgress \in Nat
      /\ measured \in Seq(Measurements)
  BY DEF PlateauInv, TypeInv, TypeOK, Judge
<1>2. EvalVerdict(arm, last, attempt, stop, measured, noProgress) =
          IF Reached(arm, last) THEN "success"
          ELSE IF attempt = "collision" THEN "collision"
          ELSE IF stop THEN "vlm_stop_premature"
          ELSE IF count >= Patience THEN "plateau" ELSE "continue"
  BY <1>1, EvalVerdictByCount
<1>3. CASE Reached(arm, last)
  <2>1. pc' = "ended" /\ outcome' = "success" /\ ~plateau'
    BY <1>1, <1>3 DEF Judge, Finish
  <2> QED  BY <1>2, <1>3, <2>1 DEF AsEvalVerdict
<1>4. CASE ~Reached(arm, last) /\ attempt = "collision"
  <2>1. pc' = "ended" /\ outcome' = "collision" /\ ~plateau'
    BY <1>1, <1>4 DEF Judge, Finish
  <2> QED  BY <1>2, <1>4, <2>1 DEF AsEvalVerdict
<1>5. CASE ~Reached(arm, last) /\ attempt # "collision" /\ stop
  <2>1. pc' = "ended" /\ outcome' = "vlm_stop_premature" /\ ~plateau'
    BY <1>1, <1>5 DEF Judge, Finish
  <2> QED  BY <1>2, <1>5, <2>1 DEF AsEvalVerdict
<1>6. CASE ~Reached(arm, last) /\ attempt # "collision" /\ ~stop
  <2>1. CASE count >= Patience
    <3>1. pc' = "ended" /\ plateau'
      BY <1>6, <2>1 DEF Judge, Finish
    <3> QED  BY <1>2, <1>6, <2>1, <3>1 DEF AsEvalVerdict
  <2>2. CASE ~(count >= Patience)
    <3>1. pc' = "prompt"
      BY <1>6, <2>2 DEF Judge, Finish
    <3> QED  BY <1>2, <1>6, <2>2, <3>1 DEF AsEvalVerdict
  <2> QED  BY <2>1, <2>2
<1> QED  BY <1>3, <1>4, <1>5, <1>6

\* The two copies of the ladder agree on every judged round, whatever the
\* window, the patience, the thresholds and the history.
THEOREM EvalCorrect == Spec => EvalAgrees
<1> DEFINE Agrees ==
        pc = "judge" =>
            AsEvalVerdict(pc', outcome', plateau') =
                EvalVerdict(arm, measured[Len(measured)], attempt, stop,
                            measured, noProgress)
           I == PlateauInv /\ VerdictInv
<1>1. Init => I
  BY InitPlateau, InitTypeInv, InitVerdict DEF VerdictInv
<1>2. I /\ [Next]_episodeVars => I'
  BY StepPlateau, StepVerdict
<1>3. I /\ [Next]_episodeVars => [Agrees]_episodeVars
  <2> SUFFICES ASSUME I, Next, pc = "judge" PROVE Agrees
    BY DEF episodeVars
  <2>1. Judge
    BY DEF Next, Reset, Stage1Answers, Stage1Fails, ExecuteCommand,
           RoundsExhausted
  <2> QED  BY <2>1, JudgeAgrees DEF VerdictInv
<1> HIDE DEF I
<1> QED  BY <1>1, <1>2, <1>3, PTL DEF Spec, EvalAgrees
=============================================================================
