---------------------------- MODULE CollectRunProofs ----------------------------
(***************************************************************************)
(* Theorems of CollectRun for every ladder of levels, advance rule, number *)
(* of episodes and cadence of the curriculum check.                        *)
(***************************************************************************)
EXTENDS CollectRun, FiniteSetTheorems, TLAPS

\* The record that WriteEpisode puts on disk for the episode under way.
CurrentRecord == [ep |-> ep, level |-> level, outcome |-> result.outcome,
                  rounds |-> result.rounds]

\* The positions of the loop after the write, up to the next episode.
Written == {"dump", "recap", "record"}

InEpisode == {"rounds", "write", "recap", "dump", "record", "check"}

\* Where the loop is, in terms of the episode it works on.
Placed ==
    /\ pc \in InEpisode => ep < MaxEpisodes /\ level = current
    /\ pc \in Written => CurrentRecord \in replay
    /\ pc = "recap" => recapping
    /\ pc # "stopped" => exit = "running"
    /\ \A r \in replay :
           r.ep < ep \/ (r.ep = ep /\ pc \in Written \cup {"check", "stopped"})

TypeInv == TypeOK /\ Placed

\* The start level and the position of the last one.
LEMMA Ladder ==
    /\ Len(LevelOrder) \in Nat
    /\ StartAt \in Positions
    /\ Positions = 1..Len(LevelOrder)
  BY CurriculumAssumption DEF CurriculumAssumption, Positions

-----------------------------------------------------------------------------
(* Types.                                                                  *)

LEMMA InitTypeInv == Init => TypeInv
<1> SUFFICES ASSUME Init PROVE TypeInv
  OBVIOUS
<1> USE CollectAssumption, Ladder DEF Init, CollectAssumption
<1>1. CurriculumTypeOK
  BY DEF CurriculumInit, CurriculumTypeOK, LevelStatus
<1>2. OldRecap \in [ep : Nat \cup {-1}, level : Positions]
  BY DEF OldRecap, EnvLevel
<1>3. result \in [outcome : Outcomes, rounds : 0..MaxRounds]
  OBVIOUS
<1>4. stats \in [total : Nat, success : Nat, parseFails : Nat]
  OBVIOUS
<1>5. ep \in 0..MaxEpisodes /\ level \in Positions
  OBVIOUS
<1>6. TypeOK
  BY <1>1, <1>2, <1>3, <1>4, <1>5 DEF TypeOK
<1>7. Placed
  BY DEF Placed, InEpisode, Written
<1> QED  BY <1>6, <1>7 DEF TypeInv

\* The curriculum's operations keep its types.
LEMMA RecordEpisodeType ==
    ASSUME CurriculumTypeOK, NEW o, RecordEpisode(o)
    PROVE  CurriculumTypeOK'
  BY DEF CurriculumTypeOK, RecordEpisode

LEMMA CheckAdvanceType ==
    ASSUME CurriculumTypeOK, CheckAdvance
    PROVE  CurriculumTypeOK'
<1> USE Ladder DEF CurriculumTypeOK, LevelStatus
<1>1. CASE Block
  BY <1>1 DEF Block
<1>2. CASE Advance
  <2>1. current' \in Positions /\ current + 1 \in Positions
    BY <1>2 DEF Advance, CanAdvance
  <2>2. status' \in [Positions -> LevelStatus]
    BY <1>2, <2>1 DEF Advance
  <2> QED  BY <1>2, <2>1, <2>2 DEF Advance
<1>3. CASE Hold
  BY <1>3 DEF Hold, curriculumVars
<1> QED  BY <1>1, <1>2, <1>3 DEF CheckAdvance

\* Counters of CollectStats stay counters.
LEMMA StatsAdd ==
    ASSUME NEW t \in [total : Nat, success : Nat, parseFails : Nat],
           NEW s \in Nat, NEW f \in Nat
    PROVE  [t EXCEPT !.success = @ + s, !.parseFails = @ + f]
               \in [total : Nat, success : Nat, parseFails : Nat]
<1> DEFINE u == [t EXCEPT !.success = @ + s]
<1>1. u \in [total : Nat, success : Nat, parseFails : Nat]
  OBVIOUS
<1>2. u.parseFails + f \in Nat /\ u.parseFails = t.parseFails
  BY <1>1
<1> HIDE DEF u
<1>3. [u EXCEPT !.parseFails = @ + f]
          \in [total : Nat, success : Nat, parseFails : Nat]
  BY <1>1, <1>2
<1> QED  BY <1>3 DEF u

LEMMA EpisodeStepsTypeInv ==
    TypeInv /\ (StartEpisode \/ RunRounds \/ WriteEpisode \/ DumpMeta)
        => TypeInv'
<1> SUFFICES ASSUME TypeInv,
                    StartEpisode \/ RunRounds \/ WriteEpisode \/ DumpMeta
             PROVE  TypeInv'
  OBVIOUS
<1> USE CollectAssumption DEF CollectAssumption, TypeInv, TypeOK
<1>1. CurriculumTypeOK' /\ UNCHANGED curriculumVars
  BY DEF StartEpisode, RunRounds, WriteEpisode, DumpMeta, curriculumVars,
         CurriculumTypeOK
<1>2. CASE StartEpisode
  <2>1. TypeOK'
    BY <1>1, <1>2 DEF StartEpisode, CurriculumTypeOK
  <2>2. Placed'
    BY <1>2 DEF StartEpisode, Placed, InEpisode, Written, curriculumVars
  <2> QED  BY <2>1, <2>2
<1>3. CASE RunRounds
  <2>1. result' \in [outcome : Outcomes, rounds : 0..MaxRounds]
    BY <1>3 DEF RunRounds, Results, Contract!EndedResults
  <2>2. stats' \in [total : Nat, success : Nat, parseFails : Nat]
    <3>1. PICK s \in Nat, f \in Nat :
              stats' = [stats EXCEPT !.success = @ + s, !.parseFails = @ + f]
      <4> DEFINE s == IF result'.outcome = "success" THEN 1 ELSE 0
                 f == IF result'.outcome = "vlm_parse_fail" THEN 1 ELSE 0
      <4>1. s \in Nat /\ f \in Nat
        OBVIOUS
      <4>2. stats' = [stats EXCEPT !.success = @ + s, !.parseFails = @ + f]
        BY <1>3 DEF RunRounds
      <4> HIDE DEF s, f
      <4> QED  BY <4>1, <4>2
    <3> QED  BY <3>1, StatsAdd
  <2>3. TypeOK'
    BY <1>1, <1>3, <2>1, <2>2 DEF RunRounds
  <2>4. Placed'
    BY <1>3 DEF RunRounds, Placed, InEpisode, Written, curriculumVars
  <2> QED  BY <2>3, <2>4
<1>4. CASE WriteEpisode
  <2>1. replay' = replay \cup {CurrentRecord} /\ CurrentRecord \in ReplayRecord
    BY <1>4 DEF WriteEpisode, CurrentRecord, ReplayRecord
  <2>2. TypeOK'
    BY <1>1, <1>4, <2>1 DEF WriteEpisode
  <2>3. UNCHANGED <<ep, level, result, current>> /\ CurrentRecord' = CurrentRecord
    BY <1>4 DEF WriteEpisode, CurrentRecord, curriculumVars
  <2>4. pc = "write" /\ pc' = "dump" /\ exit' = exit
    BY <1>4 DEF WriteEpisode
  <2>5. Placed'
    BY <2>1, <2>3, <2>4 DEF Placed, InEpisode, Written, CurrentRecord
  <2> QED  BY <2>2, <2>5
<1>5. CASE DumpMeta
  <2>1. TypeOK'
    BY <1>1, <1>5 DEF DumpMeta
  <2>2. Placed'
    BY <1>5 DEF DumpMeta, Placed, InEpisode, Written, CurrentRecord, curriculumVars
  <2> QED  BY <2>1, <2>2
<1> QED  BY <1>2, <1>3, <1>4, <1>5

\* Episodes on disk are numbered.
LEMMA EpisodeNumbers ==
    ASSUME TypeOK
    PROVE  ep \in Nat /\ \A r \in replay : r.ep \in Nat
  BY CollectAssumption DEF CollectAssumption, TypeOK, ReplayRecord

LEMMA AfterStepsTypeInv ==
    TypeInv /\ (EmitRecap \/ Account \/ CheckCurriculum) => TypeInv'
<1> SUFFICES ASSUME TypeInv, EmitRecap \/ Account \/ CheckCurriculum
             PROVE  TypeInv'
  OBVIOUS
<1> USE CollectAssumption DEF CollectAssumption, TypeInv, TypeOK
<1>1. CASE EmitRecap
  <2>1. [ep |-> ep, level |-> level] \in [ep : Nat \cup {-1}, level : Positions]
    OBVIOUS
  <2>2. TypeOK'
    BY <1>1, <2>1 DEF EmitRecap, CurriculumTypeOK, curriculumVars
  <2>3. Placed'
    BY <1>1 DEF EmitRecap, Placed, InEpisode, Written, CurrentRecord, curriculumVars
  <2> QED  BY <2>2, <2>3
<1>2. CASE Account
  <2>1. CurriculumTypeOK' /\ current' = current
    BY <1>2, RecordEpisodeType DEF Account, RecordEpisode
  <2>2. stats' \in [total : Nat, success : Nat, parseFails : Nat]
    BY <1>2 DEF Account
  <2>3. /\ UNCHANGED <<level, result, seen, replay, memory, recapping, exit>>
        /\ pc = "record"
        /\ \/ pc' = "check" /\ ep' = ep
           \/ pc' = "next" /\ ep' = ep + 1
    BY <1>2 DEF Account, NextEpisode
  <2>4. ep < MaxEpisodes
    BY <2>3 DEF Placed, InEpisode
  <2>5. TypeOK'
    BY <2>1, <2>2, <2>3, <2>4
  <2>6. Placed'
    BY <2>1, <2>3, EpisodeNumbers DEF Placed, InEpisode, Written
  <2> QED  BY <2>5, <2>6
<1>3. CASE CheckCurriculum
  <2>1. CurriculumTypeOK'
    BY <1>3, CheckAdvanceType DEF CheckCurriculum
  <2>2. /\ UNCHANGED <<level, result, seen, replay, memory, recapping, stats, exit>>
        /\ pc = "check" /\ pc' = "next" /\ ep' = ep + 1
    BY <1>3 DEF CheckCurriculum, NextEpisode
  <2>3. ep < MaxEpisodes
    BY <2>2 DEF Placed, InEpisode
  <2>4. TypeOK'
    BY <2>1, <2>2, <2>3
  <2>5. Placed'
    BY <2>2, EpisodeNumbers DEF Placed, InEpisode, Written
  <2> QED  BY <2>4, <2>5
<1> QED  BY <1>1, <1>2, <1>3

LEMMA OtherStepsTypeInv ==
    TypeInv /\ (FinishLoop \/ Abandon \/ Kill \/ Clock \/ UNCHANGED vars)
        => TypeInv'
<1> SUFFICES ASSUME TypeInv,
                    FinishLoop \/ Abandon \/ Kill \/ Clock \/ UNCHANGED vars
             PROVE  TypeInv'
  OBVIOUS
<1>1. /\ UNCHANGED <<ep, level, result, seen, replay, memory, recapping, stats>>
      /\ UNCHANGED <<current, status, totals, successes, frozen>>
      /\ overdue' \in {overdue, TRUE}
      /\ \/ UNCHANGED <<pc, exit>>
         \/ pc' = "stopped" /\ exit' \in {"complete", "error", "killed"}
  BY DEF FinishLoop, Abandon, Kill, Clock, TimePasses, vars, curriculumVars,
         collectVars
<1>2. TypeOK'
  BY <1>1 DEF TypeInv, TypeOK, CurriculumTypeOK
<1>3. Placed'
  BY <1>1 DEF TypeInv, Placed, InEpisode, Written, CurrentRecord
<1> QED  BY <1>2, <1>3 DEF TypeInv

LEMMA StepTypeInv == TypeInv /\ [Next]_vars => TypeInv'
  BY EpisodeStepsTypeInv, AfterStepsTypeInv, OtherStepsTypeInv DEF Next, Loop

\* The run's state has its types, whatever the constants.
THEOREM TypeCorrect == Spec => []TypeOK
<1>1. TypeInv => TypeOK
  BY DEF TypeInv
<1> QED  BY <1>1, InitTypeInv, StepTypeInv, PTL DEF Spec

-----------------------------------------------------------------------------
(* The ladder of levels, and runs with a frozen level.                     *)

LadderInv ==
    /\ TypeInv
    /\ StartAt <= current
    /\ LadderShape
    /\ frozen => current = StartAt

\* A step either leaves the curriculum's levels alone, counts an episode, or
\* checks the advance.
LEMMA CurriculumSteps ==
    ASSUME [Next]_vars
    PROVE  \/ UNCHANGED <<current, status, totals, successes, frozen>>
           \/ Account /\ RecordEpisode(result.outcome)
           \/ CheckCurriculum /\ CheckAdvance
<1> USE DEF curriculumVars
<1>1. CASE StartEpisode \/ RunRounds \/ WriteEpisode \/ DumpMeta \/ EmitRecap
  BY <1>1 DEF StartEpisode, RunRounds, WriteEpisode, DumpMeta, EmitRecap
<1>2. CASE FinishLoop \/ Abandon \/ Kill \/ Clock \/ UNCHANGED vars
  BY <1>2 DEF FinishLoop, Abandon, Kill, Clock, TimePasses, vars
<1>3. CASE Account
  BY <1>3 DEF Account
<1>4. CASE CheckCurriculum
  BY <1>4 DEF CheckCurriculum
<1> QED  BY <1>1, <1>2, <1>3, <1>4 DEF Next, Loop

LEMMA StepLadder == LadderInv /\ [Next]_vars => LadderInv'
<1> SUFFICES ASSUME LadderInv, [Next]_vars PROVE LadderInv'
  OBVIOUS
<1>1. TypeInv'
  BY StepTypeInv DEF LadderInv
<1>2. /\ StartAt \in Nat /\ current \in Nat /\ current \in Positions
      /\ status \in [Positions -> LevelStatus]
      /\ totals \in [Positions -> Nat] /\ Positions \subseteq Nat
      /\ Positions = 1..Len(LevelOrder) /\ Len(LevelOrder) \in Nat
  BY Ladder DEF LadderInv, TypeInv, TypeOK, CurriculumTypeOK
<1>3. CASE UNCHANGED <<current, status, totals, successes, frozen>>
  BY <1>1, <1>3 DEF LadderInv, LadderShape
<1>4. CASE Account /\ RecordEpisode(result.outcome)
  <2>1. /\ totals' = [totals EXCEPT ![current] = @ + 1]
        /\ UNCHANGED <<current, status, frozen>>
    BY <1>4 DEF RecordEpisode
  <2>2. LadderShape'
    BY <1>2, <2>1 DEF LadderInv, LadderShape
  <2> QED  BY <1>1, <2>1, <2>2 DEF LadderInv
<1>5. CASE CheckAdvance
  <2>1. CASE Block
    <3>1. /\ status' = [status EXCEPT ![current] = "blocked"]
          /\ UNCHANGED <<current, totals, frozen>>
      BY <2>1 DEF Block
    <3> QED  BY <1>1, <1>2, <3>1 DEF LadderInv, LadderShape
  <2>2. CASE Advance
    <3>1. /\ ~frozen /\ current + 1 \in Positions
          /\ status' = [status EXCEPT ![current] = "passed",
                                      ![current + 1] = "active"]
          /\ current' = current + 1 /\ UNCHANGED <<totals, frozen>>
      BY <1>2, <2>2 DEF Advance, CanAdvance
    <3>2. LadderShape'
      <4> SUFFICES ASSUME NEW p \in Positions
                   PROVE  /\ p < StartAt \/ p > current' =>
                                status'[p] = "locked" /\ totals'[p] = 0
                          /\ StartAt <= p /\ p < current' => status'[p] = "passed"
                          /\ p = current' => status'[p] \in {"active", "blocked"}
        BY DEF LadderShape
      <4>1. p \in Nat
        BY <1>2
      <4>2. CASE p = current
        BY <4>1, <4>2, <1>2, <3>1 DEF LadderInv
      <4>3. CASE p = current + 1
        BY <4>1, <4>3, <1>2, <3>1 DEF LadderInv
      <4>4. CASE p # current /\ p # current + 1
        <5>1. status'[p] = status[p] /\ totals'[p] = totals[p]
          BY <4>4, <1>2, <3>1
        <5> QED  BY <4>1, <4>4, <5>1, <1>2, <3>1 DEF LadderInv, LadderShape
      <4> QED  BY <4>2, <4>3, <4>4
    <3> QED  BY <1>1, <1>2, <3>1, <3>2 DEF LadderInv
  <2>3. CASE Hold
    BY <1>1, <2>3 DEF Hold, curriculumVars, LadderInv, LadderShape
  <2> QED  BY <1>5, <2>1, <2>2, <2>3 DEF CheckAdvance
<1> QED  BY <1>3, <1>4, <1>5, CurriculumSteps

LEMMA InitLadder == Init => LadderInv
<1> SUFFICES ASSUME Init PROVE LadderInv
  OBVIOUS
<1>1. StartAt \in Nat /\ Positions \subseteq Nat
  BY Ladder
<1>2. StartAt <= current /\ LadderShape
  BY <1>1, Ladder DEF Init, CurriculumInit, LadderShape
<1> QED  BY <1>2, InitTypeInv DEF LadderInv, Init, CurriculumInit

\* The levels form a ladder around the current one.
THEOREM LadderKept == Spec => []LadderShape
<1>1. LadderInv => LadderShape
  BY DEF LadderInv
<1> QED  BY <1>1, InitLadder, StepLadder, PTL DEF Spec

FrozenInv == LadderInv /\ FrozenRunIsSingleTask

LEMMA StepFrozen == FrozenInv /\ [Next]_vars => FrozenInv'
<1> SUFFICES ASSUME FrozenInv, [Next]_vars PROVE FrozenInv'
  OBVIOUS
<1>1. LadderInv'
  BY StepLadder DEF FrozenInv
<1>2. frozen' = frozen
  BY CurriculumSteps DEF RecordEpisode, CheckAdvance, Block, Advance, Hold,
                         curriculumVars
<1>3. CASE UNCHANGED <<replay, memory>>
  BY <1>1, <1>2, <1>3 DEF FrozenInv, FrozenRunIsSingleTask
<1>4. CASE WriteEpisode \/ EmitRecap
  <2>1. frozen => level = EnvLevel
    BY <1>4 DEF WriteEpisode, EmitRecap, FrozenInv, LadderInv, TypeInv, Placed,
                InEpisode, EnvLevel
  <2>2. \A r \in replay' \cup memory' :
            r \in replay \cup memory \/ r.level = level
    BY <1>4 DEF WriteEpisode, EmitRecap
  <2> QED  BY <1>1, <1>2, <2>1, <2>2 DEF FrozenInv, FrozenRunIsSingleTask
<1>5. [Next]_vars /\ ~(WriteEpisode \/ EmitRecap) => UNCHANGED <<replay, memory>>
  BY DEF Next, Loop, StartEpisode, RunRounds, DumpMeta, Account, CheckCurriculum,
         FinishLoop, Abandon, Kill, Clock, vars, collectVars
<1> QED  BY <1>3, <1>4, <1>5

\* A frozen run records and remembers only the task of its simulator.
THEOREM FrozenIsSingleTask == Spec => []FrozenRunIsSingleTask
<1>1. Init => FrozenRunIsSingleTask
  BY DEF Init, FrozenRunIsSingleTask, OldRecap
<1>2. Init => FrozenInv
  BY <1>1, InitLadder DEF FrozenInv
<1>3. FrozenInv => FrozenRunIsSingleTask
  BY DEF FrozenInv
<1> QED  BY <1>2, <1>3, StepFrozen, PTL DEF Spec

-----------------------------------------------------------------------------
(* Memory.                                                                 *)

MemoryInv ==
    /\ TypeInv
    /\ MemoryIsCausal
    /\ \A m \in memory :
           m.ep < ep \/ (m.ep = ep /\ pc \in {"record", "check", "stopped"})

LEMMA StepMemory == MemoryInv /\ [Next]_vars => MemoryInv'
<1> SUFFICES ASSUME MemoryInv, [Next]_vars PROVE MemoryInv'
  OBVIOUS
<1> USE DEF MemoryInv, MemoryIsCausal
<1>1. TypeInv'
  BY StepTypeInv
<1>2. /\ ep \in Nat /\ \A m \in memory \cup seen : m.ep \in Int
      /\ recapping' = recapping
  BY CollectAssumption
     DEF CollectAssumption, TypeInv, TypeOK, Next, Loop, StartEpisode, RunRounds,
         WriteEpisode, DumpMeta, EmitRecap, Account, CheckCurriculum, FinishLoop,
         Abandon, Kill, Clock, vars, collectVars
<1>3. CASE StartEpisode
  <2>1. /\ seen' = memory /\ UNCHANGED <<memory, replay, ep>> /\ pc = "next"
        /\ pc' = "rounds"
    BY <1>3 DEF StartEpisode
  <2> QED  BY <1>1, <1>2, <2>1
<1>4. CASE RunRounds \/ DumpMeta \/ FinishLoop \/ Abandon \/ Kill \/ Clock
           \/ UNCHANGED vars
  <2>1. /\ UNCHANGED <<seen, memory, replay, ep>>
        /\ pc' = "stopped" \/ pc \notin {"record", "check", "stopped"} \/ pc' = pc
    BY <1>4 DEF RunRounds, DumpMeta, FinishLoop, Abandon, Kill, Clock, vars,
                collectVars
  <2> QED  BY <1>1, <1>2, <2>1
<1>5. CASE WriteEpisode
  <2>1. /\ UNCHANGED <<seen, memory, ep>> /\ pc = "write" /\ replay \subseteq replay'
    BY <1>5 DEF WriteEpisode
  <2> QED  BY <1>1, <1>2, <2>1
<1>6. CASE EmitRecap
  <2>1. /\ UNCHANGED <<seen, replay, ep>> /\ pc = "recap" /\ pc' = "record"
        /\ recapping /\ CurrentRecord \in replay
    BY <1>6 DEF EmitRecap, TypeInv, Placed, Written
  <2>2. \/ memory' = memory
        \/ /\ memory' = memory \cup {[ep |-> ep, level |-> level]}
           /\ result.rounds > 0
    BY <1>6 DEF EmitRecap
  <2>3. CASE memory' = memory
    BY <1>1, <1>2, <2>1, <2>3
  <2>4. CASE /\ memory' = memory \cup {[ep |-> ep, level |-> level]}
             /\ result.rounds > 0
    <3>1. \E r \in replay : r.ep = ep /\ r.level = level /\ r.rounds > 0
      BY <2>1, <2>4 DEF CurrentRecord
    <3> QED  BY <1>1, <1>2, <2>1, <2>4, <3>1
  <2> QED  BY <2>2, <2>3, <2>4
<1>7. CASE Account \/ CheckCurriculum
  <2>1. /\ UNCHANGED <<seen, memory, replay>> /\ pc \in {"record", "check"}
        /\ \/ pc' = "check" /\ ep' = ep
           \/ pc' = "next" /\ ep' = ep + 1
    BY <1>7 DEF Account, CheckCurriculum, NextEpisode
  <2> QED  BY <1>1, <1>2, <2>1
<1> QED  BY <1>3, <1>4, <1>5, <1>6, <1>7 DEF Next, Loop

\* A retrieval sees only earlier episodes, and every recap of the run stands
\* for a recorded episode that executed a round.
THEOREM MemoryCausality == Spec => []MemoryIsCausal
<1>1. Init => MemoryInv
  BY InitTypeInv DEF Init, MemoryInv, MemoryIsCausal, OldRecap
<1>2. MemoryInv => MemoryIsCausal
  BY DEF MemoryInv
<1> QED  BY <1>1, <1>2, StepMemory, PTL DEF Spec

-----------------------------------------------------------------------------
(* The counters and the files.                                             *)

CountInv ==
    /\ LadderInv
    /\ IsFiniteSet(replay)
    /\ CountersMatchReplay

\* Adding a record to the files of its level adds one to their number.
LEMMA OneMore ==
    ASSUME NEW T, IsFiniteSet(T), NEW x, x \notin T
    PROVE  IsFiniteSet(T \cup {x}) /\ Cardinality(T \cup {x}) = Cardinality(T) + 1
  BY FS_AddElement

LEMMA WriteCount == CountInv /\ WriteEpisode => CountInv'
<1> SUFFICES ASSUME CountInv, WriteEpisode PROVE CountInv'
  OBVIOUS
<1> DEFINE new == CurrentRecord
<1>1. LadderInv'
  BY StepLadder DEF CountInv, Next, Loop
<1>2. /\ replay' = replay \cup {new} /\ IsFiniteSet(replay)
      /\ pc = "write" /\ pc' = "dump" /\ new.level = current
      /\ new.outcome = result.outcome /\ new.ep = ep /\ exit = "running"
      /\ UNCHANGED <<current, totals, successes, result, exit>>
  BY DEF WriteEpisode, CurrentRecord, curriculumVars, CountInv, LadderInv, TypeInv,
         Placed, InEpisode
<1>3. new \notin replay
  BY <1>2, EpisodeNumbers DEF CountInv, LadderInv, TypeInv, Placed, Written
<1> HIDE DEF new
<1>4. IsFiniteSet(replay')
  BY <1>2, <1>3, OneMore
<1>5. ASSUME NEW p \in Positions
      PROVE  /\ Cardinality(Recorded(p)') =
                    totals'[p] + (IF Unaccounted(p)' THEN 1 ELSE 0)
             /\ Cardinality(RecordedSuccesses(p)') =
                    successes'[p] +
                        (IF Unaccounted(p)' /\ result'.outcome = "success"
                         THEN 1 ELSE 0)
  <2>1. /\ IsFiniteSet(Recorded(p)) /\ IsFiniteSet(RecordedSuccesses(p))
        /\ Cardinality(Recorded(p)) = totals[p]
        /\ Cardinality(RecordedSuccesses(p)) = successes[p]
        /\ totals[p] \in Nat /\ successes[p] \in Nat
    <3>1. Recorded(p) \subseteq replay /\ RecordedSuccesses(p) \subseteq replay
      BY DEF Recorded, RecordedSuccesses
    <3>2. /\ IsFiniteSet(Recorded(p)) /\ IsFiniteSet(RecordedSuccesses(p))
      BY <3>1, <1>2, FS_Subset
    <3>3. totals[p] \in Nat /\ successes[p] \in Nat
      BY DEF CountInv, LadderInv, TypeInv, TypeOK, CurriculumTypeOK
    <3> QED  BY <3>2, <3>3, <1>2 DEF CountInv, CountersMatchReplay, Unaccounted
  <2>2. CASE p # current
    <3>1. Recorded(p)' = Recorded(p) /\ RecordedSuccesses(p)' = RecordedSuccesses(p)
      BY <1>2, <2>2 DEF Recorded, RecordedSuccesses
    <3> QED  BY <3>1, <2>1, <2>2, <1>2 DEF Unaccounted
  <2>3. CASE p = current
    <3>1. /\ Recorded(p)' = Recorded(p) \cup {new} /\ new \notin Recorded(p)
          /\ Unaccounted(p)'
      BY <1>2, <1>3, <2>3 DEF Recorded, Unaccounted
    <3>2. Cardinality(Recorded(p)') = totals[p] + 1
      BY <3>1, <2>1, OneMore
    <3>3. CASE result.outcome = "success"
      <4>1. /\ RecordedSuccesses(p)' = RecordedSuccesses(p) \cup {new}
            /\ new \notin RecordedSuccesses(p)
        BY <1>2, <3>1, <3>3 DEF RecordedSuccesses
      <4>2. Cardinality(RecordedSuccesses(p)') = successes[p] + 1
        BY <4>1, <2>1, OneMore
      <4> QED  BY <4>2, <3>1, <3>2, <3>3, <1>2
    <3>4. CASE result.outcome # "success"
      <4>1. RecordedSuccesses(p)' = RecordedSuccesses(p)
        BY <1>2, <3>1, <3>4 DEF RecordedSuccesses
      <4> QED  BY <4>1, <2>1, <3>1, <3>2, <3>4, <1>2
    <3> QED  BY <3>3, <3>4
  <2> QED  BY <2>2, <2>3
<1> QED  BY <1>1, <1>4, <1>5 DEF CountInv, CountersMatchReplay

LEMMA AccountCount == CountInv /\ Account => CountInv'
<1> SUFFICES ASSUME CountInv, Account PROVE CountInv'
  OBVIOUS
<1>1. LadderInv'
  BY StepLadder DEF CountInv, Next, Loop
<1>2. /\ pc = "record" /\ pc' \in {"check", "next"} /\ exit = "running"
      /\ totals' = [totals EXCEPT ![current] = @ + 1]
      /\ successes' = IF result.outcome = "success"
                      THEN [successes EXCEPT ![current] = @ + 1] ELSE successes
      /\ UNCHANGED <<current, replay, result, exit>>
      /\ totals \in [Positions -> Nat] /\ successes \in [Positions -> Nat]
  BY DEF Account, RecordEpisode, NextEpisode, CountInv, LadderInv, TypeInv, TypeOK,
         CurriculumTypeOK, Placed
<1>3. \A p \in Positions :
          /\ Recorded(p)' = Recorded(p) /\ RecordedSuccesses(p)' = RecordedSuccesses(p)
          /\ ~Unaccounted(p)' /\ (Unaccounted(p) <=> p = current)
  BY <1>2 DEF Recorded, RecordedSuccesses, Unaccounted
<1>4. ASSUME NEW p \in Positions
      PROVE  /\ Cardinality(Recorded(p)) = totals'[p]
             /\ Cardinality(RecordedSuccesses(p)) = successes'[p]
  <2>1. /\ Cardinality(Recorded(p)) = totals[p] + (IF p = current THEN 1 ELSE 0)
        /\ Cardinality(RecordedSuccesses(p)) =
               successes[p] + (IF p = current /\ result.outcome = "success"
                               THEN 1 ELSE 0)
    BY <1>2, <1>3 DEF CountInv, CountersMatchReplay
  <2> HIDE DEF Recorded, RecordedSuccesses
  <2>2. CASE p = current
    BY <2>1, <2>2, <1>2
  <2>3. CASE p # current
    BY <2>1, <2>3, <1>2
  <2> QED  BY <2>2, <2>3
<1>5. CountersMatchReplay'
  <2> SUFFICES ASSUME NEW p \in Positions
               PROVE  /\ Cardinality(Recorded(p)') =
                            totals'[p] + (IF Unaccounted(p)' THEN 1 ELSE 0)
                      /\ Cardinality(RecordedSuccesses(p)') =
                            successes'[p] +
                               (IF Unaccounted(p)' /\ result'.outcome = "success"
                                THEN 1 ELSE 0)
    BY DEF CountersMatchReplay
  <2>1. totals'[p] \in Nat /\ successes'[p] \in Nat
    BY <1>1 DEF LadderInv, TypeInv, TypeOK, CurriculumTypeOK
  <2> QED  BY <2>1, <1>3, <1>4
<1> QED  BY <1>1, <1>2, <1>5 DEF CountInv

\* Other steps change neither files nor counters, and move between places
\* where the same records are accounted for.
LEMMA OtherCount ==
    CountInv /\ [Next]_vars /\ ~WriteEpisode /\ ~Account => CountInv'
<1> SUFFICES ASSUME CountInv, [Next]_vars, ~WriteEpisode, ~Account
             PROVE  CountInv'
  OBVIOUS
<1>1. LadderInv'
  BY StepLadder DEF CountInv
<1>2. UNCHANGED <<replay, totals, successes>>
  BY DEF Next, Loop, StartEpisode, RunRounds, DumpMeta, EmitRecap, CheckCurriculum,
         CheckAdvance, Block, Advance, Hold, FinishLoop, Abandon, Kill, Clock,
         TimePasses, vars, curriculumVars, collectVars
<1>3. CASE exit' \notin {"running", "complete"}
  BY <1>1, <1>2, <1>3 DEF CountInv, CountersMatchReplay
<1>4. CASE exit' \in {"running", "complete"}
  <2>1. exit \in {"running", "complete"}
    BY <1>4 DEF Next, Loop, StartEpisode, RunRounds, DumpMeta, EmitRecap,
                CheckCurriculum, FinishLoop, Abandon, Kill, Clock, vars, collectVars,
                CountInv, LadderInv, TypeInv, Placed
  <2>2. \/ UNCHANGED <<current, result>> /\ (pc' \in Written <=> pc \in Written)
        \/ pc \notin Written /\ pc' \notin Written
    BY <1>4 DEF Next, Loop, StartEpisode, RunRounds, DumpMeta, EmitRecap,
                CheckCurriculum, NextEpisode, FinishLoop, Abandon, Kill, Clock,
                TimePasses, vars, curriculumVars, collectVars, Written
  <2>3. \A p \in Positions :
            /\ Recorded(p)' = Recorded(p) /\ RecordedSuccesses(p)' = RecordedSuccesses(p)
            /\ \/ ~Unaccounted(p) /\ ~Unaccounted(p)'
               \/ (Unaccounted(p)' <=> Unaccounted(p)) /\ result' = result
    BY <1>2, <2>2 DEF Recorded, RecordedSuccesses, Unaccounted, Written
  <2>4. CountersMatchReplay'
    <3> SUFFICES ASSUME NEW p \in Positions
                 PROVE  /\ Cardinality(Recorded(p)') =
                              totals'[p] + (IF Unaccounted(p)' THEN 1 ELSE 0)
                        /\ Cardinality(RecordedSuccesses(p)') =
                              successes'[p] +
                                 (IF Unaccounted(p)' /\ result'.outcome = "success"
                                  THEN 1 ELSE 0)
      BY DEF CountersMatchReplay
    <3>1. /\ Cardinality(Recorded(p)) =
               totals[p] + (IF Unaccounted(p) THEN 1 ELSE 0)
          /\ Cardinality(RecordedSuccesses(p)) =
               successes[p] + (IF Unaccounted(p) /\ result.outcome = "success"
                               THEN 1 ELSE 0)
      BY <2>1 DEF CountInv, CountersMatchReplay
    <3> QED  BY <3>1, <1>2, <2>3
  <2> QED  BY <1>1, <1>2, <2>4 DEF CountInv
<1> QED  BY <1>3, <1>4

LEMMA StepCount == CountInv /\ [Next]_vars => CountInv'
  BY WriteCount, AccountCount, OtherCount

LEMMA InitCount == Init => CountInv
<1> SUFFICES ASSUME Init PROVE CountInv
  OBVIOUS
<1>1. LadderInv /\ IsFiniteSet(replay)
  BY InitLadder, FS_EmptySet DEF Init
<1>2. \A p \in Positions :
          /\ Recorded(p) = {} /\ RecordedSuccesses(p) = {} /\ ~Unaccounted(p)
          /\ totals[p] = 0 /\ successes[p] = 0
  BY DEF Init, CurriculumInit, Recorded, RecordedSuccesses, Unaccounted
<1>3. CountersMatchReplay
  BY <1>2, FS_EmptySet DEF CountersMatchReplay
<1> QED  BY <1>1, <1>3 DEF CountInv

\* The curriculum's counters are those of the files on disk, level by level.
THEOREM CountersCorrect == Spec => []CountersMatchReplay
<1>1. CountInv => CountersMatchReplay
  BY DEF CountInv
<1> QED  BY <1>1, InitCount, StepCount, PTL DEF Spec

-----------------------------------------------------------------------------
(* Merit.                                                                  *)

MeritInv == CountInv /\ PassedOnMerit

LEMMA StepMerit == MeritInv /\ [Next]_vars => MeritInv'
<1> SUFFICES ASSUME MeritInv, [Next]_vars PROVE MeritInv'
  OBVIOUS
<1> USE DEF MeritInv
<1>1. CountInv'
  BY StepCount
<1>2. CASE WriteEpisode
  <2>1. /\ replay' = replay \cup {CurrentRecord} /\ CurrentRecord.level = current
        /\ UNCHANGED status
    BY <1>2 DEF WriteEpisode, CurrentRecord, curriculumVars, CountInv, LadderInv,
                TypeInv, Placed, InEpisode
  <2>2. \A p \in Positions : status[p] = "passed" => p # current
    BY DEF CountInv, LadderInv, LadderShape
  <2>3. \A p \in Positions : p # current =>
            Recorded(p)' = Recorded(p) /\ RecordedSuccesses(p)' = RecordedSuccesses(p)
    BY <2>1 DEF Recorded, RecordedSuccesses
  <2> QED  BY <1>1, <2>1, <2>2, <2>3 DEF PassedOnMerit
<1>3. CASE CheckCurriculum /\ Advance
  <2>1. /\ status' = [status EXCEPT ![current] = "passed", ![current + 1] = "active"]
        /\ Earned(current) /\ UNCHANGED replay /\ pc = "check" /\ exit = "running"
        /\ status \in [Positions -> LevelStatus] /\ current \in Positions
        /\ AdvanceNum \in Nat /\ AdvanceDen \in Nat
        /\ totals[current] \in Nat /\ successes[current] \in Nat
    BY <1>3, CurriculumAssumption
       DEF CurriculumAssumption, CheckCurriculum, Advance, CanAdvance, CountInv,
           LadderInv, TypeInv, TypeOK, Placed, CurriculumTypeOK
  <2>2. \A p \in Positions :
            /\ Recorded(p)' = Recorded(p) /\ RecordedSuccesses(p)' = RecordedSuccesses(p)
            /\ status'[p] = "passed" => status[p] = "passed" \/ p = current
    BY <2>1 DEF Recorded, RecordedSuccesses
  <2>3. /\ Cardinality(Recorded(current)) = totals[current]
        /\ Cardinality(RecordedSuccesses(current)) = successes[current]
    BY <2>1 DEF CountInv, CountersMatchReplay, Unaccounted
  <2>4. /\ Cardinality(Recorded(current)) >= MinSample
        /\ AdvanceDen * Cardinality(RecordedSuccesses(current)) >=
               AdvanceNum * Cardinality(Recorded(current))
    BY <2>1, <2>3 DEF Earned
  <2> QED  BY <1>1, <2>2, <2>4 DEF PassedOnMerit
<1>4. CASE UNCHANGED replay /\ \A p \in Positions :
                                   status'[p] = "passed" => status[p] = "passed"
  BY <1>1, <1>4 DEF PassedOnMerit, Recorded, RecordedSuccesses
<1>5. [Next]_vars /\ ~WriteEpisode => UNCHANGED replay
  BY DEF Next, Loop, StartEpisode, RunRounds, DumpMeta, EmitRecap, Account,
         CheckCurriculum, FinishLoop, Abandon, Kill, Clock, vars, collectVars
<1>6. ASSUME ~(CheckCurriculum /\ Advance), NEW p \in Positions,
             status'[p] = "passed"
      PROVE  status[p] = "passed"
  <2>1. status \in [Positions -> LevelStatus]
    BY DEF CountInv, LadderInv, TypeInv, TypeOK, CurriculumTypeOK
  <2>2. \/ status' = status
        \/ status' = [status EXCEPT ![current] = "blocked"]
    BY <1>6, CurriculumSteps DEF RecordEpisode, CheckAdvance, Block, Hold,
                                 curriculumVars
  <2> QED  BY <1>6, <2>1, <2>2
<1> QED  BY <1>2, <1>3, <1>4, <1>5, <1>6

\* A passed level has the successes among its own files that its pass needs.
THEOREM MeritCorrect == Spec => []PassedOnMerit
<1>1. Init => PassedOnMerit
  BY DEF Init, CurriculumInit, PassedOnMerit
<1>2. Init => MeritInv
  BY <1>1, InitCount DEF MeritInv
<1>3. MeritInv => PassedOnMerit
  BY DEF MeritInv
<1> QED  BY <1>2, <1>3, StepMerit, PTL DEF Spec
-----------------------------------------------------------------------------
(* Completion.                                                             *)

Succeeded == {r \in replay : r.outcome = "success"}

\* As long as no exception or kill has ended the run: one file and one count for
\* every episode that the loop has left, and for the one under way from its write
\* and from its account on; a success is counted when its rounds end, before it is
\* written.
AccountedInv ==
    exit \in {"running", "complete"} =>
        /\ Cardinality(replay) = ep + (IF pc \in Written \cup {"check"} THEN 1 ELSE 0)
        /\ stats.total = ep + (IF pc = "check" THEN 1 ELSE 0)
        /\ stats.success =
               Cardinality(Succeeded)
                   + (IF pc = "write" /\ result.outcome = "success" THEN 1 ELSE 0)
        /\ exit = "complete" => pc = "stopped" /\ (ep = MaxEpisodes \/ IsBlocked)

CompletionInv == CountInv /\ AccountedInv

LEMMA CompletionTypes ==
    ASSUME CompletionInv
    PROVE  /\ ep \in Nat /\ MaxEpisodes \in Nat
           /\ IsFiniteSet(replay) /\ IsFiniteSet(Succeeded)
           /\ Cardinality(replay) \in Nat /\ Cardinality(Succeeded) \in Nat
           /\ stats \in [total : Nat, success : Nat, parseFails : Nat]
           /\ pc # "stopped" => exit = "running"
<1>1. IsFiniteSet(replay) /\ IsFiniteSet(Succeeded)
  BY FS_Subset DEF CompletionInv, CountInv, Succeeded
<1>2. ep \in Nat /\ MaxEpisodes \in Nat
  BY CollectAssumption
     DEF CollectAssumption, CompletionInv, CountInv, LadderInv, TypeInv, TypeOK
<1> QED  BY <1>1, <1>2, FS_CardinalityType
            DEF CompletionInv, CountInv, LadderInv, TypeInv, TypeOK, Placed

\* The rounds end and their success is counted.
LEMMA RoundsAccounted == CompletionInv /\ RunRounds => AccountedInv'
<1> SUFFICES ASSUME CompletionInv, RunRounds PROVE AccountedInv'
  OBVIOUS
<1> DEFINE won == IF result'.outcome = "success" THEN 1 ELSE 0
<1>1. /\ pc = "rounds" /\ pc' = "write" /\ exit = "running"
      /\ UNCHANGED <<ep, replay, exit>>
      /\ Succeeded' = Succeeded
  BY CompletionTypes DEF RunRounds, Succeeded
<1>2. stats'.total = stats.total /\ stats'.success = stats.success + won
  BY CompletionTypes DEF RunRounds
<1> QED  BY <1>1, <1>2, CompletionTypes DEF AccountedInv, CompletionInv, Written

\* The new file is none of the old ones.
LEMMA WriteAccounted == CompletionInv /\ WriteEpisode => AccountedInv'
<1> SUFFICES ASSUME CompletionInv, WriteEpisode PROVE AccountedInv'
  OBVIOUS
<1> DEFINE new == CurrentRecord
<1>1. /\ pc = "write" /\ pc' = "dump" /\ exit = "running"
      /\ UNCHANGED <<ep, stats, result, exit>>
      /\ replay' = replay \cup {new} /\ new.outcome = result.outcome /\ new.ep = ep
  BY CompletionTypes DEF WriteEpisode, CurrentRecord
<1>2. new \notin replay
  BY <1>1, EpisodeNumbers
     DEF CompletionInv, CountInv, LadderInv, TypeInv, Placed, Written
<1> HIDE DEF new
<1>3. Cardinality(replay') = Cardinality(replay) + 1
  BY <1>1, <1>2, OneMore, CompletionTypes
<1>4. Cardinality(Succeeded') =
          Cardinality(Succeeded) + (IF result.outcome = "success" THEN 1 ELSE 0)
  <2>1. CASE result.outcome = "success"
    <3>1. Succeeded' = Succeeded \cup {new} /\ new \notin Succeeded
      BY <1>1, <1>2, <2>1 DEF Succeeded
    <3> QED  BY <2>1, <3>1, OneMore, CompletionTypes
  <2>2. CASE result.outcome # "success"
    <3>1. Succeeded' = Succeeded
      BY <1>1, <2>2 DEF Succeeded
    <3> QED  BY <2>2, <3>1, CompletionTypes
  <2> QED  BY <2>1, <2>2
<1> QED  BY <1>1, <1>3, <1>4, CompletionTypes DEF AccountedInv, CompletionInv, Written

\* Account and CheckCurriculum: the count and the number of the episode go up, one
\* after the other or together.
LEMMA AfterAccounted == CompletionInv /\ (Account \/ CheckCurriculum) => AccountedInv'
<1> SUFFICES ASSUME CompletionInv, Account \/ CheckCurriculum PROVE AccountedInv'
  OBVIOUS
<1>1. UNCHANGED <<replay, result, exit>> /\ Succeeded' = Succeeded /\ exit = "running"
  BY CompletionTypes DEF Account, CheckCurriculum, Succeeded
<1>2. CASE Account
  <2>1. /\ pc = "record" /\ stats'.total = stats.total + 1
        /\ stats'.success = stats.success
        /\ \/ pc' = "check" /\ ep' = ep
           \/ pc' = "next" /\ ep' = ep + 1
    BY <1>2, CompletionTypes DEF Account, NextEpisode
  <2> QED  BY <1>1, <2>1, CompletionTypes DEF AccountedInv, CompletionInv, Written
<1>3. CASE CheckCurriculum
  <2>1. pc = "check" /\ stats' = stats /\ pc' = "next" /\ ep' = ep + 1
    BY <1>3 DEF CheckCurriculum, NextEpisode
  <2> QED  BY <1>1, <2>1, CompletionTypes DEF AccountedInv, CompletionInv, Written
<1> QED  BY <1>2, <1>3

\* The other steps count nothing; FinishLoop takes its reason with it.
LEMMA OtherAccounted ==
    CompletionInv /\ [Next]_vars
      /\ ~RunRounds /\ ~WriteEpisode /\ ~Account /\ ~CheckCurriculum => AccountedInv'
<1> SUFFICES ASSUME CompletionInv, [Next]_vars, ~RunRounds, ~WriteEpisode, ~Account,
                    ~CheckCurriculum
             PROVE  AccountedInv'
  OBVIOUS
<1>1. UNCHANGED <<replay, result, ep, stats, current, status>>
  BY DEF Next, Loop, StartEpisode, DumpMeta, EmitRecap, FinishLoop, Abandon, Kill,
         Clock, TimePasses, vars, curriculumVars, collectVars
<1>2. Succeeded' = Succeeded /\ IsBlocked' = IsBlocked
  BY <1>1 DEF Succeeded, IsBlocked
<1>3. \/ UNCHANGED <<pc, exit>>
      \/ exit' \in {"error", "killed"}
      \/ /\ exit' = exit /\ exit = "running"
         /\ \/ pc = "next" /\ pc' = "rounds"
            \/ pc \in Written /\ pc' \in Written
      \/ /\ pc = "next" /\ pc' = "stopped" /\ exit' = "complete" /\ exit = "running"
         /\ ep = MaxEpisodes \/ IsBlocked
  BY CompletionTypes
     DEF Next, Loop, StartEpisode, DumpMeta, EmitRecap, FinishLoop, Abandon, Kill,
         Clock, vars, collectVars, Written
<1> QED  BY <1>1, <1>2, <1>3, CompletionTypes DEF AccountedInv, CompletionInv, Written

\* When main says that the loop completed, every started episode is on disk and
\* counted, and a run that stopped early is blocked.
THEOREM CompletionCorrect == Spec => []CompletionIsAccounted
<1>1. Init => AccountedInv
  <2> SUFFICES ASSUME Init PROVE AccountedInv
    OBVIOUS
  <2>1. replay = {} /\ Succeeded = {} /\ ep = 0 /\ exit = "running" /\ pc = "next"
        /\ stats.total = 0 /\ stats.success = 0
    BY DEF Init, Succeeded
  <2> QED  BY <2>1, FS_EmptySet DEF AccountedInv, Written
<1>2. Init => CompletionInv
  BY <1>1, InitCount DEF CompletionInv
<1>3. CompletionInv /\ [Next]_vars => CompletionInv'
  BY StepCount, RoundsAccounted, WriteAccounted, AfterAccounted, OtherAccounted
     DEF CompletionInv
<1>4. CompletionInv => CompletionIsAccounted
  BY CompletionTypes DEF CompletionInv, AccountedInv, CompletionIsAccounted, Succeeded,
                         Written
<1> QED  BY <1>2, <1>3, <1>4, PTL DEF Spec
=============================================================================
