------------------------------ MODULE Curriculum ------------------------------
(***************************************************************************)
(* AionGenosCurriculumManager (aiongenos/curriculum/manager.py): the       *)
(* levels, their counters, and the advance / hold / block decision.        *)
(* A level is named by its position in LEVEL_ORDER; time is one bit, set   *)
(* once the current level has been active for blocked_timeout_hours.       *)
(***************************************************************************)
EXTENDS Integers, Sequences

CONSTANTS
    LevelOrder,   \* LEVEL_ORDER: the level ids, in the order of advancement
    StartAt,      \* position of start_level
    AdvanceNum,   \* advance_threshold = AdvanceNum / AdvanceDen
    AdvanceDen,
    MinSample,    \* the literal 10 of check_advance
    MinSuccess    \* min_success_episodes

Positions == 1..Len(LevelOrder)

ASSUME CurriculumAssumption ==
    /\ LevelOrder \in Seq(Int)
    /\ StartAt \in Positions
    /\ AdvanceNum \in Nat
    /\ AdvanceDen \in Nat \ {0}
    /\ MinSample \in Nat
    /\ MinSuccess \in Nat

VARIABLES
    current,    \* position of current_level
    status,     \* levels[*].status
    totals,     \* levels[*].total_count
    successes,  \* levels[*].success_count
    overdue,    \* elapsed_hours of the current level >= blocked_timeout_hours
    frozen      \* freeze_level, fixed at construction

curriculumVars == <<current, status, totals, successes, overdue, frozen>>

LevelStatus == {"locked", "active", "passed", "blocked"}

CurriculumInit ==
    /\ current = StartAt
    /\ status = [p \in Positions |-> IF p = StartAt THEN "active" ELSE "locked"]
    /\ totals = [p \in Positions |-> 0]
    /\ successes = [p \in Positions |-> 0]
    /\ overdue = FALSE
    /\ frozen \in BOOLEAN

IsBlocked == status[current] = "blocked"

\* Mutant of RecordEpisode: an episode without an answer is not counted.
RecordAnsweredEpisode(outcome) ==
    /\ totals' = IF outcome = "vlm_parse_fail" THEN totals
                 ELSE [totals EXCEPT ![current] = @ + 1]
    /\ successes' = IF outcome = "success"
                    THEN [successes EXCEPT ![current] = @ + 1]
                    ELSE successes
    /\ UNCHANGED <<current, status, overdue, frozen>>

RecordEpisode(outcome) ==
    /\ totals' = [totals EXCEPT ![current] = @ + 1]
    /\ successes' = IF outcome = "success"
                    THEN [successes EXCEPT ![current] = @ + 1]
                    ELSE successes
    /\ UNCHANGED <<current, status, overdue, frozen>>

-----------------------------------------------------------------------------
(* check_advance, one disjunct per return.                                  *)

Starving == overdue /\ successes[current] < MinSuccess

\* Mutant of Earned: the number of episodes is enough.
EarnedByAttempts(p) == totals[p] >= MinSample

\* success_rate >= advance_threshold, over a minimum sample.
Earned(p) ==
    /\ AdvanceDen * successes[p] >= AdvanceNum * totals[p]
    /\ totals[p] > 0 \/ AdvanceNum = 0
    /\ totals[p] >= MinSample

CanAdvance == Earned(current) /\ current < Len(LevelOrder)

Block ==
    /\ ~frozen
    /\ Starving
    /\ status' = [status EXCEPT ![current] = "blocked"]
    /\ UNCHANGED <<current, totals, successes, overdue, frozen>>

\* Mutant of Advance (F65): the freeze_level gate is missing.
AdvanceUnfrozen ==
    /\ ~Starving
    /\ CanAdvance
    /\ status' = [status EXCEPT ![current] = "passed", ![current + 1] = "active"]
    /\ current' = current + 1
    /\ overdue' = FALSE
    /\ UNCHANGED <<totals, successes, frozen>>

\* Mutant of Advance: the level left behind keeps its status.
AdvanceKeepsActive ==
    /\ ~frozen
    /\ ~Starving
    /\ CanAdvance
    /\ status' = [status EXCEPT ![current + 1] = "active"]
    /\ current' = current + 1
    /\ overdue' = FALSE
    /\ UNCHANGED <<totals, successes, frozen>>

Advance ==
    /\ ~frozen
    /\ ~Starving
    /\ CanAdvance
    /\ status' = [status EXCEPT ![current] = "passed", ![current + 1] = "active"]
    /\ current' = current + 1
    /\ overdue' = FALSE
    /\ UNCHANGED <<totals, successes, frozen>>

\* Frozen, at the last level, or not there yet.
Hold ==
    /\ frozen \/ (~Starving /\ ~CanAdvance)
    /\ UNCHANGED curriculumVars

CheckAdvance == Block \/ Advance \/ Hold

\* The clock passes the limit of the current level.
TimePasses ==
    /\ ~overdue
    /\ overdue' = TRUE
    /\ UNCHANGED <<current, status, totals, successes, frozen>>

-----------------------------------------------------------------------------
\* get_cumulative_success_levels, of a current level and the levels' statuses: the
\* ids in range(current_level + 1) whose level is passed or active.
CumulativeSuccessLevels(at, states) ==
    {LevelOrder[p] : p \in {q \in Positions :
        /\ LevelOrder[q] \in 0..LevelOrder[at]
        /\ states[q] \in {"passed", "active"}}}

-----------------------------------------------------------------------------
(* Properties.                                                             *)

CurriculumTypeOK ==
    /\ current \in Positions
    /\ status \in [Positions -> LevelStatus]
    /\ totals \in [Positions -> Nat]
    /\ successes \in [Positions -> Nat]
    /\ overdue \in BOOLEAN
    /\ frozen \in BOOLEAN

\* The levels form a ladder around the current one: from the start level up to
\* it all are passed, it alone is active (or blocked), all others are locked.
LadderShape ==
    \A p \in Positions :
        /\ p < StartAt \/ p > current => status[p] = "locked" /\ totals[p] = 0
        /\ StartAt <= p /\ p < current => status[p] = "passed"
        /\ p = current => status[p] \in {"active", "blocked"}
=============================================================================
