------------------------------ MODULE CollectRun ------------------------------
(***************************************************************************)
(* One run of the collector: main of scripts/run_collect.py and            *)
(* run_collect_loop of aiongenos/orchestrator/collect.py, from the first   *)
(* episode to the shutdown.  Each episode's rounds are summed up by the    *)
(* result that EpisodeContract allows; here they meet the curriculum, the  *)
(* replay files and the recap memory.                                      *)
(***************************************************************************)
EXTENDS Curriculum, FiniteSets

CONSTANTS
    MaxEpisodes,   \* max_episodes
    CheckEvery,    \* check_advance_every
    MaxRounds,     \* rounds of an episode, see EpisodeContract
    PlateauFloor,
    Outcomes       \* the outcomes an episode may have

ASSUME CollectAssumption ==
    /\ MaxEpisodes \in Nat \ {0}
    /\ CheckEvery \in Nat \ {0}
    /\ MaxRounds \in Nat \ {0}
    /\ PlateauFloor \in Nat \ {0}
    /\ {"success", "timeout"} \subseteq Outcomes

VARIABLES
    pc,        \* where in the loop body the run is
    ep,        \* ep_idx, counted from 0
    level,     \* level_config of the episode, read at its start
    result,    \* outcome and executed rounds of the episode under way
    seen,      \* the recaps that the episode's round-1 retrieval looked through
    replay,    \* the episode files of this run on disk
    memory,    \* the recap buffer
    recapping, \* recap_buffer is given and not read-only
    stats,     \* CollectStats: [total, success, parseFails]
    exit       \* how main ended

collectVars == <<pc, ep, level, result, seen, replay, memory, recapping, stats,
                 exit>>
vars == <<curriculumVars, collectVars>>

Contract == INSTANCE EpisodeContract WITH
    ended <- TRUE, rounds <- result.rounds, outcome <- result.outcome

Results == Contract!EndedResults

\* build_env is called once, with the start level.
EnvLevel == StartAt

\* A recap that an earlier run left in the buffer.
OldRecap == [ep |-> -1, level |-> EnvLevel]

Init ==
    /\ CurriculumInit
    /\ pc = "next"
    /\ ep = 0
    /\ level = StartAt
    /\ result = [outcome |-> "timeout", rounds |-> 0]
    /\ seen = {}
    /\ replay = {}
    /\ memory = {OldRecap}
    /\ recapping \in BOOLEAN
    /\ stats = [total |-> 0, success |-> 0, parseFails |-> 0]
    /\ exit = "running"

-----------------------------------------------------------------------------
\* Mutant of StartEpisode: one episode too many.
StartEpisodeOnceMore ==
    /\ pc = "next"
    /\ ep <= MaxEpisodes
    /\ ~IsBlocked
    /\ level' = current
    /\ seen' = memory
    /\ pc' = "rounds"
    /\ UNCHANGED <<curriculumVars, ep, result, replay, memory, recapping, stats,
                   exit>>

\* The loop head, the reset and the retrieval before round 1.
StartEpisode ==
    /\ pc = "next"
    /\ ep < MaxEpisodes
    /\ ~IsBlocked
    /\ level' = current
    /\ seen' = memory
    /\ pc' = "rounds"
    /\ UNCHANGED <<curriculumVars, ep, result, replay, memory, recapping, stats,
                   exit>>

\* The round loop (ReachEpisode).
RunRounds ==
    /\ pc = "rounds"
    /\ result' \in Results
    /\ stats' = [stats EXCEPT
                    !.success = @ + (IF result'.outcome = "success" THEN 1 ELSE 0),
                    !.parseFails =
                        @ + (IF result'.outcome = "vlm_parse_fail" THEN 1 ELSE 0)]
    /\ pc' = "write"
    /\ UNCHANGED <<curriculumVars, ep, level, seen, replay, memory, recapping,
                   exit>>

\* _write_episode: the JSON appears under its final name in one rename.
WriteEpisode ==
    /\ pc = "write"
    /\ replay' = replay \cup {[ep |-> ep, level |-> level,
                               outcome |-> result.outcome,
                               rounds |-> result.rounds]}
    /\ pc' = "dump"
    /\ UNCHANGED <<curriculumVars, ep, level, result, seen, memory, recapping,
                   stats, exit>>

\* episode_end.png and meta.json, when a dump directory is given.
DumpMeta ==
    /\ pc = "dump"
    /\ pc' = IF recapping THEN "recap" ELSE "record"
    /\ UNCHANGED <<curriculumVars, ep, level, result, seen, replay, memory,
                   recapping, stats, exit>>

\* Mutant of EmitRecap: an episode without rounds leaves a recap too.
EmitRecapAlways ==
    /\ pc = "recap"
    /\ memory' = memory \cup {[ep |-> ep, level |-> level]}
    /\ pc' = "record"
    /\ UNCHANGED <<curriculumVars, ep, level, result, seen, replay, recapping,
                   stats, exit>>

\* _emit_recap_for_episode: nothing without a round; generation may return
\* None or raise, and the loop goes on either way.
EmitRecap ==
    /\ pc = "recap"
    /\ \/ /\ result.rounds > 0
          /\ memory' = memory \cup {[ep |-> ep, level |-> level]}
       \/ UNCHANGED memory
    /\ pc' = "record"
    /\ UNCHANGED <<curriculumVars, ep, level, result, seen, replay, recapping,
                   stats, exit>>

NextEpisode ==
    /\ ep' = ep + 1
    /\ pc' = "next"

\* curriculum.record_episode and the run's own count.
Account ==
    /\ pc = "record"
    /\ RecordEpisode(result.outcome)
    /\ stats' = [stats EXCEPT !.total = @ + 1]
    /\ IF (ep + 1) % CheckEvery = 0 THEN pc' = "check" /\ UNCHANGED ep
                                    ELSE NextEpisode
    /\ UNCHANGED <<level, result, seen, replay, memory, recapping, exit>>

\* Every CheckEvery episodes: curriculum.check_advance.
CheckCurriculum ==
    /\ pc = "check"
    /\ CheckAdvance
    /\ NextEpisode
    /\ UNCHANGED <<level, result, seen, replay, memory, recapping, stats, exit>>

\* Mutant of FinishLoop: a blocked curriculum does not leave the loop.
FinishLoopUnblocked ==
    /\ pc = "next"
    /\ ep = MaxEpisodes
    /\ pc' = "stopped"
    /\ exit' = "complete"
    /\ UNCHANGED <<curriculumVars, ep, level, result, seen, replay, memory,
                   recapping, stats>>

\* max_episodes reached, or BLOCKED noticed at the loop head: main logs
\* "Collect loop execution complete." in both cases.
FinishLoop ==
    /\ pc = "next"
    /\ ep = MaxEpisodes \/ IsBlocked
    /\ pc' = "stopped"
    /\ exit' = "complete"
    /\ UNCHANGED <<curriculumVars, ep, level, result, seen, replay, memory,
                   recapping, stats>>

\* Mutant of Abandon: the completion line is logged after the try statement.
AbandonLogsComplete ==
    /\ pc \in {"next", "rounds", "write", "dump"}
    /\ pc = "next" => ep < MaxEpisodes /\ ~IsBlocked
    /\ pc' = "stopped"
    /\ exit' = "complete"
    /\ UNCHANGED <<curriculumVars, ep, level, result, seen, replay, memory,
                   recapping, stats>>

\* An exception from the simulator or the disk leaves the loop (main logs it
\* and closes the environment); a kill leaves it without a word.
Abandon ==
    /\ pc \in {"next", "rounds", "write", "dump"}
    /\ pc = "next" => ep < MaxEpisodes /\ ~IsBlocked
    /\ pc' = "stopped"
    /\ exit' = "error"
    /\ UNCHANGED <<curriculumVars, ep, level, result, seen, replay, memory,
                   recapping, stats>>

Kill ==
    /\ pc # "stopped"
    /\ pc' = "stopped"
    /\ exit' = "killed"
    /\ UNCHANGED <<curriculumVars, ep, level, result, seen, replay, memory,
                   recapping, stats>>

Clock ==
    /\ pc # "stopped"
    /\ TimePasses
    /\ UNCHANGED collectVars

Loop ==
    \/ StartEpisode
    \/ RunRounds
    \/ WriteEpisode
    \/ DumpMeta
    \/ EmitRecap
    \/ Account
    \/ CheckCurriculum
    \/ FinishLoop

Next == Loop \/ Abandon \/ Kill \/ Clock

\* The loop is one thread that nothing else blocks; the clock and failures are
\* free to happen or not.
Spec == Init /\ [][Next]_vars

FairSpec == Spec /\ WF_vars(Loop)

-----------------------------------------------------------------------------
(* Properties.                                                             *)

ReplayRecord == [ep : Nat, level : Positions, outcome : Outcomes,
                 rounds : 0..MaxRounds]

TypeOK ==
    /\ CurriculumTypeOK
    /\ pc \in {"next", "rounds", "write", "dump", "recap", "record", "check",
               "stopped"}
    /\ ep \in 0..MaxEpisodes
    /\ level \in Positions
    /\ result \in [outcome : Outcomes, rounds : 0..MaxRounds]
    /\ replay \subseteq ReplayRecord
    /\ memory \subseteq [ep : Nat \cup {-1}, level : Positions]
    /\ seen \subseteq [ep : Nat \cup {-1}, level : Positions]
    /\ recapping \in BOOLEAN
    /\ stats \in [total : Nat, success : Nat, parseFails : Nat]
    /\ exit \in {"running", "complete", "error", "killed"}

Recorded(p) == {r \in replay : r.level = p}
RecordedSuccesses(p) == {r \in Recorded(p) : r.outcome = "success"}

\* The episode under way is on disk and not yet in the curriculum's counters.
Unaccounted(p) == pc \in {"dump", "recap", "record"} /\ p = current

\* The curriculum's counters, from which levels are passed, are those of the
\* files on disk, level by level, whatever step of the loop the run is at.  (A
\* run killed between the two steps is over, and its counters with it.)
CountersMatchReplay ==
    exit \in {"running", "complete"} =>
        \A p \in Positions :
            /\ Cardinality(Recorded(p)) =
                   totals[p] + (IF Unaccounted(p) THEN 1 ELSE 0)
            /\ Cardinality(RecordedSuccesses(p)) =
                   successes[p] +
                       (IF Unaccounted(p) /\ result.outcome = "success"
                        THEN 1 ELSE 0)

\* A level is passed on the merit of its own recorded episodes: enough of them,
\* and the required share of successes, still true of the files at any later time.
PassedOnMerit ==
    \A p \in Positions : status[p] = "passed" =>
        /\ Cardinality(Recorded(p)) >= MinSample
        /\ AdvanceDen * Cardinality(RecordedSuccesses(p)) >=
               AdvanceNum * Cardinality(Recorded(p))

\* freeze_level keeps a run to one task: no episode and no new recap of a level
\* other than the one the simulator was built for (the contamination of run
\* ext-5 that the flag was added against).
FrozenRunIsSingleTask ==
    frozen => \A r \in replay \cup memory : r.level = EnvLevel

\* Memory is causal: a retrieval sees only what earlier episodes left, every
\* recap stands for an episode on disk that executed a round, and a read-only
\* buffer is not written.
MemoryIsCausal ==
    /\ \A m \in seen : m.ep < ep
    /\ \A m \in memory \ {OldRecap} :
        /\ recapping
        /\ \E r \in replay : r.ep = m.ep /\ r.level = m.level /\ r.rounds > 0

\* When main says that the loop completed, every started episode is on disk and
\* counted, and the run stopped short of max_episodes only if it is blocked.
CompletionIsAccounted ==
    exit = "complete" =>
        /\ Cardinality(replay) = ep
        /\ stats.total = ep
        /\ stats.success =
               Cardinality({r \in replay : r.outcome = "success"})
        /\ ep < MaxEpisodes => IsBlocked

\* Every run ends: completed, abandoned or killed.
RunEnds == <>(pc = "stopped")
=============================================================================
