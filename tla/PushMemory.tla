------------------------------ MODULE PushMemory ------------------------------
(***************************************************************************)
(* What the push model is told, across runs that share a recap root          *)
(* (push_memory.py, run_push_collect.py): the state block and the report of  *)
(* a round, the preamble of past lessons, and the request for a recap.  The  *)
(* rung of a run bounds the ground truth it may be told; a lesson may repeat *)
(* whatever its request told.  Runs may overlap: each reads the root once,   *)
(* when it is launched, and writes its recaps to it.                         *)
(*                                                                          *)
(* An episode is [outcome, init, dists, disps, dumped]: the cube's distance  *)
(* from the goal at the start and after every round, how far every round     *)
(* moved it, and whether the start image is on disk.                         *)
(***************************************************************************)
EXTENDS Integers, Sequences, FiniteSets

CONSTANTS
    Procs,        \* run_push_collect processes
    Episodes,     \* the episodes that may happen
    Roots,        \* what the recap root may hold before
    SuccessDist,  \* PUSH_SUCCESS_M
    MinDisp,      \* PUSH_PLATEAU_MIN_DISP_M
    TopK,         \* --memory_top_k
    MaxEpisodes   \* bound: episodes of all launches of a process

Rungs == {"1", "1b", "2", "3"}

\* What only the simulator knows: distances, the class of the outcome, an image
\* that was chosen by distance; cube and goal positions, displacements.
OfLevel2 == {"distances", "class", "chosen image"}
OfLevel3 == {"coordinates", "displacements"}

\* oracle_level
OracleLevel(rung) == CASE rung = "3" -> 3 [] rung = "2" -> 2 [] OTHER -> 1

Allowed(rung) ==
    (IF OracleLevel(rung) >= 2 THEN OfLevel2 ELSE {}) \cup
    (IF OracleLevel(rung) >= 3 THEN OfLevel3 ELSE {})

\* A recap of another task has a rung of its own kind.
Recaps ==
    [task : {"push", "reach"}, rung : Rungs \cup {"none"},
     lesson : SUBSET (OfLevel2 \cup OfLevel3), disclosed : SUBSET (OfLevel2 \cup OfLevel3),
     image : BOOLEAN]

\* A push recap was asked for, and written, under its own rung.
OwnRung(recap) ==
    recap.task = "push" => recap.lesson \cup recap.disclosed \subseteq Allowed(recap.rung)

ASSUME PushMemoryAssumption ==
    /\ \A root \in Roots : root \subseteq {r \in Recaps : OwnRung(r)}
    /\ SuccessDist \in Nat /\ MinDisp \in Nat /\ TopK \in Nat /\ MaxEpisodes \in Nat
    /\ \A e \in Episodes :
           /\ e.init \in Nat
           /\ e.dists \in Seq(Nat)
           /\ e.disps \in Seq(Nat)
           /\ Len(e.disps) = Len(e.dists)
           /\ e.dumped \in BOOLEAN

VARIABLES
    root,  \* the recaps on disk
    run    \* [proc -> its settings, where it is, and what it was last told]

pushMemoryVars == <<root, run>>

-----------------------------------------------------------------------------
(* The recap of an episode.                                                 *)

Best(e) == CHOOSE d \in {e.dists[i] : i \in DOMAIN e.dists} :
               \A i \in DOMAIN e.dists : d <= e.dists[i]
Final(e) == e.dists[Len(e.dists)]

\* classify_push_outcome, for an episode with rounds: the first that applies.
Class(e) ==
    CASE e.outcome = "success" -> "success"
      [] \A i \in DOMAIN e.disps : e.disps[i] < MinDisp -> "cube_not_moved"
      [] 2 * Best(e) < 3 * SuccessDist /\ Best(e) < e.init - MinDisp -> "near_miss"
      [] Final(e) > e.init + MinDisp -> "wrong_direction"
      [] OTHER -> e.outcome

ChosenByDistance(rung, e) ==
    OracleLevel(rung) >= 2 /\ Class(e) \in {"near_miss", "wrong_direction"}

\* select_push_key_round: none on a success, else the closest, the furthest or the
\* middle round.
KeyRound(rung, e) ==
    LET n == Len(e.dists)
        First(i) == \A j \in 1..(i - 1) : e.dists[j] # e.dists[i]
        Closest == CHOOSE i \in 1..n : First(i) /\ \A j \in 1..n : e.dists[i] <= e.dists[j]
        Furthest == CHOOSE i \in 1..n : First(i) /\ \A j \in 1..n : e.dists[i] >= e.dists[j]
    IN  CASE Class(e) = "success" -> 0
          [] ChosenByDistance(rung, e) /\ Class(e) = "near_miss" -> Closest
          [] ChosenByDistance(rung, e) /\ Class(e) = "wrong_direction" -> Furthest
          [] OTHER -> n \div 2 + 1

\* The image after the key round is attached unless that is the last round, whose
\* image is the final one.
KeyImage(rung, e) == KeyRound(rung, e) \in 1..(Len(e.dists) - 1) /\ e.dumped

\* disclosed_values
Disclosed(rung) ==
    (IF OracleLevel(rung) >= 2 THEN {"distances"} ELSE {}) \cup
    (IF OracleLevel(rung) >= 3 THEN {"coordinates", "displacements"} ELSE {})

\* build_push_recap_user_prompt and the images that go with it.
RecapTells(rung, e) ==
    Disclosed(rung)
    \cup (IF OracleLevel(rung) >= 2 THEN {"class"} ELSE {})
    \cup (IF KeyImage(rung, e) /\ ChosenByDistance(rung, e) THEN {"chosen image"} ELSE {})

\* build_push_recap_record.  The start image is the anchor, when it was dumped.
RecapOf(rung, e) ==
    [task |-> "push", rung |-> rung, lesson |-> RecapTells(rung, e),
     disclosed |-> Disclosed(rung), image |-> e.dumped]

-----------------------------------------------------------------------------
(* What a prompt tells.                                                     *)

\* format_push_preamble_text, for one recap.
RecordTells(rung, coords, recap) ==
    (IF coords THEN recap.lesson ELSE recap.lesson \ {"coordinates"})
    \cup (IF OracleLevel(rung) >= 2 THEN {"class"} \cup (recap.disclosed \cap {"distances"})
          ELSE {})
    \cup (IF OracleLevel(rung) >= 3 /\ coords THEN recap.disclosed \cap {"coordinates"}
          ELSE {})

PreambleTells(rung, coords, kept) ==
    UNION {RecordTells(rung, coords, recap) : recap \in kept}

\* The disclosed block of get_state.
StateTells(rung) ==
    (IF OracleLevel(rung) >= 2 THEN {"distances"} ELSE {}) \cup
    (IF OracleLevel(rung) >= 3 THEN {"coordinates"} ELSE {})

\* The report of the round before: the scalars and their verdict.
ReportTells(rung, feedback) ==
    IF feedback /\ OracleLevel(rung) >= 2 THEN {"distances"} ELSE {}

-----------------------------------------------------------------------------
(* Runs.                                                                    *)

Off(episodes) ==
    [pc |-> "off", rung |-> "1", memory |-> "off", writes |-> FALSE, feedback |-> FALSE,
     known |-> {}, told |-> {}, episodes |-> episodes]

PushMemoryInit ==
    /\ root \in Roots
    /\ run = [p \in Procs |-> Off(0)]

\* Mutant of PushOnly: only the task is asked for.
PushOnlyAnyRung(known, rung) == \A recap \in known : recap.task = "push"

\* assert_push_only_buffer
PushOnly(known, rung) ==
    \A recap \in known : recap.task = "push" /\ recap.rung = rung

\* The settings are taken from the command line, and the root is read; a root that
\* holds anything else is refused.  memory is --use_memory and --preamble_coords.
Launch(p) ==
    /\ run[p].pc = "off"
    /\ run[p].episodes < MaxEpisodes
    /\ \E rung \in Rungs, memory \in {"off", "on", "no coords"}, writes, feedback \in BOOLEAN :
           /\ PushOnly(root, rung)
           /\ run' = [run EXCEPT ![p] =
                  [pc |-> "start", rung |-> rung, memory |-> memory, writes |-> writes,
                   feedback |-> feedback, known |-> root, told |-> {},
                   episodes |-> @.episodes]]
    /\ UNCHANGED root

\* retrieve_for_episode: of the hits, those of the push task whose image loads.
\* A retrieval that fails leaves the episode without a preamble.
Retrieved(p) ==
    {{recap \in hits : recap.task = "push" /\ recap.image} :
        hits \in {h \in SUBSET run[p].known : Cardinality(h) <= TopK}}

FirstRound(p) ==
    /\ run[p].pc = "start"
    /\ \E kept \in IF run[p].memory = "off" THEN {{}} ELSE Retrieved(p) :
           run' = [run EXCEPT ![p].pc = "rounds",
                              ![p].told = StateTells(run[p].rung) \cup
                                  PreambleTells(run[p].rung, run[p].memory = "on", kept)]
    /\ UNCHANGED root

LaterRound(p) ==
    /\ run[p].pc = "rounds"
    /\ run' = [run EXCEPT ![p].told = StateTells(run[p].rung) \cup
                                      ReportTells(run[p].rung, run[p].feedback)]
    /\ UNCHANGED root

\* The episode is over: emit_push_recap asks for a lesson, which may not come, and
\* adds the recap to the root and to what this run knows.
EndEpisode(p) ==
    /\ run[p].pc = "rounds"
    /\ \E e \in Episodes, answered \in BOOLEAN :
           LET asks == run[p].writes /\ e.dists # <<>>
               new == IF asks /\ answered THEN {RecapOf(run[p].rung, e)} ELSE {}
           IN  /\ root' = root \cup new
               /\ run' = [run EXCEPT ![p].pc = "ended",
                              ![p].told = IF asks THEN RecapTells(run[p].rung, e) ELSE {},
                              ![p].known = @ \cup new,
                              ![p].episodes = @ + 1]

NextEpisode(p) ==
    /\ run[p].pc = "ended"
    /\ run[p].episodes < MaxEpisodes
    /\ run' = [run EXCEPT ![p].pc = "start"]
    /\ UNCHANGED root

\* The run is over, or stopped.
Leave(p) ==
    /\ run[p].pc # "off"
    /\ run' = [run EXCEPT ![p] = Off(run[p].episodes)]
    /\ UNCHANGED root

PushMemoryNext ==
    \E p \in Procs :
        \/ Launch(p) \/ FirstRound(p) \/ LaterRound(p) \/ EndEpisode(p)
        \/ NextEpisode(p) \/ Leave(p)

PushMemorySpec == PushMemoryInit /\ [][PushMemoryNext]_pushMemoryVars

-----------------------------------------------------------------------------
(* Properties.                                                             *)

\* No prompt tells the model more ground truth than the rung of its run discloses,
\* whatever other runs wrote to the same root, before it or beside it: a lesson
\* written under a higher rung is not read under a lower one.
NothingAboveTheRung == \A p \in Procs : run[p].told \subseteq Allowed(run[p].rung)
=============================================================================
