--------------------------- MODULE EpisodeContract ---------------------------
(***************************************************************************)
(* What one closed-loop episode promises to the run that records it,       *)
(* whichever instrument drives it: rounds are executed one at a time, at   *)
(* most MaxRounds of them, and the episode ends once, with one outcome     *)
(* that the number of executed rounds can justify.                         *)
(***************************************************************************)
EXTENDS Integers

CONSTANTS
    MaxRounds,     \* level_config.max_subgoals_per_episode
    PlateauFloor,  \* fewest executed rounds after which a plateau may be called
    Outcomes       \* the EpisodeOutcome values the instrument can record

VARIABLES
    ended,    \* the episode's for-loop has been left
    rounds,   \* rounds whose command was executed
    outcome   \* the EpisodeOutcome so far; the code starts at TIMEOUT

contractVars == <<ended, rounds, outcome>>

\* The outcomes that an episode of r executed rounds may end with.
Justified(o, r) ==
    CASE o = "vlm_parse_fail" -> r < MaxRounds
      [] o = "timeout"        -> r = MaxRounds \/ r >= PlateauFloor
      [] OTHER                -> r > 0

\* What the recording side may find when the episode is over.
EndedResults ==
    {res \in [outcome : Outcomes, rounds : 0..MaxRounds] :
        Justified(res.outcome, res.rounds)}

Init ==
    /\ ended = FALSE
    /\ rounds = 0
    /\ outcome = "timeout"

ExecuteRound ==
    /\ ~ended
    /\ rounds < MaxRounds
    /\ rounds' = rounds + 1
    /\ UNCHANGED <<ended, outcome>>

End ==
    /\ ~ended
    /\ \E o \in Outcomes : Justified(o, rounds) /\ outcome' = o
    /\ ended' = TRUE
    /\ UNCHANGED rounds

Next == ExecuteRound \/ End

Spec == Init /\ [][Next]_contractVars
=============================================================================
