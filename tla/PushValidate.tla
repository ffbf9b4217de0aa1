----------------------------- MODULE PushValidate -----------------------------
(* The validator that reads the push episodes back (wp3a_push_validate.py) and *)
(* decides from the records alone whether an episode is sound: its hard checks *)
(* of flags, of the number of rounds and of the reports.  It recomputes from   *)
(* the recorded rounds what the loop decided while it ran.  What it reads in    *)
(* the record beside the rounds, the wording of the verdict among it, is in     *)
(* PushRecords; its parsing of numbers is left out.                             *)
EXTENDS PushEpisode

\* FLAG_WHITELIST, of the flags that this loop may set.
FlagWhitelist ==
    {"scripted_policy", "vlm_parse_fail", "push_plateau", "vlm_stop_premature",
     "env_auto_reset"}

\* The flags of the episode as push_collect.py sets them.
Flags ==
    (IF Scripted THEN {"scripted_policy"} ELSE {}) \cup
    (IF autoReset THEN {"env_auto_reset"} ELSE {}) \cup
    ({outcome} \cap {"vlm_parse_fail", "push_plateau", "vlm_stop_premature"})

FlagsPass == Flags \subseteq FlagWhitelist /\ "env_auto_reset" \notin Flags

\* A timeout has all its rounds, unless a flag says why not.
PrematureTimeout ==
    /\ outcome = "timeout"
    /\ Len(rounds) < RoundCap
    /\ Flags \cap {"env_auto_reset", "vlm_parse_fail"} = {}

\* contact_strictly_before over the recorded rounds.
MetricOf(r) ==
    IF switched /\ \A i \in 1..(r - 2) : ~(rounds[i].contact \/ rounds[i].moved)
    THEN "tip_cube" ELSE "cube_goal"

\* The report that a recorded round r carries, against rounds r-1 and r.
ReportPasses(r) ==
    IF r = 1 THEN feedback.of = 0
    ELSE /\ feedback.of = r - 1
         /\ feedback.from = rounds[r - 1].from
         /\ feedback.to = rounds[r].from
         /\ feedback.metric = MetricOf(r)

\* The round that the last report belongs to, once it is recorded.
Reported == feedback.of + 1

Valid == FlagsPass /\ ~PrematureTimeout

\* The validator accepts what the loop records: every report that a round was given
\* matches the rounds in its number, its scenes and its metric, and an ended episode
\* passes exactly when the simulator did not reset in it.
ValidatorAgrees ==
    /\ Reported = Len(rounds) => ReportPasses(Reported)
    /\ pc = "ended" => (Valid <=> ~autoReset)
=============================================================================
