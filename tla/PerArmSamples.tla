---------------------------- MODULE PerArmSamples -----------------------------
(***************************************************************************)
(* The rows of the dual-arm campaign (prep_training_data.py --per_arm_l2):  *)
(* every episode gives two streams, one per arm, each judged by that arm's  *)
(* own distances and labelled by whether that arm ever reached its target,  *)
(* as workspace/l2_audit/per_arm_rescore.json says.                         *)
(*                                                                          *)
(* An episode is [outcome, dumped, rounds, traj] as in TrainingData, but a  *)
(* step of traj is [left, right], each arm's distance, and rescore maps the *)
(* rescored episodes to [left, right], whether the arm reached.             *)
(***************************************************************************)
EXTENDS TrainingData

ScoredArms == {"left", "right"}
OtherArm(arm) == IF arm = "left" THEN "right" ELSE "left"

\* The arm's own series: dist_red for the left arm, dist_blue for the right.
SeriesOf(traj, arm) == [i \in DOMAIN traj |-> traj[i][arm]]

\* The target has the line of the scored arm only.  Without a thought, and for
\* the sources that the mode does not know, the raw response stays.
SingleArmTarget(source, round, arm) ==
    CASE source = "native" /\ HasThought(round) -> {"thought", arm}
      [] source = "none" -> {arm}
      [] OTHER -> {"raw"}

ArmLabel(reached, progress) ==
    CASE progress # "yes" -> "none"
      [] progress = "yes" /\ reached -> "desirable"
      [] progress = "yes" /\ ~reached -> "undesirable"

-----------------------------------------------------------------------------
(* Where the labels come from.                                              *)

\* l2_per_arm_rescore.py: the closest that the arm ever was, wherever it ended.
\* Without a trajectory in any one episode there is no result at all.
Rescore(episodes, threshold) ==
    IF \E ep \in DOMAIN episodes : episodes[ep].traj = <<>> THEN {}
    ELSE {[ep \in DOMAIN episodes |->
              [arm \in ScoredArms |-> \E i \in DOMAIN episodes[ep].traj :
                                          episodes[ep].traj[i][arm] < threshold]]}

\* l2_buffer_retag.py: the recaps of rescored episodes get the two labels; the
\* joint one stays.
Retag(recaps, rescore) ==
    [ep \in DOMAIN recaps |->
        IF ep \in DOMAIN rescore
        THEN [recaps[ep] EXCEPT !.reached = {rescore[ep]}]
        ELSE recaps[ep]]

\* success_label: the arm's own, else the joint one.
SuccessLabel(recap, arm) ==
    IF recap.reached = {} THEN recap.success
    ELSE \A r \in recap.reached : r[arm]

-----------------------------------------------------------------------------
(* The rows.                                                                *)

PerArmRow(episodes, rescore, source, ep, arm, r) ==
    [ep |-> ep, arm |-> arm, round |-> r,
     otherReached |-> rescore[ep][OtherArm(arm)],
     outcome |-> episodes[ep].outcome,
     label |-> ArmLabel(rescore[ep][arm],
                        Progress(SeriesOf(episodes[ep].traj, arm), r)),
     target |-> SingleArmTarget(source, episodes[ep].rounds[r], arm)]

\* The replay directory decides nothing here: success/ and failure/ are both
\* read, and an episode that was not rescored is left out.
BuildSamplesPerArm(episodes, rescore, source, minRound, onlyProgress, desirableOnly) ==
    LET read == {ep \in DOMAIN rescore \cap DOMAIN episodes : episodes[ep].dumped}
        rows == UNION {{PerArmRow(episodes, rescore, source, ep, arm, r) :
                            arm \in ScoredArms,
                            r \in {n \in DOMAIN episodes[ep].rounds :
                                      n >= minRound /\ Usable(episodes[ep].rounds[n])}} :
                          ep \in read}
    IN  {row \in rows :
            /\ onlyProgress => row.label # "none"
            /\ desirableOnly => row.label = "desirable"}

\* What the program counts when it is done; another number than expected is
\* only warned about.
DesirableInstances(rows) ==
    {<<row.ep, row.arm>> : row \in {x \in rows : x.label = "desirable"}}

-----------------------------------------------------------------------------
(* The state that a row shows the student: what meta.json says of the round's *)
(* start, or, when the left arm is missing there, the trajectory's step for   *)
(* both arms.  Each is the set of its positions, one or none.                 *)

StateAtRound(start, traj, r) ==
    LET first == (r - 1) * StepsPerRound + 1
    IN  IF start.left = {} /\ first \in DOMAIN traj
        THEN [left |-> traj[first].left, right |-> traj[first].right]
        ELSE start

\* The distance gate of the single-arm campaign: a round that ends farther off
\* than max is dropped, one whose end was not measured is kept.
AboveDistanceGate(max, endDistance) ==
    \E limit \in max, d \in endDistance : d > limit

\* --skip_first_round is a shorthand that an explicit --min_round overrides.
MinRound(given, skipFirst) == IF skipFirst /\ given = 1 THEN 2 ELSE given
=============================================================================
