----------------------------- MODULE PushRecords ------------------------------
(***************************************************************************)
(* What the validator of push runs (wp3a_push_validate.py) reads in the     *)
(* record of an episode beside its rounds, and what the loop writes there:  *)
(* the progress verdict, the frame line, the sampled goal and the lessons   *)
(* that were shown.  Distances are in millimetres, as the report gives      *)
(* centimetres with one decimal.                                            *)
(***************************************************************************)
EXTENDS Integers, FiniteSets, SequencesExt

DeadBand == 10

-----------------------------------------------------------------------------
(* The verdict of a report, from the distance at the start and at the end.   *)

\* _p1_verdict, on floating-point numbers with one decimal: where they differ by
\* the dead band itself, the difference may come out a little larger.
Verdicts(start, end) ==
    LET d == end - start
    IN  (IF d <= -DeadBand THEN {"progress"} ELSE {}) \cup
        (IF d >= DeadBand THEN {"regression"} ELSE {}) \cup
        (IF d \in -DeadBand..DeadBand THEN {"flat"} ELSE {})

\* The validator's own rule, with a tolerance below the dead band.
ExpectedVerdict(start, end) ==
    LET d == end - start
    IN  CASE d <= -DeadBand -> "progress"
          [] d >= DeadBand -> "regression"
          [] OTHER -> "flat"

-----------------------------------------------------------------------------
(* The frame line and the geometry.  A line is known by the bounds whose grid *)
(* units it states; what the record does not have is an empty set.            *)

\* As run_push_collect_loop records them.
FrameRecord(convention, bounds) ==
    [convention |-> convention, line |-> IF convention THEN {bounds} ELSE {},
     bounds |-> {bounds}]

\* Without recorded bounds the line is not compared.
FramePasses(e) ==
    e.convention => /\ e.line # {}
                    /\ e.bounds # {} => e.line = e.bounds

\* The commanded distance of the goal, and its angle, for one geometry only.
GoalDistances == 70..100
SamplePasses(e, thetaMax) ==
    e.geometry = "pin4c" =>
        /\ e.sample # {}
        /\ \A s \in e.sample :
               /\ \E d \in s.dist : d \in GoalDistances
               /\ \E t \in s.theta : t \in -thetaMax..thetaMax

-----------------------------------------------------------------------------
(* The lessons that an episode was shown.                                     *)

\* Where a recap is saved, and the names under which the validator looks for the
\* lesson of a hit that does not carry it.
SavedAs(run, ep) == <<run, ep, "json">>
LookedUp(ep) == {<<ep, "recap", "json">>, <<"recap", ep, "json">>}

LessonOf(hit, disk) ==
    IF hit.lesson # {} THEN hit.lesson
    ELSE {disk[f] : f \in LookedUp(hit.ep) \cap DOMAIN disk}

\* How many lessons were seen, and how many of them name coordinates; neither
\* fails an episode.
Leaks(hits, disk) ==
    LET Seen(i) == LessonOf(hits[i], disk)
    IN  [injected |-> Cardinality({i \in DOMAIN hits : Seen(i) # {}}),
         leaked |-> Cardinality({i \in DOMAIN hits : "coordinates" \in Seen(i)})]

-----------------------------------------------------------------------------
(* The target of a round, by its height.                                      *)

\* At the height at which the tip stood first, within the cube, or elsewhere.
TargetKind(z, standby, low, high) ==
    CASE z = standby -> "standby"
      [] z # standby /\ z \in low..high -> "contact_band"
      [] OTHER -> "other"

\* The reach error of a round whose target the table guard moved is measured to
\* the moved target, when both points are known.
GuardedError(round) ==
    IF round.clamped /\ round.toGuarded # {} THEN round.toGuarded ELSE round.error
=============================================================================
