----------------------------- MODULE MCCollectRun -----------------------------
(* Model checking of CollectRun: the levels of a run that starts below L0.  *)
EXTENDS CollectRun

MCLevelOrder == <<-2, -1, 0>>

\* The statuses of a ladder that was climbed from the first level to one.
Climbed(at) ==
    [p \in Positions |-> IF p < at THEN "passed"
                         ELSE IF p = at THEN "active" ELSE "locked"]

\* "training data = current level + all passed levels" (manager.py:184; "all passed
\* + active", test_curriculum_manager.py:83).  The code does not do that: of these
\* levels it returns those from L0 up, so that at -2 and -1, where the shipped runs
\* start, there are none, and at L0 the two that were passed are missing.
ASSUME CumulativeStartsAtZero ==
    \A at \in Positions :
        LET asked == {LevelOrder[p] : p \in 1..at}
            given == CumulativeSuccessLevels(at, Climbed(at))
        IN  /\ given = {l \in asked : l >= 0}
            /\ asked \ given # {}
=============================================================================
