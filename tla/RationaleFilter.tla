--------------------------- MODULE RationaleFilter ----------------------------
(***************************************************************************)
(* What filter_rationale_deterministic.py says of one training row: which   *)
(* part of the target is the student's own thought, what that thought       *)
(* claims about the move and about the cube, and the three verdicts.        *)
(*                                                                          *)
(* A target is a sequence of lines of one sentence.  A line's kind is       *)
(* "marker" (the header of the lessons), "quote" (it looks like a quoted    *)
(* lesson) or "prose"; with it goes what the regular expressions find,      *)
(*    intent, past  markers of a plan and of a reference to the past        *)
(*    words         the <<axis, sign>> of its directional terms             *)
(*    numbers       the <<axis, value>> of "Y to 45" and the like           *)
(*    cube          the <<axis, sign>> of "cube is to the left of" and so on *)
(*    spatial       whether it has any spatial token                        *)
(* Positions are functions on Axes: grid integers, the cube's in tenths.    *)
(***************************************************************************)
EXTENDS Integers, FiniteSets, SequencesExt

Axes == {"x", "y", "z"}

\* DEAD_BAND_CM, in tenths.
DeadBand == 10

Abs(n) == IF n < 0 THEN -n ELSE n
Sign(n) == IF n > 0 THEN 1 ELSE -1

-----------------------------------------------------------------------------
(* Reading the target.                                                      *)

\* The own thought follows the last line that looks like a quoted lesson; a
\* target without the header is all thought, one with the header alone none.
OwnThought(lines) ==
    LET quotes == {i \in DOMAIN lines : lines[i].kind = "quote"}
        last == CHOOSE i \in quotes : \A j \in quotes : j <= i
    IN  IF lines = <<>> \/ lines[1].kind # "marker" THEN lines
        ELSE IF quotes = {} THEN <<>>
        ELSE SubSeq(lines, last + 1, Len(lines))

\* A plan makes a sentence an intent whatever it says of the past.
SentenceClass(s) ==
    CASE s.intent -> "intent"
      [] ~s.intent /\ s.past -> "past"
      [] OTHER -> "neutral"

Intents(thought) == {s \in ToSet(thought) : SentenceClass(s) = "intent"}

DirectionClaims(thought) == UNION {s.words : s \in Intents(thought)}

\* A stated target claims the direction in which it lies from the present
\* position, unless it is that position.
NumberTargetClaims(thought, ee) ==
    LET stated == UNION {s.numbers : s \in Intents(thought)}
    IN  {<<n[1], Sign(n[2] - ee[n[1]])>> :
            n \in {m \in stated : 10 * Abs(m[2] - ee[m[1]]) >= DeadBand}}

CubeClaims(thought) == UNION {s.cube : s \in ToSet(thought)}

-----------------------------------------------------------------------------
(* The rules.                                                               *)

\* move is the set of the commanded positions of the left arm: one or none.
\* An axis that is not spoken of, or hardly moves, is not judged.
RuleDirection(thought, move, ee) ==
    LET claims == DirectionClaims(thought) \cup NumberTargetClaims(thought, ee)
        Claimed(axis) == {c[2] : c \in {d \in claims : d[1] = axis}}
        Opposed(to, axis) ==
            /\ Claimed(axis) # {}
            /\ 10 * Abs(to[axis] - ee[axis]) >= DeadBand
            /\ Sign(to[axis] - ee[axis]) \notin Claimed(axis)
    IN  IF move = {} \/ claims = {} THEN "no_claim_parseable"
        ELSE IF \E to \in move, axis \in Axes : Opposed(to, axis) THEN "inconsistent"
        ELSE "consistent"

\* cube is the set of the cube's known positions: one or none.
RuleGeometry(thought, ee, cube) ==
    LET Contradicted(at, claim) ==
            LET offset == at[claim[1]] - 10 * ee[claim[1]]
            IN  Abs(offset) >= DeadBand /\ Sign(offset) # claim[2]
    IN  IF cube = {} THEN "gt_missing"
        ELSE IF \E at \in cube, claim \in CubeClaims(thought) : Contradicted(at, claim)
             THEN "contradicts_gt"
        ELSE IF CubeClaims(thought) = {} THEN "no_claim_parseable"
        ELSE "consistent_with_gt"

RuleVacuity(thought) ==
    IF \E s \in ToSet(thought) : s.spatial
    THEN "pass_has_spatial_token" ELSE "vacuous_no_spatial_token"

\* Only the third rule drops a row, under either policy.
ApplyFilter(row, cubes) ==
    LET own == OwnThought(row.target)
        known == IF row.ep \in DOMAIN cubes THEN {cubes[row.ep]} ELSE {}
        vacuity == RuleVacuity(own)
    IN  [keep |-> vacuity # "vacuous_no_spatial_token",
         direction |-> RuleDirection(own, row.move, row.ee),
         geometry |-> RuleGeometry(own, row.ee, known),
         vacuity |-> vacuity]

-----------------------------------------------------------------------------
(* Where the cube was.  A replay is [run, dir, parses, ep, cube, traj]: ep is *)
(* the set of its episode ids and cube that of its recorded positions, each   *)
(* one or none; a step of traj has the sets dist and ee of the same kind.     *)

\* The left arm's place when it was first nearest to the red cube.
NearestPlace(traj) ==
    LET measured == {i \in DOMAIN traj : traj[i].dist # {}}
        At(i) == CHOOSE d \in traj[i].dist : TRUE
        nearest == {i \in measured : \A j \in measured :
                        At(i) < At(j) \/ (At(i) = At(j) /\ i <= j)}
    IN  UNION {{[a \in Axes |-> 10 * p[a]] : p \in traj[i].ee} : i \in nearest}

CubeOf(replay) == IF replay.cube # {} THEN replay.cube ELSE NearestPlace(replay.traj)

\* The files in the order they are read: a run's successes before its failures.
AddCube(cubes, replay) ==
    IF replay.parses /\ replay.ep # {} /\ CubeOf(replay) # {}
    THEN [ep \in replay.ep |-> CHOOSE p \in CubeOf(replay) : TRUE] @@ cubes
    ELSE cubes

CubeLookup(replays, runs) ==
    FoldLeft(AddCube, <<>>, SelectSeq(replays, LAMBDA r : r.run \in runs))

-----------------------------------------------------------------------------
(* The program.                                                             *)

\* The policy of one row; flags_only_a6 keeps whatever the rules say.
PolicyOf(policy, label) ==
    CASE policy = "flags_only_a6" -> [name |-> "strict", keepAll |-> TRUE]
      [] policy = "asymmetric_kto" ->
            [name |-> IF label = "undesirable" THEN "vacuity_only" ELSE "strict",
             keepAll |-> FALSE]
      [] OTHER -> [name |-> policy, keepAll |-> FALSE]

Verdict(policy, row, cubes) ==
    LET verdict == ApplyFilter(row, cubes)
    IN  IF PolicyOf(policy, row.label).keepAll
        THEN [verdict EXCEPT !.keep = TRUE] ELSE verdict

Flagged(row, verdict) ==
    [row |-> row,
     rule1 |-> verdict.direction = "inconsistent",
     rule2 |-> verdict.geometry = "contradicts_gt",
     rule3 |-> verdict.vacuity = "vacuous_no_spatial_token"]

\* The rows written, in the order read; the table of reasons has a line for each
\* row, kept or not.
Filtered(policy, rows, replays) ==
    LET cubes == CubeLookup(replays, {rows[i].run : i \in DOMAIN rows})
        verdicts == [i \in DOMAIN rows |-> Verdict(policy, rows[i], cubes)]
        kept == SelectSeq([i \in DOMAIN rows |-> i], LAMBDA i : verdicts[i].keep)
    IN  [rows |-> [k \in DOMAIN kept |-> Flagged(rows[kept[k]], verdicts[kept[k]])],
         reasons |-> verdicts]
=============================================================================
