----------------------------- MODULE PushGeometry -----------------------------
(***************************************************************************)
(* Where the push task puts its cube and its goal: the reachability scan    *)
(* (wp3a_reach_scan_p4c.py), the region derived from it                     *)
(* (wp3a_p4c_derive.py), the regions that are pinned (push_s3a_cfg.py,      *)
(* pin4c_constants.py), what is sampled in them (cube_relative_goal.py), the *)
(* gates before a collect (wp3a_pin4b_gate.py, wp3a_pin4c_gate.py), and the  *)
(* targets that the arm is then given (wp1_target_gate.py, push_body.py).    *)
(*                                                                         *)
(* Lengths are in millimetres, angles in degrees.  The distance from cube to *)
(* goal that a scan measures is in hundredths of a millimetre, as it is      *)
(* rounded before it is judged again.  A configuration is [x, y, theta,      *)
(* dist].                                                                    *)
(***************************************************************************)
EXTENDS Integers, FiniteSets, SequencesExt

Magnitude(n) == IF n < 0 THEN -n ELSE n

\* In thousandths, for multiples of 15 degrees up to 90.
Cosines == <<1000, 966, 866, 707, 500, 259, 0>>
Cos(theta) == Cosines[Magnitude(theta) \div 15 + 1]
Sin(theta) == IF theta < 0 THEN -Cos(90 + theta) ELSE Cos(90 - theta)

\* compute_polar_goal
PolarGoal(cube, theta, dist) ==
    <<cube[1] + (dist * Cos(theta)) \div 1000, cube[2] + (dist * Sin(theta)) \div 1000>>

Inside(v, range, slack) == range[1] - slack <= v /\ v <= range[2] + slack

-----------------------------------------------------------------------------
(* The scan.  What the simulator does with a variant is a trial: [end, moved, *)
(* final], where end is "ran", or "timeout" or "nan" for one cut short, moved  *)
(* says that the approach pushed the cube, and final is where the cube ends.  *)

Variants == <<"V1", "V2", "V3", "V4">>
GoalRadius == 5000
Nowhere == 999000

\* round(..., 4) of metres.
Measured(final) == ((final + 5) \div 10) * 10

Attempt(variant, trial) ==
    LET ran == trial.end = "ran"
        success == ran /\ trial.final <= GoalRadius /\ ~trial.moved
    IN  [variant |-> variant, success |-> success, disturbed |-> ~ran \/ trial.moved,
         final |-> {IF ran THEN Measured(trial.final) ELSE Nowhere},
         reason |-> CASE ~ran -> trial.end
                      [] success -> "none"
                      [] ran /\ ~success /\ trial.moved -> "disturbed_approach"
                      [] OTHER -> "goal_distance"]

\* run_config_variants: in their order, up to the first that succeeds.
RunConfig(config, trials) ==
    LET tries == [k \in DOMAIN Variants |-> Attempt(Variants[k], trials[k])]
        won == {k \in DOMAIN tries : tries[k].success}
        last == IF won = {} THEN Len(tries) ELSE Min(won)
    IN  [config |-> config, success |-> won # {}, disturbed |-> tries[last].disturbed,
         final |-> tries[last].final, tried |-> SubSeq(tries, 1, last)]

KeepOut == 380
Table == [x |-> <<180, 900>>, y |-> <<-450, 450>>]

\* filter_config
SkipReason(c) ==
    LET goal == PolarGoal(<<c.x, c.y>>, c.theta, c.dist)
    IN  CASE c.x < KeepOut -> {"hand_keepout"}
          [] c.x >= KeepOut /\ ~(Inside(goal[1], Table.x, 0) /\ Inside(goal[2], Table.y, 0))
                -> {"goal_off_table"}
          [] OTHER -> {}

NoCheckpoint == [results |-> <<>>, skipped |-> <<>>]

Completed(saved) ==
    {r.config : r \in ToSet(saved.results)} \cup {s.config : s \in ToSet(saved.skipped)}

\* One configuration of the loop; what it appends is saved at once, as a whole.
ScanStep(saved, c, trials) ==
    CASE c \in Completed(saved) -> saved
      [] c \notin Completed(saved) /\ SkipReason(c) # {} ->
            [saved EXCEPT !.skipped = Append(@, [config |-> c, reason |-> SkipReason(c)])]
      [] OTHER -> [saved EXCEPT !.results = Append(@, RunConfig(c, trials))]

\* The file after the first n configurations, from what was loaded.
Scan(loaded, configs, trials, n) ==
    LET after[k \in 0..n] ==
            IF k = 0 THEN loaded ELSE ScanStep(after[k - 1], configs[k], trials[k])
    IN  after[n]

\* load_completed_keys: nothing without --resume, and of a file that cannot be read.
FromFile(resume, file) == IF resume /\ file # {} THEN CHOOSE f \in file : TRUE
                        ELSE NoCheckpoint

ScanExit(saved, dryRun) == IF ~dryRun /\ saved.results = <<>> THEN 2 ELSE 0

-----------------------------------------------------------------------------
(* The derivation.                                                          *)

\* is_record_solvable: the outcome alone, and by any variant; a record of an older
\* scan has no variants, or no distance either.
Within(r) == IF r.final = {} THEN r.success ELSE \A f \in r.final : f <= GoalRadius
Solvable(r) ==
    IF r.tried = <<>> THEN Within(r) ELSE \E v \in ToSet(r.tried) : Within(v)

\* merge_scan_inputs: later files override, record by record, and the grids are
\* what any file names or has a record of.
Merge(files) ==
    LET Records(f) == [k \in DOMAIN files[f].results |->
                          [from |-> f, r |-> files[f].results[k]]]
        all == FlattenSeq([f \in DOMAIN files |-> Records(f)])
        Newest(c) == Max({k \in DOMAIN all : all[k].r.config = c})
        configs == {a.r.config : a \in ToSet(all)}
        Grid(named, field) == {c[field] : c \in configs}
                                  \cup (UNION {files[f][named] : f \in DOMAIN files})
    IN  [results |-> [c \in configs |-> all[Newest(c)].r],
         overwritten |-> {k \in DOMAIN all : k # Newest(all[k].r.config)},
         xs |-> Grid("xs", "x"), ys |-> Grid("ys", "y"),
         thetas |-> Grid("thetas", "theta"), dists |-> Grid("dists", "dist")]

Telemetry(results) ==
    LET Number(Test(_)) == Cardinality({c \in DOMAIN results : Test(results[c])})
        Reason(why) == Number(LAMBDA r : \E v \in ToSet(r.tried) : v.reason = why)
    IN  [total |-> Cardinality(DOMAIN results), solvable |-> Number(Solvable),
         disturbed |-> Number(LAMBDA r : r.disturbed \/
                                  \E v \in ToSet(r.tried) : v.disturbed),
         timeout |-> Reason("timeout"), nan |-> Reason("nan")]

\* The first step of the sorted grid stands for all of them.
ThetaStep(thetas) ==
    IF Cardinality(thetas) < 2 THEN 15
    ELSE Min(thetas \ {Min(thetas)}) - Min(thetas)

\* is_point_solvable: every step of the range, whether it was scanned or not.
PointSolved(scan, x, y, from, to) ==
    \A i \in 0..((to - from) \div ThetaStep(scan.thetas)), d \in scan.dists :
        LET c == [x |-> x, y |-> y, theta |-> from + i * ThetaStep(scan.thetas), dist |-> d]
        IN  c \in DOMAIN scan.results /\ Solvable(scan.results[c])

BoxPoints(scan, box) ==
    {p \in scan.xs \X scan.ys : Inside(p[1], <<box[1], box[2]>>, 0)
                                /\ Inside(p[2], <<box[3], box[4]>>, 0)}

\* find_largest_box_for_range: most points, then most area, then the first found.
LargestBox(scan, theta) ==
    LET xs == {x \in scan.xs : x >= KeepOut}
        solved == {p \in xs \X scan.ys : PointSolved(scan, p[1], p[2], -theta, theta)}
        Points(b) == Cardinality(BoxPoints(scan, b))
        Area(b) == (b[2] - b[1]) * (b[4] - b[3])
        boxes == {b \in xs \X xs \X scan.ys \X scan.ys :
                     b[1] <= b[2] /\ b[3] <= b[4] /\ BoxPoints(scan, b) \subseteq solved}
        Found(a, b) == \E i \in 1..4 : a[i] < b[i] /\ \A j \in 1..(i - 1) : a[j] = b[j]
        Beats(a, b) == \/ Points(a) > Points(b)
                       \/ Points(a) = Points(b) /\ Area(a) > Area(b)
                       \/ Points(a) = Points(b) /\ Area(a) = Area(b) /\ Found(a, b)
    IN  {b \in boxes : ~\E a \in boxes : Beats(a, b)}

\* compute_asymmetric_reach, to one side: the last angle up to 90 before the first
\* that some point of the box does not reach, 0 where it does not reach even that.
Reach(scan, box, side) ==
    LET step == ThetaStep(scan.thetas)
        All(th) == \A p \in BoxPoints(scan, box) :
                       PointSolved(scan, p[1], p[2], side * th, side * th)
    IN  Max({0} \cup {step * k : k \in {n \in 0..(90 \div step) :
                                           \A i \in 0..n : All(step * i)}})

\* derive_p4c_geometry
CandidateTable(scan, candidates) ==
    [k \in DOMAIN candidates |->
        LET th == candidates[k]
            box == LargestBox(scan, th)
        IN  [theta |-> th, box |-> box,
             plus |-> IF box = {} THEN 0 ELSE Reach(scan, CHOOSE b \in box : TRUE, 1),
             minus |-> IF box = {} THEN 0 ELSE Reach(scan, CHOOSE b \in box : TRUE, -1)]]

\* The candidate that the aliases of the output are taken from: the first that
\* passes.
BestCandidate(table) ==
    LET passing == SelectSeq(table, LAMBDA e : e.box # {})
    IN  IF passing = <<>> THEN table[1] ELSE passing[1]

-----------------------------------------------------------------------------
(* The pins and what is sampled: at a reset the events place the cube before   *)
(* the command is drawn, so the goal is relative to the cube of the episode.   *)

Pin4b == [x |-> <<380, 420>>, y |-> <<50, 150>>, offsetX |-> <<70, 100>>,
          offsetY |-> <<-40, 40>>, clipX |-> <<440, 500>>, clipY |-> <<70, 190>>]
Pin4c == [x |-> <<400, 460>>, y |-> <<-20, 100>>, theta |-> 75, dist |-> <<70, 100>>]

Clamp(v, range) == IF v < range[1] THEN range[1] ELSE IF v > range[2] THEN range[2] ELSE v

\* CubeRelativePoseCommand
OffsetReset(cube, dx, dy) ==
    [cube |-> cube, goal |-> <<Clamp(cube[1] + dx, Pin4b.clipX),
                               Clamp(cube[2] + dy, Pin4b.clipY)>>]

\* CubeRelativePolarCommand: no clamping; refused for more than one environment.
PolarReset(envs, cube, theta, dist) ==
    IF envs > 1 THEN {}
    ELSE {[cube |-> cube, goal |-> PolarGoal(cube, theta, dist),
           sample |-> [theta |-> theta, dist |-> dist, cube |-> cube]]}

-----------------------------------------------------------------------------
(* The gates: an episode of a seed that is reset twice.  What the second reset  *)
(* and the steps after it show are inputs: same, still (the cube drifts less    *)
(* than 1 cm) and static (the goal stays).                                     *)

Steady(e) == e.same /\ e.still /\ e.static

\* wp3a_pin4b_gate.py, from where the cube settles; near: the arm gets behind it.
Gate4bPasses(e) ==
    LET dx == e.goal[1] - e.settled[1]
        dy == e.goal[2] - e.settled[2]
    IN  /\ Steady(e) /\ e.near
        /\ Inside(e.cube[1], Pin4b.x, 1) /\ Inside(e.cube[2], Pin4b.y, 1)
        /\ Inside(e.goal[1], Pin4b.clipX, 1) /\ Inside(e.goal[2], Pin4b.clipY, 1)
        /\ dx > Magnitude(dy)
        /\ dx * dx + dy * dy >= 65 * 65

\* check_pin4c_sample: strictly what was sampled, if the command tells, and with a
\* tolerance of one degree and 2 mm what is measured after the reset.
AngleTolerance == 1
DistTolerance == 2

Sample4c(e) ==
    LET hard == \A s \in e.sample : /\ Magnitude(s.theta) <= Pin4c.theta
                                    /\ Inside(s.dist, Pin4c.dist, 0)
        exact == Magnitude(e.angle) <= Pin4c.theta /\ Inside(e.dist, Pin4c.dist, 0)
        tolerated == /\ Magnitude(e.angle) <= Pin4c.theta + AngleTolerance
                     /\ Inside(e.dist, Pin4c.dist, DistTolerance)
        runtime == /\ Inside(e.cube[1], Pin4c.x, 1) /\ Inside(e.cube[2], Pin4c.y, 1)
                   /\ tolerated
    IN  [hard |-> hard, runtime |-> runtime, ok |-> hard /\ runtime,
         exceedsExact |-> ~exact, exceedsTolerance |-> ~tolerated]

\* evaluate_pin4c_distribution: six bins, judged from 60 samples on; the limit of
\* chi-square is in thousandths.
Bins == 6
BinOf(angle) == Clamp(((angle + Pin4c.theta) * Bins) \div (2 * Pin4c.theta), <<0, Bins - 1>>)

Uniform(angles) ==
    LET n == Len(angles)
        Count(b) == Cardinality({k \in 1..n : BinOf(angles[k]) = b})
        excess == FoldSet(LAMBDA b, s : s + (Bins * Count(b) - n) * (Bins * Count(b) - n),
                          0, 0..(Bins - 1))
    IN  n >= 60 => /\ \A b \in 0..(Bins - 1) : 5 * Bins * Count(b) >= n
                   /\ 1000 * excess <= 20515 * Bins * n

Gate4cExit(episodes) ==
    IF /\ \A e \in ToSet(episodes) : Steady(e) /\ Sample4c(e).ok
       /\ Uniform([k \in DOMAIN episodes |-> episodes[k].angle])
    THEN 0 ELSE 1

-----------------------------------------------------------------------------
(* The targets.                                                             *)

\* push_segment_from_waypoint, along the direction from cube to waypoint ("none"
\* for a waypoint on the cube): one round moves the cube no further than the lead
\* budget, and a heading that the direction does not give is the one before.
LeadBudget == 80
ApproachOffset == 60

\* neutral_contact_orientation_b: the horizontal axis of the contact.
Heading(requested, direction, previous) ==
    CASE requested > 0 /\ direction # "vertical" -> {direction}
      [] (requested = 0 \/ direction = "vertical") /\ previous # {} -> previous
      [] OTHER -> {"forward"}

PushSegment(requested, direction, previous) ==
    [target |-> IF requested < LeadBudget THEN requested ELSE LeadBudget,
     clamped |-> requested > LeadBudget,
     approach |-> IF requested = 0 THEN 0 ELSE -ApproachOffset,
     heading |-> Heading(requested, direction, previous)]

\* scene_guard: the table lifts a point below its top, each static box moves one
\* inside it to its nearest face, the ground comes last.
Margin == 10

NearestFace(p, lo, hi) ==
    LET moves == {<<p[i] - lo[i], i, lo[i]>> : i \in 1..3}
                     \cup {<<hi[i] - p[i], i, hi[i]>> : i \in 1..3}
        First(a, b) == \E k \in 1..3 : a[k] < b[k] /\ \A j \in 1..(k - 1) : a[j] = b[j]
        best == CHOOSE m \in moves : \A other \in moves \ {m} : First(m, other)
    IN  [p EXCEPT ![best[2]] = best[3]]

Inflated(box) == [lo |-> [i \in 1..3 |-> box.lo[i] - Margin],
                  hi |-> [i \in 1..3 |-> box.hi[i] + Margin]]

InBox(p, box) == \A i \in 1..3 : Inside(p[i], <<Inflated(box).lo[i], Inflated(box).hi[i]>>, 0)

UnderTable(p, table) == /\ Inside(p[1], table.x, 0) /\ Inside(p[2], table.y, 0)
                        /\ p[3] < table.top + Margin

SceneGuard(p, scene) ==
    LET lifted == IF UnderTable(p, scene.table)
                  THEN [p EXCEPT ![3] = scene.table.top + Margin] ELSE p
        Out(q, box) == IF InBox(q, box)
                       THEN NearestFace(q, Inflated(box).lo, Inflated(box).hi) ELSE q
        out == FoldLeft(Out, lifted, scene.boxes)
    IN  IF out[3] < scene.ground + Margin THEN [out EXCEPT ![3] = scene.ground + Margin]
        ELSE out

\* anatomy_of: the first of the body names' parts.
AnatomyClasses == <<<<"finger", "finger">>, <<"tcp", "finger">>, <<"hand", "palm">>,
                    <<"link7", "wrist">>, <<"link6", "wrist">>, <<"link5", "forearm">>>>
AnatomyOf(parts) ==
    LET matching == SelectSeq(AnatomyClasses, LAMBDA a : a[1] \in parts)
    IN  IF matching = <<>> THEN "other" ELSE matching[1][2]
=============================================================================
