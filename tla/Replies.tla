-------------------------------- MODULE Replies --------------------------------
(***************************************************************************)
(* What a reply of the VLM is taken to mean: the slots a prompt asks for   *)
(* (aiongenos/vlm/prompts.py), the lines the parser finds (vlm/parser.py), *)
(* the integers as metric targets (vlm/scalar_guard.py, stage2_attempt.py) *)
(* and the action the simulator is given (execute_command).                *)
(*                                                                         *)
(* A reply is the sequence of its lines; a line is its label, whether      *)
(* REVISED_ stands before it, the form of its value and the value: "XYZ",  *)
(* "XY", "PY", "RPY" and "PYR" are integers by name, "grip" is open or     *)
(* closed, "bool" true or false, "prose" anything else.                    *)
(***************************************************************************)
EXTENDS Integers, SequencesExt

Arms == {"left", "right"}
ControlModes == {"position", "rpy2", "rpy_gripper"}
Variants == {"teacher", "action_only", "rationale", "gist_only",
             "rationale_with_gist", "rationale_with_retrieval"}

Label == [left |-> [pos |-> "LEFT_TARGET_POS", rpy |-> "LEFT_TARGET_RPY",
                    grip |-> "LEFT_GRIPPER_NEXT"],
          right |-> [pos |-> "RIGHT_TARGET_POS", rpy |-> "RIGHT_TARGET_RPY",
                     grip |-> "RIGHT_GRIPPER_NEXT"]]

Slot(label, form) == [label |-> label, form |-> form]

-----------------------------------------------------------------------------
(* What is asked.                                                           *)

\* The slots of one arm in a control mode.
ArmSlots(mode, arm) ==
    LET pos == Slot(Label[arm].pos, "XYZ")
        grip == Slot(Label[arm].grip, "grip")
    IN  CASE mode = "position" -> <<pos>>
          [] mode = "rpy2" -> <<pos, Slot(Label[arm].rpy, "PY")>>
          [] mode = "rpy_gripper" -> <<pos, Slot(Label[arm].rpy, "RPY"), grip>>

Actions(mode) ==
    ArmSlots(mode, "left") \o ArmSlots(mode, "right") \o <<Slot("STOP", "bool")>>

\* The slots before the action in the templates of the arms of the study.
Preface(variant) ==
    CASE variant = "teacher" -> <<Slot("THOUGHT", "prose")>>
      [] variant = "action_only" -> <<>>
      [] variant \in {"rationale", "rationale_with_retrieval"} ->
           <<Slot("INTRINSIC_RATIONALE", "prose")>>
      [] variant = "gist_only" -> <<Slot("PAST_LESSONS", "prose")>>
      [] variant = "rationale_with_gist" ->
           <<Slot("PAST_LESSONS", "prose"), Slot("INTRINSIC_RATIONALE", "prose")>>

PerArm(mode, variant, scored) ==
    variant # "teacher" /\ mode = "rpy2" /\ scored \in Arms

\* get_stage1_prompt raises for the combinations that are not wired.
Wired(mode, variant, scored) ==
    \/ variant = "teacher"
    \/ /\ PerArm(mode, variant, scored)
       /\ variant \in {"rationale", "rationale_with_retrieval"}
    \/ mode = "position"

Asked(mode, variant, scored) ==
    IF PerArm(mode, variant, scored)
    THEN Preface(variant) \o <<Slot(Label[scored].pos, "XYZ"), Slot("STOP", "bool")>>
    ELSE Preface(variant) \o Actions(mode)

\* The critic's templates of stage 3: the action slots of the mode, revised.
AskedOfCritic(mode) == <<Slot("DIAGNOSIS", "prose")>> \o Actions(mode)

-----------------------------------------------------------------------------
(* What is found.                                                           *)

\* A pattern finds the value it wants at the start of a longer one.
Fits(form, wanted) ==
    form = wanted \/ <<form, wanted>> \in {<<"XYZ", "XY">>, <<"PYR", "PY">>}

Width == [XYZ |-> 3, XY |-> 2, PY |-> 2, RPY |-> 3, PYR |-> 3]

\* re.search: the first line with the slot, 0 if there is none.  A pattern without
\* REVISED_ is also found behind one.
Found(reply, slot, revised) ==
    SelectInSeq(reply, LAMBDA line :
        /\ line.label = slot.label
        /\ Fits(line.form, slot.form)
        /\ revised => line.revised)

Value(reply, slot, revised) ==
    LET val == reply[Found(reply, slot, revised)].val
    IN  IF slot.form \in DOMAIN Width THEN SubSeq(val, 1, Width[slot.form]) ELSE val

\* The validators of PositionTarget, RPYTarget, PushTarget (100) and OriOffset (180).
Limit(slot) == IF slot.label = "LEFT_TARGET_ORI" THEN 180 ELSE 100

Valid(reply, slot, revised) ==
    slot.form \in DOMAIN Width =>
        \A v \in ToSet(Value(reply, slot, revised)) : v \in -Limit(slot)..Limit(slot)

Extracted(reply, slot, revised) ==
    Found(reply, slot, revised) # 0 /\ Valid(reply, slot, revised)

\* Mutant of Required: the lines of both arms are required of a per-arm student.
RequiredOfBothArms(mode, scored) == ToSet(Actions(mode))

\* The slots that parse_stage1 insists on; with a scored arm, its position alone.
Required(mode, scored) ==
    IF scored \in Arms
    THEN {Slot(Label[scored].pos, "XYZ"), Slot("STOP", "bool")}
    ELSE ToSet(Actions(mode))

\* parse_stage1 and parse_stage3 succeed, else they raise ValueError.
Parses(reply, mode, scored) ==
    \A slot \in Required(mode, scored) : Extracted(reply, slot, FALSE)

CriticParses(reply, mode) ==
    \A slot \in ToSet(Actions(mode)) :
        Extracted(reply, slot, slot.label # "STOP")

\* The action of one arm: rpy and grip are <<>> where the mode has none, and the
\* roll that a 2-DoF mode has not is 0.
Hold == [pos |-> <<0, 0, 0>>, rpy |-> <<>>, grip |-> <<>>]

Taken(reply, mode, scored, arm) ==
    LET Get(slot) == Value(reply, slot, FALSE)
    IN  IF scored \in Arms \ {arm} THEN Hold
        ELSE [pos |-> Get(Slot(Label[arm].pos, "XYZ")),
              rpy |-> CASE mode = "position" \/ scored \in Arms -> <<>>
                        [] mode = "rpy2" /\ scored \notin Arms ->
                             <<0>> \o Get(Slot(Label[arm].rpy, "PY"))
                        [] mode = "rpy_gripper" /\ scored \notin Arms ->
                             Get(Slot(Label[arm].rpy, "RPY")),
              grip |-> IF mode = "rpy_gripper" /\ scored \notin Arms
                       THEN <<Get(Slot(Label[arm].grip, "grip"))>> ELSE <<>>]

Stops(reply) == Value(reply, Slot("STOP", "bool"), FALSE)

\* What the replay keeps as full_response: the text from THOUGHT to the first
\* line of the left arm, nothing when either is missing.
Thought(reply) ==
    LET at == SelectInSeq(reply, LAMBDA line : line.label = "THOUGHT")
        LeftArm(i) == ~reply[i].revised /\ reply[i].label \in {Label.left.pos, Label.left.rpy}
    IN  IF at # 0 /\ \E i \in (at + 1)..Len(reply) : LeftArm(i) THEN "prose" ELSE ""

\* parse_stage1_eef: a position, and orientation and grip where they are found.
EefParses(reply) ==
    LET ori == Slot("LEFT_TARGET_ORI", "PYR")
    IN  /\ Extracted(reply, Slot("LEFT_TARGET_POS", "XYZ"), FALSE)
        /\ Found(reply, ori, FALSE) # 0 => Valid(reply, ori, FALSE)
        /\ Found(reply, Slot("STOP", "bool"), FALSE) # 0

-----------------------------------------------------------------------------
(* The grid.  A metric axis [lo, hi] is given in integers, and a metric value *)
(* in two-hundredths of its unit, so that all of the grid is exact.           *)

Clamped(v) == IF v < -100 THEN -100 ELSE IF v > 100 THEN 100 ELSE v

\* int_to_metric and _int_to_angle.
IntToMetric(v, lo, hi) == 200 * lo + (Clamped(v) + 100) * (hi - lo)

\* n / d rounded to the nearest integer, halves to the even one, d > 0.
RoundHalfEven(n, d) ==
    LET q == n \div d
        r == n % d
    IN  IF 2 * r > d \/ (2 * r = d /\ q % 2 = 1) THEN q + 1 ELSE q

\* metric_to_int and _angle_to_int: clamped first, then rounded, and flagged.
MetricToInt(m, lo, hi) ==
    LET num == m - 200 * lo - 100 * (hi - lo)
        limit == 100 * (hi - lo)
    IN  [value |-> IF num < -limit THEN -100 ELSE IF num > limit THEN 100
                   ELSE RoundHalfEven(num, hi - lo),
         clamped |-> num < -limit \/ num > limit]

-----------------------------------------------------------------------------
(* What is done.                                                            *)

\* vlm_action_to_metric over the axes of the workspace.
ToMetric(action, bounds) ==
    [action EXCEPT !.pos = [i \in 1..3 |-> IntToMetric(@[i], bounds[i][1], bounds[i][2])],
                   !.rpy = [i \in DOMAIN @ |->
                               IntToMetric(@[i], IF i = 2 THEN -1 ELSE -2,
                                                 IF i = 2 THEN 1 ELSE 2)]]

\* execute_command holds the position of the arm that is not active, if the poses
\* of the arms can be read: the error of a read that fails is swallowed ("single-arm
\* mask skipped"), and the idle arm's target is executed as it stands.  Orientation
\* and gripper are always those of the reply, where the action has them.
Commanded(actions, active, masked, bounds) ==
    [arm \in Arms |->
        IF active \in Arms \ {arm} /\ masked
        THEN [ToMetric(actions[arm], bounds) EXCEPT !.pos = <<>>]
        ELSE ToMetric(actions[arm], bounds)]

\* format_trajectory_text: every (n div 10)-th step of the trajectory, and the last.
StepsShown(n) ==
    LET stride == IF n \div 10 > 1 THEN n \div 10 ELSE 1
    IN  {i \in 1..n : (i - 1) % stride = 0 \/ i = n}
=============================================================================
