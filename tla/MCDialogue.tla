------------------------------ MODULE MCDialogue ------------------------------
(* Model checking of VlmRound, and with it of Dialogue and Replies.            *)
EXTENDS VlmRound

Config(control, variant, scored, arm) ==
    [mode |-> control, variant |-> variant, scored |-> scored, arm |-> arm]

\* Every control mode, every kind of template, both arms, with and without a
\* scored arm, also where it is not the arm of the level.
MCConfigs ==
    {Config("position", "teacher", "none", "left"),
     Config("position", "rationale_with_gist", "none", "right"),
     Config("position", "action_only", "right", "left"),
     Config("position", "gist_only", "none", "none"),
     Config("rpy2", "teacher", "none", "none"),
     Config("rpy2", "rationale", "left", "none"),
     Config("rpy2", "rationale_with_retrieval", "right", "none"),
     Config("rpy_gripper", "teacher", "none", "none"),
     Config("rpy_gripper", "teacher", "left", "none")}

\* Axes of different lengths, in decimetres.
MCBounds == << <<-3, 6>>, <<-4, 4>>, <<0, 7>> >>

Val(form, far) ==
    CASE form \in {"prose"} -> "prose"
      [] form = "bool" -> ~far
      [] form = "grip" -> IF far THEN "closed" ELSE "open"
      [] form \in DOMAIN Width -> [i \in 1..Width[form] |-> IF far THEN 101 - i ELSE 33 * i - 100]

Line(slot, far) ==
    [label |-> slot.label, revised |-> FALSE, form |-> slot.form, val |-> Val(slot.form, far)]

Exact(c) ==
    LET asked == Asked(c.mode, c.variant, c.scored)
    IN  [i \in DOMAIN asked |-> Line(asked[i], FALSE)]

\* The reply as asked for; nothing; a line left out, out of range or named before
\* with another value; and an answer about both arms.
MCHeard(c) ==
    LET r == Exact(c)
        moving == {i \in DOMAIN r : r[i].form \in DOMAIN Width}
        Far(i) == [r EXCEPT ![i].val = [k \in DOMAIN @ |-> 101]]
        Before(i) == <<[r[i] EXCEPT !.val = Val(r[i].form, TRUE)]>> \o r
    IN  {r, <<>>, [i \in DOMAIN Actions(c.mode) |-> Line(Actions(c.mode)[i], TRUE)]}
          \cup {RemoveAt(r, i) : i \in {1, Len(r) - 1, Len(r)}}
          \cup {Far(i) : i \in moving} \cup {Before(i) : i \in moving}

-----------------------------------------------------------------------------
(* The conversions, over all that they can meet.                               *)

Axes == {<<-3, 6>>, <<-4, 4>>, <<0, 7>>, <<-2, 2>>, <<-1, 1>>}

\* A grid value survives the way to metres or radians and back, unflagged; one
\* beyond the grid comes back as the nearer end.
ASSUME GridRoundTrip ==
    \A a \in Axes : \A v \in -103..103 :
        MetricToInt(IntToMetric(v, a[1], a[2]), a[1], a[2])
          = [value |-> Clamped(v), clamped |-> FALSE]

\* A metric value comes back within half a grid step unless it is flagged.
ASSUME GridIsNearest ==
    \A a \in Axes : \A m \in (200 * a[1] - 5)..(200 * a[2] + 5) :
        LET g == MetricToInt(m, a[1], a[2])
            off == 2 * (IntToMetric(g.value, a[1], a[2]) - m)
        IN  IF g.clamped THEN m \notin (200 * a[1])..(200 * a[2])
            ELSE off <= a[2] - a[1] /\ -off <= a[2] - a[1]

\* A reply that asks for nothing but what the critic's template names is read back,
\* and no reply of stage 1 is taken for one of the critic's.
ASSUME CriticContract ==
    \A control \in ControlModes :
        LET asked == AskedOfCritic(control)
            Revised(on) == [i \in DOMAIN asked |->
                               [Line(asked[i], FALSE) EXCEPT
                                   !.revised = on /\ asked[i].label \notin {"DIAGNOSIS", "STOP"}]]
        IN  /\ CriticParses(Revised(TRUE), control)
            /\ ~CriticParses(Revised(FALSE), control)
            /\ Parses(Revised(TRUE), control, "none")

\* The push template's reply is read with the orientation, without it, and with
\* one of more than half a turn not at all.
ASSUME EefContract ==
    LET pos == Line(Slot("LEFT_TARGET_POS", "XYZ"), FALSE)
        Ori(v) == [label |-> "LEFT_TARGET_ORI", revised |-> FALSE, form |-> "PYR", val |-> <<0, v, 0>>]
        stop == Line(Slot("STOP", "bool"), FALSE)
    IN  /\ EefParses(<<pos, stop>>) /\ EefParses(<<pos, Ori(-180), stop>>)
        /\ ~EefParses(<<pos, Ori(181), stop>>) /\ ~EefParses(<<Ori(0), stop>>)

\* The critic of stage 3 always sees where the trajectory ended, in at most twenty
\* steps (not the ten to twelve of the comment).
ASSUME TrajectoryIsShort ==
    \A n \in 1..400 :
        n \in StepsShown(n) /\ 1 \in StepsShown(n) /\ Cardinality(StepsShown(n)) <= 20
=============================================================================
