----------------------------- MODULE LifeWindows ------------------------------
(***************************************************************************)
(* The window analysis of a long life of the push memory                    *)
(* (wp3a_life_windows.py).  An episode is a record                          *)
(*    seed, success, recap      recap: its lesson is in the buffer          *)
(*    hits                      the successes among the records it was      *)
(*                              shown, a sequence of booleans               *)
(*    moved, lesson             the cube moved; "none", "plain", "keyword"  *)
(*                              or "assertive"                              *)
(*    angle                     it has both angles of round 1               *)
(* The correlation of a window, and whether it is significant, are inputs.   *)
(* Its estimator, the r-tracker (p2_r_tracker.py), with the selection of the  *)
(* episodes that it is applied to (push_r_inputs.py), comes last.            *)
(***************************************************************************)
EXTENDS Integers, FiniteSets, SequencesExt

\* Where the episodes of a run are taken from: the first source that has any.
RunSource(has) ==
    SelectSeq(<<"smoke file", "log", "dumps", "replays">>, LAMBDA s : s \in has)

InSeedOrder(eps) == SortSeq(eps, LAMBDA d, e : d.seed < e.seed)

\* Whole windows only, what is left over is in none; or one window of all.
Windows(eps, size) ==
    LET all == InSeedOrder(eps)
        whole == Len(all) \div size
        n == IF whole = 0 /\ all # <<>> THEN 1 ELSE whole
    IN  [w \in 1..n |->
            SubSeq(all, (w - 1) * size + 1,
                   IF n = 1 /\ Len(all) < size THEN Len(all) ELSE w * size)]

CountOf(eps, Test(_)) == Len(SelectSeq(eps, Test))

\* The recaps that the window's first episode could be shown.
BufferAtStart(eps, size, w) ==
    CountOf(SubSeq(InSeedOrder(eps), 1, (w - 1) * size), LAMBDA e : e.recap)

\* A lesson about a cube that never moved; an assertive one also has a keyword.
Still(window) == SelectSeq(window, LAMBDA e : e.lesson # "none" /\ ~e.moved)

WindowRow(eps, size, w) ==
    LET window == Windows(eps, size)[w]
        hits == FlattenSeq([k \in DOMAIN window |-> window[k].hits])
    IN  [episodes |-> Len(window),
         successes |-> CountOf(window, LAMBDA e : e.success),
         buffer |-> BufferAtStart(eps, size, w),
         hits |-> Len(hits),
         hitSuccess |-> CountOf(hits, LAMBDA h : h),
         still |-> Len(Still(window)),
         assertive |-> CountOf(Still(window), LAMBDA e : e.lesson = "assertive"),
         keyword |-> CountOf(Still(window), LAMBDA e : e.lesson # "plain"),
         usable |-> CountOf(window, LAMBDA e : e.angle) >= 5]

-----------------------------------------------------------------------------
(* The trend, over the valid windows: [index, corr, significant, successes]. *)

Sum(f) == FoldSet(LAMBDA i, s : s + f[i], 0, DOMAIN f)

\* The slope, up to a positive factor.
Slope(x, y) == Len(x) * Sum([i \in DOMAIN x |-> x[i] * y[i]]) - Sum(x) * Sum(y)

Size(n) == IF n < 0 THEN -n ELSE n

\* p < 0.05 by enumeration, which is what up to eight windows get.
SlopeSignificant(x, y) ==
    LET k == Len(x)
        perms == Permutations(1..k)
        asSteep == {p \in perms :
                       Size(Slope(x, [i \in 1..k |-> y[p[i]]])) >= Size(Slope(x, y))}
    IN  Slope(x, y) # 0 /\ 20 * Cardinality(asSteep) < Cardinality(perms)

\* The last window has to be significant by itself for a climb.
LastWindow == 6

LifeVerdict(windows) ==
    LET valid == SelectSeq(windows, LAMBDA w : w.valid)
        x == [k \in DOMAIN valid |-> valid[k].index]
        corr == [k \in DOMAIN valid |-> valid[k].corr]
        wins == [k \in DOMAIN valid |-> valid[k].successes]
        Up(y) == Slope(x, y) > 0 /\ SlopeSignificant(x, y)
        Down(y) == Slope(x, y) < 0 /\ SlopeSignificant(x, y)
        uninformative == Len(windows) - Len(valid) >= 2 \/ Len(valid) < 2
        climb == Up(corr) /\ \E k \in DOMAIN valid :
                                valid[k].index = LastWindow /\ valid[k].significant
        shortcut == Up(wins) /\ ~Up(corr)
    IN  CASE uninformative -> "uninformative"
          [] ~uninformative /\ climb -> "climb"
          [] ~uninformative /\ ~climb /\ shortcut -> "shortcut"
          [] ~uninformative /\ ~climb /\ ~shortcut /\ Down(corr) -> "degrade"
          [] OTHER -> "plateau"

\* compute_joint_verdict: what is claimed of memory needs both lives.
JointVerdict(v, w) ==
    CASE "uninformative" \in {v, w} -> "uninformative"
      [] "uninformative" \notin {v, w} /\ v = w -> v
      [] OTHER -> "not reproduced"
-----------------------------------------------------------------------------
(* The r-tracker.  The values of an analysis are integers; a permutation of one *)
(* side leaves the variances as they are, so correlations are compared by their *)
(* numerators.                                                               *)

\* _rank, doubled: the mean of the places of equal values.
Rank(xs) ==
    [i \in DOMAIN xs |->
        2 * Cardinality({j \in DOMAIN xs : xs[j] < xs[i]})
            + Cardinality({j \in DOMAIN xs : xs[j] = xs[i]}) + 1]

\* The numerator of spearman: the mean of the doubled ranks is one more than their
\* number.
Spearman(c, s) ==
    LET mean == Len(c) + 1
    IN  Sum([i \in DOMAIN c |-> (Rank(c)[i] - mean) * (Rank(s)[i] - mean)])

\* state * 1103515245 + 12345 in 31 bits, by digits of 12 bits.
Lcg(state) ==
    LET a == <<state % 4096, (state \div 4096) % 4096, state \div (4096 * 4096)>>
        b == <<3693, 3172, 65>>
        low == a[1] * b[1] + 12345
        mid == a[1] * b[2] + a[2] * b[1] + low \div 4096
        top == a[1] * b[3] + a[2] * b[2] + a[3] * b[1] + mid \div 4096
    IN  (top % 128) * (4096 * 4096) + (mid % 4096) * 4096 + (low % 4096)

\* _seeded_shuffle
Shuffle(xs, seed) ==
    LET n == Len(xs)
        Step(a, i) ==
            LET state == Lcg(a.state)
                j == (state % i) + 1
            IN  [state |-> state,
                 xs |-> [a.xs EXCEPT ![i] = a.xs[j], ![j] = a.xs[i]]]
    IN  FoldLeft(Step, [state |-> Lcg(seed), xs |-> xs], [k \in 1..(n - 1) |-> n - k + 1]).xs

\* chance_band and r_for_generation: above the 97.5th percentile of the shuffles,
\* whose index is rounded (without a tie for the numbers that are used).
AboveBand(c, s, perms) ==
    LET null == SortSeq([k \in 1..perms |-> Spearman(c, Shuffle(s, k))], <)
        index == (2 * 975 * (perms - 1) + 1000) \div 2000
    IN  Spearman(c, s) > null[index + 1]

\* monotonic_climb: how many of the shuffles rise at least as well, plus one; the
\* p-value is this over perms + 1.
ClimbRank(rs, perms) ==
    LET gens == [k \in DOMAIN rs |-> k]
    IN  1 + Cardinality({k \in 0..(perms - 1) :
                            Spearman(gens, Shuffle(rs, 7 + k)) >= Spearman(gens, rs)})

-----------------------------------------------------------------------------
(* Its inputs.  A replay has: eef, stage1, bounds, ee, cube and goal, each a set *)
(* with what it recorded or nothing; its label and its rung.                  *)

\* _r1_target_xy: the recorded target of round 1, or the first answer on the
\* recorded grid.
R1Target(ep) ==
    CASE ep.eef # {} -> ep.eef
      [] ep.eef = {} /\ ep.bounds # {} -> ep.stage1
      [] OTHER -> {}

\* load_push_r_inputs: what lacks a field is left out without a word.
RInputs(eps, label, rung) ==
    SelectSeq(eps, LAMBDA ep :
        /\ {} \notin {ep.ee, ep.cube, ep.goal, R1Target(ep)}
        /\ label = {} \/ ep.label \in label
        /\ rung = {} \/ ep.rung \in rung)

\* main: r is per rung, and needs three episodes.
RReport(eps, label, rung) ==
    LET inputs == RInputs(eps, label, rung)
        rungs == {ep.rung : ep \in ToSet(inputs)}
    IN  CASE Cardinality(rungs) > 1 -> "mixed rungs"
          [] Cardinality(rungs) <= 1 /\ Len(inputs) < 3 -> "too few"
          [] OTHER -> "correlations"

\* wp3a_pilot_report.py: the next rung of the ladder, or a stop.
RungThreshold == 5
NextRung(rung) == CASE rung = "1" -> "1b" [] rung = "1b" -> "2" [] rung \in {"2", "3"} -> "stop"
RungDecision(successes, rung) ==
    IF successes < RungThreshold THEN NextRung(rung) ELSE "collect"

\* contact_summary: rounds as [moved, min], with nothing where no report was made.
ContactSummary(eps) ==
    LET Moved(e) == SelectSeq(e, LAMBDA r : r.moved)
        Closest(e) == {m \in UNION {r.min : r \in ToSet(e)} :
                          \A r \in ToSet(e) : \A n \in r.min : m <= n}
    IN  [touched |-> CountOf(eps, LAMBDA e : Moved(e) # <<>>),
         rounds |-> Sum([k \in DOMAIN eps |-> Len(Moved(eps[k]))]),
         within |-> CountOf(eps, LAMBDA e : \E m \in Closest(e) : m <= 10)]
=============================================================================
