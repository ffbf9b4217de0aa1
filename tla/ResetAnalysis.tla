---------------------------- MODULE ResetAnalysis -----------------------------
(***************************************************************************)
(* The re-analysis of finished runs for the simulator's own time-out        *)
(* (a15_p1_autoreset_sensitivity.py, l2_autoreset_sensitivity.py): the step *)
(* of each episode at which the simulator reset by itself, derived from the *)
(* recorded counters alone, and the successes that remain before it.        *)
(*                                                                         *)
(* An episode of a run is                                                  *)
(*    steps     how many steps it recorded                                  *)
(*    dir       where its replay lies, "lost" if there is none              *)
(*    success   its outcome                                                 *)
(*    jumps     the change of the frozen arm's position at each step but    *)
(*              the first                                                   *)
(* Steps are numbered from 0, as the trajectory is.                         *)
(***************************************************************************)
EXTENDS PairedAnalysis

-----------------------------------------------------------------------------
(* The counter.                                                             *)

\* What the simulator counts: a reset makes one step of its own, each step that
\* is executed is recorded with the count after it, nothing sets it back.
Recorded(eps) ==
    LET Before(k) == FoldLeft(LAMBDA n, e : n + 1 + e.steps, 0, SubSeq(eps, 1, k - 1))
    IN  [k \in DOMAIN eps |-> [i \in 1..eps[k].steps |-> Before(k) + 1 + i]]

\* What is loaded of it: only the directories that the loader looks in.
Loaded(eps, dirs) ==
    [k \in DOMAIN eps |->
        [success |-> eps[k].success /\ eps[k].dir \in dirs, jumps |-> eps[k].jumps,
         counts |-> IF eps[k].dir \in dirs THEN Recorded(eps)[k] ELSE <<>>]]

ConfirmatoryDirs == {"success", "failure"}
AllDirs == ConfirmatoryDirs \cup {"parse_fail_quarantine"}

\* The frozen arm moves at the boundary b as it does nowhere else.
JumpMinGrid == 5
JumpRatio == 2
Confirmed(jumps, b) ==
    /\ b \in DOMAIN jumps
    /\ jumps[b] >= JumpMinGrid
    /\ \A i \in DOMAIN jumps \ {b} : jumps[b] > JumpRatio * jumps[i]

\* One row per episode.  The counter before it is the last one recorded, one more
\* for each episode since then of which no step is known.
Rows(loaded, max) ==
    LET Row(a, e) ==
            LET n == Len(e.counts)
                b == max - (e.counts[1] - a.last)
            IN  IF n = 0
                THEN [last |-> a.last + 1,
                      rows |-> Append(a.rows, [len |-> 0, success |-> e.success,
                                  boundary |-> {}, cross |-> FALSE, confirmed |-> FALSE,
                                  sens |-> e.success])]
                ELSE [last |-> e.counts[n],
                      rows |-> Append(a.rows, [len |-> n, success |-> e.success,
                                  boundary |-> {b}, cross |-> n > b,
                                  confirmed |-> n > b /\ Confirmed(e.jumps, b),
                                  sens |-> e.success /\ n - 1 < b])]
    IN  FoldLeft(Row, [last |-> 0, rows |-> <<>>], loaded).rows

Totals(rows) ==
    LET Number(P(_)) == Cardinality({k \in DOMAIN rows : P(rows[k])})
    IN  [asRun |-> Number(LAMBDA r : r.success), cross |-> Number(LAMBDA r : r.cross),
         afterBoundary |-> Number(LAMBDA r : r.len > 0 /\ r.success /\ r.cross),
         sens |-> Number(LAMBDA r : r.sens),
         ambiguous |-> Number(LAMBDA r : r.cross /\ ~r.confirmed)]

-----------------------------------------------------------------------------
(* The contrast of two runs, once as they ran and once by what remains.      *)

RowContrast(x, y, won, level) ==
    LET n == Smaller(Len(x), Len(y))
        Total(rows) == Cardinality({k \in 1..n : rows[k][won]})
        b == Cardinality({k \in 1..n : x[k][won] /\ ~y[k][won]})
        c == Cardinality({k \in 1..n : y[k][won] /\ ~x[k][won]})
    IN  [difference |-> Total(x) - Total(y), cells |-> <<b, c>>,
         byZ |-> ZSignificant(Total(x), Total(y), n, level),
         byMcNemar |-> McNemarSignificant(b, c, level)]

AsRun(x, y, level) == RowContrast(x, y, "success", level)
Sensitivity(x, y, level) == RowContrast(x, y, "sens", level)
=============================================================================
