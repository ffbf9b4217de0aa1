--------------------------- MODULE PairedAnalysis -----------------------------
(***************************************************************************)
(* The confirmatory analyses over finished runs: d11_mcnemar.py,            *)
(* l2_confirmatory.py and the independent recount of replay_recount.py.     *)
(*                                                                         *)
(* A run has                                                               *)
(*    log       the lines of its collect log: [kind "episode", idx, ep],    *)
(*              [kind "seed", seed] or [kind "other"]                       *)
(*    replays   its episodes' files: ep -> [success, fp], where fp is the   *)
(*              fingerprint of the first time step, none if it is not a     *)
(*              number                                                      *)
(*    written   the same episodes in the order of their modification times  *)
(* Significance is compared in integers: a level 1/50 or 1/100 by its       *)
(* denominator.                                                             *)
(***************************************************************************)
EXTENDS Integers, FiniteSets, SequencesExt

\* parse_log_order: an episode counts once its reset is logged.
ParseOrder(log) ==
    FoldLeft(LAMBDA a, line :
                CASE line.kind = "episode" -> [a EXCEPT !.pending = {line}]
                  [] line.kind = "seed" ->
                        [out |-> a.out \o SetToSeq({[idx |-> p.idx, ep |-> p.ep,
                                                     seed |-> line.seed] :
                                                        p \in a.pending}),
                         pending |-> {}]
                  [] OTHER -> a,
             [out |-> <<>>, pending |-> {}], log).out

\* Each index with the last episode of that index whose replay is found.
EpisodesOf(run) ==
    LET order == ParseOrder(run.log)
        found == {k \in DOMAIN order : order[k].ep \in DOMAIN run.replays}
        At(i) == CHOOSE k \in found : order[k].idx = i /\
                    \A j \in found : order[j].idx = i => j <= k
    IN  [i \in {order[k].idx : k \in found} |->
            [seed |-> order[At(i)].seed, fp |-> run.replays[order[At(i)].ep].fp,
             success |-> run.replays[order[At(i)].ep].success]]

Common(runs) == {i \in UNION {DOMAIN EpisodesOf(r) : r \in ToSet(runs)} :
                    \A r \in ToSet(runs) : i \in DOMAIN EpisodesOf(r)}

\* Against the first run; what is not a number is close to nothing (allclose).
Mismatches(runs) ==
    {i \in Common(runs) : \E r \in ToSet(Tail(runs)) :
        LET ref == EpisodesOf(runs[1])[i]
            e == EpisodesOf(r)[i]
        IN  e.seed # ref.seed \/ e.fp # ref.fp \/ e.fp = {}}

GatePasses(runs, n) == Mismatches(runs) = {} /\ Cardinality(Common(runs)) = n

\* Amendment 14: all or nothing.
Primary(runs, n) == IF GatePasses(runs, n) THEN "mcnemar" ELSE "z"

\* The episodes of the index set that one run wins and the other loses.
Cells(x, y, indices) ==
    LET ex == EpisodesOf(x)
        ey == EpisodesOf(y)
    IN  [b |-> Cardinality({i \in indices : ex[i].success /\ ~ey[i].success}),
         c |-> Cardinality({i \in indices : ey[i].success /\ ~ex[i].success})]

-----------------------------------------------------------------------------
(* The tests.                                                               *)

\* The critical values of chi-square with one degree of freedom, in thousandths.
Critical(level) == CASE level = 50 -> 5412 [] level = 100 -> 6635

Smaller(b, c) == IF b < c THEN b ELSE c

Ways(n, k) ==
    FoldLeft(LAMBDA product, i : (product * (n - i + 1)) \div i, 1,
             [i \in 1..k |-> i])

\* mcnemar: the exact binomial below 25 discordant pairs, then chi-square with
\* continuity correction.
McNemarSignificant(b, c, level) ==
    LET n == b + c
        tail == FoldSet(LAMBDA i, s : s + Ways(n, i), 0, 0..Smaller(b, c))
        excess == (IF b > c THEN b - c ELSE c - b) - 1
    IN  IF n < 25 THEN 2 * level * tail < 2 ^ n
        ELSE 1000 * excess * excess > Critical(level) * n

\* two_prop_z, for runs of one length.
ZSignificant(s1, s2, n, level) ==
    LET s == s1 + s2
        d == s1 - s2
    IN  s * (2 * n - s) # 0 /\ 2000 * n * d * d > Critical(level) * s * (2 * n - s)

Contrast(x, y, runs, n, level) ==
    LET indices == Common(runs)
        wins == Cells(x, y, indices)
        Total(r) == Cardinality({i \in indices : EpisodesOf(r)[i].success})
        significant ==
            IF GatePasses(runs, n) THEN McNemarSignificant(wins.b, wins.c, level)
            ELSE ZSignificant(Total(x), Total(y), Cardinality(indices), level)
    IN  [cells |-> wins, difference |-> Total(x) - Total(y), significant |-> significant]

\* T1 at its two strengths; the difference is in percentage points of n.
T1Strong(x, y, runs, n) ==
    LET t == Contrast(x, y, runs, n, 50)
    IN  t.significant /\ 10 * t.difference >= Cardinality(Common(runs))

T1Weak(x, y, runs, n) ==
    /\ Contrast(x, y, runs, n, 50).significant
    /\ Contrast(x, y, runs, n, 50).difference > 0
    /\ Contrast(x, y, runs, n, 100).significant

\* l2_confirmatory.py: two protocols, their gate on the frozen arm alone (fp), one
\* contrast.
L2Gate(x, y, n) == GatePasses(<<x, y>>, n)

L2Contrast(x, y, n) == Contrast(x, y, <<x, y>>, n, 100)

-----------------------------------------------------------------------------
(* replay_recount.py: the k-th file by modification time is episode k.       *)

RecountCells(x, y) ==
    LET k == Smaller(Len(x.written), Len(y.written))
        Won(r, i) == r.replays[r.written[i]].success
    IN  [b |-> Cardinality({i \in 1..k : Won(x, i) /\ ~Won(y, i)}),
         c |-> Cardinality({i \in 1..k : Won(y, i) /\ ~Won(x, i)})]

\* How many places the two orders agree on; it is printed, and stops nothing.
OrderAgreement(run) ==
    LET logged == SelectSeq(run.log, LAMBDA line : line.kind = "episode")
        k == Smaller(Len(run.written), Len(logged))
    IN  Cardinality({i \in 1..k : run.written[i] = logged[i].ep})


\* find_collect_log: of the logs that name the run, the one that carries its arm's
\* name, or the first; logs in the order of their names, the large ones left out.
CollectLog(logs) ==
    LET naming == SelectSeq(logs, LAMBDA l : l.names /\ ~l.large)
        ofArm == SelectSeq(naming, LAMBDA l : l.arm)
    IN  CASE ofArm # <<>> -> {ofArm[1]}
          [] ofArm = <<>> /\ naming # <<>> -> {naming[1]}
          [] OTHER -> {}

\* parse_report_values: what the reports say of a run or of a contrast.  The L2
\* report overrides the D11 report, the statistics of A15 override both, and what
\* those lack they report as a value that no count equals; a report that is not
\* there says nothing.
Reported(d11, l2, a15, name) ==
    LET Says(report) == UNION {IF name \in DOMAIN r THEN {r[name]} ELSE {} : r \in report}
    IN  CASE Says(a15) # {} -> Says(a15)
          [] Says(a15) = {} /\ Says(l2) # {} -> Says(l2)
          [] OTHER -> Says(d11)

Status(found, reported) ==
    CASE reported = {} -> "NOT FOUND"
      [] reported = {found} -> "MATCH"
      [] OTHER -> "MISMATCH"

RunStatus(run, reported) ==
    Status(Cardinality({k \in DOMAIN run.written : run.replays[run.written[k]].success}),
           reported)

\* main: it counts a run of another size, a run of other successes and a contrast of
\* other cells, and exits with 1 if there are any; what no report has is no mismatch.
RecountMismatches(runs, contrasts, n) ==
      Cardinality({k \in DOMAIN runs : Len(runs[k].run.written) # n})
    + Cardinality({k \in DOMAIN runs :
                      RunStatus(runs[k].run, runs[k].reported) = "MISMATCH"})
    + Cardinality({k \in DOMAIN contrasts :
                      LET c == contrasts[k]
                      IN  Status(RecountCells(runs[c.x].run, runs[c.y].run), c.reported)
                              = "MISMATCH"})

-----------------------------------------------------------------------------
(* d11_exploratory.py: every episode that a line of the log names and that has a *)
(* replay, by the index of the line; no seed is asked for.                     *)

NamedEpisodes(run) ==
    LET named == SelectSeq(run.log, LAMBDA line :
                     line.kind = "episode" /\ line.ep \in DOMAIN run.replays)
        Newest(i) == CHOOSE k \in DOMAIN named : named[k].idx = i /\
                         \A j \in DOMAIN named : named[j].idx = i => j <= k
    IN  [i \in {line.idx : line \in ToSet(named)} |-> run.replays[named[Newest(i)].ep].success]

\* The episodes that retrieval solves and the other run, or each of them, does not.
Rescued(c, others) ==
    LET all == <<c>> \o others
        common == {i \in DOMAIN NamedEpisodes(c) :
                      \A r \in ToSet(others) : i \in DOMAIN NamedEpisodes(r)}
    IN  [common |-> common,
         by |-> [k \in DOMAIN others |->
                    {i \in common : NamedEpisodes(c)[i] /\ ~NamedEpisodes(others[k])[i]}],
         all |-> {i \in common : /\ NamedEpisodes(c)[i]
                                 /\ \A r \in ToSet(others) : ~NamedEpisodes(r)[i]}]

\* The mean of some shifts, in tenths of a centimetre, against the two references:
\* nearer to that of the teacher with memory only if strictly so.
MemorylessShift == -235
MemoryShift == -158
CloserTo(shifts) ==
    LET Off(reference) ==
            LET d == FoldLeft(LAMBDA a, v : a + v - reference, 0, shifts)
            IN  IF d < 0 THEN -d ELSE d
    IN  IF Off(MemoryShift) < Off(MemorylessShift) THEN "mem-teacher" ELSE "D6"

\* The file is the last thing that is written: a mean of nothing stops the script
\* before it, be it of an arm's shifts, of the rescued episodes or of the others,
\* and so does the ratio to others that do not differ in where they start.
ExploratoryWritten(shifts, rescued, differ) ==
    /\ \A k \in DOMAIN shifts : shifts[k] # <<>>
    /\ rescued.all # {} /\ rescued.common \ rescued.all # {}
    /\ differ
=============================================================================
