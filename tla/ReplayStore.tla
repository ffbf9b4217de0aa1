----------------------------- MODULE ReplayStore ------------------------------
(***************************************************************************)
(* The replay directory as its readers see it (replay/buffer.py, and        *)
(* compute_level_metrics of eval/metrics.py).  A store is a set of files    *)
(*    run, dir, ep    where it lies: {run}/{dir}/{ep}                       *)
(*    name            "json", or "tmp" for one that write has not renamed   *)
(*    reads           it parses and fits the schema                         *)
(*    level, outcome  of the episode                                        *)
(***************************************************************************)
EXTENDS Integers, FiniteSets

\* _episode_dir: every outcome but one is a failure.
Directory(outcome) == IF outcome = "success" THEN "success" ELSE "failure"

\* write up to the rename, and as a whole; where it raises nothing is left.
BeginWrite(store, e) ==
    store \cup {[run |-> e.run, dir |-> Directory(e.outcome), ep |-> e.ep,
                 name |-> "tmp", reads |-> FALSE, level |-> e.level,
                 outcome |-> e.outcome]}

Write(store, e, fails) ==
    LET file == [run |-> e.run, dir |-> Directory(e.outcome), ep |-> e.ep,
                 name |-> "json", reads |-> TRUE, level |-> e.level,
                 outcome |-> e.outcome]
        Same(f) == f.run = e.run /\ f.dir = file.dir /\ f.ep = e.ep
    IN  IF fails THEN store
        ELSE {f \in store : ~(Same(f) /\ f.name = "json")} \cup {file}

\* No run stands for all of them; any failure asks for the whole directory, and a
\* file that cannot be read is skipped.
Iterate(store, runs, filter) ==
    {f \in store :
        /\ runs = {} \/ f.run \in runs
        /\ filter = {} \/ f.dir \in {Directory(o) : o \in filter}
        /\ f.name = "json" /\ f.reads}

Count(store, runs, filter) == Cardinality(Iterate(store, runs, filter))

SuccessRate(store, run) ==
    [total |-> Count(store, {run}, {}), successes |-> Count(store, {run}, {"success"})]

\* By the recorded outcome, not by the directory.
LevelMetrics(store, run, level) ==
    LET episodes == {f \in Iterate(store, {run}, {}) : f.level = level}
    IN  [total |-> Cardinality(episodes),
         successes |-> Cardinality({f \in episodes : f.outcome = "success"})]
=============================================================================
