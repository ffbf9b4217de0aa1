----------------------------- MODULE TrainingData -----------------------------
(***************************************************************************)
(* The rows of the training files, as functions of the campaign that was   *)
(* recorded: the lessons each episode retrieved, found in the collect logs *)
(* (extract_historical_retrievals.py), the rounds that become rows and     *)
(* what each arm's row asks the student to say (prep_training_data.py), and *)
(* the rows that the filter lets through (filter_rationale_deterministic.  *)
(* py).  A campaign w is a record                                          *)
(*    log      the lines of the collect logs that the extractor knows      *)
(*    recaps   [recap -> "absent", "bad" (does not parse), "blank" (no     *)
(*             text) or "text"]                                            *)
(*    episodes [episode -> [outcome, dumped (meta.json is there), rounds,  *)
(*             traj (the active arm's distance at every step)]]            *)
(* and a round is [meta, image, full, dumpedText, spatial]: whether        *)
(* meta.json lists it, whether its image is there, the response in the     *)
(* replay ("", "blank", "prose" or "coords": target lines only) and in     *)
(* meta.json, and whether the prose has a spatial token.  A target is the  *)
(* set of its blocks.                                                      *)
(***************************************************************************)
EXTENDS Integers, FiniteSets, SequencesExt

CONSTANTS
    StepsPerRound,     \* --sim_steps_per_round
    ProgressThreshold, \* --progress_threshold_cm, in the unit of traj
    MaxLessons         \* max_lessons of format_rationale_gist

ASSUME TrainingDataAssumption ==
    /\ StepsPerRound \in Nat \ {0}
    /\ ProgressThreshold \in Nat
    /\ MaxLessons \in Nat \ {0}

-----------------------------------------------------------------------------
(* The lessons of an episode.                                               *)

\* An "Episode" line flushes the episode before it; a "memory: injected" line
\* belongs to the episode that is open, and replaces what it had.
ReadLine(read, line) ==
    CASE line.kind = "episode" ->
           [entries |-> read.entries \o read.current,
            current |-> <<[ep |-> line.ep, retrieved |-> <<>>]>>]
      [] line.kind = "injected" /\ read.current # <<>> ->
           [read EXCEPT !.current[1].retrieved = line.recaps]
      [] OTHER -> read

ParseLog(log) ==
    LET read == FoldLeft(ReadLine, [entries |-> <<>>, current |-> <<>>], log)
    IN  read.entries \o read.current

\* The recaps of the episode that are still on disk and parse; the others are
\* orphans.
LoadLessons(w, retrieved) ==
    SelectSeq(retrieved, LAMBDA r : w.recaps[r] \in {"blank", "text"})

\* The rationale map: one line per logged episode, the first of an episode wins.
RationaleMap(w) ==
    LET entries == ParseLog(w.log)
        logged == {entries[i].ep : i \in DOMAIN entries}
        First(ep) == CHOOSE i \in DOMAIN entries :
            entries[i].ep = ep /\ \A j \in 1..(i - 1) : entries[j].ep # ep
    IN  [ep \in logged |-> LoadLessons(w, entries[First(ep)].retrieved)]

Lessons(w, ep) ==
    IF ep \in DOMAIN RationaleMap(w) THEN RationaleMap(w)[ep] ELSE <<>>

-----------------------------------------------------------------------------
(* From a round to a row.                                                   *)

\* full_response, or what meta.json kept of it.
Response(round) == IF round.full # "" THEN round.full ELSE round.dumpedText

Usable(round) ==
    /\ round.meta
    /\ round.image
    /\ Response(round) \notin {"", "blank"}

\* The prose before the first coordinate line; full_response alone is read.
HasThought(round) == round.full = "prose"

\* The lessons that the gist quotes; its header stands even when all are blank.
Quoted(w, ep) ==
    LET lessons == Lessons(w, ep)
        shown == SubSeq(lessons, 1, IF Len(lessons) < MaxLessons
                                    THEN Len(lessons) ELSE MaxLessons)
    IN  SelectSeq(shown, LAMBDA r : w.recaps[r] = "text")

\* Mutant of Dropped: --restrict_to_retrievable is not honoured.
DroppedWithoutRestriction(w, source, restrict, ep) ==
    Lessons(w, ep) = <<>> /\ source \in {"retrieval", "gist_only"}

\* The arms with a gist need lessons, and --restrict_to_retrievable asks the
\* same of the arms without.
Dropped(w, source, restrict, ep) ==
    Lessons(w, ep) = <<>> /\ (source \in {"retrieval", "gist_only"} \/ restrict)

\* Without a thought of its own, the native arm keeps the raw response.
Target(source, round) ==
    LET gist == IF source \in {"retrieval", "gist_only"} THEN {"gist"} ELSE {}
        thought == IF source \in {"retrieval", "native"} /\ HasThought(round)
                   THEN {"thought"} ELSE {}
    IN  IF source = "native" /\ thought = {} THEN {"raw"}
        ELSE gist \cup thought \cup {"action"}

\* The window of the round's steps, cut at the end of the trajectory.
Progress(traj, r) ==
    LET first == (r - 1) * StepsPerRound + 1
        last == IF r * StepsPerRound < Len(traj) THEN r * StepsPerRound ELSE Len(traj)
    IN  IF first > Len(traj) THEN "unknown"
        ELSE IF traj[last] < traj[first] - ProgressThreshold THEN "yes" ELSE "no"

Label(outcome, progress) ==
    CASE progress # "yes" -> "none"
      [] progress = "yes" /\ outcome = "success" -> "desirable"
      [] progress = "yes" /\ outcome = "failure" -> "undesirable"

\* The rounds that --only_progress_round leaves of an episode; the arm is not
\* asked.
Kept(w, ep) ==
    {r \in DOMAIN w.episodes[ep].rounds :
        /\ Usable(w.episodes[ep].rounds[r])
        /\ Progress(w.episodes[ep].traj, r) = "yes"}

Row(w, source, ep, r) ==
    [ep |-> ep, round |-> r,
     label |-> Label(w.episodes[ep].outcome, Progress(w.episodes[ep].traj, r)),
     target |-> Target(source, w.episodes[ep].rounds[r])]

\* build_samples, over the success directory and, with --include_failures, the
\* failure directory.
Read(w, source, restrict, includeFailures, ep) ==
    /\ w.episodes[ep].outcome = "success" \/ includeFailures
    /\ w.episodes[ep].dumped
    /\ ~Dropped(w, source, restrict, ep)

BuildSamples(w, source, restrict, includeFailures) ==
    UNION {{Row(w, source, ep, r) : r \in Kept(w, ep)} :
              ep \in {x \in DOMAIN w.episodes :
                         Read(w, source, restrict, includeFailures, x)}}

-----------------------------------------------------------------------------
(* The filter.                                                              *)

\* Rule 3 reads what follows the last quoted lesson: nothing, when the gist
\* quotes none, for the target then has no line to split at.
Vacuous(w, row) ==
    \/ "gist" \in row.target /\ Quoted(w, row.ep) = <<>>
    \/ /\ row.target = {"raw"}
       /\ Response(w.episodes[row.ep].rounds[row.round]) = "prose"
       /\ ~w.episodes[row.ep].rounds[row.round].spatial

\* Under flags_only_a6 no rule drops a row; otherwise rule 3 does.
Keeps(w, policy, row) == policy = "flags_only_a6" \/ ~Vacuous(w, row)

Filter(w, policy, rows) == {row \in rows : Keeps(w, policy, row)}
=============================================================================
