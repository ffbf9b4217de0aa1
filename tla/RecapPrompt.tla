----------------------------- MODULE RecapPrompt ------------------------------
(***************************************************************************)
(* What a retrieval puts before the model: the preamble of retriever.py and *)
(* its ablation (a17_ablation.py), over the hits of RecapMemory.            *)
(*                                                                         *)
(* The text is the sequence of its parts that the ablation looks for: each  *)
(* has a kind and the number of the episode it is printed under (0 outside   *)
(* of them).  The first line of a lesson is prose and stands on its "lesson  *)
(* line"; the lines after it are printed as they are and may look like       *)
(* anything.                                                                *)
(***************************************************************************)
EXTENDS RecapMemory, SequencesExt

CONSTANT LessonOf  \* the kinds of the lines of each lesson after its first

Modes == {"text_only", "image_only"}

LessonKinds ==
    {"prose", "image line", "lesson line", "image clause", "lesson clause",
     "tail lessons"}

Kinds == LessonKinds \cup {"state anchors", "tail episodes"}

ASSUME LessonAssumption == \A r \in Ids : LessonOf[r] \in Seq(LessonKinds)

Part(kind, k) == [kind |-> kind, of |-> k]

Parts(kinds) == [kind : kinds, of : Nat]

\* The entries of a sequence that are in S, in their order.
Filter(seq, S) ==
    LET upTo[i \in 0..Len(seq)] ==
            IF i = 0 THEN <<>>
            ELSE IF seq[i] \in S THEN Append(upTo[i - 1], seq[i]) ELSE upTo[i - 1]
    IN  upTo[Len(seq)]

Occurrences(kind, text) == Len(Filter(text, Parts({kind})))

Without(kind, text) == Filter(text, Parts(Kinds \ {kind}))

-----------------------------------------------------------------------------
(* _format_preamble_text and retrieve_for_episode.                          *)

\* The hits, by score: retrieve sorts the chosen again at its end.
Ranked(hits, rank) ==
    LET pool == DOMAIN rank
    IN  Filter([k \in 1..Cardinality(pool) |-> CHOOSE r \in pool : rank[r] = k], hits)

\* The lines of a lesson after its first, printed under episode k.
LaterLines(r, k) == [j \in DOMAIN LessonOf[r] |-> Part(LessonOf[r][j], k)]

EpisodeBlock(r, k) ==
    <<Part("image line", k), Part("state anchors", k), Part("lesson line", k)>>
        \o LaterLines(r, k)

Text(kept) ==
    <<Part("image clause", 0), Part("lesson clause", 0)>>
        \o FlattenSeq([k \in DOMAIN kept |-> EpisodeBlock(kept[k], k)])
        \o <<Part("tail lessons", 0)>>

\* Mutant of Preamble: the text is not formatted again for the kept records.
PreambleOfAllHits(hits, shown) ==
    LET kept == Filter(hits, shown)
    IN  [records |-> kept, images |-> kept,
         text |-> IF kept = <<>> THEN <<>> ELSE Text(hits)]

\* The records whose first image is still there, that image of each, and the
\* text about them.
Preamble(hits, shown) ==
    LET kept == Filter(hits, shown)
    IN  [records |-> kept, images |-> kept,
         text |-> IF kept = <<>> THEN <<>> ELSE Text(kept)]

-----------------------------------------------------------------------------
(* ablate.  "raised" is a ValueError: the collect loop then runs the episode *)
(* without any memory.                                                      *)

Raised == [status |-> "raised", text |-> <<>>, images |-> <<>>]

TextOnly(pre) ==
    LET text == Without("image line", pre.text)
    IN  IF \/ Occurrences("image line", pre.text) # Len(pre.records)
           \/ Occurrences("image clause", text) # 1
        THEN Raised
        ELSE [status |-> "given", text |-> Without("image clause", text),
              images |-> <<>>]

\* The lesson of episode k is in the text, from its first line to its last (no lesson
\* has the whole of another one, or of the frame, among its lines).
LessonSurvives(pre, k, text) ==
    {Part("lesson line", k)} \cup ToSet(LaterLines(pre.records[k], k)) \subseteq ToSet(text)

ImageOnly(pre) ==
    LET text == Without("lesson line", pre.text)
    IN  IF \/ Occurrences("lesson line", pre.text) # Len(pre.records)
           \/ \E k \in DOMAIN pre.records : LessonSurvives(pre, k, text)
           \/ Occurrences("lesson clause", text) # 1
           \/ Occurrences("tail lessons", text) # 1
        THEN Raised
        ELSE [status |-> "given", images |-> pre.images,
              text |-> Without("tail lessons", Without("lesson clause", text))
                           \o <<Part("tail episodes", 0)>>]

Ablate(pre, mode) ==
    CASE pre.records = <<>> -> [status |-> "given", text |-> <<>>, images |-> <<>>]
      [] pre.records # <<>> /\ mode = "text_only" -> TextOnly(pre)
      [] pre.records # <<>> /\ mode = "image_only" -> ImageOnly(pre)

-----------------------------------------------------------------------------
(* Properties.                                                             *)

\* The numbers of the episodes whose image the text announces, in its order.
Announced(text) ==
    LET lines == Filter(text, Parts({"image line"}))
    IN  [j \in DOMAIN lines |-> lines[j].of]

\* What the mode looks for, and a later line of a lesson may imitate.
LooksFor(mode) ==
    IF mode = "text_only" THEN {"image line", "image clause"}
    ELSE {"lesson line", "lesson clause", "tail lessons"}

Imitated(pre, kinds) == \E r \in ToSet(pre.records) : ToSet(LessonOf[r]) \cap kinds # {}

\* The ablation gives up if and only if a lesson imitates what it looks for.  Of what
\* it returns, every part is accounted for: the frame's, each episode's, and nothing
\* but the announced component is missing.  The lines of a lesson after its first are
\* not found by the pattern of the lesson line: they are in the text of either mode.
TakesAwayOne(pre, mode) ==
    LET out == Ablate(pre, mode)
        n == Len(pre.records)
        Of(k) == Filter(out.text, [kind : Kinds, of : {k}])
        Later(k) == LaterLines(pre.records[k], k)
    IN  /\ out.status = "raised" <=> Imitated(pre, LooksFor(mode))
        /\ out.status = "given" /\ n > 0 =>
             IF mode = "text_only"
             THEN /\ out.images = <<>> /\ Announced(out.text) = <<>>
                  /\ Of(0) = <<Part("lesson clause", 0), Part("tail lessons", 0)>>
                  /\ \A k \in 1..n :
                        Of(k) = <<Part("state anchors", k), Part("lesson line", k)>> \o Later(k)
             ELSE /\ out.images = pre.records
                  /\ Announced(out.text) = [j \in 1..n |-> j] <=> ~Imitated(pre, {"image line"})
                  /\ Of(0) = <<Part("image clause", 0), Part("tail episodes", 0)>>
                  /\ \A k \in 1..n :
                        Of(k) = <<Part("image line", k), Part("state anchors", k)>> \o Later(k)

\* From whatever retrieval and with whichever images lost, the ablation removes what
\* its patterns find and leaves all the rest, each part under its own episode: without
\* images the lessons are whole; without lesson lines what is announced as image i is
\* the i-th image sent, unless a line left of a lesson announces another; and it gives
\* up, so that the episode runs without memory, where a lesson imitates the preamble
\* and only there.
AblationIsExact ==
    answer.status = "given" => \A mode \in Modes :
        TakesAwayOne(Preamble(Ranked(answer.hits, answer.rank), answer.shown), mode)

\* Nothing is left of an episode but its image line and its state anchors.
LessonsGone(pre, out) ==
    \A k \in DOMAIN pre.records :
        Filter(out.text, [kind : Kinds, of : {k}]) =
            <<Part("image line", k), Part("state anchors", k)>>

\* What is said of image_only: it "removes exactly one of them", the lesson, and a
\* lesson of several lines that survives is an error.  So nothing of a lesson is left
\* in a preamble that is returned.
LessonIsRemoved ==
    answer.status = "given" =>
        LET pre == Preamble(Ranked(answer.hits, answer.rank), answer.shown)
            out == Ablate(pre, "image_only")
        IN  out.status = "given" => LessonsGone(pre, out)
=============================================================================
