---------------------------- MODULE TrainExamples -----------------------------
(***************************************************************************)
(* From the lines of a training file to the tokens that the loss sees:      *)
(* JsonlReplayDataset (train_qlora_gemma4.py), KtoJsonlDataset and the KTO  *)
(* loss (train_qlora_kto.py).  A line is [json ("blank", "bad" or "ok"),    *)
(* label, image, blank]: whether its image is there and whether its target  *)
(* is white space.  A response is a sequence of tokens, of which "LEFT" and *)
(* "RIGHT" begin a target line.                                             *)
(***************************************************************************)
EXTENDS Integers, FiniteSets, SequencesExt

-----------------------------------------------------------------------------
(* Loading.                                                                 *)

Parsed(line) == line.json = "ok"

LoadSft(lines) ==
    SelectSeq(lines, LAMBDA l : Parsed(l) /\ l.image /\ ~l.blank)

Labelled(line) == line.label \in {"desirable", "undesirable"}

LoadKto(lines) ==
    SelectSeq(lines, LAMBDA l : Parsed(l) /\ Labelled(l) /\ l.image /\ ~l.blank)

\* What the loader reports as skipped: not the blank and the broken lines.
SkippedKto(lines) ==
    Len(SelectSeq(lines, LAMBDA l :
            Parsed(l) /\ (~Labelled(l) \/ ~l.image \/ l.blank)))

-----------------------------------------------------------------------------
(* The tokens.  A text is the prompt, the response and the end of the turn.   *)

FirstOf(response, token) ==
    IF \E i \in DOMAIN response : response[i] = token
    THEN {CHOOSE i \in DOMAIN response :
              response[i] = token /\ \A j \in 1..(i - 1) : response[j] # token}
    ELSE {}

\* Where stage 4B takes the actions to start: at the first LEFT line or, without
\* one, at the first RIGHT line.
ActionStart(response) ==
    IF FirstOf(response, "LEFT") # {} THEN FirstOf(response, "LEFT")
    ELSE FirstOf(response, "RIGHT")

\* The tokens that are masked; without any target line the thought counts.
MaskedPrefix(stage, prompt, response) ==
    IF stage = "4B" /\ ActionStart(response) # {}
    THEN prompt + (CHOOSE i \in ActionStart(response) : TRUE) - 1
    ELSE prompt

Shorter(a, b) == IF a < b THEN a ELSE b

\* The positions that bear a label: what lies beyond maxLength is cut off.
Supervised(stage, prompt, response, maxLength) ==
    (MaskedPrefix(stage, prompt, response) + 1)
        ..Shorter(prompt + Len(response) + 1, maxLength)

\* A batch is padded to its longest text with positions that bear none.
CollatedLength(lengths) == CHOOSE n \in lengths : \A m \in lengths : m <= n
Collated(supervised, lengths) ==
    [i \in 1..CollatedLength(lengths) |-> i \in supervised]

\* A token is predicted from the one before it, so the first never counts.
Predicted(labels) == {i \in DOMAIN labels : i > 1 /\ labels[i]}

-----------------------------------------------------------------------------
(* The KTO run.                                                             *)

\* The adapters that each forward pass sees, by the mode the arguments choose;
\* the two modes exclude each other.
AcceptsModes(args) == ~({"warm_start", "frozen_adapter"} \subseteq args)

AdaptersOf(args) ==
    CASE "frozen_adapter" \in args ->
            [policy |-> {"sft_frozen", "kto"}, reference |-> {"sft_frozen"},
             trained |-> {"kto"}]
      [] OTHER ->
            [policy |-> {"default"}, reference |-> {},
             trained |-> {"default"}]

\* The adapters in force during and after a reference pass, which may fail.
ReferencePass(args) ==
    [during |-> AdaptersOf(args).reference, after |-> AdaptersOf(args).policy]

\* --auto-balance: a weight is <<numerator, denominator>>.
AutoBalance(desirable, undesirable) ==
    LET larger == IF desirable > undesirable THEN desirable ELSE undesirable
    IN  IF desirable = 0 \/ undesirable = 0
        THEN [desirable |-> <<1, 1>>, undesirable |-> <<1, 1>>]
        ELSE [desirable |-> <<larger, desirable>>,
              undesirable |-> <<larger, undesirable>>]

\* z0 is never negative; the sum of the batch's v is that of its mean times n.
Baseline(v) ==
    LET total == FoldLeft(LAMBDA sum, x : sum + x, 0, v)
    IN  IF total > 0 THEN total ELSE 0

\* The sign in which the loss moves an example's v: up when it is desirable.
Pull(isDesirable) == IF isDesirable THEN 1 ELSE -1

\* What training_meta.json records for every arm.
EffectiveSteps(samples, batch, accumulation, world, epochs) ==
    LET steps == samples \div (batch * accumulation * (IF world > 1 THEN world ELSE 1))
    IN  (IF steps > 1 THEN steps ELSE 1) * epochs
=============================================================================
