----------------------------- MODULE DialogueProofs -----------------------------
(***************************************************************************)
(* Theorems of Dialogue for every number of rounds, window, number of      *)
(* images and number of retries of either loop.                            *)
(***************************************************************************)
EXTENDS VlmRound, SequenceTheorems, WellFoundedInduction, TLAPS

\* The requests that one attempt of run_stage1 may cost.
PerAttempt == PostRetries + 1

\* A post under way has used up the earlier attempts and tries at most.
RetryInv ==
    /\ attempt \in 0..ParseRetries
    /\ tries \in 0..PostRetries
    /\ posts \in Nat
    /\ pc = "post" => posts <= attempt * PerAttempt + tries
    /\ PostsBounded

\* The budget of attempts grows by PerAttempt with each of them.
LEMMA AttemptBudget ==
    ASSUME NEW a \in 0..ParseRetries
    PROVE  /\ a * PerAttempt \in Nat
           /\ (a + 1) * PerAttempt = a * PerAttempt + PerAttempt
           /\ a * PerAttempt + PerAttempt <= (ParseRetries + 1) * PerAttempt
           /\ (ParseRetries + 1) * PerAttempt \in Nat
<1>1. ParseRetries \in Nat /\ PerAttempt \in Nat /\ a \in Nat
  BY DialogueAssumption DEF DialogueAssumption, PerAttempt
<1> HIDE DEF PerAttempt
<1>2. (a + 1) * PerAttempt <= (ParseRetries + 1) * PerAttempt
  <2>1. PICK d \in Nat : ParseRetries + 1 = (a + 1) + d
    <3>1. ParseRetries - a \in Nat /\ ParseRetries + 1 = (a + 1) + (ParseRetries - a)
      BY <1>1
    <3> QED  BY <3>1
  <2>2. (ParseRetries + 1) * PerAttempt = (a + 1) * PerAttempt + d * PerAttempt
    BY <1>1, <2>1
  <2>3. d * PerAttempt \in Nat /\ (a + 1) * PerAttempt \in Nat
    BY <1>1, <2>1
  <2> QED  BY <2>2, <2>3
<1> QED  BY <1>1, <1>2

LEMMA InitRetry == Init => RetryInv
<1> SUFFICES ASSUME Init PROVE RetryInv
  OBVIOUS
<1>1. (ParseRetries + 1) * PerAttempt \in Nat
  BY DialogueAssumption, AttemptBudget DEF DialogueAssumption
<1> QED
  BY <1>1, DialogueAssumption
     DEF DialogueAssumption, Init, RetryInv, PostsBounded, PerAttempt

LEMMA StepRetry == RetryInv /\ [Next]_dialogueVars => RetryInv'
<1> SUFFICES ASSUME RetryInv, [Next]_dialogueVars PROVE RetryInv'
  OBVIOUS
<1> DEFINE limit == (ParseRetries + 1) * PerAttempt
<1>1. /\ ParseRetries \in Nat /\ PostRetries \in Nat /\ attempt \in 0..ParseRetries
      /\ tries \in 0..PostRetries /\ posts \in Nat /\ posts <= limit
      /\ PerAttempt = PostRetries + 1
      /\ pc = "post" => posts <= attempt * PerAttempt + tries
  BY DialogueAssumption
     DEF DialogueAssumption, RetryInv, PostsBounded, PerAttempt
<1>2. /\ limit \in Nat /\ attempt * PerAttempt \in Nat
      /\ (attempt + 1) * PerAttempt = attempt * PerAttempt + PerAttempt
      /\ attempt * PerAttempt + PerAttempt <= limit
  BY <1>1, AttemptBudget
<1>3. ASSUME NEW n, NEW a, NEW t, posts' = n, attempt' = a, tries' = t,
             a \in 0..ParseRetries, t \in 0..PostRetries, n \in Nat, n <= limit,
             pc' = "post" => n <= a * PerAttempt + t
      PROVE  RetryInv'
  BY <1>3 DEF RetryInv, PostsBounded, PerAttempt
<1> HIDE DEF limit
<1>4. CASE StartRound
  <2>1. 0 * PerAttempt = 0
    BY <1>1
  <2> QED  BY <1>1, <1>2, <1>3, <1>4, <2>1 DEF StartRound
<1>5. ASSUME Post PROVE posts' = posts + 1 /\ posts' \in Nat /\ posts' <= limit
  <2>1. PostsCap = limit + 1
    BY <1>1 DEF PostsCap, limit
  <2> QED  BY <1>1, <1>2, <1>5, <2>1 DEF Post
<1>6. CASE Answered \/ OtherError
  BY <1>1, <1>3, <1>5, <1>6 DEF Answered, OtherError
<1>7. CASE Unusable
  <2>1. CASE attempt = ParseRetries
    BY <1>1, <1>3, <1>5, <1>7, <2>1 DEF Unusable
  <2>2. CASE attempt # ParseRetries
    <3>0. posts' = posts + 1 /\ pc = "post"
      BY <1>5, <1>7 DEF Unusable, Post
    <3>1. /\ attempt' = attempt + 1 /\ tries' = 0 /\ attempt + 1 \in 0..ParseRetries
          /\ posts' <= (attempt + 1) * PerAttempt + 0
      BY <1>1, <1>2, <1>7, <2>2, <3>0 DEF Unusable
    <3> QED  BY <1>1, <1>3, <1>5, <1>7, <3>1 DEF Unusable
  <2> QED  BY <2>1, <2>2
<1>8. CASE Transient
  <2>1. CASE tries = PostRetries
    BY <1>1, <1>3, <1>5, <1>8, <2>1 DEF Transient
  <2>2. CASE tries # PostRetries
    <3>0. posts' = posts + 1 /\ pc = "post"
      BY <1>5, <1>8 DEF Transient, Post
    <3>1. /\ tries' = tries + 1 /\ attempt' = attempt /\ tries + 1 \in 0..PostRetries
          /\ posts' <= attempt * PerAttempt + (tries + 1)
      BY <1>1, <1>2, <1>8, <2>2, <3>0 DEF Transient
    <3> QED  BY <1>1, <1>3, <1>5, <1>8, <3>1 DEF Transient
  <2> QED  BY <2>1, <2>2
<1>9. CASE EpisodeOver \/ UNCHANGED dialogueVars
  BY <1>1, <1>3, <1>9 DEF EpisodeOver, dialogueVars
<1> QED  BY <1>4, <1>6, <1>7, <1>8, <1>9 DEF Next, Reply

\* One round never posts more often than the two retry limits allow together.
THEOREM PostsCorrect == Spec => []PostsBounded
<1>1. RetryInv => PostsBounded
  BY DEF RetryInv
<1> QED  BY <1>1, InitRetry, StepRetry, PTL DEF Spec

-----------------------------------------------------------------------------
(* What is posted.                                                         *)

FirstText ==
    [role |-> "user", round |-> 1,
     parts |-> <<Text("system")>> \o Preamble \o Question(<<>>)]

Asking(k) == [role |-> "user", round |-> k, parts |-> Question(<<>>)]

\* How many turns are kept after r answers.
Kept(r) == IF r <= Window THEN 2 * r ELSE 2 * Window + 1

\* The i-th of them, without its images.
Turn(i, r) ==
    IF i = 1 THEN FirstText
    ELSE IF r <= Window
         THEN IF i % 2 = 1 THEN Asking((i + 1) \div 2) ELSE AssistantTurn(i \div 2)
         ELSE IF i % 2 = 0 THEN Asking(r - Window + i \div 2)
                           ELSE AssistantTurn(r - Window + (i - 1) \div 2)

\* An idle conversation after r answers.
Remembered(r) ==
    /\ messages \in Seq(Message) /\ Len(messages) = Kept(r)
    /\ \A i \in 1..Kept(r) : WithoutImages(messages[i]) = Turn(i, r)

\* The turn of round r, which is the first of the conversation in round 1.
FirstTurn ==
    [role |-> "user", round |-> 1,
     parts |-> <<Text("system")>> \o Preamble \o Question(PastViews \o PresentViews)]

LaterTurn(r) == [role |-> "user", round |-> r, parts |-> Question(PresentViews)]

Now(r) == IF r = 1 THEN FirstTurn ELSE LaterTurn(r)

\* A conversation that is posted in round r.
AskedIn(r) ==
    messages = Append([i \in 1..Kept(r - 1) |-> Turn(i, r - 1)], Now(r))

DialogueInv ==
    /\ mode \in Modes /\ memory \in BOOLEAN /\ round \in 0..MaxRounds
    /\ pc = "post" => round > 0
    /\ round = 0 => messages = <<>>
    /\ pc = "idle" /\ mode = "episode" => Remembered(round)
    /\ pc = "post" /\ Conversing(round) => AskedIn(round)

LEMMA Positive ==
    /\ MaxRounds \in Nat \ {0} /\ Window \in Nat \ {0}
    /\ PastImages \in Nat /\ ExtraViews \in Nat
  BY DialogueAssumption DEF DialogueAssumption

-----------------------------------------------------------------------------
(* The turns.                                                              *)

LEMMA TextType ==
    ASSUME NEW t \in Texts
    PROVE  /\ Text(t) \in Block /\ <<Text(t)>> \in Seq(Block)
           /\ Text(t).images = <<>> /\ Text(t).text = t
  BY DEF Text, Block

LEMMA NoImages == <<>> \in Seq(Images)
  OBVIOUS

LEMMA QuestionType ==
    ASSUME NEW v \in Seq(Images)
    PROVE  /\ Question(v) \in Seq(Block) /\ Len(Question(v)) = 1
           /\ Question(v)[1] = [images |-> v, text |-> "prompt"]
           /\ Question(v)[1].images = v
           /\ [images |-> v, text |-> "prompt"] \in Block
<1>1. [images |-> v, text |-> "prompt"] \in Block
  BY DEF Block, Texts
<1> QED  BY <1>1 DEF Question

LEMMA ViewsType ==
    /\ PresentViews \in Seq(Images) /\ PastViews \in Seq(Images)
    /\ PresentViews[1] = "scene" /\ Len(PresentViews) >= 1
    /\ \A k \in DOMAIN PresentViews : PresentViews[k] # "past"
    /\ ~memory => PastViews = <<>>
<1>1. Copies("extra", ExtraViews) \in Seq(Images)
  BY Positive DEF Copies, Images
<1>2. /\ Len(Copies("extra", ExtraViews)) = ExtraViews
      /\ \A k \in 1..ExtraViews : Copies("extra", ExtraViews)[k] = "extra"
  BY Positive DEF Copies
<1>3. <<"scene">> \in Seq(Images) /\ Len(<<"scene">>) = 1
  BY DEF Images
<1>4. PresentViews \in Seq(Images) /\ PresentViews[1] = "scene"
      /\ Len(PresentViews) = 1 + ExtraViews
  BY <1>1, <1>2, <1>3 DEF PresentViews
<1>5. ASSUME NEW k \in DOMAIN PresentViews PROVE PresentViews[k] # "past"
  <2>1. k \in 1..(1 + ExtraViews)
    BY <1>4
  <2>2. CASE k = 1
    BY <1>4, <2>2
  <2>3. CASE k # 1
    <3>1. PresentViews[k] = Copies("extra", ExtraViews)[k - 1] /\ k - 1 \in 1..ExtraViews
      BY <1>1, <1>2, <1>3, <2>1, <2>3, Positive DEF PresentViews
    <3> QED  BY <1>2, <3>1
  <2> QED  BY <2>2, <2>3
<1>6. PastViews \in Seq(Images)
  BY Positive DEF PastViews, Copies, Images
<1> QED  BY <1>4, <1>5, <1>6, Positive DEF PastViews

LEMMA OpeningType ==
    /\ <<Text("system")>> \o Preamble \in Seq(Block)
    /\ FirstText \in Message
<1>1. /\ <<Text("system")>> \in Seq(Block) /\ <<Text("memory")>> \in Seq(Block)
      /\ Question(<<>>) \in Seq(Block)
  BY TextType, QuestionType, NoImages DEF Texts
<1>2. Preamble \in Seq(Block)
  BY <1>1 DEF Preamble
<1>3. /\ <<Text("system")>> \o Preamble \in Seq(Block)
      /\ <<Text("system")>> \o Preamble \o Question(<<>>) \in Seq(Block)
  BY <1>1, <1>2, ConcatProperties
<1> QED  BY <1>3, Positive DEF FirstText, Message

LEMMA TurnTypes ==
    ASSUME NEW k \in 1..MaxRounds
    PROVE  Asking(k) \in Message /\ AssistantTurn(k) \in Message
  BY TextType, QuestionType, NoImages DEF Texts, Asking, AssistantTurn, Message

LEMMA UserTurnType ==
    ASSUME NEW r \in 1..MaxRounds
    PROVE  FirstTurn \in Message /\ LaterTurn(r) \in Message /\ Now(r) \in Message
<1>1. /\ <<Text("system")>> \o Preamble \in Seq(Block)
      /\ Question(PastViews \o PresentViews) \in Seq(Block)
      /\ Question(PresentViews) \in Seq(Block)
  <2>1. PastViews \o PresentViews \in Seq(Images)
    BY ViewsType
  <2> QED  BY <2>1, OpeningType, ViewsType, QuestionType
<1>2. <<Text("system")>> \o Preamble \o Question(PastViews \o PresentViews) \in Seq(Block)
  BY <1>1, ConcatProperties
<1> QED  BY <1>1, <1>2, Positive DEF FirstTurn, LaterTurn, Now, Message

LEMMA KeptTypes ==
    ASSUME NEW r \in 0..MaxRounds
    PROVE  /\ Kept(r) \in Nat
           /\ \A i \in 1..Kept(r) : Turn(i, r) \in Message
           /\ [i \in 1..Kept(r) |-> Turn(i, r)] \in Seq(Message)
<1>1. Kept(r) \in Nat
  BY Positive DEF Kept
<1>2. ASSUME NEW i \in 1..Kept(r) PROVE Turn(i, r) \in Message
  <2>1. CASE i = 1
    BY <2>1, OpeningType DEF Turn
  <2>2. CASE i # 1 /\ r <= Window
    <3>1. /\ i \in 2..(2 * r)
          /\ i % 2 = 1 => (i + 1) \div 2 \in 1..MaxRounds
          /\ i \div 2 \in 1..MaxRounds
      BY <2>2, Positive DEF Kept
    <3> QED  BY <2>2, <3>1, TurnTypes DEF Turn
  <2>3. CASE i # 1 /\ ~(r <= Window)
    <3>1. /\ i \in 2..(2 * Window + 1)
          /\ r - Window + i \div 2 \in 1..MaxRounds
          /\ i % 2 = 1 => r - Window + (i - 1) \div 2 \in 1..MaxRounds
      BY <2>3, Positive DEF Kept
    <3>2. i % 2 \in {0, 1}
      BY <3>1, Positive
    <3> QED  BY <2>3, <3>1, <3>2, TurnTypes DEF Turn
  <2> QED  BY <2>1, <2>2, <2>3
<1> QED  BY <1>1, <1>2

\* A content is determined by its blocks.
LEMMA SameParts ==
    ASSUME NEW p \in Seq(Block), NEW q \in Seq(Block), Len(p) = Len(q),
           \A i \in 1..Len(p) : p[i] = q[i]
    PROVE  p = q
  OBVIOUS

LEMMA SameMessages ==
    ASSUME NEW p \in Seq(Message), NEW q \in Seq(Message), Len(p) = Len(q),
           \A i \in 1..Len(p) : p[i] = q[i]
    PROVE  p = q
  OBVIOUS

LEMMA TextOnlyParts ==
    ASSUME NEW p \in Seq(Block)
    PROVE  /\ TextOnly(p) \in Seq(Block) /\ Len(TextOnly(p)) = Len(p)
           /\ \A i \in 1..Len(p) : TextOnly(p)[i] = Text(p[i].text)
<1>1. ASSUME NEW i \in 1..Len(p) PROVE Text(p[i].text) \in Block
  <2>1. p[i] \in Block
    OBVIOUS
  <2>2. p[i].text \in Texts
    BY <2>1 DEF Block
  <2> QED  BY <2>2, TextType
<1> QED  BY <1>1 DEF TextOnly

LEMMA OneMoreBlock ==
    ASSUME NEW p \in Seq(Block), NEW q \in Seq(Block), Len(q) = 1
    PROVE  p \o q \in Seq(Block) /\ Len(p \o q) = Len(p) + 1
<1>1. p \o q \in Seq(Block) /\ Len(p \o q) = Len(p) + Len(q)
  BY ConcatProperties
<1> QED  BY <1>1

\* Opening texts and a question, with whatever images, stripped of them.
LEMMA StrippedParts ==
    ASSUME NEW p \in Seq(Block), \A i \in 1..Len(p) : p[i].images = <<>>,
           NEW v \in Seq(Images)
    PROVE  TextOnly(p \o Question(v)) = p \o Question(<<>>)
<1> DEFINE b == [images |-> v, text |-> "prompt"]
           old == p \o Question(v)
           new == p \o Question(<<>>)
<1>1. b \in Block /\ b.text = "prompt" /\ Text("prompt") \in Block
  BY DEF Block, Texts, Text
<1>0. /\ Question(v) \in Seq(Block) /\ Len(Question(v)) = 1 /\ Question(v)[1] = b
      /\ Question(<<>>) \in Seq(Block) /\ Len(Question(<<>>)) = 1
      /\ Question(<<>>)[1] = Text("prompt")
  BY QuestionType, NoImages DEF Text
<1> HIDE DEF b
<1>2. old \in Seq(Block) /\ new \in Seq(Block) /\ Len(old) = Len(new) /\ Len(p) \in Nat
      /\ Len(new) = Len(p) + 1
  <2>1. Len(p) \in Nat
    OBVIOUS
  <2>2. old \in Seq(Block) /\ Len(old) = Len(p) + 1
    BY <1>0, OneMoreBlock
  <2>3. new \in Seq(Block) /\ Len(new) = Len(p) + 1
    BY <1>0, OneMoreBlock
  <2> QED  BY <2>1, <2>2, <2>3
<1>3. ASSUME NEW i \in 1..Len(new) PROVE Text(old[i].text) = new[i]
  <2>1. CASE i \in 1..Len(p)
    <3>1. old[i] = p[i] /\ new[i] = p[i] /\ p[i] \in Block
      BY <1>0, <2>1, ConcatProperties
    <3>2. p[i] = [images |-> p[i].images, text |-> p[i].text]
      BY <3>1 DEF Block
    <3> QED  BY <2>1, <3>1, <3>2 DEF Text
  <2>2. CASE i = Len(p) + 1
    <3>1. old[i] = b /\ new[i] = Text("prompt")
      BY <1>0, <1>2, <2>2, ConcatProperties
    <3> QED  BY <1>1, <3>1
  <2> QED  BY <1>2, <2>1, <2>2
<1> HIDE DEF old, new
<1>4. TextOnly(old) = new
  <2>1. /\ TextOnly(old) \in Seq(Block) /\ Len(TextOnly(old)) = Len(new)
        /\ \A i \in 1..Len(new) : TextOnly(old)[i] = new[i]
    BY <1>2, <1>3, TextOnlyParts
  <2> QED  BY <1>2, <2>1, SameParts
<1> QED  BY <1>4 DEF old, new

\* Without its images a first turn is the opening, a later one the question; an
\* assistant's turn has none.
LEMMA Bare ==
    /\ WithoutImages(FirstTurn) = FirstText
    /\ WithoutImages(FirstText) = FirstText
    /\ \A k : /\ WithoutImages(LaterTurn(k)) = Asking(k)
             /\ WithoutImages(Asking(k)) = Asking(k)
             /\ WithoutImages(AssistantTurn(k)) = AssistantTurn(k)
<1> DEFINE opening == <<Text("system")>> \o Preamble
<1>1. opening \in Seq(Block) /\ \A i \in 1..Len(opening) : opening[i].images = <<>>
  <2>1. /\ Text("system") \in Block /\ Text("memory") \in Block
        /\ Text("system").images = <<>> /\ Text("memory").images = <<>>
    BY TextType DEF Texts
  <2> QED  BY <2>1 DEF Preamble
<1>2. PastViews \o PresentViews \in Seq(Images) /\ PresentViews \in Seq(Images)
      /\ <<>> \in Seq(Images)
  BY ViewsType
<1> HIDE DEF opening
<1>3. /\ TextOnly(opening \o Question(PastViews \o PresentViews)) = opening \o Question(<<>>)
      /\ TextOnly(opening \o Question(<<>>)) = opening \o Question(<<>>)
  BY <1>1, <1>2, StrippedParts
<1>4. /\ TextOnly(Question(PresentViews)) = Question(<<>>)
      /\ TextOnly(Question(<<>>)) = Question(<<>>)
  <2>1. <<>> \in Seq(Block) /\ \A i \in 1..Len(<<>>) : <<>>[i].images = <<>>
    OBVIOUS
  <2>2. \A v \in Seq(Images) : <<>> \o Question(v) = Question(v)
    BY QuestionType, ConcatEmptySeq
  <2>3. \A v \in Seq(Images) : TextOnly(<<>> \o Question(v)) = <<>> \o Question(<<>>)
    BY <2>1, StrippedParts
  <2> QED  BY <1>2, <2>2, <2>3
<1>5. WithoutImages(FirstTurn) = FirstText
  BY <1>3 DEF WithoutImages, FirstTurn, FirstText, opening
<1>6. WithoutImages(FirstText) = FirstText
  BY <1>3 DEF WithoutImages, FirstText, opening
<1>7. ASSUME NEW k
      PROVE  /\ WithoutImages(LaterTurn(k)) = Asking(k)
             /\ WithoutImages(Asking(k)) = Asking(k)
             /\ WithoutImages(AssistantTurn(k)) = AssistantTurn(k)
  BY <1>4 DEF WithoutImages, LaterTurn, Asking, AssistantTurn
<1> QED  BY <1>5, <1>6, <1>7

\* A kept turn has no images left.
LEMMA BareTurn ==
    ASSUME NEW r \in 0..MaxRounds, NEW i \in 1..Kept(r)
    PROVE  WithoutImages(Turn(i, r)) = Turn(i, r)
  BY Bare DEF Turn

-----------------------------------------------------------------------------
(* An answer is remembered.                                                *)

LEMMA SuffixElements ==
    ASSUME NEW msgs \in Seq(Message), NEW m \in 1..Len(msgs)
    PROVE  /\ SubSeq(msgs, m, Len(msgs)) \in Seq(Message)
           /\ Len(SubSeq(msgs, m, Len(msgs))) = Len(msgs) - m + 1
           /\ \A i \in 1..(Len(msgs) - m + 1) :
                  SubSeq(msgs, m, Len(msgs))[i] = msgs[m + i - 1]
  OBVIOUS

LEMMA Prepended ==
    ASSUME NEW h \in Seq(Message), Len(h) = 1, NEW t \in Seq(Message)
    PROVE  /\ h \o t \in Seq(Message) /\ Len(h \o t) = 1 + Len(t)
           /\ (h \o t)[1] = h[1]
           /\ \A i \in 1..(1 + Len(t)) : i # 1 => (h \o t)[i] = t[i - 1]
<1>1. h \o t \in Seq(Message) /\ Len(h \o t) = 1 + Len(t) /\ Len(t) \in Nat
  BY ConcatProperties
<1>2. (h \o t)[1] = h[1]
  BY <1>1
<1>3. ASSUME NEW i \in 1..(1 + Len(t)), i # 1 PROVE (h \o t)[i] = t[i - 1]
  BY <1>1, <1>3
<1> QED  BY <1>1, <1>2, <1>3

LEMMA WholeSuffix ==
    ASSUME NEW msgs \in Seq(Message), Len(msgs) > 0, msgs[1].role = "user"
    PROVE  FromUserTurn(msgs) = msgs
<1> DEFINE starts == {i \in DOMAIN msgs : msgs[i].role = "user"}
           least == CHOOSE i \in starts : \A j \in starts : i <= j
<1>1. 1 \in starts /\ starts \subseteq Nat /\ \A j \in starts : 1 <= j
  OBVIOUS
<1>2. least \in starts /\ \A j \in starts : least <= j
  BY <1>1
<1>3. least = 1
  BY <1>1, <1>2
<1>4. SubSeq(msgs, 1, Len(msgs)) = msgs
  OBVIOUS
<1> HIDE DEF least
<1>5. FromUserTurn(msgs) = SubSeq(msgs, least, Len(msgs))
  BY <1>1 DEF FromUserTurn, least
<1> QED  BY <1>3, <1>4, <1>5

\* A conversation beyond the window keeps its first turn and the last turns, of
\* which the oldest is a user turn.
LEMMA Pruned ==
    ASSUME NEW msgs \in Seq(Message), NEW n \in Nat, n > 0,
           Len(msgs) = n + 2 * Window + 1, msgs[n + 2].role = "user"
    PROVE  /\ PruneToWindow(msgs) \in Seq(Message)
           /\ Len(PruneToWindow(msgs)) = 2 * Window + 1
           /\ PruneToWindow(msgs)[1] = msgs[1]
           /\ \A j \in 2..(2 * Window + 1) : PruneToWindow(msgs)[j] = msgs[j + n]
<1> DEFINE tail == SubSeq(msgs, n + 2, Len(msgs))
<1>1. Window \in Nat /\ Window > 0 /\ n + 2 \in 1..Len(msgs)
      /\ Len(msgs) - 2 * Window + 1 = n + 2
  BY Positive
<1>2. /\ tail \in Seq(Message) /\ Len(tail) = 2 * Window
      /\ \A i \in 1..(2 * Window) : tail[i] = msgs[n + 1 + i]
  BY <1>1, SuffixElements
<1>3. FromUserTurn(tail) = tail
  <2>1. tail[1] = msgs[n + 2] /\ Len(tail) > 0
    BY <1>1, <1>2
  <2> QED  BY <1>2, <2>1, WholeSuffix
<1>4. PruneToWindow(msgs) = <<Head(msgs)>> \o tail
  <2>1. ~(Len(msgs) <= 2 * Window + 1)
    BY <1>1
  <2>2. PruneToWindow(msgs)
          = <<Head(msgs)>>
                \o FromUserTurn(SubSeq(msgs, Len(msgs) - 2 * Window + 1, Len(msgs)))
    BY <2>1 DEF PruneToWindow
  <2> QED  BY <1>1, <1>3, <2>2
<1> HIDE DEF tail
<1>5. <<Head(msgs)>> \in Seq(Message) /\ Len(<<Head(msgs)>>) = 1 /\ Head(msgs) = msgs[1]
  BY <1>1
<1>6. /\ PruneToWindow(msgs) \in Seq(Message)
      /\ Len(PruneToWindow(msgs)) = 1 + 2 * Window
      /\ PruneToWindow(msgs)[1] = msgs[1]
  <2>1. <<Head(msgs)>>[1] = msgs[1]
    BY <1>5
  <2> QED  BY <1>1, <1>2, <1>4, <1>5, <2>1, Prepended
<1>7. ASSUME NEW j \in 2..(2 * Window + 1) PROVE PruneToWindow(msgs)[j] = msgs[j + n]
  <2>1. j - 1 \in 1..(2 * Window) /\ n + 1 + (j - 1) = j + n
    BY <1>1
  <2>2. PruneToWindow(msgs)[j] = tail[j - 1]
    BY <1>2, <1>4, <1>5, <2>1, Prepended
  <2> QED  BY <1>2, <2>1, <2>2
<1> QED  BY <1>1, <1>6, <1>7

\* The conversation that a post of round r carries, turn by turn.
LEMMA AskedTurns ==
    ASSUME NEW r \in 1..MaxRounds, AskedIn(r)
    PROVE  /\ messages \in Seq(Message) /\ Kept(r - 1) \in Nat
           /\ Len(messages) = Kept(r - 1) + 1
           /\ \A i \in 1..Kept(r - 1) : messages[i] = Turn(i, r - 1)
           /\ messages[Kept(r - 1) + 1] = Now(r)
<1>1. r - 1 \in 0..MaxRounds /\ Now(r) \in Message
  BY Positive, UserTurnType
<1>2. /\ Kept(r - 1) \in Nat
      /\ [i \in 1..Kept(r - 1) |-> Turn(i, r - 1)] \in Seq(Message)
  BY <1>1, KeptTypes
<1> QED  BY <1>1, <1>2 DEF AskedIn

\* The turns of round r join the earlier ones, stripped, and what falls out of the
\* window is gone.
LEMMA AnswerRemembered ==
    ASSUME NEW r \in 1..MaxRounds, AskedIn(r),
           messages' = AppendAssistantTurn(messages, r), memory' = memory
    PROVE  Remembered(r)'
<1> DEFINE n == Kept(r - 1)
           all == Append(messages, AssistantTurn(r))
<1>1. /\ messages \in Seq(Message) /\ n \in Nat /\ Len(messages) = n + 1
      /\ \A i \in 1..n : messages[i] = Turn(i, r - 1)
      /\ messages[n + 1] = Now(r)
  BY AskedTurns
<1>2. /\ all \in Seq(Message) /\ Len(all) = n + 2
      /\ \A i \in 1..n : all[i] = Turn(i, r - 1)
      /\ all[n + 1] = Now(r) /\ all[n + 2] = AssistantTurn(r)
  BY <1>1, TurnTypes
<1>3. r \in Nat /\ r > 0 /\ Window \in Nat /\ Window > 0
      /\ r - 1 \in 0..MaxRounds /\ r \in 0..MaxRounds
  BY Positive
<1>4. messages' = PruneToWindow(all)
  BY DEF AppendAssistantTurn
<1>5. ASSUME NEW i \in 1..n
      PROVE  WithoutImages(all[i]) = Turn(i, r - 1)
  BY <1>2, <1>3, BareTurn
<1>6. WithoutImages(all[n + 1]) = IF r = 1 THEN FirstText ELSE Asking(r)
  <2>1. CASE r = 1
    BY <1>2, <2>1, Bare DEF Now
  <2>2. CASE r # 1
    BY <1>2, <2>2, Bare DEF Now
  <2> QED  BY <2>1, <2>2
<1>7. WithoutImages(all[n + 2]) = AssistantTurn(r)
  BY <1>2, Bare
<1>0. \A i : Turn(i, r)' = Turn(i, r)
  BY DEF Turn, FirstText, Preamble, Asking, Question, AssistantTurn, Text
<1> HIDE DEF all
<1>8. CASE r <= Window
  <2>1. n = 2 * r - 2 /\ Kept(r) = 2 * r /\ Len(all) = 2 * r /\ n + 1 = 2 * r - 1
    BY <1>2, <1>3, <1>8 DEF Kept
  <2>2. messages' = all
    BY <1>3, <1>4, <1>8, <2>1 DEF PruneToWindow
  <2>3. ASSUME NEW i \in 1..(2 * r) PROVE WithoutImages(all[i]) = Turn(i, r)
    <3>1. CASE i \in 1..n
      <4>1. Turn(i, r - 1) = Turn(i, r)
        BY <1>3, <1>8 DEF Turn
      <4> QED  BY <1>5, <3>1, <4>1
    <3>2. CASE i = 2 * r - 1
      <4>1. i % 2 = 1 /\ (i + 1) \div 2 = r /\ (i = 1 <=> r = 1)
        BY <1>3, <3>2
      <4> QED  BY <1>6, <1>8, <2>1, <3>2, <4>1 DEF Turn
    <3>3. CASE i = 2 * r
      <4>1. i % 2 = 0 /\ i \div 2 = r /\ i # 1 /\ i = n + 2
        BY <1>3, <2>1, <3>3
      <4> QED  BY <1>7, <1>8, <4>1 DEF Turn
    <3> QED  BY <1>3, <2>1, <3>1, <3>2, <3>3
  <2> QED  BY <1>0, <1>2, <2>1, <2>2, <2>3 DEF Remembered, Kept, WithoutImages, TextOnly, Text
<1>9. CASE r > Window
  <2> DEFINE d == IF r = Window + 1 THEN 1 ELSE 2
  <2>1. /\ d \in {1, 2} /\ n = d + 2 * Window - 1 /\ Len(all) = d + 2 * Window + 1
        /\ Kept(r) = 2 * Window + 1 /\ r # 1 /\ ~(r <= Window)
        /\ r - 1 <= Window <=> d = 1
        /\ d = 1 => r = Window + 1
    BY <1>2, <1>3, <1>9 DEF Kept
  <2> HIDE DEF d
  <2>2. ASSUME NEW j \in 2..(2 * Window + 1)
        PROVE  WithoutImages(all[j + d]) = Turn(j, r)
    <3>1. CASE j + d \in 1..n
      <4>1. Turn(j + d, r - 1) = Turn(j, r)
        <5>1. CASE d = 1
          <6>1. CASE j % 2 = 0
            <7>1. (j + 1) % 2 = 1 /\ (j + 2) \div 2 = 1 + j \div 2
              BY <6>1
            <7> QED  BY <1>3, <2>1, <5>1, <6>1, <7>1 DEF Turn
          <6>2. CASE j % 2 = 1
            <7>1. (j + 1) % 2 = 0 /\ (j + 1) \div 2 = 1 + (j - 1) \div 2
              BY <6>2
            <7> QED  BY <1>3, <2>1, <5>1, <6>2, <7>1 DEF Turn
          <6> QED  BY <1>3, <6>1, <6>2
        <5>2. CASE d = 2
          <6>1. /\ (j + 2) % 2 = j % 2 /\ (j + 2) \div 2 = 1 + j \div 2
                /\ (j + 1) \div 2 = 1 + (j - 1) \div 2
            BY <1>3
          <6>2. /\ r - 1 - Window + (j + 2) \div 2 = r - Window + j \div 2
                /\ r - 1 - Window + (j + 1) \div 2 = r - Window + (j - 1) \div 2
            BY <1>3, <6>1
          <6> QED  BY <1>3, <2>1, <5>2, <6>1, <6>2 DEF Turn
        <5> QED  BY <2>1, <5>1, <5>2
      <4> QED  BY <1>5, <3>1, <4>1
    <3>2. CASE j + d = n + 1
      <4>1. j = 2 * Window /\ j % 2 = 0 /\ r - Window + j \div 2 = r /\ j # 1
        BY <1>3, <2>1, <3>2
      <4> QED  BY <1>6, <2>1, <3>2, <4>1 DEF Turn
    <3>3. CASE j + d = n + 2
      <4>1. /\ j = 2 * Window + 1 /\ j % 2 = 1 /\ j # 1
            /\ r - Window + (j - 1) \div 2 = r
        BY <1>3, <2>1, <3>3
      <4> QED  BY <1>7, <2>1, <3>3, <4>1 DEF Turn
    <3> QED  BY <1>3, <2>1, <3>1, <3>2, <3>3
  <2>3. all[d + 2].role = "user"
    <3>1. WithoutImages(all[d + 2]) = Asking(r - Window + 1)
      BY <1>3, <2>1, <2>2 DEF Turn
    <3>2. all[d + 2] \in Message
      BY <1>2, <1>3, <2>1
    <3> QED  BY <3>1, <3>2 DEF WithoutImages, Asking, Message
  <2>4. /\ messages' \in Seq(Message) /\ Len(messages') = 2 * Window + 1
        /\ messages'[1] = all[1]
        /\ \A j \in 2..(2 * Window + 1) : messages'[j] = all[j + d]
    BY <1>2, <1>4, <2>1, <2>3, Pruned
  <2>5. WithoutImages(all[1]) = Turn(1, r)
    BY <1>3, <1>5, <2>1 DEF Turn
  <2>6. ASSUME NEW j \in 1..(2 * Window + 1)
        PROVE  WithoutImages(messages'[j]) = Turn(j, r)
    <3>1. CASE j = 1
      BY <2>4, <2>5, <3>1
    <3>2. CASE j # 1
      <4>1. j \in 2..(2 * Window + 1)
        BY <1>3, <3>2
      <4> QED  BY <2>2, <2>4, <4>1
    <3> QED  BY <3>1, <3>2
  <2>7. Kept(r)' = 2 * Window + 1
    BY <2>1 DEF Kept
  <2> QED
    BY <1>0, <2>4, <2>6, <2>7 DEF Remembered, WithoutImages, TextOnly, Text
<1> QED  BY <1>3, <1>8, <1>9

-----------------------------------------------------------------------------
(* A round is asked.                                                        *)

\* The question of a new round joins the remembered turns.
LEMMA RoundAsked ==
    ASSUME DialogueInv, StartRound, Conversing(round')
    PROVE  AskedIn(round)'
<1>1. /\ pc = "idle" /\ round' = round + 1 /\ round \in 0..MaxRounds /\ round \in Nat
      /\ messages' = AppendUserTurn(messages, round')
      /\ mode' = mode /\ memory' = memory
  BY Positive DEF DialogueInv, StartRound
<1>2. /\ [i \in DOMAIN messages |-> WithoutImages(messages[i])]
            = [i \in 1..Kept(round) |-> Turn(i, round)]
      /\ messages = <<>> <=> round = 0
  <2>1. CASE mode = "episode"
    <3>1. /\ messages \in Seq(Message) /\ Len(messages) = Kept(round)
          /\ \A i \in 1..Kept(round) : WithoutImages(messages[i]) = Turn(i, round)
      BY <1>1, <2>1 DEF DialogueInv, Remembered
    <3>2. DOMAIN messages = 1..Kept(round)
      BY <3>1
    <3>3. Kept(round) = 0 <=> round = 0
      BY <1>1, Positive DEF Kept
    <3> QED  BY <3>1, <3>2, <3>3
  <2>2. CASE mode # "episode"
    <3>1. round = 0 /\ messages = <<>>
      BY <1>1, <2>2 DEF Conversing, DialogueInv
    <3>2. Kept(round) = 0
      BY <3>1, Positive DEF Kept
    <3> QED  BY <3>1, <3>2
  <2> QED  BY <2>1, <2>2
<1>3. messages' = Append([i \in 1..Kept(round) |-> Turn(i, round)],
                         UserTurn(messages, round'))
  BY <1>1, <1>2 DEF AppendUserTurn
<1>4. UserTurn(messages, round') = Now(round')
  <2>1. CASE round = 0
    BY <1>1, <1>2, <2>1 DEF UserTurn, Now, FirstTurn
  <2>2. CASE round # 0
    BY <1>1, <1>2, <2>2 DEF UserTurn, Now, LaterTurn
  <2> QED  BY <2>1, <2>2
<1>5. round' - 1 = round
  BY <1>1
<1>6. messages' = Append([i \in 1..Kept(round' - 1) |-> Turn(i, round' - 1)], Now(round'))
  BY <1>3, <1>4, <1>5
<1> QED  BY <1>1, <1>6
     DEF AskedIn, Kept, Turn, FirstText, Preamble, Question, Asking, AssistantTurn, Text,
         Now, FirstTurn, LaterTurn, PastViews

LEMMA StepDialogue == DialogueInv /\ [Next]_dialogueVars => DialogueInv'
<1> SUFFICES ASSUME DialogueInv, [Next]_dialogueVars PROVE DialogueInv'
  OBVIOUS
<1>1. CASE StartRound
  <2>1. /\ pc' = "post" /\ round' = round + 1 /\ round \in Nat /\ round' \in 1..MaxRounds
        /\ mode' = mode /\ memory' = memory
    BY <1>1, Positive DEF StartRound, DialogueInv
  <2>2. Conversing(round)' => Conversing(round')
    BY <2>1 DEF Conversing
  <2>3. Conversing(round)' => AskedIn(round)'
    BY <1>1, <2>2, RoundAsked
  <2> QED  BY <2>1, <2>3, Positive DEF DialogueInv
<1>2. ASSUME UNCHANGED <<mode, memory, round, messages>>, pc' \in {pc, "failed", "over"}
      PROVE  DialogueInv'
  <2>1. AskedIn(round)' <=> AskedIn(round)
    BY <1>2 DEF AskedIn, Kept, Turn, FirstText, Preamble, Asking, Question, AssistantTurn, Text,
                Now, FirstTurn, LaterTurn, PastViews
  <2>2. Remembered(round)' <=> Remembered(round)
    BY <1>2 DEF Remembered, Kept, WithoutImages, TextOnly, Turn, FirstText, Preamble,
                Question, AssistantTurn, Text
  <2>3. Conversing(round)' <=> Conversing(round)
    BY <1>2 DEF Conversing
  <2> QED  BY <1>2, <2>1, <2>2, <2>3 DEF DialogueInv
<1>3. CASE Unusable \/ Transient \/ OtherError
  BY <1>2, <1>3 DEF Unusable, Transient, OtherError, Post
<1>4. CASE Answered
  <2>1. /\ pc = "post" /\ pc' = "idle" /\ UNCHANGED <<mode, memory, round>>
        /\ round \in 1..MaxRounds
    BY <1>4, Positive DEF Answered, Post, DialogueInv
  <2>2. ASSUME mode = "episode" PROVE Remembered(round)'
    <3>1. Conversing(round) /\ AskedIn(round)
      BY <2>1, <2>2 DEF Conversing, DialogueInv
    <3>2. messages' = AppendAssistantTurn(messages, round)
      BY <1>4, <3>1 DEF Answered
    <3>3. \A r \in 1..MaxRounds : r = round => Remembered(r)'
      BY <2>1, <3>1, <3>2, AnswerRemembered
    <3> QED  BY <2>1, <3>3 DEF Remembered, Kept, Turn, Asking, AssistantTurn
  <2> QED  BY <2>1, <2>2, Positive DEF DialogueInv
<1>5. CASE EpisodeOver
  BY <1>2, <1>5 DEF EpisodeOver
<1>6. CASE UNCHANGED dialogueVars
  BY <1>2, <1>6 DEF dialogueVars
<1> QED  BY <1>1, <1>3, <1>4, <1>5, <1>6 DEF Next, Reply

LEMMA InitDialogue == Init => DialogueInv
<1> SUFFICES ASSUME Init PROVE DialogueInv
  OBVIOUS
<1>1. Kept(0) = 0 /\ <<>> \in Seq(Message) /\ 0 \in 0..MaxRounds
  BY Positive DEF Kept
<1> QED  BY <1>1 DEF Init, DialogueInv, Remembered

-----------------------------------------------------------------------------
(* The promise.                                                             *)

LEMMA PromiseKept ==
    ASSUME NEW r \in 1..MaxRounds, r > 1, AskedIn(r)
    PROVE  messages = Promised(r)
<1> DEFINE first == FirstText
           from == IF r - Window > 2 THEN r - Window ELSE 2
           pairs == [i \in 1..(2 * (r - from)) |-> PastTurn(i, from + (i - 1) \div 2)]
           reply == IF r - Window > 1 THEN <<>> ELSE <<AssistantTurn(1)>>
           l == IF r - Window > 1 THEN 0 ELSE 1
           p == 2 * (r - from)
<1>1. /\ r \in Nat /\ r > 1 /\ Window \in Nat /\ Window > 0 /\ MaxRounds \in Nat
      /\ r <= MaxRounds /\ from \in Nat /\ 2 <= from /\ from <= r
      /\ p \in Nat
  BY Positive
<1>2. /\ messages \in Seq(Message) /\ Kept(r - 1) \in Nat
      /\ Len(messages) = Kept(r - 1) + 1
      /\ \A i \in 1..Kept(r - 1) : messages[i] = Turn(i, r - 1)
      /\ messages[Kept(r - 1) + 1] = Now(r)
  BY AskedTurns
<1>3. Kept(r - 1) = 1 + l + p
  <2>1. CASE r - 1 <= Window
    BY <1>1, <2>1 DEF Kept
  <2>2. CASE ~(r - 1 <= Window)
    BY <1>1, <2>2 DEF Kept
  <2> QED  BY <2>1, <2>2
<1>4. pairs \in Seq(Message) /\ Len(pairs) = p
      /\ \A i \in 1..p : pairs[i] = PastTurn(i, from + (i - 1) \div 2)
  <2>1. ASSUME NEW i \in 1..p PROVE PastTurn(i, from + (i - 1) \div 2) \in Message
    <3>1. from + (i - 1) \div 2 \in 1..MaxRounds
      BY <1>1
    <3>2. PastTurn(i, from + (i - 1) \div 2)
            \in {Asking(from + (i - 1) \div 2), AssistantTurn(from + (i - 1) \div 2)}
      BY DEF PastTurn, Asking
    <3> QED  BY <3>1, <3>2, TurnTypes
  <2> QED  BY <1>1, <2>1
<1>5. /\ reply \in Seq(Message) /\ Len(reply) = l
      /\ l = 1 => reply[1] = AssistantTurn(1)
      /\ <<first>> \in Seq(Message) /\ Len(<<first>>) = 1 /\ <<first>>[1] = first
      /\ <<Now(r)>> \in Seq(Message) /\ Len(<<Now(r)>>) = 1 /\ <<Now(r)>>[1] = Now(r)
  BY <1>1, TurnTypes, OpeningType, UserTurnType
<1>6. Promised(r) = <<first>> \o reply \o pairs \o <<Now(r)>>
  <2>1. Now(r) = LaterTurn(r)
    BY <1>1 DEF Now
  <2>2. Promised(r) = <<first>> \o reply \o pairs \o <<LaterTurn(r)>>
    BY DEF Promised, FirstText, LaterTurn
  <2> QED  BY <2>1, <2>2
<1>7. ASSUME NEW i \in 1..(l + p)
      PROVE  (IF i <= l THEN reply[i] ELSE pairs[i - l]) = Turn(i + 1, r - 1)
  <2>1. CASE r - 1 <= Window
    <3>1. l = 1 /\ from = 2
      BY <1>1, <2>1
    <3>2. CASE i = 1
      BY <1>5, <2>1, <3>1, <3>2 DEF Turn
    <3>3. CASE i # 1
      <4>1. /\ i - 1 \in 1..p /\ i \in Nat
            /\ pairs[i - 1] = PastTurn(i - 1, 2 + (i - 2) \div 2)
        BY <1>1, <1>4, <3>1, <3>3
      <4>2. CASE i % 2 = 0
        <5>1. (i - 1) % 2 = 1 /\ (i + 1) % 2 = 1 /\ 2 + (i - 2) \div 2 = (i + 2) \div 2
          BY <4>1, <4>2
        <5> QED  BY <2>1, <3>1, <3>3, <4>1, <5>1 DEF PastTurn, Turn, Asking
      <4>3. CASE i % 2 = 1
        <5>1. (i - 1) % 2 = 0 /\ (i + 1) % 2 = 0 /\ 2 + (i - 2) \div 2 = (i + 1) \div 2
          BY <4>1, <4>3
        <5> QED  BY <2>1, <3>1, <3>3, <4>1, <5>1 DEF PastTurn, Turn
      <4> QED  BY <4>1, <4>2, <4>3
    <3> QED  BY <3>2, <3>3
  <2>2. CASE ~(r - 1 <= Window)
    <3>1. l = 0 /\ from = r - Window
      BY <1>1, <2>2
    <3>2. i \in 1..p /\ pairs[i] = PastTurn(i, r - Window + (i - 1) \div 2) /\ i \in Nat
      <4>1. i \in 1..p /\ i \in Nat
        BY <1>1, <3>1
      <4> QED  BY <1>4, <3>1, <4>1
    <3>3. CASE i % 2 = 1
      <4>1. (i + 1) % 2 = 0 /\ (i + 1) \div 2 = 1 + (i - 1) \div 2
        BY <3>2, <3>3
      <4>2. r - 1 - Window + (i + 1) \div 2 = r - Window + (i - 1) \div 2
        BY <1>1, <3>2, <4>1
      <4> QED  BY <2>2, <3>1, <3>2, <3>3, <4>1, <4>2 DEF PastTurn, Turn, Asking
    <3>4. CASE i % 2 = 0
      <4>1. (i + 1) % 2 = 1 /\ i \div 2 = 1 + (i - 1) \div 2
        BY <3>2, <3>4
      <4>2. r - 1 - Window + i \div 2 = r - Window + (i - 1) \div 2
        BY <1>1, <3>2, <4>1
      <4> QED  BY <2>2, <3>1, <3>2, <3>4, <4>1, <4>2 DEF PastTurn, Turn
    <3> QED  BY <3>2, <3>3, <3>4
  <2> QED  BY <2>1, <2>2
<1> HIDE DEF pairs, reply, first, l, p, from
<1>8. l \in {0, 1} /\ p \in Nat
  BY <1>1 DEF l
<1>9. Turn(1, r - 1) = first
  BY DEF Turn, first
<1>10. /\ <<first>> \o reply \in Seq(Message) /\ Len(<<first>> \o reply) = 1 + l
       /\ (<<first>> \o reply)[1] = first
       /\ l = 1 => (<<first>> \o reply)[2] = reply[1]
  BY <1>5, <1>8, ConcatProperties
<1>11. /\ <<first>> \o reply \o pairs \in Seq(Message)
       /\ Len(<<first>> \o reply \o pairs) = 1 + l + p
       /\ \A i \in 1..(1 + l + p) : (<<first>> \o reply \o pairs)[i] = Turn(i, r - 1)
  <2>1. /\ <<first>> \o reply \o pairs \in Seq(Message)
        /\ Len(<<first>> \o reply \o pairs) = 1 + l + p
        /\ \A i \in 1..(1 + l + p) :
               (<<first>> \o reply \o pairs)[i]
                 = IF i <= 1 + l THEN (<<first>> \o reply)[i] ELSE pairs[i - (1 + l)]
    BY <1>4, <1>8, <1>10, ConcatProperties
  <2>2. ASSUME NEW i \in 1..(1 + l + p)
        PROVE  (<<first>> \o reply \o pairs)[i] = Turn(i, r - 1)
    <3>1. CASE i = 1
      BY <1>8, <1>9, <1>10, <2>1, <3>1
    <3>2. CASE i # 1
      <4>1. i - 1 \in 1..(l + p) /\ (i - 1) + 1 = i /\ i \in Nat
        BY <1>8, <3>2
      <4>2. (IF i - 1 <= l THEN reply[i - 1] ELSE pairs[i - 1 - l]) = Turn(i, r - 1)
        BY <1>7, <4>1
      <4>3. CASE i <= 1 + l
        BY <1>8, <1>10, <2>1, <3>2, <4>1, <4>2, <4>3
      <4>4. CASE ~(i <= 1 + l)
        <5>1. i - (1 + l) = i - 1 - l
          BY <1>8, <4>1
        <5> QED  BY <1>8, <2>1, <4>1, <4>2, <4>4, <5>1
      <4> QED  BY <4>3, <4>4
    <3> QED  BY <3>1, <3>2
  <2> QED  BY <2>1, <2>2
<1>12. /\ Promised(r) \in Seq(Message) /\ Len(Promised(r)) = 2 + l + p
       /\ \A i \in 1..(1 + l + p) : Promised(r)[i] = Turn(i, r - 1)
       /\ Promised(r)[2 + l + p] = Now(r)
  <2> DEFINE body == <<first>> \o reply \o pairs
  <2> HIDE DEF body
  <2>1. /\ body \in Seq(Message) /\ Len(body) = 1 + l + p
        /\ \A i \in 1..(1 + l + p) : body[i] = Turn(i, r - 1)
    BY <1>11 DEF body
  <2>2. /\ body \o <<Now(r)>> \in Seq(Message) /\ Len(body \o <<Now(r)>>) = 2 + l + p
        /\ \A i \in 1..(2 + l + p) :
               (body \o <<Now(r)>>)[i]
                 = IF i <= 1 + l + p THEN body[i] ELSE <<Now(r)>>[i - (1 + l + p)]
    BY <1>5, <1>8, <2>1, ConcatProperties
  <2>3. Promised(r) = body \o <<Now(r)>>
    BY <1>6 DEF body
  <2>4. ASSUME NEW i \in 1..(1 + l + p) PROVE (body \o <<Now(r)>>)[i] = Turn(i, r - 1)
    <3>1. i \in 1..(2 + l + p) /\ i <= 1 + l + p
      BY <1>8
    <3> QED  BY <2>1, <2>2, <3>1
  <2>5. (body \o <<Now(r)>>)[2 + l + p] = Now(r)
    <3>1. /\ 2 + l + p \in 1..(2 + l + p) /\ ~(2 + l + p <= 1 + l + p)
          /\ 2 + l + p - (1 + l + p) = 1
      BY <1>8
    <3>2. (body \o <<Now(r)>>)[2 + l + p] = <<Now(r)>>[2 + l + p - (1 + l + p)]
      BY <2>2, <3>1
    <3> QED  BY <1>5, <3>1, <3>2
  <2> QED  BY <2>2, <2>3, <2>4, <2>5
<1>13. Len(messages) = Len(Promised(r))
       /\ \A i \in 1..Len(messages) : messages[i] = Promised(r)[i]
  BY <1>2, <1>3, <1>8, <1>12
<1> QED  BY <1>2, <1>12, <1>13, SameMessages

\* Every post of a later round of a conversing episode is the promised dialogue,
\* for every window, number of rounds and history of retries.
THEOREM PayloadCorrect == Spec => []PayloadIsPromised
<1>1. DialogueInv => PayloadIsPromised
  BY PromiseKept, Positive DEF DialogueInv, PayloadIsPromised, Payload, Conversing
<1> QED  BY <1>1, InitDialogue, StepDialogue, PTL DEF Spec

-----------------------------------------------------------------------------
(* The past images.                                                         *)

\* A past image at a block of a content: the text before it is the memory's, and
\* the present scene follows in the same block.
PastIsFramed(parts, b) ==
    \A k \in DOMAIN parts[b].images : parts[b].images[k] = "past" =>
        /\ \E t \in 1..(b - 1) : parts[t].text = "memory"
        /\ \E s \in (k + 1)..Len(parts[b].images) : parts[b].images[s] = "scene"

NothingPast(parts) ==
    \A b \in DOMAIN parts : \A k \in DOMAIN parts[b].images : parts[b].images[k] # "past"

LEMMA QuestionNotPast ==
    NothingPast(Question(PresentViews)) /\ NothingPast(Question(<<>>))
<1>1. PresentViews \in Seq(Images) /\ <<>> \in Seq(Images) /\ DOMAIN <<>> = {}
  BY ViewsType
<1>2. ASSUME NEW v \in Seq(Images), \A k \in DOMAIN v : v[k] # "past"
      PROVE  NothingPast(Question(v))
  <2>1. Question(v) \in Seq(Block) /\ Len(Question(v)) = 1 /\ Question(v)[1].images = v
    BY QuestionType
  <2> QED  BY <1>2, <2>1 DEF NothingPast
<1>3. NothingPast(Question(PresentViews))
  BY <1>1, <1>2, ViewsType
<1>4. NothingPast(Question(<<>>))
  <2>1. \A k \in DOMAIN <<>> : <<>>[k] # "past"
    BY <1>1
  <2> QED  BY <1>1, <1>2, <2>1
<1> QED  BY <1>3, <1>4

\* Texts in front of a content change nothing.
LEMMA TextsBefore ==
    ASSUME NEW p \in Seq(Block), NEW q \in Seq(Block), Len(q) = 1,
           \A i \in 1..Len(p) : p[i].images = <<>>, NothingPast(q)
    PROVE  NothingPast(p \o q)
<1>1. /\ p \o q \in Seq(Block) /\ Len(p \o q) = Len(p) + 1 /\ Len(p) \in Nat
  BY OneMoreBlock
<1>2. \A i \in 1..(Len(p) + 1) : (p \o q)[i] = IF i <= Len(p) THEN p[i] ELSE q[i - Len(p)]
  BY ConcatProperties
<1>3. ASSUME NEW b \in 1..(Len(p) + 1), NEW k \in DOMAIN (p \o q)[b].images
      PROVE  (p \o q)[b].images[k] # "past"
  <2>1. CASE b <= Len(p)
    <3>1. b \in 1..Len(p) /\ (p \o q)[b] = p[b]
      BY <1>1, <1>2, <2>1
    <3>2. DOMAIN (p \o q)[b].images = {}
      BY <3>1
    <3> QED  BY <1>3, <3>2
  <2>2. CASE ~(b <= Len(p))
    <3>1. b - Len(p) = 1 /\ 1 \in DOMAIN q
      BY <1>1, <2>2
    <3>2. (p \o q)[b] = q[1]
      BY <1>2, <2>2, <3>1
    <3> QED  BY <1>3, <3>1, <3>2 DEF NothingPast
  <2> QED  BY <2>1, <2>2
<1> QED  BY <1>1, <1>3 DEF NothingPast

LEMMA OpeningTexts ==
    /\ <<Text("system")>> \o Preamble \in Seq(Block)
    /\ Len(<<Text("system")>> \o Preamble) = IF memory THEN 2 ELSE 1
    /\ \A i \in 1..Len(<<Text("system")>> \o Preamble) :
           (<<Text("system")>> \o Preamble)[i].images = <<>>
    /\ memory => (<<Text("system")>> \o Preamble)[2].text = "memory"
<1>1. /\ Text("system") \in Block /\ Text("memory") \in Block
      /\ Text("system").images = <<>> /\ Text("memory").images = <<>>
      /\ Text("memory").text = "memory"
  BY TextType DEF Texts
<1>2. /\ <<Text("system")>> \in Seq(Block) /\ Len(<<Text("system")>>) = 1
      /\ <<Text("system")>>[1] = Text("system")
      /\ Preamble \in Seq(Block) /\ Len(Preamble) = IF memory THEN 1 ELSE 0
      /\ memory => Preamble[1] = Text("memory")
  BY <1>1 DEF Preamble
<1>3. /\ <<Text("system")>> \o Preamble \in Seq(Block)
      /\ Len(<<Text("system")>> \o Preamble) = IF memory THEN 2 ELSE 1
      /\ (<<Text("system")>> \o Preamble)[1] = Text("system")
      /\ memory => (<<Text("system")>> \o Preamble)[2] = Text("memory")
  BY <1>2, ConcatProperties
<1> DEFINE opening == <<Text("system")>> \o Preamble
<1>4. /\ Len(opening) = IF memory THEN 2 ELSE 1
      /\ opening[1].images = <<>>
      /\ memory => opening[2].images = <<>>
  BY <1>1, <1>3
<1> HIDE DEF opening
<1>5. ASSUME NEW i \in 1..Len(opening) PROVE opening[i].images = <<>>
  BY <1>4
<1> QED  BY <1>1, <1>3, <1>5 DEF opening

\* Where a turn, or the stateless request, shows past episodes.
LEMMA WherePast ==
    /\ NothingPast(FirstText.parts)
    /\ \A k : /\ NothingPast(LaterTurn(k).parts) /\ NothingPast(Asking(k).parts)
             /\ NothingPast(AssistantTurn(k).parts)
             /\ NothingPast(ChatRequest(k)[1].parts)
<1>1. NothingPast(FirstText.parts)
  BY OpeningTexts, QuestionNotPast, QuestionType, NoImages, TextsBefore DEF FirstText
<1>2. ASSUME NEW k
      PROVE  NothingPast(LaterTurn(k).parts) /\ NothingPast(Asking(k).parts)
  BY QuestionNotPast DEF LaterTurn, Asking
<1>3. ASSUME NEW k PROVE NothingPast(AssistantTurn(k).parts)
  BY DEF AssistantTurn, NothingPast, Text
<1>4. ASSUME NEW k PROVE NothingPast(ChatRequest(k)[1].parts)
  <2>1. /\ <<Text("system")>> \in Seq(Block) /\ Len(<<Text("system")>>) = 1
        /\ \A i \in 1..Len(<<Text("system")>>) : <<Text("system")>>[i].images = <<>>
    BY TextType DEF Texts
  <2>2. Question(PresentViews) \in Seq(Block) /\ Len(Question(PresentViews)) = 1
    BY ViewsType, QuestionType
  <2>3. NothingPast(<<Text("system")>> \o Question(PresentViews))
    BY <2>1, <2>2, QuestionNotPast, TextsBefore
  <2> QED  BY <2>3 DEF ChatRequest
<1> QED  BY <1>1, <1>2, <1>3, <1>4

\* The first turn frames the past images, in whichever block they come.
LEMMA FirstTurnFrames ==
    \A b \in DOMAIN FirstTurn.parts : PastIsFramed(FirstTurn.parts, b)
<1> DEFINE opening == <<Text("system")>> \o Preamble
           views == PastViews \o PresentViews
           n == Len(opening)
           parts == opening \o Question(views)
<1>1. /\ opening \in Seq(Block) /\ n \in Nat
      /\ \A i \in 1..n : opening[i].images = <<>>
      /\ memory => n = 2 /\ opening[2].text = "memory"
  BY OpeningTexts
<1>2. /\ PastViews \in Seq(Images) /\ PresentViews \in Seq(Images)
      /\ PresentViews[1] = "scene" /\ Len(PresentViews) >= 1
      /\ \A k \in DOMAIN PresentViews : PresentViews[k] # "past"
      /\ ~memory => PastViews = <<>>
  BY ViewsType
<1>3. /\ views \in Seq(Images) /\ Len(views) = Len(PastViews) + Len(PresentViews)
      /\ Len(PastViews) \in Nat /\ Len(PresentViews) \in Nat
      /\ \A k \in 1..Len(views) :
             views[k] = IF k <= Len(PastViews) THEN PastViews[k]
                                               ELSE PresentViews[k - Len(PastViews)]
  BY <1>2, ConcatProperties
<1>4. ASSUME NEW k \in DOMAIN views, views[k] = "past"
      PROVE  /\ memory
             /\ \E s \in (k + 1)..Len(views) : views[s] = "scene"
  <2>1. k \in 1..Len(views) /\ k \in Nat
    BY <1>3
  <2>2. k <= Len(PastViews)
    <3>1. SUFFICES ASSUME ~(k <= Len(PastViews)) PROVE FALSE
      OBVIOUS
    <3>2. k - Len(PastViews) \in 1..Len(PresentViews)
      BY <1>3, <2>1, <3>1
    <3>3. views[k] = PresentViews[k - Len(PastViews)]
      BY <1>3, <2>1, <3>1
    <3> QED  BY <1>2, <1>4, <3>2, <3>3
  <2>3. memory
    BY <1>2, <2>1, <2>2
  <2>4. /\ Len(PastViews) + 1 \in 1..Len(views) /\ ~(Len(PastViews) + 1 <= Len(PastViews))
        /\ Len(PastViews) + 1 - Len(PastViews) = 1
        /\ Len(PastViews) + 1 \in (k + 1)..Len(views)
    BY <1>2, <1>3, <2>1, <2>2
  <2>5. views[Len(PastViews) + 1] = "scene"
    BY <1>2, <1>3, <2>4
  <2> QED  BY <2>3, <2>4, <2>5
<1> HIDE DEF opening, views, n
<1>5. /\ Question(views) \in Seq(Block) /\ Len(Question(views)) = 1
      /\ Question(views)[1].images = views
  BY <1>3, QuestionType
<1>6. /\ parts \in Seq(Block) /\ Len(parts) = n + 1
      /\ \A i \in 1..(n + 1) :
             parts[i] = IF i <= n THEN opening[i] ELSE Question(views)[i - n]
  <2>1. parts \in Seq(Block) /\ Len(parts) = n + 1
    BY <1>1, <1>5, OneMoreBlock DEF n
  <2> QED  BY <1>1, <1>5, <2>1, ConcatProperties DEF n
<1> HIDE DEF parts
<1>7. ASSUME NEW b \in DOMAIN parts, NEW k \in DOMAIN parts[b].images,
             parts[b].images[k] = "past"
      PROVE  /\ \E t \in 1..(b - 1) : parts[t].text = "memory"
             /\ \E s \in (k + 1)..Len(parts[b].images) : parts[b].images[s] = "scene"
  <2>1. b \in 1..(n + 1) /\ b \in Nat
    BY <1>1, <1>6
  <2>2. CASE b <= n
    <3>1. parts[b].images = <<>>
      BY <1>1, <1>6, <2>1, <2>2
    <3> QED  BY <1>7, <3>1
  <2>3. CASE ~(b <= n)
    <3>1. b = n + 1 /\ b - n = 1
      BY <1>1, <2>1, <2>3
    <3>2. parts[b].images = views
      BY <1>5, <1>6, <2>1, <2>3, <3>1
    <3>3. memory /\ \E s \in (k + 1)..Len(views) : views[s] = "scene"
      BY <1>4, <1>7, <3>2
    <3>4. 2 \in 1..(b - 1) /\ 2 \in 1..(n + 1) /\ 2 <= n /\ opening[2].text = "memory"
      BY <1>1, <3>1, <3>3
    <3>5. parts[2].text = "memory"
      BY <1>6, <3>4
    <3> QED  BY <3>2, <3>3, <3>4, <3>5
  <2> QED  BY <2>2, <2>3
<1>8. FirstTurn.parts = parts
  BY DEF FirstTurn, parts, opening, views
<1> QED  BY <1>7, <1>8 DEF PastIsFramed

LEMMA PastPosted == DialogueInv => PastImagesOnce
<1> SUFFICES ASSUME DialogueInv, pc = "post",
                    NEW i \in DOMAIN Payload, NEW b \in DOMAIN Payload[i].parts,
                    NEW k \in DOMAIN Payload[i].parts[b].images,
                    Payload[i].parts[b].images[k] = "past"
             PROVE  /\ round = 1
                    /\ \E t \in 1..(b - 1) : Payload[i].parts[t].text = "memory"
                    /\ \E s \in (k + 1)..Len(Payload[i].parts[b].images) :
                           Payload[i].parts[b].images[s] = "scene"
  BY DEF PastImagesOnce
<1>1. round \in 1..MaxRounds
  BY Positive DEF DialogueInv
<1>2. ~NothingPast(Payload[i].parts)
  BY DEF NothingPast
<1>3. CASE ~Conversing(round)
  <2>1. Payload = ChatRequest(round)
    BY <1>3 DEF Payload
  <2>2. i = 1
    BY <2>1 DEF ChatRequest
  <2> QED  BY <1>2, <2>1, <2>2, WherePast
<1>4. CASE Conversing(round)
  <2>1. Payload = messages /\ AskedIn(round)
    BY <1>4 DEF Payload, DialogueInv
  <2>2. /\ messages \in Seq(Message) /\ Kept(round - 1) \in Nat
        /\ Len(messages) = Kept(round - 1) + 1
        /\ \A j \in 1..Kept(round - 1) : messages[j] = Turn(j, round - 1)
        /\ messages[Kept(round - 1) + 1] = Now(round)
    BY <1>1, <2>1, AskedTurns
  <2>3. i \in 1..(Kept(round - 1) + 1)
    BY <2>1, <2>2
  <2>4. CASE i \in 1..Kept(round - 1)
    <3>1. Payload[i] = Turn(i, round - 1)
      BY <2>1, <2>2, <2>4
    <3>2. NothingPast(Turn(i, round - 1).parts)
      BY WherePast DEF Turn
    <3> QED  BY <1>2, <3>1, <3>2
  <2>5. CASE i \notin 1..Kept(round - 1)
    <3>1. Payload[i] = Now(round)
      BY <2>1, <2>2, <2>3, <2>5
    <3>2. CASE round = 1
      <4>1. Payload[i] = FirstTurn
        BY <3>1, <3>2 DEF Now
      <4> QED  BY <3>2, <4>1, FirstTurnFrames DEF PastIsFramed
    <3>3. CASE round # 1
      <4>1. Payload[i] = LaterTurn(round)
        BY <3>1, <3>3 DEF Now
      <4> QED  BY <1>2, <4>1, WherePast
    <3> QED  BY <3>2, <3>3
  <2> QED  BY <2>4, <2>5
<1> QED  BY <1>3, <1>4

\* The images of past episodes are posted in the first round only, after their
\* text and before the present scene, in every mode of keeping the conversation.
THEOREM PastImagesCorrect == Spec => []PastImagesOnce
<1> QED  BY PastPosted, InitDialogue, StepDialogue, PTL DEF Spec

-----------------------------------------------------------------------------
(* What a round's reply means: the first line found, the slots that are       *)
(* asked for and required, and the way from the grid to metres and back.      *)

\* A non-empty set of numbers has a least element.
LEMMA LeastNumber ==
    ASSUME NEW T \in SUBSET Nat, T # {}
    PROVE  \E m \in T : \A k \in T : m <= k
<1> DEFINE R == OpToRel(<, Nat)
<1>1. PICK m \in T : \A k \in T : <<k, m>> \notin R
  <2>1. IsWellFoundedOn(R, Nat)
    BY NatLessThanWellFounded
  <2> HIDE DEF R
  <2> QED  BY <2>1, WFMin
<1>2. \A k \in T : k < m => <<k, m>> \in R
  BY DEF OpToRel
<1> HIDE DEF R
<1>3. \A k \in T : ~(k < m)
  BY <1>1, <1>2
<1> QED  BY <1>3

\* Found is 0 where no line has the slot, and else a line that has it.
LEMMA FoundIs ==
    ASSUME NEW reply, Len(reply) \in Nat, NEW slot
    PROVE  LET Has(i) == reply[i].label = slot.label /\ Fits(reply[i].form, slot.form)
           IN \/ Found(reply, slot, FALSE) = 0 /\ \A i \in 1..Len(reply) : ~Has(i)
              \/ /\ Found(reply, slot, FALSE) \in 1..Len(reply)
                 /\ Has(Found(reply, slot, FALSE))
<1> DEFINE Has(i) == reply[i].label = slot.label /\ Fits(reply[i].form, slot.form)
           I == {i \in 1..Len(reply) : Has(i)}
<1>1. Found(reply, slot, FALSE) = IF I # {} THEN Min(I) ELSE 0
  BY DEF Found, SelectInSeq
<1>2. CASE I # {}
  <2>1. I \in SUBSET Nat
    OBVIOUS
  <2> HIDE DEF I
  <2>2. Min(I) \in I
    BY <1>2, <2>1, LeastNumber DEF Min
  <2> QED  BY <1>1, <1>2, <2>2 DEF I
<1>3. CASE I = {}
  BY <1>1, <1>3
<1> QED  BY <1>2, <1>3

\* Division of a multiple, as the grid's rounding meets it.
LEMMA Multiple ==
    ASSUME NEW v \in Int, NEW d \in Nat \ {0}
    PROVE  (v * d) \div d = v /\ (v * d) % d = 0
<1> DEFINE q == (v * d) \div d
           r == (v * d) % d
<1>1. q \in Int /\ r \in 0..(d - 1) /\ v * d = d * q + r
  OBVIOUS
<1> QED BY <1>1

\* A grid value that is turned into metres and back is itself, and not flagged.
LEMMA RoundTrip ==
    ASSUME NEW v \in -100..100, NEW lo \in Int, NEW hi \in Int, lo < hi
    PROVE  MetricToInt(IntToMetric(v, lo, hi), lo, hi)
               = [value |-> v, clamped |-> FALSE]
<1>1. PICK d \in Nat \ {0} : d = hi - lo
  OBVIOUS
<1>2. Clamped(v) = v
  BY DEF Clamped
<1>3. (v + 100) * d = v * d + 100 * d /\ v * d \in Int
  OBVIOUS
<1>4. IntToMetric(v, lo, hi) - 200 * lo - 100 * d = v * d
  BY <1>1, <1>2, <1>3 DEF IntToMetric
<1>5. ~(v * d < -(100 * d)) /\ ~(v * d > 100 * d)
  <2>1. (v + 100) * d >= 0 /\ (100 - v) * d >= 0
    OBVIOUS
  <2>2. (100 - v) * d = 100 * d - v * d
    OBVIOUS
  <2> QED  BY <2>1, <2>2, <1>3
<1>6. RoundHalfEven(v * d, d) = v
  BY Multiple DEF RoundHalfEven
<1> QED  BY <1>1, <1>4, <1>5, <1>6 DEF MetricToInt

\* What is left by a division is less than the divisor.
LEMMA Division ==
    ASSUME NEW n \in Int, NEW d \in Nat \ {0}, NEW q, NEW r, q = n \div d, r = n % d
    PROVE  q \in Int /\ r \in 0..(d - 1) /\ n = q * d + r
<1>1. q \in Int /\ r \in 0..(d - 1) /\ n = d * q + r
  OBVIOUS
<1>2. \A x \in Int : d * x = x * d
  OBVIOUS
<1> QED
  BY <1>1, <1>2

\* Rounding moves a number by half a divisor at most, and stays between multiples.
LEMMA RoundIsNear ==
    ASSUME NEW n \in Int, NEW d \in Nat \ {0}
    PROVE  LET r == RoundHalfEven(n, d)
           IN  /\ r \in Int
               /\ 2 * (r * d - n) <= d /\ -(2 * (r * d - n)) <= d
<1>1. PICK q, rest : q = n \div d /\ rest = n % d
  OBVIOUS
<1>2. q \in Int /\ rest \in 0..(d - 1) /\ n = q * d + rest
  BY <1>1, Division
<1>3. PICK r : r = RoundHalfEven(n, d)
  OBVIOUS
<1>4. CASE r = q
  <2>1. ~(2 * rest > d)
    BY <1>1, <1>2, <1>3, <1>4 DEF RoundHalfEven
  <2>2. r * d - n = -rest
    BY <1>2, <1>4
  <2> QED
    BY <1>2, <1>3, <1>4, <2>1, <2>2
<1>5. CASE r # q
  <2>1. r = q + 1 /\ 2 * rest >= d
    BY <1>1, <1>2, <1>3, <1>5 DEF RoundHalfEven
  <2>2. r * d - n = d - rest
    BY <1>2, <2>1
  <2> QED
    BY <1>2, <1>3, <2>1, <2>2
<1> QED
  BY <1>4, <1>5

\* Multiples of one number are ordered as their factors.
LEMMA Factors ==
    ASSUME NEW d \in Nat \ {0}, NEW a \in Int, NEW b \in Int, 2 * (a * d) <= 2 * (b * d) + d
    PROVE  a <= b
  OBVIOUS

\* The integer grid is faithful on every axis: a grid value survives the way to metres
\* or radians and back, a metric value within the axis comes back within half a step,
\* whichever way the tie was broken, and one outside of it is flagged
\* (prompts.py: int_to_metric, metric_to_int).
THEOREM GridIsFaithful ==
    ASSUME NEW lo \in Int, NEW hi \in Int, lo < hi
    PROVE  /\ \A v \in -100..100 :
                 MetricToInt(IntToMetric(v, lo, hi), lo, hi)
                     = [value |-> v, clamped |-> FALSE]
           /\ \A m \in Int :
                 LET g == MetricToInt(m, lo, hi)
                     off == 2 * (IntToMetric(g.value, lo, hi) - m)
                 IN  /\ g.value \in -100..100
                     /\ g.clamped <=> m \notin (200 * lo)..(200 * hi)
                     /\ ~g.clamped => off <= hi - lo /\ -off <= hi - lo
<1>1. PICK d \in Nat \ {0} : d = hi - lo
  OBVIOUS
<1>2. ASSUME NEW m \in Int, NEW g, g = MetricToInt(m, lo, hi)
      PROVE  /\ g.value \in -100..100
             /\ g.clamped <=> m \notin (200 * lo)..(200 * hi)
             /\ ~g.clamped => /\ 2 * (IntToMetric(g.value, lo, hi) - m) <= d
                             /\ -(2 * (IntToMetric(g.value, lo, hi) - m)) <= d
  <2>1. PICK num \in Int : num = m - 200 * lo - 100 * d
    OBVIOUS
  <2>2. /\ g.value = IF num < -(100 * d) THEN -100 ELSE IF num > 100 * d THEN 100
                     ELSE RoundHalfEven(num, d)
        /\ g.clamped <=> num < -(100 * d) \/ num > 100 * d
    BY <1>1, <1>2, <2>1 DEF MetricToInt
  <2>3. g.clamped <=> m \notin (200 * lo)..(200 * hi)
    BY <1>1, <2>1, <2>2
  <2>4. CASE g.clamped
    BY <2>2, <2>3, <2>4
  <2>5. CASE ~g.clamped
    <3>1. g.value = RoundHalfEven(num, d) /\ -(100 * d) <= num /\ num <= 100 * d
      BY <2>1, <2>2, <2>5
    <3>2. PICK r \in Int : /\ r = g.value
                          /\ 2 * (r * d - num) <= d /\ -(2 * (r * d - num)) <= d
      BY <3>1, RoundIsNear
    <3>3. PICK p \in Int : p = r * d
      OBVIOUS
    <3>4. r <= 100
      <4>1. 2 * p <= 2 * (100 * d) + d
        BY <3>1, <3>2, <3>3
      <4> QED
        BY <3>3, <4>1, Factors
    <3>5. -100 <= r
      <4>1. 2 * (-100 * d) <= 2 * p + d
        BY <3>1, <3>2, <3>3
      <4> QED
        BY <3>3, <4>1, Factors
    <3>6. IntToMetric(g.value, lo, hi) - m = r * d - num
      <4>1. Clamped(r) = r
        BY <3>4, <3>5 DEF Clamped
      <4>2. (r + 100) * d = r * d + 100 * d
        OBVIOUS
      <4> QED
        BY <1>1, <2>1, <3>2, <4>1, <4>2 DEF IntToMetric
    <3>7. r \in -100..100
      BY <3>4, <3>5
    <3> QED
      BY <2>3, <2>5, <3>2, <3>6, <3>7
  <2> QED
    BY <2>4, <2>5
<1>3. \A v \in -100..100 :
          MetricToInt(IntToMetric(v, lo, hi), lo, hi) = [value |-> v, clamped |-> FALSE]
  BY RoundTrip
<1> QED
  BY <1>1, <1>2, <1>3

\* The elements of a concatenation are those of its parts.
LEMMA ToSetConcat ==
    ASSUME NEW S
    PROVE  \A s, t \in Seq(S) : /\ s \o t \in Seq(S)
                                /\ ToSet(s \o t) = ToSet(s) \cup ToSet(t)
<1> SUFFICES ASSUME NEW s \in Seq(S), NEW t \in Seq(S)
             PROVE  s \o t \in Seq(S) /\ ToSet(s \o t) = ToSet(s) \cup ToSet(t)
  OBVIOUS
<1>1. /\ Len(s) \in Nat /\ Len(t) \in Nat
      /\ DOMAIN s = 1..Len(s) /\ DOMAIN t = 1..Len(t)
      /\ s \o t \in Seq(S) /\ Len(s \o t) = Len(s) + Len(t)
      /\ DOMAIN (s \o t) = 1..(Len(s) + Len(t))
  BY ConcatProperties
<1>2. \A i \in 1..Len(s) : (s \o t)[i] = s[i] /\ i \in 1..(Len(s) + Len(t))
  BY <1>1, ConcatProperties
<1>3. \A i \in 1..Len(t) : /\ (s \o t)[Len(s) + i] = t[i]
                           /\ Len(s) + i \in 1..(Len(s) + Len(t))
  BY <1>1, ConcatProperties
<1>4. \A i \in 1..(Len(s) + Len(t)) :
          i \notin 1..Len(s) => i - Len(s) \in 1..Len(t) /\ Len(s) + (i - Len(s)) = i
  BY <1>1
<1>5. ASSUME NEW x \in ToSet(s \o t) PROVE x \in ToSet(s) \cup ToSet(t)
  <2>1. PICK i \in 1..(Len(s) + Len(t)) : x = (s \o t)[i]
    BY <1>1 DEF ToSet
  <2>2. CASE i \in 1..Len(s)
    BY <1>1, <1>2, <2>1, <2>2 DEF ToSet
  <2>3. CASE i \notin 1..Len(s)
    <3>1. PICK j \in 1..Len(t) : Len(s) + j = i
      BY <1>4, <2>3
    <3>2. x = t[j]
      BY <1>3, <2>1, <3>1
    <3> QED  BY <1>1, <3>2 DEF ToSet
  <2> QED  BY <2>2, <2>3
<1>6. ASSUME NEW x \in ToSet(s) PROVE x \in ToSet(s \o t)
  BY <1>1, <1>2 DEF ToSet
<1>7. ASSUME NEW x \in ToSet(t) PROVE x \in ToSet(s \o t)
  BY <1>1, <1>3 DEF ToSet
<1> QED  BY <1>1, <1>5, <1>6, <1>7

\* The slots that templates name.
Slots == [label : {"LEFT_TARGET_POS", "LEFT_TARGET_RPY", "LEFT_GRIPPER_NEXT",
                  "RIGHT_TARGET_POS", "RIGHT_TARGET_RPY", "RIGHT_GRIPPER_NEXT",
                  "STOP", "THOUGHT", "INTRINSIC_RATIONALE", "PAST_LESSONS"},
          form : {"XYZ", "PY", "RPY", "grip", "bool", "prose"}]

\* The elements of short tuples.
LEMMA TupleSets ==
    ASSUME NEW S
    PROVE  /\ <<>> \in Seq(S) /\ ToSet(<<>>) = {}
           /\ \A a \in S : <<a>> \in Seq(S) /\ ToSet(<<a>>) = {a}
           /\ \A a, b \in S : <<a, b>> \in Seq(S) /\ ToSet(<<a, b>>) = {a, b}
           /\ \A a, b, c \in S :
                 <<a, b, c>> \in Seq(S) /\ ToSet(<<a, b, c>>) = {a, b, c}
  BY DEF ToSet

\* The slots of one arm: its position always, orientation and gripper by the mode.
LEMMA ArmSlotsAre ==
    ASSUME NEW control \in ControlModes, NEW arm \in Arms
    PROVE  /\ ArmSlots(control, arm) \in Seq(Slots)
           /\ ToSet(ArmSlots(control, arm)) =
                 {Slot(Label[arm].pos, "XYZ")}
                   \cup (IF control = "rpy2" THEN {Slot(Label[arm].rpy, "PY")} ELSE {})
                   \cup (IF control = "rpy_gripper"
                         THEN {Slot(Label[arm].rpy, "RPY"), Slot(Label[arm].grip, "grip")}
                         ELSE {})
<1>0. /\ Slot(Label[arm].pos, "XYZ") \in Slots /\ Slot(Label[arm].rpy, "PY") \in Slots
      /\ Slot(Label[arm].rpy, "RPY") \in Slots /\ Slot(Label[arm].grip, "grip") \in Slots
  BY DEF Slots, Slot, Label, Arms
<1>1. PICK p \in Slots : p = Slot(Label[arm].pos, "XYZ")
  BY <1>0
<1>2. PICK o \in Slots : o = Slot(Label[arm].rpy, "PY")
  BY <1>0
<1>3. PICK r \in Slots : r = Slot(Label[arm].rpy, "RPY")
  BY <1>0
<1>4. PICK g \in Slots : g = Slot(Label[arm].grip, "grip")
  BY <1>0
<1>5. CASE control = "position"
  <2>1. ArmSlots(control, arm) = <<p>>
    BY <1>1, <1>5 DEF ArmSlots
  <2> QED  BY <1>1, <1>5, <2>1, TupleSets
<1>6. CASE control = "rpy2"
  <2>1. ArmSlots(control, arm) = <<p, o>>
    BY <1>1, <1>2, <1>6 DEF ArmSlots
  <2>2. <<p, o>> \in Seq(Slots) /\ ToSet(<<p, o>>) = {p, o}
    BY TupleSets
  <2> QED  BY <1>1, <1>2, <1>6, <2>1, <2>2
<1>7. CASE control = "rpy_gripper"
  <2>1. ArmSlots(control, arm) = <<p, r, g>>
    BY <1>1, <1>3, <1>4, <1>7 DEF ArmSlots
  <2>2. <<p, r, g>> \in Seq(Slots) /\ ToSet(<<p, r, g>>) = {p, r, g}
    BY TupleSets
  <2> QED  BY <1>1, <1>3, <1>4, <1>7, <2>1, <2>2
<1> QED  BY <1>5, <1>6, <1>7 DEF ControlModes

\* The action's slots are those of both arms, and STOP.
LEMMA ActionsAre ==
    ASSUME NEW control \in ControlModes
    PROVE  /\ Actions(control) \in Seq(Slots)
           /\ ToSet(Actions(control)) = ToSet(ArmSlots(control, "left"))
                 \cup ToSet(ArmSlots(control, "right")) \cup {Slot("STOP", "bool")}
<1> DEFINE l == ArmSlots(control, "left")
           r == ArmSlots(control, "right")
           s == <<Slot("STOP", "bool")>>
<1>1. l \in Seq(Slots) /\ r \in Seq(Slots)
  BY ArmSlotsAre DEF Arms
<1>2. s \in Seq(Slots) /\ ToSet(s) = {Slot("STOP", "bool")}
  <2>1. Slot("STOP", "bool") \in Slots
    BY DEF Slots, Slot
  <2> QED  BY <2>1, TupleSets
<1>3. Actions(control) = (l \o r) \o s
  BY DEF Actions
<1> HIDE DEF l, r, s
<1>4. l \o r \in Seq(Slots) /\ ToSet(l \o r) = ToSet(l) \cup ToSet(r)
  BY <1>1, ToSetConcat
<1>5. PICK lr \in Seq(Slots) : lr = l \o r
  BY <1>4
<1>6. lr \o s \in Seq(Slots) /\ ToSet(lr \o s) = ToSet(lr) \cup ToSet(s)
  BY <1>2, ToSetConcat
<1> QED  BY <1>2, <1>3, <1>4, <1>5, <1>6 DEF l, r

\* Before the action there is prose only.
LEMMA PrefaceIs ==
    ASSUME NEW variant \in Variants
    PROVE  /\ Preface(variant) \in Seq(Slots)
           /\ ToSet(Preface(variant)) \subseteq
                 {Slot("THOUGHT", "prose"), Slot("INTRINSIC_RATIONALE", "prose"),
                  Slot("PAST_LESSONS", "prose")}
<1>1. /\ Slot("THOUGHT", "prose") \in Slots /\ Slot("PAST_LESSONS", "prose") \in Slots
      /\ Slot("INTRINSIC_RATIONALE", "prose") \in Slots
  BY DEF Slots, Slot
<1> DEFINE t == Slot("THOUGHT", "prose")
           i == Slot("INTRINSIC_RATIONALE", "prose")
           p == Slot("PAST_LESSONS", "prose")
<1>2. \/ Preface(variant) = <<>>
      \/ Preface(variant) = <<Slot("THOUGHT", "prose")>>
      \/ Preface(variant) = <<Slot("INTRINSIC_RATIONALE", "prose")>>
      \/ Preface(variant) = <<Slot("PAST_LESSONS", "prose")>>
      \/ Preface(variant) = <<Slot("PAST_LESSONS", "prose"), Slot("INTRINSIC_RATIONALE", "prose")>>
  BY DEF Preface, Variants
<1>3. \A a \in Slots : <<a>> \in Seq(Slots) /\ ToSet(<<a>>) = {a}
  BY TupleSets
<1>4. \A a, b \in Slots : <<a, b>> \in Seq(Slots) /\ ToSet(<<a, b>>) = {a, b}
  BY TupleSets
<1>5. <<>> \in Seq(Slots) /\ ToSet(<<>>) = {}
  BY TupleSets
<1>6. /\ t \in Slots /\ i \in Slots /\ p \in Slots
      /\ Preface(variant) \in {<<>>, <<t>>, <<i>>, <<p>>, <<p, i>>}
  BY <1>1, <1>2
<1> HIDE DEF t, i, p
<1>7. Preface(variant) \in Seq(Slots) /\ ToSet(Preface(variant)) \subseteq {t, i, p}
  <2>1. \A a \in {t, i, p} : <<a>> \in Seq(Slots) /\ ToSet(<<a>>) \subseteq {t, i, p}
    BY <1>3, <1>6
  <2>2. <<p, i>> \in Seq(Slots) /\ ToSet(<<p, i>>) \subseteq {t, i, p}
    BY <1>4, <1>6
  <2>3. <<>> \in Seq(Slots) /\ ToSet(<<>>) \subseteq {t, i, p}
    BY <1>5
  <2> QED  BY <1>6, <2>1, <2>2, <2>3
<1> QED  BY <1>7 DEF t, i, p

\* The slots that are asked for have different labels, whatever the template.
LEMMA LabelsDiffer ==
    ASSUME NEW control \in ControlModes
    PROVE  \A x, y \in ToSet(Actions(control)) \cup
                {Slot("THOUGHT", "prose"), Slot("INTRINSIC_RATIONALE", "prose"),
                 Slot("PAST_LESSONS", "prose")} :
               x.label = y.label => x = y
<1> USE DEF Slot, Label, Arms
<1>1. ToSet(Actions(control)) = ToSet(ArmSlots(control, "left"))
          \cup ToSet(ArmSlots(control, "right")) \cup {Slot("STOP", "bool")}
  BY ActionsAre
<1>2. CASE control = "position"
  <2>1. /\ ToSet(ArmSlots(control, "left")) = {Slot("LEFT_TARGET_POS", "XYZ")}
        /\ ToSet(ArmSlots(control, "right")) = {Slot("RIGHT_TARGET_POS", "XYZ")}
    BY <1>2, ArmSlotsAre
  <2> QED  BY <1>1, <2>1
<1>3. CASE control = "rpy2"
  <2>1. /\ ToSet(ArmSlots(control, "left")) =
              {Slot("LEFT_TARGET_POS", "XYZ"), Slot("LEFT_TARGET_RPY", "PY")}
        /\ ToSet(ArmSlots(control, "right")) =
              {Slot("RIGHT_TARGET_POS", "XYZ"), Slot("RIGHT_TARGET_RPY", "PY")}
    BY <1>3, ArmSlotsAre
  <2> QED  BY <1>1, <2>1
<1>4. CASE control = "rpy_gripper"
  <2>1. /\ ToSet(ArmSlots(control, "left")) =
              {Slot("LEFT_TARGET_POS", "XYZ"), Slot("LEFT_TARGET_RPY", "RPY"),
               Slot("LEFT_GRIPPER_NEXT", "grip")}
        /\ ToSet(ArmSlots(control, "right")) =
              {Slot("RIGHT_TARGET_POS", "XYZ"), Slot("RIGHT_TARGET_RPY", "RPY"),
               Slot("RIGHT_GRIPPER_NEXT", "grip")}
    BY <1>4, ArmSlotsAre
  <2> QED  BY <1>1, <2>1
<1> QED  BY <1>2, <1>3, <1>4 DEF ControlModes

\* Both positions and STOP are among the action's slots in every mode.
LEMMA PositionsAsked ==
    ASSUME NEW control \in ControlModes
    PROVE  /\ \A arm \in Arms : Slot(Label[arm].pos, "XYZ") \in ToSet(Actions(control))
           /\ Slot("STOP", "bool") \in ToSet(Actions(control))
<1>1. \A arm \in Arms : Slot(Label[arm].pos, "XYZ") \in ToSet(ArmSlots(control, arm))
  BY ArmSlotsAre
<1> QED  BY <1>1, ActionsAre DEF Arms

\* What a wired template asks for: all that the parser requires, and no label twice.
LEMMA AskedAre ==
    ASSUME NEW c \in Configs
    PROVE  LET asked == Asked(c.mode, c.variant, c.scored)
           IN  /\ asked \in Seq(Slots)
               /\ Required(c.mode, c.scored) \subseteq ToSet(asked)
               /\ \A x, y \in ToSet(asked) : x.label = y.label => x = y
<1> DEFINE asked == Asked(c.mode, c.variant, c.scored)
           pre == Preface(c.variant)
           prose == {Slot("THOUGHT", "prose"), Slot("INTRINSIC_RATIONALE", "prose"),
                     Slot("PAST_LESSONS", "prose")}
<1>1. /\ c.mode \in ControlModes /\ c.variant \in Variants
      /\ c.scored \in Arms \cup {"none"}
  BY ConfigsAreWired
<1>2. pre \in Seq(Slots) /\ ToSet(pre) \subseteq prose
  BY <1>1, PrefaceIs
<1>3. Actions(c.mode) \in Seq(Slots)
  BY <1>1, ActionsAre
<1>4. \A x, y \in ToSet(Actions(c.mode)) \cup prose : x.label = y.label => x = y
  BY <1>1, LabelsDiffer
<1>5. Required(c.mode, c.scored) \subseteq ToSet(Actions(c.mode))
  BY <1>1, PositionsAsked DEF Required
<1> HIDE DEF pre, prose
<1>6. CASE PerArm(c.mode, c.variant, c.scored)
  <2>1. PICK pos : pos = Slot(Label[c.scored].pos, "XYZ")
    OBVIOUS
  <2>2. PICK halt : halt = Slot("STOP", "bool")
    OBVIOUS
  <2>3. c.scored \in Arms
    BY <1>6 DEF PerArm
  <2>4. asked = pre \o <<pos, halt>>
    BY <1>6, <2>1, <2>2 DEF Asked, pre
  <2>5. Required(c.mode, c.scored) = {pos, halt}
    BY <2>1, <2>2, <2>3 DEF Required
  <2>6. pos \in Slots /\ halt \in Slots
    BY <2>1, <2>2, <2>3 DEF Slots, Slot, Label, Arms
  <2>7. <<pos, halt>> \in Seq(Slots) /\ ToSet(<<pos, halt>>) = {pos, halt}
    BY <2>6, TupleSets
  <2>8. PICK both \in Seq(Slots) : both = <<pos, halt>> /\ ToSet(both) = {pos, halt}
    BY <2>7
  <2>9. asked \in Seq(Slots) /\ ToSet(asked) = ToSet(pre) \cup {pos, halt}
    <3>1. \A t \in Seq(Slots) : /\ pre \o t \in Seq(Slots)
                                /\ ToSet(pre \o t) = ToSet(pre) \cup ToSet(t)
      BY <1>2, ToSetConcat
    <3>2. asked = pre \o both
      BY <2>4, <2>8
    <3> HIDE DEF asked
    <3> QED  BY <2>8, <3>1, <3>2
  <2> HIDE DEF asked
  <2>10. ToSet(asked) \subseteq ToSet(Actions(c.mode)) \cup prose
    BY <1>2, <1>5, <2>5, <2>9
  <2> QED  BY <1>4, <2>5, <2>9, <2>10 DEF asked
<1>7. CASE ~PerArm(c.mode, c.variant, c.scored)
  <2>1. asked = pre \o Actions(c.mode)
    BY <1>7 DEF Asked, pre
  <2>2. PICK acts \in Seq(Slots) : acts = Actions(c.mode)
    BY <1>3
  <2>3. asked \in Seq(Slots) /\ ToSet(asked) = ToSet(pre) \cup ToSet(acts)
    BY <1>2, <2>1, <2>2, ToSetConcat
  <2> HIDE DEF asked
  <2> QED  BY <1>2, <1>4, <1>5, <2>2, <2>3 DEF asked
<1> QED  BY <1>6, <1>7

\* A line that the parser takes for a slot has the slot's own form, where that is
\* a position, STOP or a slot whose form no other begins with.
LEMMA FitsExactly ==
    ASSUME NEW form, NEW wanted, Fits(form, wanted), wanted \notin {"XY", "PY"}
    PROVE  form = wanted
  BY DEF Fits

\* A reply in the format that was asked for parses.
LEMMA FormatParses ==
    ASSUME NEW c \in Configs, NEW reply \in Heard(c), InFormat(c, reply)
    PROVE  Parses(reply, c.mode, c.scored)
<1> DEFINE asked == Asked(c.mode, c.variant, c.scored)
<1>1. /\ asked \in Seq(Slots)
      /\ Required(c.mode, c.scored) \subseteq ToSet(asked)
      /\ \A x, y \in ToSet(asked) : x.label = y.label => x = y
  BY AskedAre
<1>2. /\ Len(reply) \in Nat /\ DOMAIN reply = 1..Len(reply)
      /\ \A i \in DOMAIN reply : reply[i].form \in DOMAIN Width =>
             reply[i].val \in [1..Width[reply[i].form] -> Int]
  BY RepliesAssumption DEF IsReply
<1>3. /\ DOMAIN asked = DOMAIN reply /\ Len(reply) = Len(asked)
      /\ \A i \in DOMAIN reply :
            /\ reply[i].label = asked[i].label /\ reply[i].form = asked[i].form
            /\ reply[i].form \in DOMAIN Width =>
                  \A v \in ToSet(reply[i].val) : v \in -100..100
  <2>1. /\ Len(reply) = Len(asked)
        /\ \A i \in DOMAIN asked :
              /\ reply[i].label = asked[i].label /\ reply[i].form = asked[i].form
              /\ reply[i].form \in DOMAIN Width =>
                    \A v \in ToSet(reply[i].val) : v \in -100..100
    BY DEF InFormat
  <2> HIDE DEF asked
  <2>2. DOMAIN asked = DOMAIN reply
    BY <1>1, <1>2, <2>1
  <2> QED  BY <2>1, <2>2
<1> HIDE DEF asked
<1> SUFFICES ASSUME NEW slot \in Required(c.mode, c.scored)
             PROVE  Extracted(reply, slot, FALSE)
  BY DEF Parses
<1> DEFINE f == Found(reply, slot, FALSE)
<1>4. f \in DOMAIN reply /\ reply[f].label = slot.label
  <2>1. PICK i \in DOMAIN reply : asked[i] = slot
    BY <1>1, <1>3 DEF ToSet
  <2>2. reply[i].label = slot.label /\ Fits(reply[i].form, slot.form)
    BY <1>3, <2>1 DEF Fits
  <2> QED  BY <1>2, <2>2, FoundIs
<1>5. reply[f].form = slot.form
  <2>1. asked[f] \in ToSet(asked) /\ slot \in ToSet(asked)
    BY <1>1, <1>3, <1>4 DEF ToSet
  <2>2. asked[f] = slot
    BY <1>1, <1>3, <1>4, <2>1
  <2> QED  BY <1>3, <1>4, <2>2
<1> HIDE DEF f
<1>6. f # 0
  BY <1>2, <1>4
<1>7. ASSUME slot.form \in DOMAIN Width, NEW v \in ToSet(Value(reply, slot, FALSE))
      PROVE  v \in -Limit(slot)..Limit(slot)
  <2> DEFINE val == reply[f].val
             w == Width[slot.form]
  <2>1. w \in Nat /\ val \in [1..w -> Int]
    <3>1. w \in Nat
      BY <1>7 DEF Width
    <3> QED  BY <1>2, <1>4, <1>5, <1>7, <3>1
  <2>2. Value(reply, slot, FALSE) = SubSeq(val, 1, w)
    BY <1>7 DEF Value, f
  <2> HIDE DEF w, val
  <2>3. SubSeq(val, 1, w) = val
    BY <2>1
  <2>4. v \in -100..100
    BY <1>3, <1>4, <1>5, <1>7, <2>2, <2>3 DEF val
  <2>5. Limit(slot) \in {100, 180}
    BY DEF Limit
  <2> QED  BY <2>4, <2>5
<1> QED  BY <1>6, <1>7 DEF Extracted, Valid, f

\* What is taken from a reply that parses, for an arm it is asked about.
LEMMA TargetTaken ==
    ASSUME NEW c \in Configs, NEW reply \in Heard(c), Parses(reply, c.mode, c.scored),
           NEW arm \in Arms, c.scored \notin Arms \ {arm}
    PROVE  LET slot == Slot(Label[arm].pos, "XYZ")
               val == reply[Found(reply, slot, FALSE)].val
           IN  /\ Taken(reply, c.mode, c.scored, arm).pos = val
               /\ val \in [1..3 -> -100..100]
<1> DEFINE slot == Slot(Label[arm].pos, "XYZ")
           f == Found(reply, slot, FALSE)
           val == reply[f].val
<1>1. /\ c.mode \in ControlModes /\ c.scored \in Arms \cup {"none"}
  BY ConfigsAreWired
<1>2. slot \in Required(c.mode, c.scored)
  BY <1>1, PositionsAsked DEF Required
<1>3. Extracted(reply, slot, FALSE)
  BY <1>2 DEF Parses
<1>4. slot.form = "XYZ" /\ slot.form \in DOMAIN Width /\ Width[slot.form] = 3
      /\ Limit(slot) = 100
  BY DEF Slot, Width, Limit, Label, Arms
<1>5. /\ Len(reply) \in Nat /\ DOMAIN reply = 1..Len(reply)
      /\ \A i \in DOMAIN reply : reply[i].form \in DOMAIN Width =>
             reply[i].val \in [1..Width[reply[i].form] -> Int]
  BY RepliesAssumption DEF IsReply
<1> HIDE DEF slot
<1>6. f \in DOMAIN reply /\ reply[f].form = "XYZ"
  <2>1. f \in DOMAIN reply /\ Fits(reply[f].form, slot.form)
    BY <1>3, <1>5, FoundIs DEF Extracted
  <2> QED  BY <1>4, <2>1, FitsExactly
<1>7. val \in [1..3 -> Int]
  <2> HIDE DEF f
  <2>1. reply[f].form \in DOMAIN Width /\ Width[reply[f].form] = 3
    BY <1>4, <1>6 DEF Width
  <2>2. reply[f].val \in [1..Width[reply[f].form] -> Int]
    BY <1>5, <1>6, <2>1
  <2> QED  BY <2>1, <2>2
<1>8. Value(reply, slot, FALSE) = SubSeq(val, 1, 3)
  BY <1>4 DEF Value
<1>9. \A v \in ToSet(Value(reply, slot, FALSE)) : v \in -100..100
  BY <1>3, <1>4 DEF Extracted, Valid
<1> HIDE DEF f, val
<1>10. SubSeq(val, 1, 3) = val
  BY <1>7
<1>11. val \in [1..3 -> -100..100]
  BY <1>7, <1>8, <1>9, <1>10 DEF ToSet
<1>12. Taken(reply, c.mode, c.scored, arm).pos = Value(reply, slot, FALSE)
  BY DEF Taken, slot
<1> QED  BY <1>8, <1>10, <1>11, <1>12 DEF slot, f, val

\* Where an unmasked arm goes: the first target that the reply names for it, or the
\* sentinel if the reply was not asked about it.
Destination(c, reply, arm) ==
    IF c.scored \in Arms \ {arm} THEN Hold.pos
    ELSE reply[Found(reply, Slot(Label[arm].pos, "XYZ"), FALSE)].val

\* The arm goes there, or is held.
GoesAsNamed(c, reply, masked, command, arm) ==
    LET target == command[arm].pos
    IN  /\ target = <<>> <=> Active(c) \in Arms \ {arm} /\ masked
        /\ target # <<>> => \A i \in 1..3 :
              MetricToInt(target[i], Bounds[i][1], Bounds[i][2])
                  = [value |-> Destination(c, reply, arm)[i], clamped |-> FALSE]

\* What is taken from a reply that parses is that destination, on the grid.
LEMMA DestinationTaken ==
    ASSUME NEW c \in Configs, NEW reply \in Heard(c), Parses(reply, c.mode, c.scored),
           NEW arm \in Arms
    PROVE  /\ Taken(reply, c.mode, c.scored, arm).pos = Destination(c, reply, arm)
           /\ Destination(c, reply, arm) \in [1..3 -> -100..100]
<1>1. CASE c.scored \in Arms \ {arm}
  BY <1>1 DEF Taken, Destination, Hold
<1>2. CASE c.scored \notin Arms \ {arm}
  BY <1>2, TargetTaken DEF Destination
<1> QED  BY <1>1, <1>2

\* So does every arm, for a reply that parses.
LEMMA MeaningIsMeant ==
    ASSUME NEW c \in Configs, NEW reply \in Heard(c), Parses(reply, c.mode, c.scored),
           NEW arm \in Arms, NEW masked \in BOOLEAN
    PROVE  GoesAsNamed(c, reply, masked, Meaning(c, reply, masked).command, arm)
<1> DEFINE target == Meaning(c, reply, masked).command[arm].pos
           first == Destination(c, reply, arm)
           action == Taken(reply, c.mode, c.scored, arm)
           metric == [i \in 1..3 |-> IntToMetric(action.pos[i], Bounds[i][1], Bounds[i][2])]
<1>1. c.scored \in Arms \cup {"none"} /\ c.arm \in Arms \cup {"none"}
  BY ConfigsAreWired
<1>2. /\ DOMAIN action = {"pos", "rpy", "grip"}
  BY DEF Taken, Hold
<1>3. ToMetric(action, Bounds).pos = metric /\ "pos" \in DOMAIN ToMetric(action, Bounds)
  BY <1>2 DEF ToMetric
<1>4. Meaning(c, reply, masked).command[arm] =
          IF Active(c) \in Arms \ {arm} /\ masked
          THEN [ToMetric(action, Bounds) EXCEPT !.pos = <<>>]
          ELSE ToMetric(action, Bounds)
  BY DEF Meaning, Commanded
<1>5. target = IF Active(c) \in Arms \ {arm} /\ masked THEN <<>> ELSE metric
  BY <1>3, <1>4
<1>6. metric # <<>>
  <2>1. DOMAIN metric = 1..3 /\ 1 \in 1..3
    OBVIOUS
  <2> HIDE DEF metric
  <2> QED  BY <2>1
<1>7. ASSUME target # <<>>, NEW i \in 1..3
      PROVE  MetricToInt(target[i], Bounds[i][1], Bounds[i][2])
                 = [value |-> first[i], clamped |-> FALSE]
  <2>1. target = metric
    BY <1>5, <1>7
  <2>2. action.pos = first /\ first \in [1..3 -> -100..100]
    BY DestinationTaken
  <2>3. PICK lo, hi \in Int : lo < hi /\ Bounds[i][1] = lo /\ Bounds[i][2] = hi
    BY BoundsAssumption
  <2>4. PICK v \in -100..100 : v = first[i]
    BY <2>2
  <2>5. metric[i] = IntToMetric(v, lo, hi)
    <3>1. metric[i] = IntToMetric(action.pos[i], Bounds[i][1], Bounds[i][2])
      OBVIOUS
    <3>2. action.pos[i] = v
      BY <2>2, <2>4
    <3> HIDE DEF action, metric, first
    <3> QED  BY <2>3, <3>1, <3>2
  <2>6. target[i] = IntToMetric(v, lo, hi)
    BY <2>1, <2>5
  <2>7. MetricToInt(IntToMetric(v, lo, hi), lo, hi) = [value |-> v, clamped |-> FALSE]
    BY <2>3, RoundTrip
  <2> HIDE DEF target, first
  <2> QED  BY <2>3, <2>4, <2>6, <2>7
<1> HIDE DEF metric
<1> QED  BY <1>5, <1>6, <1>7 DEF GoesAsNamed

\* The configuration stays, and what was heard last is meant.
MeantInv == config \in Configs /\ RepliesAreMeant

\* Reading a reply establishes the property: used replies by MeaningIsMeant, the
\* others because a reply as asked for would have parsed.
LEMMA HeardIsMeant ==
    ASSUME config \in Configs, config' = config, ReplyIsRead
    PROVE  RepliesAreMeant'
<1>1. PICK reply \in Heard(config), masked \in BOOLEAN :
          IF Parses(reply, config.mode, config.scored)
          THEN heard' = <<Meaning(config, reply, masked)>>
          ELSE heard' = <<[reply |-> reply, used |-> FALSE]>>
  BY DEF ReplyIsRead
<1>2. InFormat(config, reply) => Parses(reply, config.mode, config.scored)
  BY FormatParses
<1>3. CASE Parses(reply, config.mode, config.scored)
  <2>1. PICK h : h = Meaning(config, reply, masked)
    OBVIOUS
  <2>2. heard'[1] = h /\ h.reply = reply /\ h.used /\ h.masked = masked
    BY <1>1, <1>3, <2>1 DEF Meaning
  <2>3. \A arm \in Arms : GoesAsNamed(config, reply, h.masked, h.command, arm)
    BY <1>3, <2>1, <2>2, MeaningIsMeant
  <2> QED  BY <2>2, <2>3 DEF RepliesAreMeant, GoesAsNamed, Destination
<1>4. CASE ~Parses(reply, config.mode, config.scored)
  <2>1. PICK h : h = [reply |-> reply, used |-> FALSE]
    OBVIOUS
  <2>2. heard'[1] = h /\ h.reply = reply /\ ~h.used
    BY <1>1, <1>4, <2>1
  <2> QED  BY <1>2, <1>4, <2>2 DEF RepliesAreMeant
<1> QED  BY <1>3, <1>4

\* Every step reads a reply, forgets the last one or leaves both as they are.
LEMMA StepMeant == MeantInv /\ [RoundNext]_roundVars => MeantInv'
<1> SUFFICES ASSUME MeantInv, [RoundNext]_roundVars PROVE MeantInv'
  OBVIOUS
<1>1. config' = config
  BY DEF RoundNext, PostEnds, Between, roundVars
<1>2. CASE heard' = <<>>
  BY <1>1, <1>2 DEF MeantInv, RepliesAreMeant
<1>3. CASE ReplyIsRead
  BY <1>1, <1>3, HeardIsMeant DEF MeantInv
<1>4. CASE UNCHANGED roundVars
  BY <1>4 DEF MeantInv, RepliesAreMeant, roundVars
<1> QED  BY <1>2, <1>3, <1>4 DEF RoundNext, PostEnds, Between

\* A reply in the format that was asked for is never thrown away; the idle arm is held
\* if and only if the poses can be read; every other arm goes, inside the workspace, to
\* the first target the reply names for it, or to the sentinel where it was not asked
\* for one: for every configuration, reply and workspace.
THEOREM MeaningCorrect == RoundSpec => []RepliesAreMeant
<1>1. RoundInit => MeantInv
  BY DEF RoundInit, MeantInv, RepliesAreMeant
<1>2. MeantInv => RepliesAreMeant
  BY DEF MeantInv
<1> QED  BY <1>1, <1>2, StepMeant, PTL DEF RoundSpec

\* A round with replies in it is a behaviour of the dialogue alone.
THEOREM RoundIsDialogue == RoundSpec => Spec
<1>1. RoundInit => Init
  BY DEF RoundInit
<1>2. [RoundNext]_roundVars => [Next]_dialogueVars
  BY DEF RoundNext, PostEnds, Between, ReplyIsRead, roundVars, Next, Reply
<1> QED  BY <1>1, <1>2, PTL DEF RoundSpec, Spec
=============================================================================
