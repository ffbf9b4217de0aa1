------------------------------- MODULE Dialogue -------------------------------
(***************************************************************************)
(* The dialogue of one episode with the VLM: run_stage1, run_stage1_push   *)
(* and run_stage1_eef (aiongenos/pipeline/stage1_reasoning.py) over the    *)
(* conversation and the HTTP calls of aiongenos/vlm/client.py.             *)
(*                                                                         *)
(* A message is its role, the round it belongs to and its content.  A      *)
(* content ends with a text: it is a sequence of blocks, each of them a    *)
(* text part and the image parts right before it, in their order, named by *)
(* what they carry.                                                        *)
(***************************************************************************)
EXTENDS Integers, Sequences

CONSTANTS
    MaxRounds,      \* max_subgoals_per_episode
    Window,         \* EpisodeConversation.recent_window
    ParseRetries,   \* max_retries of run_stage1
    PostRetries,    \* MAX_RETRIES of the client
    PastImages,     \* images of the retrieved episodes
    ExtraViews,     \* extra camera views of the current scene
    Modes           \* how the instrument keeps the conversation

ASSUME DialogueAssumption ==
    /\ MaxRounds \in Nat \ {0}
    /\ Window \in Nat \ {0}
    /\ ParseRetries \in Nat
    /\ PostRetries \in Nat
    /\ PastImages \in Nat
    /\ ExtraViews \in Nat
    /\ Modes \subseteq {"episode", "round1", "stateless"}

VARIABLES
    mode,      \* one conversation per episode, for round 1 only, or none
    memory,    \* a retrieved-memory preamble is given for round 1
    pc,        \* "idle", "post", "failed" (bail) or "over"
    round,     \* rounds started
    messages,  \* EpisodeConversation.messages
    attempt,   \* attempt of run_stage1's loop
    tries,     \* attempt of call_vlm's loop
    posts      \* HTTP requests sent in this round (history, up to PostsCap)

dialogueVars == <<mode, memory, pc, round, messages, attempt, tries, posts>>

Texts == {"system", "memory", "prompt", "answer"}
Images == {"past", "scene", "extra"}
Block == [images : Seq(Images), text : Texts]
Message == [role : {"user", "assistant"}, round : 1..MaxRounds, parts : Seq(Block)]

-----------------------------------------------------------------------------
(* EpisodeConversation.                                                     *)

Copies(part, n) == [i \in 1..n |-> part]

Text(text) == [images |-> <<>>, text |-> text]

\* The images of a message are dropped, its texts stay.
TextOnly(parts) == [i \in DOMAIN parts |-> Text(parts[i].text)]

WithoutImages(msg) ==
    IF msg.role = "user" THEN [msg EXCEPT !.parts = TextOnly(@)] ELSE msg

\* What the system prompt and the preamble put before the first question: texts,
\* and images that run on into those of the scene.
Preamble == IF memory THEN <<Text("memory")>> ELSE <<>>
PastViews == IF memory THEN Copies("past", PastImages) ELSE <<>>

\* The current image, and the extra views that run_stage1_eef inserts before the
\* trailing text.
PresentViews == <<"scene">> \o Copies("extra", ExtraViews)

Question(views) == <<[images |-> views, text |-> "prompt"]>>

\* The preamble is only honoured on the first turn.
UserTurn(msgs, r) ==
    [role |-> "user", round |-> r,
     parts |-> IF msgs = <<>>
               THEN <<Text("system")>> \o Preamble \o Question(PastViews \o PresentViews)
               ELSE Question(PresentViews)]

\* Mutant of AppendUserTurn: images of the earlier turns are kept.
AppendUserTurnKeepingImages(msgs, r) == Append(msgs, UserTurn(msgs, r))

\* append_user_turn: images are stripped from all but the new turn.
AppendUserTurn(msgs, r) ==
    Append([i \in DOMAIN msgs |-> WithoutImages(msgs[i])], UserTurn(msgs, r))

\* The longest suffix that starts with a user turn.
FromUserTurn(msgs) ==
    LET starts == {i \in DOMAIN msgs : msgs[i].role = "user"}
    IN  IF starts = {} THEN <<>>
        ELSE SubSeq(msgs, CHOOSE i \in starts : \A j \in starts : i <= j,
                    Len(msgs))

PruneToWindow(msgs) ==
    IF Len(msgs) <= 2 * Window + 1
    THEN msgs
    ELSE <<Head(msgs)>>
             \o FromUserTurn(SubSeq(msgs, Len(msgs) - 2 * Window + 1, Len(msgs)))

AssistantTurn(r) ==
    [role |-> "assistant", round |-> r, parts |-> <<Text("answer")>>]

AppendAssistantTurn(msgs, r) == PruneToWindow(Append(msgs, AssistantTurn(r)))

\* build_chat_request: system text, images and prompt in one user message.
ChatRequest(r) ==
    <<[role |-> "user", round |-> r,
       parts |-> <<Text("system")>> \o Question(PresentViews)]>>

\* run_stage1* is given a conversation in this round.
Conversing(r) == mode = "episode" \/ (mode = "round1" /\ memory /\ r = 1)

\* What every post of the round carries.
Payload == IF Conversing(round) THEN messages ELSE ChatRequest(round)

-----------------------------------------------------------------------------
Init ==
    /\ mode \in Modes
    /\ memory \in BOOLEAN
    /\ pc = "idle"
    /\ round = 0
    /\ messages = <<>>
    /\ attempt = 0
    /\ tries = 0
    /\ posts = 0

\* A round of the episode calls run_stage1*.
StartRound ==
    /\ pc = "idle"
    /\ round < MaxRounds
    /\ round' = round + 1
    /\ messages' = IF Conversing(round')
                   THEN AppendUserTurn(messages, round')
                   ELSE <<>>
    /\ attempt' = 0
    /\ tries' = 0
    /\ posts' = 0
    /\ pc' = "post"
    /\ UNCHANGED <<mode, memory>>

\* The bound of the history counter: one above what the two loops allow.
PostsCap == (ParseRetries + 1) * (PostRetries + 1) + 1

Post ==
    /\ pc = "post"
    /\ posts' = IF posts < PostsCap THEN posts + 1 ELSE posts
    /\ UNCHANGED <<mode, memory, round>>

\* The reply parses: only now does an answer enter the conversation.
Answered ==
    /\ Post
    /\ messages' = IF Conversing(round)
                   THEN AppendAssistantTurn(messages, round)
                   ELSE messages
    /\ pc' = "idle"
    /\ UNCHANGED <<attempt, tries>>

\* Mutant of Unusable: the answer enters the conversation before it is parsed.
UnusableIsRemembered ==
    /\ Post
    /\ messages' = IF Conversing(round)
                   THEN AppendAssistantTurn(messages, round)
                   ELSE messages
    /\ IF attempt = ParseRetries
       THEN pc' = "failed" /\ UNCHANGED <<attempt, tries>>
       ELSE attempt' = attempt + 1 /\ tries' = 0 /\ UNCHANGED pc

\* Mutant of Unusable: the last attempt is retried like the others.
UnusableRetriedForever ==
    /\ Post
    /\ attempt' = IF attempt < ParseRetries THEN attempt + 1 ELSE attempt
    /\ tries' = 0
    /\ UNCHANGED <<pc, messages>>

\* A ValueError: no JSON, no choices, no content, or a reply that does not parse
\* or validate.  run_stage1 posts the same conversation again.
Unusable ==
    /\ Post
    /\ IF attempt = ParseRetries
       THEN pc' = "failed" /\ UNCHANGED <<attempt, tries>>
       ELSE attempt' = attempt + 1 /\ tries' = 0 /\ UNCHANGED pc
    /\ UNCHANGED messages

\* Mutant of Transient: the client's retries run out only into the outer loop.
TransientRetriedAgain ==
    /\ Post
    /\ IF tries > PostRetries
       THEN pc' = "failed" /\ UNCHANGED tries
       ELSE tries' = tries + 1 /\ UNCHANGED pc
    /\ UNCHANGED <<messages, attempt>>

\* Non-2xx status, connection refused or timeout: the client retries, and what
\* it raises in the end is not retried by run_stage1.
Transient ==
    /\ Post
    /\ IF tries = PostRetries
       THEN pc' = "failed" /\ UNCHANGED tries
       ELSE tries' = tries + 1 /\ UNCHANGED pc
    /\ UNCHANGED <<messages, attempt>>

\* Any other exception (the connection broke while the answer was read).
OtherError ==
    /\ Post
    /\ pc' = "failed"
    /\ UNCHANGED <<messages, attempt, tries>>

\* The episode is judged over after an answered round.
EpisodeOver ==
    /\ pc = "idle"
    /\ round > 0
    /\ pc' = "over"
    /\ UNCHANGED <<mode, memory, round, messages, attempt, tries, posts>>

Reply == Answered \/ Unusable \/ Transient \/ OtherError

Next == StartRound \/ Reply \/ EpisodeOver

Spec == Init /\ [][Next]_dialogueVars

-----------------------------------------------------------------------------
(* Properties.                                                             *)

TypeOK ==
    /\ mode \in Modes
    /\ memory \in BOOLEAN
    /\ pc \in {"idle", "post", "failed", "over"}
    /\ round \in 0..MaxRounds
    /\ messages \in Seq(Message)
    /\ attempt \in 0..ParseRetries
    /\ tries \in 0..PostRetries
    /\ posts \in Nat

\* The dialogue as the docstring of EpisodeConversation promises it, in closed
\* form: the first turn with the system and memory texts, the latest Window
\* rounds before the present one as question and answer, and the present one.
PastTurn(i, k) ==
    IF i % 2 = 1 THEN [role |-> "user", round |-> k, parts |-> Question(<<>>)]
                 ELSE AssistantTurn(k)

Promised(r) ==
    LET first == [role |-> "user", round |-> 1,
                  parts |-> <<Text("system")>> \o Preamble \o Question(<<>>)]
        from == IF r - Window > 2 THEN r - Window ELSE 2
        pairs == [i \in 1..(2 * (r - from)) |->
                     PastTurn(i, from + (i - 1) \div 2)]
        now == [role |-> "user", round |-> r, parts |-> Question(PresentViews)]
        reply == IF r - Window > 1 THEN <<>> ELSE <<AssistantTurn(1)>>
    IN  <<first>> \o reply \o pairs \o <<now>>

\* Every post of a later round of a conversing episode carries exactly the
\* promised dialogue, whatever was retried before: no failed answer, no lost
\* first turn, no stale image, and the present views last before the prompt.
PayloadIsPromised ==
    pc = "post" /\ mode = "episode" /\ round > 1 => Payload = Promised(round)

\* The preamble's past episodes are seen once: their images are posted in the
\* first round only, before the present scene, and never without their text.
PastImagesOnce ==
    pc = "post" =>
        \A i \in DOMAIN Payload : \A b \in DOMAIN Payload[i].parts :
            LET parts == Payload[i].parts
                images == parts[b].images
            IN  \A k \in DOMAIN images : images[k] = "past" =>
                    /\ round = 1
                    /\ \E t \in 1..(b - 1) : parts[t].text = "memory"
                    /\ \E s \in (k + 1)..Len(images) : images[s] = "scene"

\* The two retry loops nest without multiplying beyond their product: one round
\* posts at most that often before it bails out.
PostsBounded == posts <= (ParseRetries + 1) * (PostRetries + 1)

\* Every question is resolved: answered, or bailed out of.
RoundResolves == (pc = "post") ~> (pc # "post")
=============================================================================
