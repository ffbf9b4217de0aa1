------------------------------- MODULE VlmRound -------------------------------
(* The dialogue together with what its replies mean: a round of run_collect_   *)
(* loop or of _run_episode, from the prompt to the command.                    *)
EXTENDS Dialogue, Replies

CONSTANTS
    Configs,      \* [mode, variant, scored, arm]: control mode of the level, template
                  \* variant, scored arm or "none", arm of the level's name or "none"
    Bounds,       \* the axes of the workspace
    Heard(_)      \* the replies that are tried with a configuration

ASSUME ConfigsAreWired ==
    /\ Configs \subseteq [mode : ControlModes, variant : Variants,
                          scored : Arms \cup {"none"}, arm : Arms \cup {"none"}]
    /\ \A c \in Configs : Wired(c.mode, c.variant, c.scored)

\* The axes go upwards.
ASSUME BoundsAssumption ==
    \A i \in 1..3 : Bounds[i] \in Int \X Int /\ Bounds[i][1] < Bounds[i][2]

\* A reply is the sequence of its lines, with as many integers as its pattern names.
IsReply(reply) ==
    /\ Len(reply) \in Nat /\ DOMAIN reply = 1..Len(reply)
    /\ \A i \in DOMAIN reply : reply[i].form \in DOMAIN Width =>
           reply[i].val \in [1..Width[reply[i].form] -> Int]

ASSUME RepliesAssumption == \A c \in Configs : \A reply \in Heard(c) : IsReply(reply)

VARIABLES
    config,
    heard    \* <<>>, or the reply just read, whether it was used, whether the idle arm
             \* was masked, and the command

roundVars == <<dialogueVars, config, heard>>

\* The arm that is executed and judged: the option before the level's name.
Active(c) == IF c.scored \in Arms THEN c.scored ELSE c.arm

\* A reply that parses, as the replay keeps it and the simulator executes it with or
\* without the hold mask.
Meaning(c, reply, masked) ==
    [reply |-> reply, used |-> TRUE, stop |-> Stops(reply), full |-> Thought(reply),
     masked |-> masked,
     command |-> Commanded([arm \in Arms |-> Taken(reply, c.mode, c.scored, arm)],
                           Active(c), masked, Bounds)]

\* A reply is answered when it parses, and retried when it does not.  The poses that
\* the mask needs may or may not be read.
ReplyIsRead ==
    \E reply \in Heard(config), masked \in BOOLEAN :
        IF Parses(reply, config.mode, config.scored)
        THEN Answered /\ heard' = <<Meaning(config, reply, masked)>>
        ELSE Unusable /\ heard' = <<[reply |-> reply, used |-> FALSE]>>

RoundInit == Init /\ config \in Configs /\ heard = <<>>

\* A post ends in a reply or in an error of the transport.
PostEnds ==
    /\ UNCHANGED config
    /\ ((Transient \/ OtherError) /\ heard' = <<>>) \/ ReplyIsRead

Between == (StartRound \/ EpisodeOver) /\ heard' = <<>> /\ UNCHANGED config

RoundNext == PostEnds \/ Between

\* Every post has a timeout of 300 s, so that it ends; it is counted when it does.
RoundSpec == RoundInit /\ [][RoundNext]_roundVars /\ WF_posts(Post)

-----------------------------------------------------------------------------
(* Properties.                                                             *)

\* A reply in the format that was asked for.
InFormat(c, reply) ==
    LET asked == Asked(c.mode, c.variant, c.scored)
    IN  /\ Len(reply) = Len(asked)
        /\ \A i \in DOMAIN asked :
              /\ reply[i].label = asked[i].label
              /\ reply[i].form = asked[i].form
              /\ reply[i].form \in DOMAIN Width =>
                    \A v \in ToSet(reply[i].val) : v \in -100..100

\* Prompt, parser and hold mask agree, whatever template and scored arm are
\* combined: a reply in the format that was asked for is never thrown away; the idle
\* arm is held exactly when the poses could be read; every other arm goes, inside the
\* workspace, to the first target that the reply names for that very arm; and the
\* hold sentinel, the centre of the grid, is executed by an arm the reply was not
\* asked about only, where the mask was skipped.
RepliesAreMeant ==
    heard # <<>> =>
        LET h == heard[1]
            First(arm) == h.reply[Found(h.reply, Slot(Label[arm].pos, "XYZ"), FALSE)].val
            Target(arm) == IF config.scored \in Arms \ {arm} THEN Hold.pos ELSE First(arm)
        IN  /\ InFormat(config, h.reply) => h.used
            /\ h.used => \A arm \in Arms :
                  /\ h.command[arm].pos = <<>> <=> Active(config) \in Arms \ {arm} /\ h.masked
                  /\ h.command[arm].pos # <<>> =>
                        \A i \in 1..3 :
                           MetricToInt(h.command[arm].pos[i], Bounds[i][1], Bounds[i][2])
                             = [value |-> Target(arm)[i], clamped |-> FALSE]
=============================================================================
