---------------------------- MODULE CostHarness -----------------------------
(***************************************************************************)
(* cost_remeasure.py: what one step of a protocol costs, measured again on  *)
(* the recorded episodes of a run.  An episode is a record                  *)
(*    id                                                                    *)
(*    filed      the directories (success, failure) that hold its replay    *)
(*    rebuilds   its instruction comes out as stored and its images are     *)
(*               there                                                      *)
(*    answered   how many answers its replay keeps                          *)
(*    rounds     [quotes, final]: the critic feedback given in the round    *)
(*               quotes where both arms had started; both distances at its  *)
(*               end are known                                              *)
(* The settings h of an invocation are                                      *)
(*    steps, perEpisode, cap, warmup, dry   the options                     *)
(*    replies    how the posts end, in order; after the last one the        *)
(*               server answers:                                            *)
(*       answer    a reply that parses                                      *)
(*       garbled   a reply that does not                                    *)
(*       empty     no choice, or one without content                        *)
(*       noise     not JSON                                                 *)
(*       refused   a status, connect or timeout error                       *)
(*       broken    any other exception                                      *)
(* A log is what has been measured: posts (shared by the protocols of the   *)
(* invocation), the calls since the last mark, how the last call ended, the *)
(* step and the recap records.                                              *)
(***************************************************************************)
EXTENDS Integers, FiniteSets, SequencesExt, FiniteSetsExt

Protocol(memory, recap, excludesOwn) ==
    [memory |-> memory, recap |-> recap, excludesOwn |-> excludesOwn]

Protocols ==
    [teacher           |-> Protocol(TRUE, TRUE, TRUE),
     student_bare      |-> Protocol(FALSE, FALSE, FALSE),
     student_retrieval |-> Protocol(TRUE, FALSE, FALSE)]

\* MAX_RETRIES of the client and max_retry_on_parse_fail of the level, and the first.
PostTries == 3
ParseTries == 3

\* JSONDecodeError is a ValueError, and run_stage1 retries those; nothing else.
ValueErrors == {"garbled", "empty", "noise"}

-----------------------------------------------------------------------------
(* Reconstruction.                                                          *)

Loads(run) == run # <<>> /\ \A e \in ToSet(run) : Cardinality(e.filed) = 1

\* The first source that knows where both arms were at the start of round k.
DistanceSource(e, k) ==
    LET Quoted == k < Len(e.rounds) /\ e.rounds[k + 1].quotes
        Ended == k > 1 /\ e.rounds[k - 1].final
    IN  CASE Quoted -> "next_critic_exact"
          [] ~Quoted /\ Ended -> "prev_final"
          [] ~Quoted /\ ~Ended -> "traj0_approx"

\* The episodes in run order, each with the rounds that are taken of it; the first
\* that has none to give is the end.
SelectSteps(run, h) ==
    LET Taken(plan) == FoldLeft(LAMBDA n, x : n + x.take, 0, plan)
        Extend(s, e) ==
            LET take == Min({Len(e.rounds), h.perEpisode, h.steps - Taken(s.plan)})
            IN  IF s.over \/ take <= 0 THEN [s EXCEPT !.over = TRUE]
                ELSE [s EXCEPT !.plan = Append(@, [episode |-> e, take |-> take])]
    IN  FoldLeft(Extend, [plan |-> <<>>, over |-> FALSE], run).plan

\* The recaps of the source run itself are not shown to its own episodes.
Excluded(p, source) == IF p.memory /\ p.excludesOwn THEN {source} ELSE {}

-----------------------------------------------------------------------------
(* Calls.                                                                   *)

\* One call of the recorder: posts until one is not refused, as far as the cap
\* goes.  A post that ends in neither a body nor a known error leaves no record.
Call(h, log) ==
    LET Reply(i) == IF i \in DOMAIN h.replies THEN h.replies[i] ELSE "answer"
        left == IF h.cap = 0 THEN PostTries ELSE Min({PostTries, h.cap - log.posts})
        ends == {i \in 1..left : Reply(log.posts + i) # "refused"}
        sent == IF ends = {} THEN left ELSE Min(ends)
        result == CASE ends # {} -> Reply(log.posts + sent)
                    [] ends = {} /\ left = PostTries -> "refused"
                    [] ends = {} /\ left < PostTries -> "capped"
        unrecorded == IF result \in {"noise", "broken"} THEN 1 ELSE 0
    IN  IF h.dry THEN [log EXCEPT !.calls = @ + 1, !.result = "answer"]
        ELSE [log EXCEPT !.posts = @ + sent, !.calls = @ + sent - unrecorded,
                         !.result = result]

Mark(log) == [log EXCEPT !.calls = 0]

\* run_stage1 over the recorder: every exception ends up in its result.
Stage1(h, log) ==
    FoldLeft(LAMBDA l, attempt : IF l.result \in ValueErrors THEN Call(h, l) ELSE l,
             [Mark(log) EXCEPT !.result = "garbled"], [i \in 1..ParseTries |-> i])

\* An episode that does not rebuild ends the whole invocation.
Step(h, log, e, k) ==
    IF ~e.rebuilds THEN [log EXCEPT !.result = "aborted"]
    ELSE LET after == Stage1(h, log)
         IN  [after EXCEPT !.steps = Append(@, [id |-> e.id, round |-> k,
                  calls |-> after.calls, ok |-> after.result = "answer",
                  source |-> DistanceSource(e, k)])]

\* The recap is asked for after a failed round as after the last; it takes any
\* text, and _request_vlm_recap too turns every exception into no lesson.
RecapOf(h, log, e) ==
    LET after == IF e.answered = 0 THEN Mark(log) ELSE Call(h, Mark(log))
    IN  [after EXCEPT !.recaps = Append(@, [id |-> e.id, calls |-> after.calls,
             ok |-> e.answered # 0 /\ after.result \in {"answer", "garbled"}])]

Episode(h, p, log, x) ==
    LET played == FoldLeft(LAMBDA l, k : IF l.result = "answer" THEN Step(h, l, x.episode, k)
                                         ELSE l,
                           [log EXCEPT !.result = "answer"], [k \in 1..x.take |-> k])
    IN  IF log.result = "aborted" THEN log
        ELSE IF played.result # "aborted" /\ p.recap THEN RecapOf(h, played, x.episode)
        ELSE played

-----------------------------------------------------------------------------
(* The invocation.                                                          *)

FreshLog(posts) ==
    [posts |-> posts, calls |-> 0, result |-> "answer", steps |-> <<>>, recaps |-> <<>>]

\* The warm-up call counts against the cap; its failure is only logged.
RunProtocol(h, p, run, posts) ==
    LET log == FreshLog(posts)
        warm == IF h.warmup /\ ~h.dry THEN Call(h, log) ELSE log
    IN  IF ~Loads(run) THEN [log EXCEPT !.result = "aborted"]
        ELSE FoldLeft(LAMBDA l, x : Episode(h, p, l, x),
                      [warm EXCEPT !.result = "answer"], SelectSteps(run, h))

Total(records) == FoldLeft(LAMBDA n, r : n + r.calls, 0, records)

\* LM calls per step as a fraction: those of the steps, and those of a recap spread
\* over the mean number of rounds of all episodes of the source run.
CallsPerStep(log, run) ==
    LET S == Max({Len(log.steps), 1})
        C == Max({Len(log.recaps), 1})
        T == FoldLeft(LAMBDA n, e : n + Len(e.rounds), 0, run)
    IN  IF log.recaps = <<>> THEN <<Total(log.steps), S>>
        ELSE <<Total(log.steps) * C * T + Total(log.recaps) * Len(run) * S, S * C * T>>

\* A protocol that looks at the recap buffer needs it to be the frozen one; one that
\* aborts leaves the later ones without a log and the invocation without a report.
Invocation(h, names, runs, frozen) ==
    LET refuses == ~frozen /\ \E i \in DOMAIN names :
                       Protocols[names[i]].memory \/ Protocols[names[i]].recap
        Posts(logs) == IF logs = <<>> THEN 0 ELSE Last(logs).posts
        Next(logs, name) ==
            IF logs # <<>> /\ Last(logs).result = "aborted" THEN logs
            ELSE Append(logs, RunProtocol(h, Protocols[name], runs[name], Posts(logs)))
        logs == IF refuses THEN <<>> ELSE FoldLeft(Next, <<>>, names)
        aborts == logs # <<>> /\ Last(logs).result = "aborted"
    IN  [logs |-> logs,
         report |-> IF refuses \/ aborts THEN <<>>
                    ELSE [i \in DOMAIN names |-> CallsPerStep(logs[i], runs[names[i]])]]
=============================================================================
