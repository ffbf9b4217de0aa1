--------------------------- MODULE TrainingPipeline ---------------------------
(***************************************************************************)
(* The training campaign: run_d11_pipeline_v2.sh, which prepares one SFT    *)
(* and one KTO file per arm, gates them, ships them, trains two adapters    *)
(* per arm on the server, exports them and evaluates the protocols.  The    *)
(* driver may stop at any command, and the operator resumes it with         *)
(* --skip N at the step that stopped or before; what it finds done then is  *)
(* what an earlier launch left behind.                                      *)
(*                                                                          *)
(* The driver is its list of tasks and a position in it.  A file that was   *)
(* cut short while it was written lacks a row.  The server's adapters and   *)
(* GGUFs are identified by what they were made from.                        *)
(***************************************************************************)
EXTENDS TrainingData

CONSTANTS
    Campaigns,  \* recorded campaigns to choose from
    ArmOrder,   \* ARMS
    SourceOf,   \* ARM_TO_SRC
    Secondary,  \* the arm that SKIP_D_GIST leaves out
    Protocols,  \* PROTOCOLS: a sequence of [name, arm]
    MaxFaults   \* bound: stops, failed commands and surprises of the server

Arms == ToSet(ArmOrder)
Kinds == {"sft", "kto"}
Names == {Protocols[i].name : i \in DOMAIN Protocols}
None == [id |-> 0]

ASSUME PipelineAssumption ==
    /\ ArmOrder \in Seq(Arms) /\ DOMAIN SourceOf = Arms
    /\ Secondary \in Arms /\ "all" \notin Arms
    /\ Protocols \in Seq([name : Names, arm : Arms])
    /\ MaxFaults \in Nat
    /\ \A w \in Campaigns : \A ep \in DOMAIN w.episodes :
           w.episodes[ep].outcome \in {"success", "failure"}

VARIABLES
    campaign,  \* the replays, dumps, logs and recaps on disk
    at,        \* the task the driver is at; 0 when no driver runs
    skip,      \* --skip
    without,   \* the arms left out by SKIP_D_GIST
    reached,   \* the step at which the last driver stopped
    faults,    \* faults so far
    training,  \* trainings so far, to tell one adapter from the next
    pins,      \* ARM_TO_SHA_SFT and ARM_TO_SHA_KTO: what the files must hold
    jsonl,     \* the training files: [arm -> [kind -> <<>> or <<rows>>]]
    raw,       \* the .raw.jsonl that is to be filtered
    remote,    \* the training files on the server
    adapter,   \* final_adapter: [arm -> [kind -> None or what it is made of]]
    gguf,      \* [arm -> [kind -> None or [id, of, arch, whole]]]
    loaded,    \* the pair of adapters the student serves
    running,   \* the protocols whose collect runs
    served,    \* the pairs that have answered each protocol's collect
    done       \* protocols with "Collect loop execution complete" in a log

driverVars == <<at, skip, without, reached, faults>>
fileVars == <<jsonl, raw, remote>>
modelVars == <<training, adapter, gguf>>
evalVars == <<loaded, running, served, done>>
vars == <<campaign, pins, driverVars, fileVars, modelVars, evalVars>>

-----------------------------------------------------------------------------
(* The script as a list of tasks.                                           *)

Task(step, op, arm, kind) == [step |-> step, op |-> op, arm |-> arm, kind |-> kind]

Common(step, op) == <<Task(step, op, "all", "all")>>

\* A loop over a list: the n tasks of each of its elements.
EachOf(list, n, Tasks(_)) ==
    [i \in 1..(n * Len(list)) |->
        Tasks(list[(i - 1) \div n + 1])[((i - 1) % n) + 1]]

PrepTasks(arm) ==
    <<Task(2, "prep", arm, "sft"), Task(2, "filter", arm, "sft"),
      Task(2, "prep", arm, "kto"), Task(2, "filter", arm, "kto")>>

SftTask(arm) == <<Task(5, "train", arm, "sft")>>
KtoTask(arm) == <<Task(6, "train", arm, "kto")>>

ExportTasks(arm) ==
    <<Task(7, "export", arm, "all"),
      Task(7, "convert", arm, "sft"), Task(7, "convert", arm, "kto"),
      Task(7, "patch", arm, "sft"), Task(7, "patch", arm, "kto")>>

EvalTasks(protocol) ==
    <<Task(8, "protocol", protocol.arm, protocol.name),
      Task(8, "reload", protocol.arm, protocol.name),
      Task(8, "collect", protocol.arm, protocol.name)>>

Script ==
    Common(1, "extract") \o EachOf(ArmOrder, 4, PrepTasks) \o Common(2, "verify")
        \o Common(3, "smoke") \o Common(4, "sync") \o EachOf(ArmOrder, 1, SftTask)
        \o EachOf(ArmOrder, 1, KtoTask) \o EachOf(ArmOrder, 5, ExportTasks)
        \o EachOf(Protocols, 3, EvalTasks)

Active == {a \in Arms : a \notin without}
Now == Script[at]

\* The driver is at a task op.
At(op) == at > 0 /\ at <= Len(Script) /\ Now.op = op

\* SKIP_D_GIST: every loop goes on to its next element.  C_retrieval has a name
\* of its own and stays.
LeftOut == (IF Now.step = 8 THEN Now.kind ELSE Now.arm) \in without

\* Nothing passes over it.
Runs(op) == At(op) /\ Now.step >= skip /\ ~LeftOut

Move(n) == at' = at + n /\ UNCHANGED <<skip, without, reached, faults>>
Continue == Move(1)

\* A fault that nothing reports.
Masked == faults < MaxFaults /\ faults' = faults + 1

MovePastFault == Masked /\ at' = at + 1 /\ UNCHANGED <<skip, without, reached>>

\* A command fails under set -e: the driver exits.
Exit == at' = 0 /\ reached' = Now.step /\ UNCHANGED <<skip, without, faults>>

\* What is left of a file whose writer died.
Cut(rows) == IF rows = {} THEN {} ELSE rows \ {CHOOSE r \in rows : TRUE}

Prepared(arm, kind) == BuildSamples(campaign, SourceOf[arm], TRUE, kind = "kto")

\* SFT_EXPECTED_ROWS and KTO_EXPECTED_ROWS: one number for every arm, that of
\* an arm with lessons.
ExpectedRows(kind) ==
    Cardinality(BuildSamples(campaign, "retrieval", TRUE, kind = "kto"))

Absent == [a \in Arms |-> [k \in Kinds |-> <<>>]]
Nothing == [a \in Arms |-> [k \in Kinds |-> None]]

Init ==
    /\ campaign \in Campaigns
    /\ at = 0
    /\ skip = 0
    /\ without \in {{}, {Secondary}}
    /\ reached = 0
    /\ faults = 0
    /\ training = 0
    /\ pins = [a \in Arms |-> [k \in Kinds |-> Prepared(a, k)]]
    /\ jsonl = Absent
    /\ raw = <<>>
    /\ remote = Absent
    /\ adapter = Nothing
    /\ gguf = Nothing
    /\ loaded = None
    /\ running = {}
    /\ served = [n \in Names |-> {}]
    /\ done = {}

\* The operator launches the driver: the first time from the start, later from
\* the step that stopped or one before it, under the same SKIP_D_GIST.
Launch ==
    /\ at = 0
    /\ at' = 1
    /\ skip' \in 0..reached
    /\ UNCHANGED <<campaign, pins, without, reached, faults, fileVars, modelVars, evalVars>>

\* run: a task of a step below --skip, or of an arm that is left out.  verify is
\* not wrapped in run.
SkipTask ==
    /\ at > 0
    /\ at <= Len(Script)
    /\ Now.op # "verify"
    /\ Now.step < skip \/ LeftOut
    /\ Continue
    /\ UNCHANGED <<campaign, pins, fileVars, modelVars, evalVars>>

\* Steps 1 and 3 leave nothing that the model keeps: the map is a function of
\* the campaign, and the smoke test only passes or stops the driver.
ExtractOrSmoke ==
    /\ Runs("extract") \/ Runs("smoke")
    /\ Continue
    /\ UNCHANGED <<campaign, pins, fileVars, modelVars, evalVars>>

Prep ==
    /\ Runs("prep")
    /\ raw' = <<Prepared(Now.arm, Now.kind)>>
    /\ Continue
    /\ UNCHANGED <<campaign, pins, jsonl, remote, modelVars, evalVars>>

\* The filter, and rm of the raw file.
FilterRaw ==
    /\ Runs("filter")
    /\ jsonl' = [jsonl EXCEPT ![Now.arm][Now.kind] =
                    <<Filter(campaign, "flags_only_a6", raw[1])>>]
    /\ raw' = <<>>
    /\ Continue
    /\ UNCHANGED <<campaign, pins, remote, modelVars, evalVars>>

\* verify_training_shas: the row count, then the pin, of every file.
Verified ==
    \A a \in Active, k \in Kinds :
        /\ jsonl[a][k] # <<>>
        /\ Cardinality(jsonl[a][k][1]) = ExpectedRows(k)
        /\ jsonl[a][k][1] = pins[a][k]

Verify ==
    /\ At("verify")
    /\ IF skip >= 5 \/ Verified THEN Continue ELSE Exit
    /\ UNCHANGED <<campaign, pins, fileVars, modelVars, evalVars>>

\* Step 4: pack (which needs every file), scp, tar xzf.
Sync ==
    /\ Runs("sync")
    /\ IF \E a \in Active, k \in Kinds : jsonl[a][k] = <<>>
       THEN Exit /\ UNCHANGED remote
       ELSE /\ remote' = [a \in Arms |-> IF a \in Active THEN jsonl[a] ELSE remote[a]]
            /\ Continue
    /\ UNCHANGED <<campaign, pins, jsonl, raw, modelVars, evalVars>>
-----------------------------------------------------------------------------
(* Training and export, on the server.                                      *)

\* Mutant of Trained: a resumed step 5 or 6 trains again.
TrainedIgnored(arm, kind) == FALSE

\* remote_adapter_done: adapter_config.json, which is saved last, is there.
Trained(arm, kind) == adapter[arm][kind] # None

\* The training finds its rows, and KTO its --frozen-adapter.
CanTrain(arm, kind) ==
    /\ remote[arm][kind] # <<>>
    /\ remote[arm][kind][1] # {}
    /\ kind = "kto" => adapter[arm].sft # None

TrainDone ==
    /\ Runs("train")
    /\ Trained(Now.arm, Now.kind)
    /\ Continue
    /\ UNCHANGED <<campaign, pins, fileVars, modelVars, evalVars>>

Train ==
    /\ Runs("train")
    /\ ~Trained(Now.arm, Now.kind)
    /\ CanTrain(Now.arm, Now.kind)
    /\ training' = training + 1
    /\ adapter' = [adapter EXCEPT ![Now.arm][Now.kind] =
           [id |-> training', rows |-> remote[Now.arm][Now.kind][1],
            on |-> IF Now.kind = "kto" THEN adapter[Now.arm].sft.id ELSE 0]]
    /\ Continue
    /\ UNCHANGED <<campaign, pins, fileVars, gguf, evalVars>>

\* The status of a failed training is lost in the pipe to tee: the driver goes on.
TrainFails ==
    /\ Runs("train")
    /\ ~Trained(Now.arm, Now.kind)
    /\ IF CanTrain(Now.arm, Now.kind) THEN MovePastFault ELSE Continue
    /\ UNCHANGED <<campaign, pins, fileVars, modelVars, evalVars>>

\* remote_gguf_done for both: the four commands of the arm are passed over.
Export ==
    /\ Runs("export")
    /\ IF \A k \in Kinds : gguf[Now.arm][k] # None THEN Move(5) ELSE Continue
    /\ UNCHANGED <<campaign, pins, fileVars, modelVars, evalVars>>

\* export_lora_gguf.py: without an adapter it exits 1, and the chain with it.
Convert ==
    /\ Runs("convert")
    /\ IF adapter[Now.arm][Now.kind] = None
       THEN Exit /\ UNCHANGED gguf
       ELSE /\ gguf' = [gguf EXCEPT ![Now.arm][Now.kind] =
                  [id |-> training, of |-> adapter[Now.arm][Now.kind], arch |-> "gemma3",
                   whole |-> TRUE]]
            /\ Continue
    /\ UNCHANGED <<campaign, pins, fileVars, training, adapter, evalVars>>

\* patch_gguf.py: a new file takes the place of the old one.
Patch ==
    /\ Runs("patch")
    /\ gguf' = [gguf EXCEPT ![Now.arm][Now.kind].arch = "gemma4"]
    /\ Continue
    /\ UNCHANGED <<campaign, pins, fileVars, training, adapter, evalVars>>

-----------------------------------------------------------------------------
(* Evaluation.                                                              *)

Serve(pair) ==
    /\ loaded' = pair
    /\ served' = [n \in Names |-> IF n \in running THEN served[n] \cup {pair} ELSE served[n]]

ProtocolDone ==
    /\ Runs("protocol")
    /\ IF Now.kind \in done THEN Move(3) ELSE Continue
    /\ UNCHANGED <<campaign, pins, fileVars, modelVars, evalVars>>

Exported(arm) == \A k \in Kinds : gguf[arm][k] # None

\* The loader refuses an adapter whose architecture is not the base model's.
Loadable(arm) == Exported(arm) /\ \A k \in Kinds : gguf[arm][k].arch = "gemma4"

\* reload_student_dual.sh: the pair is served, or the script exits 1 and the
\* driver with it.
Reload ==
    /\ Runs("reload")
    /\ IF Loadable(Now.arm)
       THEN /\ Serve([sft |-> gguf[Now.arm].sft, kto |-> gguf[Now.arm].kto])
            /\ Continue
       ELSE /\ Exit
            /\ IF Exported(Now.arm) THEN loaded' = None ELSE UNCHANGED loaded
            /\ UNCHANGED served
    /\ UNCHANGED <<campaign, pins, fileVars, modelVars, running, done>>

\* The old server has outlived pkill and answers the health check.
OldAnswers ==
    /\ Runs("reload")
    /\ Exported(Now.arm)
    /\ loaded # None
    /\ MovePastFault
    /\ UNCHANGED <<campaign, pins, fileVars, modelVars, evalVars>>

\* nohup isaaclab.sh returns while its child still collects.
Collect ==
    /\ Runs("collect")
    /\ running' = running \cup {Now.kind}
    /\ served' = [served EXCEPT ![Now.kind] = @ \cup {loaded}]
    /\ Continue
    /\ UNCHANGED <<campaign, pins, fileVars, modelVars, loaded, done>>

\* The collect logs its completion; or an exception ends it, with status 0.
EndCollect(n) ==
    /\ n \in running
    /\ running' = running \ {n}
    /\ \/ done' = done \cup {n} /\ UNCHANGED faults
       \/ done' = done /\ Masked
    /\ UNCHANGED <<campaign, pins, at, skip, without, reached, fileVars, modelVars,
                   loaded, served>>

-----------------------------------------------------------------------------
(* The driver is killed, or a command fails.                                *)

Stop ==
    /\ at > 0
    /\ at <= Len(Script)
    /\ Masked
    /\ at' = 0
    /\ reached' = Now.step
    /\ UNCHANGED <<skip, without>>

StopBetween ==
    /\ Stop
    /\ UNCHANGED <<campaign, pins, fileVars, modelVars, evalVars>>

StopInFilter ==
    /\ Runs("filter")
    /\ Stop
    /\ jsonl' = [jsonl EXCEPT ![Now.arm][Now.kind] = <<Cut(raw[1])>>]
    /\ UNCHANGED <<campaign, pins, raw, remote, modelVars, evalVars>>

\* tar has replaced some files and was writing one.
StopInSync ==
    /\ Runs("sync")
    /\ \A a \in Active, k \in Kinds : jsonl[a][k] # <<>>
    /\ Stop
    /\ \E new \in SUBSET (Active \X Kinds) : \E last \in new :
           remote' = [a \in Arms |-> [k \in Kinds |->
               CASE <<a, k>> = last -> <<Cut(jsonl[a][k][1])>>
                 [] <<a, k>> \in new \ {last} -> jsonl[a][k]
                 [] OTHER -> remote[a][k]]]
    /\ UNCHANGED <<campaign, pins, jsonl, raw, modelVars, evalVars>>

StopInConvert ==
    /\ Runs("convert")
    /\ adapter[Now.arm][Now.kind] # None
    /\ Stop
    /\ gguf' = [gguf EXCEPT ![Now.arm][Now.kind] =
           [id |-> training, of |-> adapter[Now.arm][Now.kind], arch |-> "gemma3",
            whole |-> FALSE]]
    /\ UNCHANGED <<campaign, pins, fileVars, training, adapter, evalVars>>

\* The old server is gone and the new one has not come up.
StopInReload ==
    /\ Runs("reload")
    /\ Exported(Now.arm)
    /\ Stop
    /\ loaded' = None
    /\ UNCHANGED <<campaign, pins, fileVars, modelVars, running, served, done>>

Next ==
    \/ Launch \/ SkipTask \/ ExtractOrSmoke \/ Prep \/ FilterRaw \/ Verify \/ Sync
    \/ TrainDone \/ Train \/ TrainFails \/ Export \/ Convert \/ Patch
    \/ ProtocolDone \/ Reload \/ OldAnswers \/ Collect
    \/ \E n \in Names : EndCollect(n)
    \/ StopBetween \/ StopInFilter \/ StopInSync \/ StopInConvert \/ StopInReload

Spec == Init /\ [][Next]_vars

-----------------------------------------------------------------------------
(* Properties.                                                             *)

Identities(rows) == {<<r.ep, r.round, r.label>> : r \in rows}

Whole(arm, kind) == jsonl[arm][kind] = <<pins[arm][kind]>>

\* The arms of the factorial differ in what a row says and not in the rows: every
\* two arms' whole files have the same rounds with the same labels, and an arm's
\* SFT file is the desirable part of its KTO file, whatever the logs, the recaps
\* and the replays were (Amendment 8; the gate counts the same rows for all arms).
ArmsShareRows ==
    At("verify") =>
        \A a, b \in Active :
            /\ \A k \in Kinds : Whole(a, k) /\ Whole(b, k) =>
                   Identities(jsonl[a][k][1]) = Identities(jsonl[b][k][1])
            /\ Whole(a, "sft") /\ Whole(a, "kto") =>
                   jsonl[a].sft[1] = {r \in jsonl[a].kto[1] : r.label = "desirable"}

\* No protocol is answered by an artifact that a failed or interrupted step left:
\* whatever pair the student served to a collect, both adapters were trained on
\* whole gated files of one arm, KTO on top of that very SFT adapter, and both
\* GGUFs are whole and patched; across stops, resumptions and masked failures.
EvaluatedPairsMatch ==
    \A n \in Names : \A pair \in served[n] :
        /\ pair.sft.whole /\ pair.sft.arch = "gemma4"
        /\ pair.kto.whole /\ pair.kto.arch = "gemma4"
        /\ pair.kto.of.on = pair.sft.of.id
        /\ \E a \in Arms : pair.sft.of.rows = pins[a].sft /\ pair.kto.of.rows = pins[a].kto
=============================================================================
