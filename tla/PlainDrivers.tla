----------------------------- MODULE PlainDrivers -----------------------------
(***************************************************************************)
(* The two drivers that resume without looking at what is done: the first    *)
(* driver of D11 (run_d11_pipeline.sh) and that of L2                        *)
(* (run_l2_stage1_pipeline.sh).  A launch walks over the tasks of a script   *)
(* and is a function of the disk it finds; --skip and --until pass over      *)
(* tasks, and set -e ends it at a command that fails.                        *)
(*                                                                         *)
(* A training file is "right", "short" of rows, or "refused": its targets    *)
(* have the form of another eval.  A launch is                               *)
(*    skip, until   the options                                             *)
(*    files         what prep and filter make of the replays this time       *)
(*    converter     "stock", or "edited": it transposes the LoRA tensors     *)
(*    fails         the positions of the tasks whose command fails           *)
(***************************************************************************)
EXTENDS Naturals, FiniteSets, SequencesExt

FileKinds == {"sft", "kto"}

Step(step, op, arm, kind) == [step |-> step, op |-> op, arm |-> arm, kind |-> kind]

PrepSteps(step, arm) == <<Step(step, "prep", arm, "sft"), Step(step, "prep", arm, "kto")>>

-----------------------------------------------------------------------------
(* The scripts.                                                             *)

L2Arm == "A_ctrl_rat"

L2Script ==
    PrepSteps(1, L2Arm) \o
    <<Step(2, "pin", L2Arm, "all"), Step(3, "smoke", L2Arm, "all"),
      Step(4, "sync", L2Arm, "all"),
      Step(5, "train", L2Arm, "sft"), Step(6, "train", L2Arm, "kto"),
      Step(7, "convert", L2Arm, "all"), Step(7, "assert", L2Arm, "all"),
      Step(8, "freeze", L2Arm, "all"), Step(8, "contract", L2Arm, "all"),
      Step(8, "reload", L2Arm, "all"),
      Step(8, "collect", L2Arm, "A_ctrl_rat"), Step(8, "collect", L2Arm, "C_retrieval")>>

V1Train(arms) ==
    [i \in DOMAIN arms |-> Step(5, "train", arms[i], "sft")] \o
    [i \in DOMAIN arms |-> Step(6, "train", arms[i], "kto")]

V1Export(arms) == [i \in DOMAIN arms |-> Step(7, "export", arms[i], "all")]

V1Eval(protocols) ==
    FlattenSeq([i \in DOMAIN protocols |->
        <<Step(8, "reload", protocols[i].arm, "all"),
          Step(8, "collect", protocols[i].arm, protocols[i].name)>>])

V1Script(arms, protocols) ==
    <<Step(0, "prereq", "all", "all"), Step(1, "extract", "all", "all")>> \o
    FlattenSeq([i \in DOMAIN arms |-> PrepSteps(2, arms[i])]) \o
    <<Step(2, "verify", "all", "all"), Step(3, "smoke", "all", "all"),
      Step(4, "sync", "all", "all")>> \o
    V1Train(arms) \o V1Export(arms) \o <<Step(8, "freeze", "all", "all")>> \o
    V1Eval(protocols)

\* The wrapper run; the gate over the files looks at --skip only, and the
\* prerequisites are looked at by every launch.
Applies(launch, task) ==
    CASE task.op = "prereq" -> TRUE
      [] task.op \in {"pin", "verify"} -> launch.skip < 5
      [] OTHER -> launch.skip <= task.step /\ task.step <= launch.until

-----------------------------------------------------------------------------
(* The tasks.                                                               *)

Missing == [id |-> 0]

FreshDisk(arms) ==
    LET Each(x) == [a \in arms |-> [k \in FileKinds |-> x]]
    IN  [jsonl |-> Each({}), remote |-> Each({}), pin |-> {}, trainings |-> 0,
         lora |-> Each(Missing), gguf |-> Each(Missing), student |-> {},
         collected |-> {}, halted |-> 0]

Halt(disk, task) == [disk EXCEPT !.halted = task.step]

\* A filter that dies leaves a file cut short.
Filtered(disk, task, file) == [disk EXCEPT !.jsonl[task.arm][task.kind] = {file}]

\* L2's gate: the row counts, and the pin of the first launch that got here, which
\* is written before the counts are judged.
Pinned(disk, task) ==
    LET files == disk.jsonl[task.arm]
        pinned == IF disk.pin = {} /\ {} \notin {files.sft, files.kto}
                  THEN [disk EXCEPT !.pin = {files}] ELSE disk
    IN  IF /\ {} \notin {files.sft, files.kto}
           /\ {"short"} \notin {files.sft, files.kto}
           /\ pinned.pin = {files}
        THEN pinned ELSE Halt(pinned, task)

\* D11's gate: the row counts and the pins of the script, every file.
GatedFiles(disk) == \A a \in DOMAIN disk.jsonl, k \in FileKinds : disk.jsonl[a][k] = {"right"}

Packed(disk) == \A a \in DOMAIN disk.jsonl, k \in FileKinds : disk.jsonl[a][k] # {}

\* Nothing says that an adapter of this arm is there already.
Retrain(disk, task) ==
    LET a == task.arm
        id == disk.trainings + 1
        lora == [id |-> id, rows |-> disk.remote[a][task.kind],
                 on |-> IF task.kind = "kto" THEN disk.lora[a].sft.id ELSE 0]
    IN  IF disk.remote[a][task.kind] = {} \/ (task.kind = "kto" /\ disk.lora[a].sft = Missing)
        THEN disk
        ELSE [disk EXCEPT !.trainings = id, !.lora[a][task.kind] = lora]

\* The converter of the launch, and the architecture patched in both files.
StockConvert(disk, task, converter) ==
    IF Missing \in {disk.lora[task.arm][k] : k \in FileKinds} THEN Halt(disk, task)
    ELSE [disk EXCEPT !.gguf[task.arm] =
             [k \in FileKinds |-> [id |-> 1, of |-> disk.lora[task.arm][k],
                                   shape |-> converter]]]

\* Both files have the orientation that the loader takes.
Oriented(disk, arm) ==
    \A k \in FileKinds : disk.gguf[arm][k] # Missing /\ disk.gguf[arm][k].shape = "stock"

\* The eval's parser reads the first targets of the SFT file.
ContractHolds(disk, arm) == disk.jsonl[arm].sft \notin {{}, {"refused"}}

Pair(disk, arm) == [sft |-> disk.gguf[arm].sft.of, kto |-> disk.gguf[arm].kto.of]

Done(disk, task, launch) ==
    CASE task.op = "prep" -> Filtered(disk, task, launch.files)
      [] task.op = "pin" -> Pinned(disk, task)
      [] task.op = "verify" -> IF GatedFiles(disk) THEN disk ELSE Halt(disk, task)
      [] task.op = "sync" -> IF Packed(disk) THEN [disk EXCEPT !.remote = disk.jsonl]
                             ELSE Halt(disk, task)
      [] task.op = "train" -> Retrain(disk, task)
      [] task.op = "convert" -> StockConvert(disk, task, launch.converter)
         \* export_lora_gguf.py has no --adapter and no --out
      [] task.op = "export" -> Halt(disk, task)
      [] task.op = "assert" -> IF Oriented(disk, task.arm) THEN disk ELSE Halt(disk, task)
      [] task.op = "contract" -> IF ContractHolds(disk, task.arm) THEN disk
                                 ELSE Halt(disk, task)
      [] task.op = "reload" -> IF Oriented(disk, task.arm)
                               THEN [disk EXCEPT !.student = {Pair(disk, task.arm)}]
                               ELSE Halt(disk, task)
      [] task.op = "collect" -> [disk EXCEPT !.collected = @ \cup disk.student]
      [] OTHER -> disk

\* A training that fails ends in the pipe to tee, on the server.
Failed(disk, task) ==
    CASE task.op = "prep" -> Halt(Filtered(disk, task, "short"), task)
      [] task.op = "train" -> disk
      [] task.op = "collect" -> Halt([disk EXCEPT !.collected = @ \cup disk.student], task)
      [] OTHER -> Halt(disk, task)

\* What a launch makes of the disk that it finds.
Launched(script, found, launch) ==
    FoldLeft(LAMBDA disk, i :
                IF disk.halted # 0 \/ ~Applies(launch, script[i]) THEN disk
                ELSE IF i \in launch.fails THEN Failed(disk, script[i])
                ELSE Done(disk, script[i], launch),
             [found EXCEPT !.halted = 0], [i \in DOMAIN script |-> i])
=============================================================================
