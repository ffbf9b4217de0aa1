# A verification project for AionGenos

AionGenos closes a loop between a vision-language model and a robot simulator: an
episode shows the model the scene, executes the target it answers with, judges the
result, writes the episode to a replay directory, distils a recap from it into a
memory that later episodes retrieve from, and lets a curriculum decide which task
comes next. These modules model that loop in TLA+, check it with TLC on small
instances and prove its main invariants with TLAPS for every value of the constants.

Paths below are relative to the root of the repository.

## 1. Inventory

### The components, their state and their operations

| component | source | state | operations |
|---|---|---|---|
| reach episode loop | `aiongenos/orchestrator/collect.py:184-469` | `round_idx`, `prev_*`, distance history, `no_progress_rounds`, `vlm_interactions`, `outcome`, `flags` | reset, feedback, stage 1, command, ladder of termination checks |
| eval loop | `orchestrator/eval.py`, `eval/metrics.py`, `scripts/05_eval.py` | the same, a separate copy; the report's accumulators | the same; report, gap |
| simulator interface | `orchestrator/isaaclab_env_interface.py` | `episode_length_buf`, goal commands, poses (all inside IsaacLab) | `reset`, `execute_command`, `execute_push_segment` |
| collect run | `scripts/run_collect.py`, `collect.py` | `ep_idx`, `CollectStats`, exit path | build, episode loop, replay write, dump, recap, accounting, shutdown |
| curriculum | `curriculum/manager.py` | `LevelState` per level, `current_level`, `freeze_level` | `record_episode`, `check_advance`, `is_blocked`, `get_cumulative_success_levels` |
| replay buffer | `replay/buffer.py`, `schema.py` | one JSON per episode, PNGs | `write`, `read`, `iterate`, `count`, `success_rate` |
| push instrument | `orchestrator/push_collect.py`, `push_feedback.py` | rounds, arming, plateau counter, last step count, end poses | `check_episode_budget`, episode, scripted targets |
| push memory | `orchestrator/push_memory.py`, `scripts/run_push_collect.py` | a recap root that runs share | gates of a recap, rung-dependent disclosure, `assert_push_only_buffer` |
| dialogue | `pipeline/stage1_reasoning.py`, `vlm/client.py` | `EpisodeConversation.messages`, two retry counters | append, prune, strip images, post, retry |
| parser and prompts | `vlm/parser.py`, `prompts.py`, `scalar_guard.py`, `pipeline/stage2_attempt.py` | none | template to slots, text to targets, grid to metres, clamp, hold |
| critic | `pipeline/stage3_critic.py` | none | rounds and distances to text |
| recap buffer, retriever | `memory/recap_buffer.py`, `retriever.py` | recap files, `_records`, `_init_pos`, `_embeddings` | `load`, `add`, `retrieve`, preamble |
| recap generation | `pipeline/stage4_recap.py`, `scripts/diagnostics/recap_from_existing_replays.py` | none; the backfill, the recaps on disk | class, key round, request, save; backfill |
| context ablation | `memory/a17_ablation.py` | none | transform a preamble |
| training pipeline | `scripts/training/run_d11_pipeline_v2.sh`, `prep_training_data.py`, `filter_rationale_deterministic.py`, `server_side/train_qlora_*.py`, ... | files of eight steps, local and remote | resume, skip, gates, train, export, evaluate |
| earlier campaign drivers | `run_l2_stage1_pipeline.sh`, `run_d11_pipeline.sh` | the same, without completion markers | resume by step number |
| replay sync, distillation trigger | `replay/sync.py`, `pipeline/stage4_distill_remote_trigger.py` | remote replays, checkpoints, GGUFs | ssh, rsync, train, export, patch, reload |
| student server | `server_side/reload_student*.sh` | the process on a port | kill, launch, poll `/health`, ask `/lora-adapters` |
| night batches | `run_a15_night.sh`, `run_a17_night.sh`, `a17_lock_waiter.sh` | logs, manifest, lock | launch in a window, skip what is done, resume |
| cost re-measurement | `scripts/analysis/cost_remeasure.py` | a log of calls, steps and recaps | select steps, rebuild prompts, post and record, summarise |
| analysis and audit | `scripts/analysis`, `scripts/audit` | recorded files | pair, contrast, recount, life windows, correlate, validate, rescore |
| where the cube and its goal are put | `scripts/diagnostics/wp3a_reach_scan_p4c.py`, `scripts/analysis/wp3a_p4c_derive.py`, `tasks/WP1_contact_testbed/` | the scan's checkpoint; the pinned regions | scan, resume, merge, derive, sample, gate |
| control, tasks, rewards | `control/`, `tasks/`, `mdp/`, `push_body.py` | none | geometry, declarative configuration |
| diagnostics, figures, release | `scripts/diagnostics`, `scripts/release`, ... | none | one-off probes, tables, plots |

### How they interact

One process runs everything on one thread: `run_collect.py` builds the simulator and
calls `run_collect_loop`, which calls the other components in turn. Its neighbours are
asynchronous: the simulator resets itself inside `env.step`, the VLM server may fail,
time out or answer without meaning, the wall clock blocks the curriculum, the user or
the batch system kills the process, and what it leaves on disk (replay, recaps) is
what other processes start from.

```
   run_collect.main ──> run_collect_loop ──> CurriculumManager
        │ build_env(level)   │  │  │ └──────> ReplayBuffer ──> training pipeline,
        │                    │  │  │                       └─> distillation ──┐
        ▼                    │  │  └────────> stage 4 ──> RecapBuffer (files)
   IsaacLab env <────────────┘  ▼                             │ retrieve, next episode
    resets itself           stage 1 ──> EpisodeConversation <─┘
                                └─────> VLM server (retries, timeouts)
                                          └ the student: reload scripts <─────┘
                                              ^ night batches, protocols
```

### What is hard, and what makes a component correct

* **Reach episode.** A verdict has to rest on the right measurement: the scored arm
  (F33), before STOP (F19), of this round, in this episode's scene, although the
  simulator may have replaced the scene inside the step. The plateau counter is
  incremental over sliding windows. The ladder exists twice.
* **Push episode.** The same, with a budget check instead of hope, a detector for
  resets, a counter that arms on contact (Pin-12), a metric that switches with it,
  and end-of-episode records that must each be withheld after a reset.
* **Collect run and curriculum.** The replay, the counters, the ladder and the memory
  are updated in separate steps, of which any may raise or be cut off; a frozen run
  must stay on its task; a run that says "complete" must have counted everything.
* **Dialogue.** Retries within retries on one mutable message list, with pruning in
  the middle of the list and images that belong to one round only.
* **Recap memory.** Files written in place by processes that may die, an in-memory
  index updated after the list it indexes, embeddings of two generations, a
  success floor (F62) over a ranking, and an ablation that takes a prompt apart by the
  look of its lines.
* **Push memory.** Runs of different rungs on one root: what one was told must not reach
  another through a lesson.
* **Replies.** Six templates, three control modes and three settings of the scored arm
  meet in one parser and one hold mask, written in four files.
* **Training pipeline.** A script of hours, stopped and resumed by hand, whose `tee` hides
  a failed training and whose skips believe a file that is there; four arms that must
  differ in what a row says and in nothing else.
* **Student.** The health check of a reload can be answered by the server that was to be
  replaced; queues, distillations and the hours of the night share one port.
* **Analyses.** They pair runs by what logs and files happen to hold: a missing replay, a
  restored modification time, a reset of the simulator's own. A significance is as good as
  the shuffle behind it.
* **Push regions.** A scan of hours is stopped and resumed from its checkpoint, files of several
  scans are merged, and what is derived from them is typed into the code as numbers.

`PROJECT.json` lists each hazard at its line with the properties that cover it.

## 2. The modules

| module | models | composes with |
|---|---|---|
| `EpisodeContract` | what any episode promises its run: bounded rounds, one outcome that the rounds justify | abstract specification of the two episode modules |
| `ReachEpisode` | one reach episode, and the eval verdict on its rounds | implements `EpisodeContract` |
| `EvalRun` | a whole evaluation, its report and the comparison of two | applies `ReachEpisode`'s eval verdict |
| `PushEpisode` | one push episode, model-driven or scripted | implements `EpisodeContract` |
| `PushValidate` | the validator over the episodes that `PushEpisode` ends with | extends `PushEpisode` |
| `Curriculum` | the curriculum manager's state and operations | extended by `CollectRun` |
| `CollectRun` | a whole run of the collector | an episode is any result `EpisodeContract` allows |
| `ReplayStore` | the replay directory as its readers see it | details the replays of `CollectRun` |
| `Dialogue` | the conversation of one episode and its retries | stands for "stage 1 answers or fails" in the episodes |
| `Replies` | what is asked, what is found in a reply, what is commanded | |
| `VlmRound` | a round from the prompt to the command | composes `Dialogue` and `Replies` |
| `RecapGeneration` | the recap of an ended episode, live or from its files | what `CollectRun` emits |
| `RecapMemory` | the recap files and the processes over them | details the `memory` of `CollectRun` |
| `RecapPrompt` | the preamble of a retrieval and its ablation | extends `RecapMemory` |
| `PushMemory` | overlapping push runs on one recap root | an episode as `PushEpisode` ends it |
| `TrainingData` | retrievals found in logs, rows of the arms, filtered files | extended by the pipeline |
| `RationaleFilter` | the three rules of the filter on one row | `Vacuous` of `TrainingData` in detail |
| `PerArmSamples` | labels and rows of one arm of a dual-arm campaign | extends `TrainingData` |
| `TrainExamples` | from a line of a training file to what the loss sees | |
| `TrainingPipeline` | the D11 driver over local and remote files and the student | extends `TrainingData` |
| `PlainDrivers` | the two drivers without markers, as a fold over their steps | |
| `CostHarness` | the re-measurement of what a step costs, as a fold over recorded episodes | the first task of a night in `NightQueue` |
| `StudentServer` | the three reload scripts over one port | shared by the two below |
| `NightQueue`, `Distillation` | the night batches with their waiter; sync, train, export, reload | extend `StudentServer` |
| `Student` | both of them over one server | composes the two |
| `PairedAnalysis`, `ResetAnalysis` | confirmatory and exploratory contrasts, recount, pairing gate; auto-reset sensitivity | the runs `CollectRun` leaves |
| `LifeWindows`, `PushRecords` | window verdicts over a push life, its correlations; the validator's record checks | the runs `PushMemory` leaves |
| `PushGeometry` | the reach scan, the region derived from it, the pins, the draws, their gates, the scene guard | what `PushEpisode` takes as a scene |

`MC*` modules give TLC its instances (`PushValidate` needs none: its configurations give
every constant a value), `*Proofs` modules hold the theorems. Mutants are
operators whose comment begins with "Mutant of": each is a plausible bug in the
definition it names, and the property it is listed with in `PROJECT.json` must catch
it. They take part in no specification.

Pure functions of the code are operators without state. They are compared with a
reference statement over all small inputs by an `ASSUME` in the `MC` module of
the run they belong to; TLC evaluates it before that run starts, and a wrong one fails it.

### ReachEpisode

`pc` is the place in the round loop. `Reset` is `env.reset` with its warm-up step;
`Stage1Answers` and `Stage1Fails` are `run_stage1` with the feedback built before it;
`ExecuteCommand` is `env.execute_command` with every early exit (`Attempts`) and what
IsaacLab does in the meantime (`StepEnv`, external); `Judge` is the whole ladder in its
order; `RoundsExhausted` is the end of the `range`. The ghost parts are the lists
`measured` and `scenes`: for each executed round the distances it showed and the
reset they were measured in. A distance is an integer; a mean over a window is
compared by its sum. NaN distances (an empty trajectory) are left out.

### PushEpisode

The settings (`steps`, `limit`, `script`, `pin12`, `switched`, `recapping`) are chosen
in `Init` and never change. `CheckEpisodeBudget` is the refusal before the first reset,
`GetTarget` a parsed answer or the next scripted target, `ExecuteSegment` the steps of
one segment, `EndOnAutoReset` the branch of the detector, `JudgeRound` the record, the
arming, the plateau and the success check, `WriteEpisode` the end-of-episode records.
Scenes are numbered as in `ReachEpisode`; each record carries the scene it came from.

### Curriculum and CollectRun

Levels are positions in `LEVEL_ORDER` (the code's ids -2, -1, 0, ...). Rates are ratios
of integers. The wall clock is one bit per level, `overdue`, that `TimePasses` may set
at any moment. `CollectRun` follows the loop body: `StartEpisode` (with the retrieval),
`RunRounds` (any result of `EpisodeContract`), `WriteEpisode` (the JSON appears
atomically by rename), `DumpMeta`, `EmitRecap`, `Account`, `CheckCurriculum`; `Abandon`
is an exception that reaches `main`, `Kill` ends the process anywhere.

### Dialogue

`messages` is the list that is posted, each with its role, round and the kinds of its
parts. Each post ends in one of the replies: `Answered`; `Unusable`, a reply that does not
parse, which stage 1 retries with a fresh budget of transport retries; `Transient`, which
the client retries and stage 1 does not; `OtherError`, which nobody retries. The
three modes are the conversing episode, a first round without one and a stateless call.

### RecapMemory

A recap's file is absent, half written or whole; `records`, `placed` and `embedded` are
the lists and index rows of the running process. `BeginAdd` opens the file, `FinishAdd`
completes it, appends and rebuilds the index (which raises on two dimensions, after
the append), `FailAdd` is a write error, `Stop` the death of the process at any moment,
`Load` the next one. `Retrieve` takes any ranking of the records: the score is abstracted
to the order it gives.

`RecapPrompt` turns a retrieval into the parts of its text and the images sent with it,
and takes either component away again, by the look of its lines. A lesson's further lines
are printed as they are: they may imitate any part of the preamble, and they are not found by the
pattern of the lesson line, so that they stay. `RecapGeneration` follows one finished episode to its
recap: class, key round, the images sent and the numbers the prompt gives them, the
saved record. The encoder and the buffer may raise (`Raises`), which the collect loop survives;
`Backfill` does the same from the files of a finished run, and there an exception ends the script.

### Replies and VlmRound

A reply is the sequence of its labelled lines. `Asked` gives the slots of a template,
`Found`, `Parses` and `Taken` are the parser's search, `MetricToInt` and `IntToMetric` the grid,
`Commanded` the clamp and the arm that is held. `execute_command` reads the poses for its hold mask
inside a `try`: where that fails it logs "single-arm mask skipped" (`isaaclab_env_interface.py:298`) and, although its docstring says that the idle arm is held
"regardless of what the VLM emitted", executes the
target as it is, which for an arm that was not asked about is the sentinel (0, 0, 0), the middle of its
workspace. `ReplyIsRead` chooses either way (`masked`). A configuration in `VlmRound` is a control
mode, a template, a scored arm and the level's arm; each answered or unusable post of `Dialogue`
carries the reply that made it so. The constants are assumed to be what the surroundings give:
wired configurations, axes that go upwards, and replies with as many integers in a value as its
pattern has groups.

### PushMemory

What a prompt tells is a set of kinds of ground truth: those of rung 2 (distances, the
class of an outcome, an image chosen by distance), and of rung 3 (coordinates,
displacements). `Launch` reads the root and filters it, `FirstRound` and `LaterRound` post the
state block, the preamble and the report, `EndEpisode` asks for a recap, whose lesson may
repeat all that its request told, and `Leave` ends the process. Any episode, whatever
its class, image or gate, comes from a constant set.

### The training campaign

`TrainingData` makes rows of a recorded campaign: what the log says was retrieved, which
rounds of which episodes become rows, what each arm's row contains. `TrainingPipeline` is
the driver as its list of tasks and a position in it. Each command has its action; `TrainFails`
is the training whose failure `tee` hides, `OldAnswers` the reload that the server before it
answers, `StopIn...` and `StopBetween` what a failed command or a kill leaves behind, and `Launch`
resumes with any `--skip` up to the step that stopped. A file cut off in writing lacks a row. Adapters and GGUFs are identified by
what they were made from, which is what the property asks about. `PlainDrivers` walks the
scripts of the two older drivers, which look at nothing that is done, from a resume point.

### The student

`server` is what answers at the port: nothing, or a set of adapters. After a reload the new
server answers, or the old one that outlived `pkill`, or nobody; the base reload
asks for the adapters as well. `NightQueue` has two drivers and the waiter that launches one
of them, each by its own guards on hour, lock, pinned hashes, logs and manifest;
`Distillation` copies, trains behind a pipe that loses the status, exports, patches and reloads,
and compares what it says at the end with what it did.

### The cost re-measurement

The first thing a night does, and to `NightQueue` one step. `CostHarness` has its inside: which
rounds are selected, the recorder that takes the place of the client with its own
retries and a cap on posts, `run_stage1` and the recap over it, and the calls per step. The
server is a list of how posts end.

### The analyses

`PairedAnalysis` reads runs as logs, replays and modification times, compares significance in
integers, takes the independent recount with the number a report prints, and the pack of exploratory
questions. `LifeWindows` has the r-tracker with its ranks, its linear congruential shuffle and the
ladder of rungs. `ResetAnalysis` derives the step of the simulator's own reset from recorded counters,
`LifeWindows` sorts a life into windows and judges their order, `PushRecords` and
`PushValidate` are what the validator checks in a record and in the rounds.

### PushGeometry

The way of a region into the code, in its order: `Attempt` and `RunConfig` judge one configuration from
what the simulator did; `Scan` goes through the grid from a checkpoint; `Merge`, `LargestBox` and
`BestCandidate` derive the region from scan files; `OffsetReset` and `PolarReset` draw a cube and a goal in a
pinned region; `Gate4bPasses` and `Gate4cExit` decide whether a collect may begin; `PushSegment` and
`SceneGuard` are the targets an arm is given. Lengths are integers in millimetres and angles multiples
of 15 degrees, where the code has floats.

## 3. The runs

| run | question | bounds, and why they are enough |
|---|---|---|
| `reach_episode` | is the verdict the measured one; do plateaus mean stagnation; are the two ladders equal; does the episode end and keep its contract? | 7 rounds, windows of 2, patience 3: a plateau comes after 6 rounds, after 7 where progress reset the counter, or not at all before the round limit; distances 0 and 4 give window progress below, at and above the minimum; the simulator's limit falls on the fourth round, so that later rounds meet a reset |
| `reach_autoreset` (violation) | does the target hold still in the shipped proportions? | 12 command steps against a limit of 8, as 1200 against 720 |
| `collect_run` | do counters, files, levels and memory agree; does the run end? | 5 episodes over 3 levels, a check after every second: two advances, a block and a level left half way all fit |
| `dialogue` | is every post the promised window; are posts bounded; is a reply used as it was meant; does a round resolve? | 6 rounds over a window of 2, 2 retries of each kind: the window fills and then moves three times; nine configurations: each control mode, each kind of template, either arm scored or none; replies as asked, with a line missing, out of range, given twice, or about the other arm |
| `push_episode` | is nothing measured across a reset recorded; do plateau and contact agree; does the validator accept what was recorded; does it keep its contract? | limits on both sides of the budget check, segments of 1 and 2 steps, scripts shorter and longer than the limit |
| `push_endimage` (violation) | is the end image withheld after a reset? | one script that outlasts its limit by a round |
| `recap_memory` | does memory survive crashes; is the success floor kept; when does retrieval fail; what exactly does an ablation remove? | 2 old and 2 new recaps, either dimension, 3 places with 2 reserved: the floor can be met, short and in conflict with the ranking; lessons of one line, of two, and imitating the preamble |
| `recap_lessons` (violation) | is nothing of a lesson left in an `image_only` preamble? | the same |
| `recap_dims` (violation) | does a mixed buffer fall back to ranking by state? | the same, the old recaps of the old dimension |
| `training_pipeline` | do the arms' files have the same rows; who answered each protocol? | six campaigns, each with one thing missing, two arms of which one may be left out, three protocols, 2 faults: a fault, and another while its consequences are repaired; any `--skip` |
| `student` | is the base protocol answered by a bare server; is a reported distillation one; does the waiter finish? | two protocols a queue, the base one after one with adapters, 2 faults, one distillation of a run that has one usable replay at the start, or two and perhaps their adapter, with more written meanwhile up to two: an adapter of too few replays is then possible, and the older copy on the server (`MCInit`) is overwritten or not used |
| `push_memory` | does any prompt tell more than its run's rung? | two processes that overlap in every order, two episodes each, one of every class; a root that is empty, of rung 3, or of another task. The processes are symmetric |

Deadlock is not checked: every behaviour stops where its episode, run or process ends.

### What the assumptions show

Evaluated with `collect_run`: the levels handed to training are those of the climbed ladder from L0 up
(`CumulativeStartsAtZero`). `get_cumulative_success_levels` walks `range(current_level + 1)`, which never
contains -2 and -1, where the shipped runs start; its docstring (`manager.py:184`) and `tests/test_curriculum_manager.py:83`
say "all passed + active", which is wrong there. Nothing but that test calls it.

Evaluated with `reach_episode`: the eval report adds up, its parse failures are counted
once, an episode that nothing measured never succeeds, the gap never divides by zero;
`write` is atomic and readers split a run whatever else lies there. With `dialogue`: grid
values survive the conversion both ways; the formats of the critic and of the push
template are read by the parsers meant for them; the critic's trajectory always has its end,
in up to 20 steps (a comment says 10 to 12). With `recap_memory`: the key round shows what
the class says; a recap without a dump takes a place among the hits and is never
shown; without the end image the prompt calls the second image the third
(`NumbersNeedTheEndImage`); of an episode of both arms only the left one is judged; the
backfill gives the live recap where there is a dump, and can be resumed; a file on which the encoder
or the buffer raises ends it with what it had made, and a run after the repair completes the same (`BackfillAborts`).

With `training_pipeline`: the filter flags a thought only for what it plans, never for what it
observes; only vacuity drops a row, whatever `strict` promises; the arms of L2 are labelled by their own
reach; what the trainers mask and weigh. A lesson-like line in a thought cuts off the part before
it, and one episode without a trajectory leaves all of a campaign without labels per
arm. With `student`: an L2 collect is answered by files of the right size on both sides, but a failed
training behind `tee` can pair a new SFT adapter with an old KTO one (`MaskedFailureMixesPairs`); the
first launch pins even wrong row counts (`TheFirstPinStays`); the first D11 driver never gets past
its export (`FirstDriverStopsAtExport`). The re-measured calls per step are those of the protocol
(`CostIsOfTheProtocol`), but an episode whose first answer failed ends the selection
(`EmptyEpisodeEndsThePlan`), and the exhausted cap, "safe stop of the run" at
`cost_remeasure.py:192`, stops nothing: the exceptions are handled, and steps without calls
are counted in (`CapIsNotAStop`). With `push_memory`: the pairing gate is all or nothing;
the recount agrees with the pairing as long as files are in the order of their episodes, and
otherwise errs in silence (`RecountTrustsTheTimes`); four windows never make a climb; the
derived reset is the real one, and missing replays only take successes away; the
validator agrees with the report except at a difference of exactly one
centimetre, where it refuses a sound episode (`VerdictsAgreeOffTheEdge`); correlations are of one rung
only (`RIsPerRung`). The shuffle of the permutation test reaches only half of the orderings of
four, or five, values (`ShuffleReachesHalf`): its state alternates between odd and even. The "min p = 0.084 at
G = 4" of `p2_r_tracker.py:130-133` is an artefact of that, and not of "only 1 of 4! orderings".

Of the push regions, with the same run: a resumed scan ends with the file of an uninterrupted one
(`ResumeIsUninterrupted`); on an even grid a derived region has nothing unsolved in it (`RegionIsSolved`), the pinned
one can be derived (`PinIsDerivable`), and what is drawn in it passes its gate unless the cube drifts
(`DrawsPassTheGate`). What is solvable there is wider than what the scan calls a success (`SolvableIsWider`). Three
things mislead: of the candidates that pass it is the lowest that is taken, where a comment says the
highest (`NarrowestIsTaken`); a merged file with other angles makes a region pass over a direction
that was scanned and not solved (`UnevenAnglesMislead`); and the later file overrides, whichever was better
(`LaterFileOverrides`). The scene guard is idempotent unless a box hangs into the margin of the table (`GuardClears`).

### What the violations show

* **The reach target is not locked.** `reach_env_base_cfg.py:65` says that the target is
  to be "stable for the whole episode", and pushes the resampling period out, but the
  24 s limit itself remains: 720 steps, against 40 rounds of 30. IsaacLab then
  resets inside `env.step`; `execute_command` looks at `terminated` only. The push
  configuration lifts the limit, the reach one does not. `LongEnoughLocks` proves the
  condition under which the comment is true; `LockedBeforeBoundary` holds regardless.
* **The end image after an auto-reset.** `push_collect.py:471` says that the end state
  after a reset is "not recorded". The pose is withheld; the image is not.
* **Mixed embedding dimensions.** `recap_buffer.py:226` says that on a mismatch the
  image term is dropped. The rebuild of the index raises before retrieval gets there,
  after the file was written, so that every later process refuses to load.
* **A lesson survives its removal.** `a17_ablation.py:4` says of the two modes that each "removes exactly one"
  component, and its test says the same. `image_only` cuts the one line that begins with `lesson     :`; of a lesson
  of several lines the later ones stay in the prompt. The guard that names the case ("multi-line lesson?", lines 59-61)
  looks for the whole lesson, whose first line has just been cut, and so does not fire for it. `OneLineIsRemoved` proves
  the condition under which the claim is true: every lesson of the preamble has one line. `AblationIsExact` says
  what happens in any case: what the patterns find is removed, each later line stays under its own episode, and the
  images are still numbered as they are sent unless a line that stayed looks like an image line.

Three further weaknesses are no findings. The waiter's promise, that it launches the queue until it is done
(`a17_lock_waiter.sh:3-4`), has two holes: the line of a collect that did not complete counts and ends it early, and
a protocol that completed while its line was never written keeps it polling. `WaiterFinishes` excepts both by name, and
shows that besides a touched buffer they are the only ones. The success floor (F62) is
promised of a retrieval (`FloorIsKept`); a preamble from which records with lost images were dropped may fall below it,
and nothing claims that it does not. And by design, without `--freeze_level` the simulator
stays at the start level while the curriculum labels later episodes with the next one
(`run_collect.py:186`, F65); `FrozenRunIsSingleTask` claims only the frozen case.

## 4. Fairness

An episode and a run are one thread that nothing else blocks: weak fairness of the
loop (`WF(Next)` in the episode modules, `WF(Loop)` in `CollectRun`). The clock of a
curriculum, a kill and an exception are under no obligation. In `Dialogue` and `VlmRound` only
the end of a post is fair, because each post carries a timeout of 300 s
(`vlm/client.py`); a new round need never start. In `Student` the drivers and the
distillation are weakly fair, each until it ends; the night and the day follow each other
(weak fairness of `Clock`); the waiter, which looks every few minutes, misses neither of
them for ever, which is strong fairness of its launch and of its look by day; and a driver
that was launched in the window gets from there to its own look at the clock within
seconds, so that the window does not close in between for ever (strong fairness
of that step). Faults are bounded and under no obligation.
`RecapMemory`, `PushMemory` and `TrainingPipeline` claim no liveness and have no fairness: an operator need
not resume a campaign. `EpisodeEnds` in the episode modules rests on stage 1
returning, which is `RoundResolves` of `Dialogue`.

## 5. What is proved

All theorems hold for every value of the constants that satisfies the named
assumption of the module (`EpisodeAssumption`, `PushAssumption`, `CurriculumAssumption`,
`CollectAssumption`, `DialogueAssumption`, the three of `VlmRound`, `RecapAssumption` with
`LessonAssumption`, `PushMemoryAssumption`,
`PipelineAssumption` with `TrainingDataAssumption`, `NightAssumption` with
`DistillationAssumption`); TLC evaluates each assumption in the runs above.

* **`ReachEpisodeProofs`**: type correctness and `RoundsAligned`; `VerdictCorrect`;
  `PlateauCorrect`; `LockedUpToBoundary` and `LongEnoughLocks`; `ImplementsContract`; `EvalCorrect`.
  `TypeInv` adds `Aligned` to the types: as many measurements, scenes and interactions as
  the round and the place in the loop imply, without which nothing relates the last
  measurement to the verdict. `VerdictInv` adds that, while the loop runs, the last
  measurement has not reached the target.
  `PlateauInv` says that `noProgress` is the length of the streak of stagnant prefixes
  that ends at the history; the property alone does not say what the counter is
  in the middle of one. `LockedInv` bounds `envSteps` by the rounds while the
  scene is the first. `ContractInv` counts rounds against the floor of a plateau, and the
  refinement is proved step by step: `Judge`'s endings and `Stage1Fails` map to `End`,
  `ExecuteCommand` to `ExecuteRound`, the rest to stutters.
  `EvalCorrect` is an action property: the eval loop asks for `<=` where the collect loop asks for `>`, which is
  the same only for numbers, so that it needs the sums of the windows to be numbers. That the recursion behind
  them has a solution is proved from its partial solutions (`PartialSums`, `SumsAgree`, `SumsExist`), each by
  the least counterexample, in the place of an induction theorem; `SumFromToInt` is the result.
* **`CollectRunProofs`**: type correctness; `LadderKept`; `FrozenIsSingleTask`;
  `MemoryCausality`; `CountersCorrect`; `MeritCorrect`; `CompletionCorrect`. The invariants form a chain:
  the ladder (passed below, one current, pending above) makes a level's counters final once
  it is left; `CountInv` equates files and counters with the one episode in flight;
  merit follows because only a current level's numbers can still change. `AccountedInv` says how many
  files, counts and successes there are at each place of the loop body while nothing has cut it short.
* **`PushEpisodeProofs`**: type correctness; `OneSceneCorrect`; `BudgetCheckSuffices`;
  `SuccessCorrect`; `PlateauCorrect`; `ImplementsContract`; `ValidatorCorrect`. `OneScene` ties `scene`,
  `lastCount` and `envSteps` together: the
  detector compares with the count of the round before, and works because a segment is
  shorter than the limit. `Budgeted` says that without a
  script the simulator's count is that of the rounds executed so far.
  `PlateauInv` has the arming round as the first that touched the cube and the counter as the streak of
  unmoved rounds since, which the property does not mention before there is a plateau. `RecordInv` follows a
  report from the prompt that makes it to the record of its round, where the validator looks for it. The refinement of `EpisodeContract` is for the limit
  of rounds that the episode's own settings give it (`RoundLimits`).
* **`DialogueProofs`**: `PostsCorrect`, from the bound on posts in each attempt; `PayloadCorrect` and
  `PastImagesCorrect`, from `DialogueInv`, which describes the list of messages in closed form, by the rounds it
  holds, before and after each of its changes; pruning is then arithmetic on that window. `MeaningCorrect` is about `VlmRound`; it has the idle arm held
  exactly where the poses could be read, and confines the hold sentinel to the branch in which they could not. It rests on
  where a target ends up (`DestinationTaken`),
  the first line found for a slot (`FoundIs`), no label twice in any template (`LabelsDiffer`), all that
  is required asked for (`AskedAre`), and the grid's round trip (`RoundTrip`). `GridIsFaithful` says of every axis
  that the way to the grid loses half a step at most and flags what lies outside; its lemma `RoundIsNear` holds of either way to break a tie. `RoundIsDialogue` carries the
  dialogue's theorems over to `RoundSpec`, the specification that the run checks.
* **`RecapMemoryProofs`**: type correctness; `DurableMemory` and `FailureNeedsMixing`, from one invariant:
  the records of a running process are the whole files, the file being added is not yet
  one of them, and the index covers the records unless dimensions are mixed; `FloorCorrect`, from what
  a choice by rank returns (`BestOf`: as many as asked for, and none left out that is better);
  `AblationCorrect`, about texts of any length with any lessons in them, and from it `OneLineIsRemoved`, the condition under
  which `image_only` leaves nothing of the lessons. `RecapPrompt` writes its one pass over a sequence
  (`Filter`) as a recursive function, of which the provers can know something, as they cannot of `SelectSeq`. That the
  function exists and what it does with one more entry (`FilterAppend`) stands on the least counterexample
  (`EntryByEntry`), and from it follow filtering twice, of a concatenation, and of the flattened
  blocks (`BodyFilter`, `BodyOf`). An ablation is then one filter of the text (`TextTwice`), so that what it leaves of
  an episode is what it leaves of its block (`TextOf`, `BlockSpared`), and a retrieval is a sequence of recaps because every rank
  is taken (`RanksAreTaken`).
* **`PushMemoryProofs`**: `RungKept`. A prompt could tell too much through a recap of another
  run, so the invariant says that every recap on disk discloses no more than its own rung
  allows (`RootOwn`) and that a run knows recaps of its own rung only (`KnownOwn`).
  The same module proves for every input what four assumptions about `PushGeometry` check on bounded ones.
  `ResumedScanIsWhole`: a step never undoes what is completed (`StepCompletes`), so that a resumed scan passes over what
  was saved and then does what the first one would have done; `Scan` is a recursive function for it, whose solution is
  shown to exist and to be unique. `DerivedRegionIsSolved` needs the scanned angles to be multiples of the step that
  `ThetaStep` reads off the two lowest (`EvenAngles`), as they are in the default grid; without it the statement is
  false, which `UnevenAnglesMislead` shows. `MergeIsOnGrid` gives its other hypothesis.
  `SolvedIsWider` relates the two verdicts on one configuration, the scan's and the derivation's, with the two
  causes for which they differ; `DrawPassesItsGate` is arithmetic on the regions of Pin-4b, for every draw.
* **`TrainingProofs`**: `RowsShared`, for any campaign, arms and faults. The pins
  are the campaign's own rows and never change (`Pinned`); the rest is about the rows
  themselves: whether an episode is read, and which rows it gives, does not depend on the arm (`RestrictedRead`, `SameIdentities`), and the
  SFT rows are the desirable ones among the KTO rows (`SftIsDesirable`).
  `PairsCorrect` says the same of what answered a protocol. Its invariant `PairsInv` follows the artifacts: from
  the gate to the copy the local files are those of the pins, and after it the remote ones, in whatever launch
  that was (`FilesInv`), an adapter is of its arm's files, the KTO one on
  that SFT one (`AdapterInv`), a GGUF of its adapter (`GgufInv`), within the commands of one arm
  what has been converted is whole (`ChainInv`), and the server has what was patched last (`ServedInv`).
* **`StudentProofs`**: `BaseServed`, from the check of `/lora-adapters` and from nobody else's
  touching the server while a driver collects; `ReportsAreTrained`, from an invariant that
  says for each place of a distillation which of its artifacts are there and of which
  replays, so that a masked training is found out by the adapter it does not leave.

**Model-checked only:** everything under fairness (`EpisodeEnds`, `RunEnds`, `RoundResolves`,
`WaiterFinishes`: TLAPS does not reason about `ENABLED`). Every invariant and action property that
a passing run checks is a theorem. The assumptions about pure functions hold for the bounded inputs they
range over. These are also theorems: `GridRoundTrip` and `GridIsNearest` (`RoundTrip`, `GridIsFaithful`), `ResumeIsUninterrupted`
(`ResumedScanIsWhole`), the two implications of `SolvableIsWider` (`SolvedIsWider`), `DrawsPassTheGate` for a cube that
stays (`DrawPassesItsGate`), and all of `RegionIsSolved` but that one solved point is enough for a region (`DerivedRegionIsSolved`).

## 6. What is not modelled, and why

* Floating-point geometry (`control/`, reward terms) and the servo inside a command: out of reach of TLC.
  Of the push task's geometry `PushGeometry` keeps what decides something, in integers. Task configurations
  are declarations; the limits and regions they set are constants.
* Text: wording of prompts, regular expressions, reports, summaries, GIFs, logging.
* NaN distances (an empty trajectory), except in `EvalRun` and the backfill of recaps; the PNGs
  beside a replay; optimisation, model loading and adapter layout of the trainers.
* Statistics without a decision rule in integers: confidence intervals, the one-sided floor test.
* `--dry-run` and `--ignore-window` of the drivers, L2's wait for an idle second machine,
  their read-only hash gate.
* Diagnostics other than the scan, the gates and the backfill of recaps, figures and release scripts:
  one-off programs over recorded files that hold no state of the running system.

### Assumptions about the surroundings

* An operator resumes a campaign at the step that stopped or before, with the same
  choice of arms; one user at a time has the student, as nothing in the scripts excludes
  a second.
* Remote training dies with its ssh session, and saves `adapter_config.json` last.
* The images of a campaign do not vanish between preparation and packing; replays that
  were distilled before are part of the initial state.
* A lesson may repeat anything in the request that produced it; its first line is prose, and it does not have the
  whole of another lesson, or of the preamble's frame, among its lines.
* A distillation counts the replays that the trainer makes an example of. It passes over one without a stage-1 reply,
  a trajectory or a start image and one that it cannot read (`train_qlora_gemma4.py:87-153`), so that a run of only such replays is
  a run without any.
* The values of a reply stand on the line of their label, and coordinates are integers or
  absent.

## 7. Plan

Done: everything in the table of section 2, with its runs and proofs. What would come next:

1. **Proofs** of the other pure functions, of which the assumptions are evaluated on bounded inputs only, and
   that every solved point gives a region (the maximal box exists).
2. **L2 with its second machine**: the idle wait, beside the markers it would need to rule
   out `MaskedFailureMixesPairs`.
3. **Empty trajectories** as a distance of their own in the episode modules.
