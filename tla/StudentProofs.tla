----------------------------- MODULE StudentProofs -----------------------------
(* Proofs about the users of the student, for any queues, any number of runs,   *)
(* replays, distillations and faults: a protocol without adapters is answered   *)
(* without, and a distillation that is reported was one.                        *)
EXTENDS Student, TLAPS

-----------------------------------------------------------------------------
(* The night batches.                                                       *)

\* The driver's record, whatever it holds.
DriverShape == driver = [queue |-> driver.queue, at |-> driver.at, pc |-> driver.pc]

Bare == DriverShape /\ BaseIsBare

LEMMA InitBare == Init => Bare
  BY DEF Init, NightInit, Bare, DriverShape, BaseIsBare, Off

\* Only a reload takes the driver to a collect.
LEMMA DriverKeepsBare == Bare /\ Driver => Bare'
<1> SUFFICES ASSUME DriverShape, BaseIsBare, Driver PROVE DriverShape' /\ BaseIsBare'
  BY DEF Bare
<1>1. CASE CostRemeasure
  <2>1. driver' = Off \/ driver' = [driver EXCEPT !.pc = "next"]
    BY <1>1 DEF CostRemeasure, Goto, Quit
  <2> QED
    BY <2>1 DEF DriverShape, BaseIsBare, Off
<1>2. CASE NextProtocol
  <2>1. driver' = Off \/ \E i : driver' = [driver EXCEPT !.pc = "reload", !.at = i]
    BY <1>2 DEF NextProtocol
  <2>2. ASSUME NEW i, driver' = [driver EXCEPT !.pc = "reload", !.at = i]
        PROVE  driver' = [queue |-> driver.queue, at |-> i, pc |-> "reload"]
    BY <2>2 DEF DriverShape
  <2>3. driver' = Off \/ \E i : driver' = [queue |-> driver.queue, at |-> i, pc |-> "reload"]
    BY <2>1, <2>2
  <2> QED
    BY <2>3 DEF DriverShape, BaseIsBare, Off
<1>3. CASE Reload
  <2>1. CASE driver' = Off
    BY <2>1 DEF DriverShape, BaseIsBare, Off
  <2>2. CASE ~(driver' = Off)
    <3>1. driver' = [driver EXCEPT !.pc = "collect"]
      BY <1>3, <2>2 DEF Reload, Goto, Quit
    <3>2. Protocol.adapters = {} => server'.adapters = {}
      BY <1>3, <2>2 DEF Reload, Quit, ReloadBase
    <3>3. driver'.queue = driver.queue /\ driver'.at = driver.at
      BY <3>1 DEF DriverShape
    <3>4. Protocol' = Protocol
      BY <3>3 DEF Protocol
    <3> QED
      BY <3>1, <3>2, <3>4 DEF DriverShape, BaseIsBare
  <2> QED
    BY <2>1, <2>2
<1>4. CASE Collect
  <2>1. driver' = Off \/ driver' = [driver EXCEPT !.pc = "post"]
    BY <1>4 DEF Collect, Goto, Quit
  <2> QED
    BY <2>1 DEF DriverShape, BaseIsBare, Off
<1>5. CASE Post
  <2>1. driver' = Off \/ driver' = [driver EXCEPT !.pc = "next", !.at = @ + 1]
    BY <1>5 DEF Post
  <2>2. driver' = Off \/ driver' = [queue |-> driver.queue, at |-> driver.at + 1,
                                    pc |-> "next"]
    BY <2>1 DEF DriverShape
  <2> QED
    BY <2>2 DEF DriverShape, BaseIsBare, Off
<1> QED
  BY <1>1, <1>2, <1>3, <1>4, <1>5 DEF Driver

LEMMA NightKeepsBare == Bare /\ NightNext => Bare'
<1> SUFFICES ASSUME Bare, NightNext PROVE Bare'
  OBVIOUS
<1>1. CASE driver' = driver /\ server' = server
  BY <1>1 DEF Bare, DriverShape, BaseIsBare, Protocol
<1>2. CASE Driver
  BY <1>2, DriverKeepsBare
<1>3. CASE WaiterLaunch \/ LaunchByHand
  <2>1. \E q : driver' = Off \/ driver' = [queue |-> q, at |-> 1, pc |-> "measure"]
                             \/ driver' = [queue |-> q, at |-> 1, pc |-> "next"]
    BY <1>3 DEF WaiterLaunch, LaunchByHand, Begin
  <2> QED
    BY <2>1 DEF Bare, DriverShape, BaseIsBare, Off
<1>4. CASE Kill
  BY <1>4 DEF Kill, Quit, Bare, DriverShape, BaseIsBare, Off
<1>5. CASE ServerDies /\ UNCHANGED nightVars
  <2>1. driver' = driver /\ server'.adapters = {}
    BY <1>5 DEF ServerDies, nightVars, Down
  <2> QED
    BY <2>1 DEF Bare, DriverShape, BaseIsBare
<1>6. ASSUME Clock \/ Commit \/ Disturb \/ WaiterCount \/ WaiterSeesDay
      PROVE  driver' = driver /\ server' = server
  BY <1>6 DEF Clock, Commit, Disturb, WaiterCount, WaiterSeesDay, serverVars
<1> QED
  BY <1>1, <1>2, <1>3, <1>4, <1>5, <1>6 DEF NightNext, Waiter

\* A distillation reloads the student only where no driver runs.
LEMMA DistillKeepsBare ==
    Bare /\ DistillNext /\ (~Idle => job' = job) /\ UNCHANGED nightVars => Bare'
<1> SUFFICES ASSUME Bare, DistillNext, ~Idle => job' = job, UNCHANGED nightVars
             PROVE  Bare'
  OBVIOUS
<1>1. driver' = driver
  BY DEF nightVars
<1>2. CASE ReloadAdapter
  <2>1. job.pc = "reload" /\ job'.pc = "off"
    BY <1>2 DEF ReloadAdapter, JobAt, Abort, NoJob
  <2>2. Idle
    BY <2>1
  <2> QED
    BY <1>1, <2>2 DEF Idle, Bare, DriverShape, BaseIsBare
<1>3. CASE ~ReloadAdapter
  <2>1. server' = server
    BY <1>3 DEF DistillNext, DistillStep, Record, BeginJob, SyncReplays, TrainRemote,
                ExportAdapter, PatchAdapter, serverVars
  <2> QED
    BY <1>1, <2>1 DEF Bare, DriverShape, BaseIsBare, Protocol
<1> QED
  BY <1>2, <1>3

LEMMA NextBare == Bare /\ [Next]_vars => Bare'
<1> SUFFICES ASSUME Bare, [Next]_vars PROVE Bare'
  OBVIOUS
<1>1. CASE UNCHANGED vars
  BY <1>1 DEF vars, serverVars, nightVars, Bare, DriverShape, BaseIsBare, Protocol
<1> QED
  BY <1>1, NightKeepsBare, DistillKeepsBare DEF Next

\* Whatever the reload was answered by, a protocol without adapters is collected
\* on a server without (reload_student_base.sh).
THEOREM BaseServed == Spec => []BaseIsBare
<1>1. Bare => BaseIsBare
  BY DEF Bare
<1> QED
  BY <1>1, InitBare, NextBare, PTL DEF Spec

-----------------------------------------------------------------------------
(* The distillations.                                                       *)

Archs == {"none", "gemma3", "gemma4", "cut"}

Jobs == [pc : {"sync", "train", "export", "patch", "reload"}, run : Runs,
         fresh : BOOLEAN, synced : Nat]

DistillType ==
    /\ local \in [Runs -> Nat]
    /\ remote \in [Runs -> Nat]
    /\ adapter \in [Runs -> Nat]
    /\ gguf \in [Runs -> [of : Nat, arch : Archs]]
    /\ job = NoJob \/ job \in Jobs

\* The GGUF of the job is that of an adapter that was trained, on all that was
\* there at the start when the run had no adapter before.
Exported ==
    /\ gguf[job.run].of > 0
    /\ job.fresh => gguf[job.run].of >= job.synced

\* What the server has of the run since the replays were copied, and what the
\* run's adapter was trained on when it had none before.
JobSound ==
    job \in Jobs =>
        /\ job.synced <= local[job.run]
        /\ job.pc # "sync" => job.synced <= remote[job.run]
        /\ job.fresh /\ job.pc \in {"sync", "train"} => adapter[job.run] = 0
        /\ job.fresh /\ job.pc \notin {"sync", "train"} =>
               adapter[job.run] = 0 \/ adapter[job.run] >= job.synced
        /\ job.pc \in {"patch", "reload"} => Exported
        /\ job.pc = "reload" => gguf[job.run].arch = "gemma4"

Trained == DistillType /\ JobSound /\ SuccessMeansTrained

LEMMA InitTrained == Init => Trained
<1> SUFFICES ASSUME Init PROVE Trained
  OBVIOUS
<1>1. DistillInit
  BY DEF Init
<1>2. 0..MaxReplays \subseteq Nat
  BY DistillationAssumption
<1>3. /\ local \in [Runs -> Nat]
      /\ remote \in [Runs -> Nat]
      /\ adapter \in [Runs -> Nat]
  BY <1>1, <1>2 DEF DistillInit
<1>4. gguf \in [Runs -> [of : Nat, arch : Archs]]
  <2>1. ASSUME NEW r \in Runs
        PROVE  (IF adapter[r] = 0 THEN NoGguf ELSE [of |-> adapter[r], arch |-> "gemma4"])
                   \in [of : Nat, arch : Archs]
    <3>1. adapter[r] \in Nat
      BY <1>3
    <3>2. NoGguf \in [of : Nat, arch : Archs]
      BY DEF NoGguf, Archs
    <3>3. [of |-> adapter[r], arch |-> "gemma4"] \in [of : Nat, arch : Archs]
      BY <3>1 DEF Archs
    <3> QED
      BY <3>2, <3>3
  <2> QED
    BY <1>1, <2>1 DEF DistillInit
<1>5. job = NoJob /\ report = <<>>
  BY <1>1 DEF DistillInit
<1>6. job \notin Jobs
  BY <1>5 DEF NoJob, Jobs
<1> QED
  BY <1>3, <1>4, <1>5, <1>6 DEF Trained, DistillType, JobSound, SuccessMeansTrained

\* A job that is over asks nothing.
LEMMA AbortedJob ==
    ASSUME Trained, job' = NoJob, local' \in [Runs -> Nat], remote' \in [Runs -> Nat],
           adapter' \in [Runs -> Nat], gguf' \in [Runs -> [of : Nat, arch : Archs]],
           SuccessMeansTrained'
    PROVE  Trained'
<1>1. job' \notin Jobs'
  BY DEF NoJob, Jobs
<1> QED
  BY <1>1 DEF Trained, DistillType, JobSound

LEMMA JobRunning ==
    ASSUME Trained, NEW pc \in {"sync", "train", "export", "patch", "reload"}, JobAt(pc)
    PROVE  job \in Jobs /\ job.pc = pc
  BY DEF Trained, DistillType, JobAt, NoJob

\* The step to the next command leaves the rest of the job alone.
LEMMA JobAfter ==
    ASSUME NEW pc \in {"sync", "train", "export", "patch", "reload"}, job \in Jobs, JobTo(pc)
    PROVE  /\ job' \in Jobs'
           /\ job'.pc = pc /\ job'.run = job.run /\ job'.fresh = job.fresh
           /\ job'.synced = job.synced
  BY DEF JobTo, Jobs

LEMMA RecordKeeps == Trained /\ Record => Trained'
<1> SUFFICES ASSUME Trained, Record PROVE Trained'
  OBVIOUS
<1>1. PICK r \in Runs : local' = [local EXCEPT ![r] = @ + 1]
  BY DEF Record
<1>2. local' \in [Runs -> Nat] /\ \A q \in Runs : local[q] <= local'[q]
  BY <1>1 DEF Trained, DistillType
<1>3. UNCHANGED <<remote, adapter, gguf, job, report>>
  BY DEF Record
<1>4. job \in Jobs => job.run \in Runs /\ job.synced \in Nat /\ local[job.run] \in Nat
                       /\ local'[job.run] \in Nat
  BY <1>2 DEF Jobs, Trained, DistillType
<1>5. DistillType' /\ SuccessMeansTrained'
  BY <1>2, <1>3 DEF Trained, DistillType, SuccessMeansTrained, NoJob, Jobs
<1>6. JobSound'
  BY <1>2, <1>3, <1>4 DEF Trained, JobSound, Exported, Jobs
<1> QED
  BY <1>5, <1>6 DEF Trained

LEMMA BeginKeeps == Trained /\ BeginJob => Trained'
<1> SUFFICES ASSUME Trained, BeginJob PROVE Trained'
  OBVIOUS
<1>1. PICK r \in Runs :
          job' = [pc |-> "sync", run |-> r, fresh |-> adapter[r] = 0, synced |-> local[r]]
  BY DEF BeginJob
<1>2. UNCHANGED <<local, remote, adapter, gguf, report>>
  BY DEF BeginJob
<1>3. local[r] \in Nat
  BY DEF Trained, DistillType
<1>4. job' \in Jobs'
  BY <1>1, <1>3 DEF Jobs
<1>5. DistillType' /\ SuccessMeansTrained'
  BY <1>2, <1>4 DEF Trained, DistillType, SuccessMeansTrained, NoJob
<1>6. /\ job'.pc = "sync" /\ job'.run = r /\ job'.synced = local[r]
      /\ job'.fresh <=> adapter[r] = 0
  BY <1>1
<1>7. JobSound'
  BY <1>2, <1>3, <1>6 DEF JobSound
<1> QED
  BY <1>5, <1>7 DEF Trained

LEMMA SyncKeeps == Trained /\ SyncReplays => Trained'
<1> SUFFICES ASSUME Trained, SyncReplays PROVE Trained'
  OBVIOUS
<1>1. UNCHANGED <<local, adapter, gguf, report>>
  BY DEF SyncReplays
<1>2. job \in Jobs /\ job.pc = "sync"
  BY JobRunning DEF SyncReplays
<1>3. SuccessMeansTrained'
  BY <1>1 DEF Trained, SuccessMeansTrained
<1>4. CASE remote' = local /\ JobTo("train")
  <2>1. /\ job' \in Jobs' /\ job'.pc = "train" /\ job'.run = job.run
        /\ job'.fresh = job.fresh /\ job'.synced = job.synced
    BY <1>2, <1>4, JobAfter
  <2>2. DistillType'
    BY <1>1, <1>4, <2>1 DEF Trained, DistillType
  <2>3. JobSound'
    BY <1>1, <1>2, <1>4, <2>1 DEF Trained, JobSound
  <2> QED
    BY <1>3, <2>2, <2>3 DEF Trained
<1>5. CASE SyncFails
  <2>1. PICK now \in [Runs -> 0..MaxReplays] : remote' = now
    BY <1>5 DEF SyncFails, PartialSync
  <2>2. 0..MaxReplays \subseteq Nat
    BY DistillationAssumption
  <2>3. remote' \in [Runs -> Nat]
    BY <2>1, <2>2
  <2>4. job' = NoJob
    BY <1>5 DEF SyncFails, Abort
  <2> QED
    BY <1>1, <1>3, <2>3, <2>4, AbortedJob DEF Trained, DistillType
<1> QED
  BY <1>4, <1>5 DEF SyncReplays

LEMMA TrainKeeps == Trained /\ TrainRemote => Trained'
<1> SUFFICES ASSUME Trained, TrainRemote PROVE Trained'
  OBVIOUS
<1>1. UNCHANGED <<local, remote, gguf, report>>
  BY DEF TrainRemote
<1>2. job \in Jobs /\ job.pc = "train"
  BY JobRunning DEF TrainRemote
<1>3. job.run \in Runs /\ job.synced \in Nat
  BY <1>2 DEF Jobs
<1>4. SuccessMeansTrained'
  BY <1>1 DEF Trained, SuccessMeansTrained
<1>5. adapter' = adapter \/ adapter' = [adapter EXCEPT ![job.run] = remote[job.run]]
  BY DEF TrainRemote
<1>6. adapter' \in [Runs -> Nat]
  BY <1>3, <1>5 DEF Trained, DistillType
<1>7. CASE JobTo("export")
  <2>1. /\ job' \in Jobs' /\ job'.pc = "export" /\ job'.run = job.run
        /\ job'.fresh = job.fresh /\ job'.synced = job.synced
    BY <1>2, <1>7, JobAfter
  <2>2. DistillType'
    BY <1>1, <1>6, <2>1 DEF Trained, DistillType
  <2>3. job.fresh => adapter'[job.run] = 0 \/ adapter'[job.run] >= job.synced
    BY <1>2, <1>3, <1>5 DEF Trained, DistillType, JobSound
  <2>4. JobSound'
    BY <1>1, <1>2, <2>1, <2>3 DEF Trained, JobSound
  <2> QED
    BY <1>4, <2>2, <2>4 DEF Trained
<1>8. CASE Abort
  BY <1>1, <1>4, <1>6, <1>8, AbortedJob DEF Abort, Trained, DistillType
<1> QED
  BY <1>7, <1>8 DEF TrainRemote

LEMMA ExportKeeps == Trained /\ ExportAdapter => Trained'
<1> SUFFICES ASSUME Trained, ExportAdapter PROVE Trained'
  OBVIOUS
<1>1. UNCHANGED <<local, remote, adapter, report>>
  BY DEF ExportAdapter
<1>2. job \in Jobs /\ job.pc = "export"
  BY JobRunning DEF ExportAdapter
<1>3. job.run \in Runs /\ job.synced \in Nat /\ adapter[job.run] \in Nat
  BY <1>2 DEF Jobs, Trained, DistillType
<1>4. SuccessMeansTrained'
  BY <1>1 DEF Trained, SuccessMeansTrained
<1>5. CASE /\ Exportable(job.run)
           /\ gguf' = [gguf EXCEPT ![job.run] = [of |-> adapter[job.run], arch |-> "gemma3"]]
           /\ JobTo("patch")
  <2>1. /\ job' \in Jobs' /\ job'.pc = "patch" /\ job'.run = job.run
        /\ job'.fresh = job.fresh /\ job'.synced = job.synced
    BY <1>2, <1>5, JobAfter
  <2>2. gguf' \in [Runs -> [of : Nat, arch : Archs]]
    <3>1. [of |-> adapter[job.run], arch |-> "gemma3"] \in [of : Nat, arch : Archs]
      BY <1>3 DEF Archs
    <3> QED
      BY <1>3, <1>5, <3>1 DEF Trained, DistillType
  <2>3. gguf'[job.run].of = adapter[job.run]
    BY <1>3, <1>5 DEF Trained, DistillType
  <2>4. DistillType'
    BY <1>1, <2>1, <2>2 DEF Trained, DistillType
  <2>5. /\ adapter[job.run] > 0
        /\ job.fresh => adapter[job.run] >= job.synced
    BY <1>2, <1>3, <1>5 DEF Exportable, Trained, JobSound
  <2>6. Exported'
    BY <2>1, <2>3, <2>5 DEF Exported
  <2>7. JobSound'
    BY <1>1, <1>2, <2>1, <2>6 DEF Trained, JobSound
  <2> QED
    BY <1>4, <2>4, <2>7 DEF Trained
<1>6. CASE Abort /\ UNCHANGED gguf
  BY <1>1, <1>4, <1>6, AbortedJob DEF Abort, Trained, DistillType
<1>7. CASE /\ gguf' = [gguf EXCEPT ![job.run] = [of |-> adapter[job.run], arch |-> "cut"]]
           /\ Abort
  <2>1. gguf' \in [Runs -> [of : Nat, arch : Archs]]
    <3>1. [of |-> adapter[job.run], arch |-> "cut"] \in [of : Nat, arch : Archs]
      BY <1>3 DEF Archs
    <3> QED
      BY <1>3, <1>7, <3>1 DEF Trained, DistillType
  <2> QED
    BY <1>1, <1>4, <1>7, <2>1, AbortedJob DEF Abort, Trained, DistillType
<1> QED
  BY <1>5, <1>6, <1>7 DEF ExportAdapter

LEMMA PatchKeeps == Trained /\ PatchAdapter => Trained'
<1> SUFFICES ASSUME Trained, PatchAdapter PROVE Trained'
  OBVIOUS
<1>1. UNCHANGED <<local, remote, adapter, report>>
  BY DEF PatchAdapter
<1>2. job \in Jobs /\ job.pc = "patch" /\ job.run \in Runs
  BY JobRunning DEF PatchAdapter, Jobs
<1>3. SuccessMeansTrained'
  BY <1>1 DEF Trained, SuccessMeansTrained
<1>4. CASE gguf' = [gguf EXCEPT ![job.run].arch = "gemma4"] /\ JobTo("reload")
  <2>1. /\ job' \in Jobs' /\ job'.pc = "reload" /\ job'.run = job.run
        /\ job'.fresh = job.fresh /\ job'.synced = job.synced
    BY <1>2, <1>4, JobAfter
  <2>2. gguf[job.run] \in [of : Nat, arch : Archs]
    BY <1>2 DEF Trained, DistillType
  <2>3. gguf'[job.run] = [of |-> gguf[job.run].of, arch |-> "gemma4"]
    BY <1>2, <1>4, <2>2 DEF Trained, DistillType
  <2>4. gguf' \in [Runs -> [of : Nat, arch : Archs]]
    <3>1. gguf' = [gguf EXCEPT ![job.run] = gguf'[job.run]]
      <4>1. gguf' = [gguf EXCEPT ![job.run] = [gguf[job.run] EXCEPT !.arch = "gemma4"]]
        BY <1>4
      <4> QED
        BY <1>2, <4>1 DEF Trained, DistillType
    <3>2. gguf'[job.run] \in [of : Nat, arch : Archs]
      BY <2>2, <2>3 DEF Archs
    <3> QED
      BY <1>2, <3>1, <3>2 DEF Trained, DistillType
  <2>5. DistillType'
    BY <1>1, <2>1, <2>4 DEF Trained, DistillType
  <2>6. Exported
    BY <1>2 DEF Trained, JobSound
  <2>7. gguf'[job'.run].of = gguf[job.run].of /\ gguf'[job'.run].arch = "gemma4"
    BY <2>1, <2>3
  <2>8. Exported'
    BY <2>1, <2>6, <2>7 DEF Exported
  <2>9. JobSound'
    BY <1>1, <1>2, <2>1, <2>7, <2>8 DEF Trained, JobSound
  <2> QED
    BY <1>3, <2>5, <2>9 DEF Trained
<1>5. CASE Abort /\ UNCHANGED gguf
  BY <1>1, <1>3, <1>5, AbortedJob DEF Abort, Trained, DistillType
<1> QED
  BY <1>4, <1>5 DEF PatchAdapter

LEMMA ReloadKeeps == Trained /\ ReloadAdapter => Trained'
<1> SUFFICES ASSUME Trained, ReloadAdapter PROVE Trained'
  OBVIOUS
<1>1. UNCHANGED <<local, remote, adapter, gguf>> /\ Abort
  BY DEF ReloadAdapter
<1>2. job \in Jobs /\ job.pc = "reload" /\ job.run \in Runs
  BY JobRunning DEF ReloadAdapter, Jobs
<1>3. Exported /\ gguf[job.run].arch = "gemma4"
  BY <1>2 DEF Trained, JobSound
<1>4. ASSUME report' = <<[fresh |-> job.fresh, synced |-> job.synced,
                           gguf |-> gguf[job.run]]>>
      PROVE  SuccessMeansTrained'
  <2>1. ASSUME NEW i \in DOMAIN report'
        PROVE  /\ report'[i].fresh = job.fresh
               /\ report'[i].synced = job.synced
               /\ report'[i].gguf = gguf[job.run]
    BY <1>4
  <2> QED
    BY <1>3, <2>1 DEF Exported, SuccessMeansTrained
<1>5. SuccessMeansTrained'
  BY <1>4 DEF ReloadAdapter, Trained, SuccessMeansTrained
<1> QED
  BY <1>1, <1>5, AbortedJob DEF Abort, Trained, DistillType

LEMMA NextTrained == Trained /\ [Next]_vars => Trained'
<1> SUFFICES ASSUME Trained, [Next]_vars PROVE Trained'
  OBVIOUS
<1>1. CASE UNCHANGED distillVars
  <2>1. UNCHANGED <<local, remote, adapter, gguf, job, report>>
    BY <1>1 DEF distillVars
  <2> QED
    BY <2>1 DEF Trained, DistillType, JobSound, Exported, SuccessMeansTrained, NoJob, Jobs
<1>2. CASE DistillNext
  BY <1>2, RecordKeeps, BeginKeeps, SyncKeeps, TrainKeeps, ExportKeeps, PatchKeeps,
     ReloadKeeps DEF DistillNext, DistillStep
<1> QED
  BY <1>1, <1>2 DEF Next, vars

\* A distillation that says it completed did train, export and patch an adapter
\* on that run's replays (04_sync_and_train.sh, stage4_distill_remote_trigger.py).
THEOREM ReportsAreTrained == Spec => []SuccessMeansTrained
<1>1. Trained => SuccessMeansTrained
  BY DEF Trained
<1> QED
  BY <1>1, InitTrained, NextTrained, PTL DEF Spec
=============================================================================
