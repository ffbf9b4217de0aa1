---------------------------- MODULE Distillation ----------------------------
(***************************************************************************)
(* Distilling one run's replays into the student: 04_sync_and_train.sh,      *)
(* which copies the replays to the server (replay/sync.py), trains there,    *)
(* exports the adapter and reloads the student (stage4_distill_remote_       *)
(* trigger.py, reload_student.sh).  The remote training dies with its ssh    *)
(* session, at the first line that it writes to the closed pipe.             *)
(*                                                                          *)
(* A run's replays are counted, those that ReplayDataset makes an example of: *)
(* it passes over one without stage-1 reply, trajectory or start image, and    *)
(* one that it cannot read.  An adapter is the number it was trained on.      *)
(***************************************************************************)
EXTENDS StudentServer

CONSTANTS
    Runs,        \* run ids
    MaxReplays,  \* bound: usable success replays of a run
    MaxJobs      \* bound: distillations

ASSUME DistillationAssumption == MaxReplays \in Nat /\ MaxJobs \in Nat

VARIABLES
    local,   \* [run -> usable success replays in the replay directory]
    remote,  \* [run -> those on the server]
    adapter, \* lora_checkpoints: [run -> replays it was trained on, 0 for none]
    gguf,    \* lora_gguf: [run -> [of, arch]]
    job,     \* [pc, run, fresh: no adapter at the start, synced: replays to copy]
    report,  \* what held at the last "completed successfully", if any
    jobs     \* distillations so far

distillVars == <<local, remote, adapter, gguf, job, report, jobs>>

NoGguf == [of |-> 0, arch |-> "none"]
NoJob == [pc |-> "off", run |-> CHOOSE r \in Runs : TRUE, fresh |-> FALSE, synced |-> 0]
JobAt(pc) == job.pc = pc
JobTo(pc) == job' = [job EXCEPT !.pc = pc]
Abort == job' = NoJob

\* A run may have been copied before, and distilled from what was copied.
DistillInit ==
    /\ local \in [Runs -> 0..MaxReplays]
    /\ remote \in [Runs -> 0..MaxReplays]
    /\ adapter \in [Runs -> 0..MaxReplays]
    /\ \A r \in Runs : adapter[r] <= remote[r] /\ remote[r] <= local[r]
    /\ gguf = [r \in Runs |-> IF adapter[r] = 0 THEN NoGguf
                               ELSE [of |-> adapter[r], arch |-> "gemma4"]]
    /\ job = NoJob
    /\ report = <<>>
    /\ jobs = 0

\* A collect writes a success replay while a distillation runs; those that it
\* wrote before are there at the start.
Record ==
    /\ ~JobAt("off")
    /\ \E r \in Runs : local[r] < MaxReplays /\ local' = [local EXCEPT ![r] = @ + 1]
    /\ UNCHANGED <<remote, adapter, gguf, job, report, jobs, serverVars>>

\* --run-id, or the run directory that was modified last.
BeginJob ==
    /\ JobAt("off")
    /\ jobs < MaxJobs
    /\ jobs' = jobs + 1
    /\ \E r \in Runs :
           job' = [pc |-> "sync", run |-> r, fresh |-> adapter[r] = 0, synced |-> local[r]]
    /\ UNCHANGED <<local, remote, adapter, gguf, report, serverVars>>

\* rsync has moved some of the files.
PartialSync ==
    \E now \in [Runs -> 0..MaxReplays] :
        /\ \A r \in Runs : remote[r] <= now[r] /\ now[r] <= local[r]
        /\ remote' = now

\* rsync ends with another status, or after ten minutes: the distillation ends.
SyncFails ==
    /\ Fault
    /\ PartialSync
    /\ Abort

\* What is written meanwhile is copied or not; what was there is.
SyncReplays ==
    /\ JobAt("sync")
    /\ \/ remote' = local /\ JobTo("train") /\ NoFault
       \/ SyncFails
    /\ UNCHANGED <<local, adapter, gguf, report, jobs, server>>

\* The training needs an example, and exits 1 without one, whether there are no files
\* or only ones that it passes over.  Its failure is lost in the pipe to tee; only a
\* lost ssh session or the two-hour limit is seen.
TrainRemote ==
    /\ JobAt("train")
    /\ \/ /\ remote[job.run] > 0
          /\ adapter' = [adapter EXCEPT ![job.run] = remote[job.run]]
          /\ JobTo("export")
          /\ NoFault
       \/ /\ UNCHANGED adapter
          /\ JobTo("export")
          /\ IF remote[job.run] > 0 THEN Fault ELSE NoFault
       \/ Abort /\ Fault /\ UNCHANGED adapter
    /\ UNCHANGED <<local, remote, gguf, report, jobs, server>>

\* Mutant of Exportable: the checkpoint directory is not looked into.
ExportableUnchecked(run) == TRUE

\* final_adapter is there.
Exportable(run) == adapter[run] > 0

\* export_lora_gguf.py, which exits 1 without an adapter.
ExportAdapter ==
    /\ JobAt("export")
    /\ \/ /\ Exportable(job.run)
          /\ gguf' = [gguf EXCEPT ![job.run] = [of |-> adapter[job.run], arch |-> "gemma3"]]
          /\ JobTo("patch")
          /\ NoFault
       \/ ~Exportable(job.run) /\ Abort /\ NoFault /\ UNCHANGED gguf
       \/ /\ Exportable(job.run)
          /\ gguf' = [gguf EXCEPT ![job.run] = [of |-> adapter[job.run], arch |-> "cut"]]
          /\ Abort
          /\ Fault
    /\ UNCHANGED <<local, remote, adapter, report, jobs, server>>

PatchAdapter ==
    /\ JobAt("patch")
    /\ \/ gguf' = [gguf EXCEPT ![job.run].arch = "gemma4"] /\ JobTo("reload") /\ NoFault
       \/ Abort /\ Fault /\ UNCHANGED gguf
    /\ UNCHANGED <<local, remote, adapter, report, jobs, server>>

\* The reload ends with status 0 whatever runs, and the distillation is reported.
ReloadAdapter ==
    /\ JobAt("reload")
    /\ \/ /\ ReloadSingle({job.run})
          /\ report' = <<[fresh |-> job.fresh, synced |-> job.synced,
                         gguf |-> gguf[job.run]]>>
       \/ server' \in {server, Down, Up({job.run})} /\ Fault /\ UNCHANGED report
    /\ Abort
    /\ UNCHANGED <<local, remote, adapter, gguf, jobs>>

DistillStep ==
    SyncReplays \/ TrainRemote \/ ExportAdapter \/ PatchAdapter \/ ReloadAdapter

DistillNext == Record \/ BeginJob \/ DistillStep

-----------------------------------------------------------------------------
(* Properties.                                                             *)

\* A distillation is reported as successful only with a whole, patched GGUF of an
\* adapter trained on that run's replays; and when the run had no adapter before,
\* on all the usable replays that were there when it began, though the status of the
\* training is lost in a pipe and replays are written meanwhile.
SuccessMeansTrained ==
    \A i \in DOMAIN report :
        /\ report[i].gguf.arch = "gemma4"
        /\ report[i].gguf.of > 0
        /\ report[i].fresh => report[i].gguf.of >= report[i].synced
=============================================================================
