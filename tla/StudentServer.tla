---------------------------- MODULE StudentServer ----------------------------
(***************************************************************************)
(* The student llama-server on its port, and the three scripts that replace *)
(* it: reload_student_dual.sh, reload_student_base.sh and reload_student.sh. *)
(* Each stops whatever listens, starts a process with its adapters and       *)
(* waits for an answer; the answer may come from the process that was to go. *)
(***************************************************************************)
EXTENDS Integers, FiniteSets, Sequences

CONSTANT MaxFaults  \* bound: servers that misbehave, failed commands, stops

ASSUME MaxFaultsAssumption == MaxFaults \in Nat

VARIABLES
    server,  \* what answers at the port: [up, adapters]
    faults   \* faults so far

serverVars == <<server, faults>>

Down == [up |-> FALSE, adapters |-> {}]
Up(adapters) == [up |-> TRUE, adapters |-> adapters]

Fault == faults < MaxFaults /\ faults' = faults + 1
NoFault == UNCHANGED faults

\* /health answers 200: the new server, or the old one that outlived pkill and
\* keeps the port.
Answers(adapters) ==
    \/ server' = Up(adapters) /\ NoFault
    \/ server.up /\ Fault /\ UNCHANGED server

\* No answer within the 24 polls: the new server died or is only slow.
Silent(adapters) == server' \in {Down, Up(adapters)} /\ Fault

\* reload_student_dual.sh with status 0, and with another one.
ReloadDual(adapters) == Answers(adapters)
ReloadDualFails(adapters) == Silent(adapters)

\* Mutant of ReloadBase: the answer to /health is taken for the new server's.
ReloadBaseUnchecked == Answers({})

\* reload_student_base.sh also asks /lora-adapters of whatever answered.
ReloadBase == Answers({}) /\ server'.adapters = {}
ReloadBaseFails ==
    \/ Silent({})
    \/ server.up /\ server.adapters # {} /\ Fault /\ UNCHANGED server

\* reload_student.sh warns when nothing runs after two seconds, and ends with
\* status 0 all the same.
ReloadSingle(adapters) == Answers(adapters) \/ Silent(adapters)

ServerDies ==
    /\ server.up
    /\ server' = Down
    /\ Fault
=============================================================================
