------------------------------- MODULE Student -------------------------------
(* The users of the student server, one at a time: the night batches and the  *)
(* distillations.  Replays are recorded and the clock runs whoever holds it.   *)
EXTENDS NightQueue, Distillation

vars == <<serverVars, nightVars, distillVars>>

Init ==
    /\ server = Down
    /\ faults = 0
    /\ NightInit
    /\ DistillInit

\* A driver is not launched while a distillation runs, nor the other way round.
Next ==
    \/ /\ NightNext
       /\ ~JobAt("off") => driver' = driver
       /\ UNCHANGED distillVars
    \/ /\ DistillNext
       /\ ~Idle => job' = job
       /\ UNCHANGED nightVars

\* A driver and a distillation go on until they end; nights follow days, and the
\* waiter, which looks every few minutes, misses neither.  From a launch to the
\* driver's own look at the clock it takes seconds: it is not for ever that the
\* eight-hour window closes in between.
Fairness ==
    /\ WF_vars(Clock /\ UNCHANGED distillVars)
    /\ WF_vars(Driver /\ UNCHANGED distillVars)
    /\ SF_vars(NextProtocol /\ driver'.pc = "reload" /\ UNCHANGED distillVars)
    /\ WF_vars(DistillStep /\ UNCHANGED nightVars)
    /\ SF_vars(WaiterLaunch /\ JobAt("off") /\ UNCHANGED distillVars)
    /\ WF_vars(WaiterCount /\ UNCHANGED distillVars)
    /\ SF_vars(WaiterSeesDay /\ UNCHANGED distillVars)

Spec == Init /\ [][Next]_vars /\ Fairness
=============================================================================
