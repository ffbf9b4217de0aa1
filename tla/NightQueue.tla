----------------------------- MODULE NightQueue -----------------------------
(***************************************************************************)
(* The serial night batches on the student: run_a15_night.sh, which the      *)
(* operator launches by hand, and run_a17_night.sh, which a17_lock_waiter.sh *)
(* launches in every night window once the lock commit is there, until the   *)
(* manifest has a line per protocol.  A driver skips the protocols whose log *)
(* shows completion, so each launch resumes the queue.                       *)
(*                                                                          *)
(* One driver uses the student at a time: nothing in the scripts excludes a  *)
(* second one.  --dry-run and --ignore-window are left out.                  *)
(***************************************************************************)
EXTENDS StudentServer

CONSTANTS
    Table,        \* PROTOCOLS and ADAPTER_ARM: [queue -> Seq([name, adapters])]
    Remeasured,   \* the adapters of A15's cost re-measure
    MaxByHand     \* bound: A15 launches by hand

Queues == {"a15", "a17"}
Named(queue) == {Table[queue][i].name : i \in DOMAIN Table[queue]}

ASSUME NightAssumption ==
    /\ DOMAIN Table = Queues
    /\ Named("a15") \cap Named("a17") = {}
    /\ MaxByHand \in Nat

VARIABLES
    night,     \* the hour is in 18..23 or 0..1
    lock,      \* the A17 lock commit is in HEAD's history
    pinned,    \* the frozen buffer has its pinned hashes
    driver,    \* [queue, at, pc]: pc is "off", "measure", "next", "reload", "collect" or "post"
    measured,  \* a log of the cost re-measure is there
    done,      \* protocols with "Collect loop execution complete" in a log
    complete,  \* whether the collect that has just ended logged its completion
    manifest,  \* [queue -> Seq([name, complete])]
    waiter,    \* "poll", "driving", "wait" or "gone"
    byHand     \* A15 launches so far

nightVars == <<night, lock, pinned, driver, measured, done, complete, manifest,
               waiter, byHand>>

Off == [queue |-> "a15", at |-> 1, pc |-> "off"]
Idle == driver.pc = "off"
Protocol == Table[driver.queue][driver.at]
Goto(pc) == driver' = [driver EXCEPT !.pc = pc]
Quit == driver' = Off

NightInit ==
    /\ night \in BOOLEAN
    /\ lock = FALSE
    /\ pinned = TRUE
    /\ driver = Off
    /\ measured = FALSE
    /\ done = {}
    /\ complete = FALSE
    /\ manifest = [q \in Queues |-> <<>>]
    /\ waiter = "poll"
    /\ byHand = 0

-----------------------------------------------------------------------------
(* The surroundings.                                                        *)

Clock ==
    /\ night' = ~night
    /\ UNCHANGED <<lock, pinned, driver, measured, done, complete, manifest, waiter,
                   byHand, serverVars>>

Commit ==
    /\ ~lock
    /\ lock' = TRUE
    /\ UNCHANGED <<night, pinned, driver, measured, done, complete, manifest, waiter,
                   byHand, serverVars>>

\* Somebody writes to the frozen buffer.
Disturb ==
    /\ pinned
    /\ Fault
    /\ pinned' = FALSE
    /\ UNCHANGED <<night, lock, driver, measured, done, complete, manifest, waiter,
                   byHand, server>>

-----------------------------------------------------------------------------
(* The waiter.                                                              *)

\* The driver's pre-flight: without the pinned buffer it exits 3.
Begin(queue) ==
    driver' = IF pinned
              THEN [queue |-> queue, at |-> 1,
                    pc |-> IF queue = "a15" THEN "measure" ELSE "next"]
              ELSE Off

WaiterLaunch ==
    /\ waiter = "poll"
    /\ night
    /\ lock
    /\ Idle
    /\ waiter' = "driving"
    /\ Begin("a17")
    /\ UNCHANGED <<night, lock, pinned, measured, done, complete, manifest, byHand,
                   serverVars>>

\* The driver has exited, whatever its status: the manifest's lines are counted.
WaiterCount ==
    /\ waiter = "driving"
    /\ Idle
    /\ waiter' = IF Len(manifest["a17"]) >= Cardinality(Named("a17"))
                 THEN "gone" ELSE "wait"
    /\ UNCHANGED <<night, lock, pinned, driver, measured, done, complete, manifest,
                   byHand, serverVars>>

WaiterSeesDay ==
    /\ waiter = "wait"
    /\ ~night
    /\ waiter' = "poll"
    /\ UNCHANGED <<night, lock, pinned, driver, measured, done, complete, manifest,
                   byHand, serverVars>>

-----------------------------------------------------------------------------
(* The driver.                                                              *)

LaunchByHand ==
    /\ Idle
    /\ waiter # "driving"
    /\ byHand < MaxByHand
    /\ byHand' = byHand + 1
    /\ Begin("a15")
    /\ UNCHANGED <<night, lock, pinned, measured, done, complete, manifest, waiter,
                   serverVars>>

\* The re-measure runs once; its log is there before its outcome is known, and a
\* failure of its own is only reported.  A failed reload ends the driver.
CostRemeasure ==
    /\ driver.pc = "measure"
    /\ IF measured \/ ~night
       THEN Goto("next") /\ UNCHANGED <<measured, serverVars>>
       ELSE \/ ReloadDual(Remeasured) /\ measured' = TRUE /\ Goto("next")
            \/ ReloadDualFails(Remeasured) /\ Quit /\ UNCHANGED measured
    /\ UNCHANGED <<night, lock, pinned, done, complete, manifest, waiter, byHand>>

\* Mutant of AlreadyDone: the queue starts over in every night.
AlreadyDoneIgnored(name) == FALSE

\* protocol_done
AlreadyDone(name) == name \in done

\* The next protocol that is not done, when the hour allows it.
NextProtocol ==
    /\ driver.pc = "next"
    /\ LET left == {i \in driver.at..Len(Table[driver.queue]) :
                       ~AlreadyDone(Table[driver.queue][i].name)}
       IN  driver' = IF left # {} /\ night
                     THEN [driver EXCEPT !.pc = "reload",
                                         !.at = CHOOSE i \in left : \A j \in left : i <= j]
                     ELSE Off
    /\ UNCHANGED <<night, lock, pinned, measured, done, complete, manifest, waiter,
                   byHand, serverVars>>

Reload ==
    /\ driver.pc = "reload"
    /\ IF Protocol.adapters = {}
       THEN \/ ReloadBase /\ Goto("collect")
            \/ ReloadBaseFails /\ Quit
       ELSE \/ ReloadDual(Protocol.adapters) /\ Goto("collect")
            \/ ReloadDualFails(Protocol.adapters) /\ Quit
    /\ UNCHANGED <<night, lock, pinned, measured, done, complete, manifest, waiter,
                   byHand>>

\* The collect logs its completion and ends with status 0; or an exception ends
\* it, still with status 0; or the process ends with another status, before or
\* after the completion was logged, and set -e ends the driver.
Collect ==
    /\ driver.pc = "collect"
    /\ \E logged \in BOOLEAN :
           /\ done' = IF logged THEN done \cup {Protocol.name} ELSE done
           /\ \/ complete' = logged /\ Goto("post") /\ IF logged THEN NoFault ELSE Fault
              \/ complete' = FALSE /\ Quit /\ Fault
    /\ UNCHANGED <<night, lock, pinned, measured, manifest, waiter, byHand, server>>

\* The manifest line is written whether or not the collect completed; then the
\* readonly gate.
Post ==
    /\ driver.pc = "post"
    /\ manifest' = [manifest EXCEPT ![driver.queue] =
           Append(@, [name |-> Protocol.name, complete |-> complete])]
    /\ driver' = IF pinned THEN [driver EXCEPT !.pc = "next", !.at = @ + 1] ELSE Off
    /\ complete' = FALSE
    /\ UNCHANGED <<night, lock, pinned, measured, done, waiter, byHand, serverVars>>

\* The adapters of the reload that the driver may be in, the re-measure's included.
Reloading ==
    CASE driver.pc = "reload" -> {Protocol.adapters}
      [] driver.pc = "measure" /\ ~measured /\ night -> {Remeasured}
      [] OTHER -> {}

\* The driver is killed; a reload that it had begun may have got anywhere.
Kill ==
    /\ ~Idle
    /\ Fault
    /\ Quit
    /\ server' \in {server} \cup UNION {{Down, Up(a)} : a \in Reloading}
    /\ complete' = FALSE
    /\ UNCHANGED <<night, lock, pinned, measured, done, manifest, waiter, byHand>>

Driver == CostRemeasure \/ NextProtocol \/ Reload \/ Collect \/ Post
Waiter == WaiterLaunch \/ WaiterCount \/ WaiterSeesDay

NightNext ==
    \/ Clock \/ Commit \/ Disturb
    \/ Waiter \/ LaunchByHand \/ Driver \/ Kill
    \/ ServerDies /\ UNCHANGED nightVars

-----------------------------------------------------------------------------
(* Properties.                                                             *)

\* A protocol without adapters is answered by a server without adapters, though
\* the server of the protocol before may outlive pkill and answer the health
\* check (reload_student_base.sh; Amendment 15's "no adapter is unambiguous").
BaseIsBare ==
    driver.pc = "collect" /\ Protocol.adapters = {} => server.adapters = {}

\* A protocol completed and its line was never written: the driver skips it for
\* ever after.
Stranded ==
    /\ Idle
    /\ \E name \in Named("a17") \cap done :
           \A i \in DOMAIN manifest["a17"] : manifest["a17"][i].name # name

Settled ==
    \/ /\ waiter = "gone"
       /\ \/ Named("a17") \subseteq done
          \/ \E i \in DOMAIN manifest["a17"] : ~manifest["a17"][i].complete
    \/ Stranded
    \/ ~pinned

\* Once the lock is committed the waiter leaves, and leaves with every protocol
\* done, whatever nights, failed reloads and stops come between; unless a line
\* of the manifest is missing, or is that of a collect that did not complete, or
\* the buffer was touched.  a17_lock_waiter.sh:3-4 promises it without the unless:
\* these are the ways in which it may leave early or poll for ever, and the
\* property says that there is no other.
WaiterFinishes == lock ~> Settled
=============================================================================
