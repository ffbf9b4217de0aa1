--------------------------- MODULE PushMemoryProofs ---------------------------
(* Proof that no prompt of a push run tells more than its rung discloses, for   *)
(* any number of runs, episodes and recaps; and, of the geometry that the runs  *)
(* rest on, that a scan may be stopped and resumed and that the region derived   *)
(* from it was solved, for any grid and any trials.                             *)
EXTENDS PushMemory, PushGeometry, FiniteSetTheorems, SequenceTheorems,
        WellFoundedInduction, TLAPS

Told == OfLevel2 \cup OfLevel3

Settings ==
    [pc : {"off", "start", "rounds", "ended"}, rung : Rungs,
     memory : {"off", "on", "no coords"}, writes : BOOLEAN, feedback : BOOLEAN,
     known : SUBSET Recaps, told : SUBSET Told, episodes : Nat]

TypeInv ==
    /\ root \in SUBSET Recaps
    /\ run \in [Procs -> Settings]

\* Every recap on disk was written under its own rung.
RootOwn == \A recap \in root : OwnRung(recap)

\* A run knows push recaps of its own rung only.
KnownOwn ==
    \A p \in Procs : \A recap \in run[p].known :
        /\ recap.task = "push"
        /\ recap.rung = run[p].rung
        /\ OwnRung(recap)

IInv == TypeInv /\ RootOwn /\ KnownOwn /\ NothingAboveTheRung

-----------------------------------------------------------------------------
(* What each part of a prompt tells.                                        *)

LEMMA AllowedTold ==
    ASSUME NEW rung \in Rungs
    PROVE  /\ Allowed(rung) \subseteq Told
           /\ Disclosed(rung) \subseteq Allowed(rung)
           /\ StateTells(rung) \subseteq Allowed(rung)
           /\ \A feedback \in BOOLEAN : ReportTells(rung, feedback) \subseteq Allowed(rung)
  BY DEF Allowed, Disclosed, StateTells, ReportTells, OracleLevel, Rungs, Told,
         OfLevel2, OfLevel3

LEMMA RecapAllowed ==
    ASSUME NEW rung \in Rungs, NEW e
    PROVE  RecapTells(rung, e) \subseteq Allowed(rung)
<1>1. Disclosed(rung) \subseteq Allowed(rung)
  BY AllowedTold
<1>2. ASSUME OracleLevel(rung) >= 2
      PROVE  {"class", "chosen image"} \subseteq Allowed(rung)
  BY <1>2 DEF Allowed, OfLevel2
<1>3. KeyImage(rung, e) /\ ChosenByDistance(rung, e) => OracleLevel(rung) >= 2
  BY DEF ChosenByDistance
<1> QED
  BY <1>1, <1>2, <1>3 DEF RecapTells

LEMMA RecordAllowed ==
    ASSUME NEW rung \in Rungs, NEW coords \in BOOLEAN, NEW recap \in Recaps,
           recap.task = "push", recap.rung = rung, OwnRung(recap)
    PROVE  RecordTells(rung, coords, recap) \subseteq Allowed(rung)
<1>1. recap.lesson \subseteq Allowed(rung) /\ recap.disclosed \subseteq Allowed(rung)
  BY DEF OwnRung
<1>2. OracleLevel(rung) >= 2 => "class" \in Allowed(rung)
  BY DEF Allowed, OfLevel2
<1> QED
  BY <1>1, <1>2 DEF RecordTells

LEMMA RecapTyped ==
    ASSUME NEW rung \in Rungs, NEW e \in Episodes
    PROVE  /\ RecapOf(rung, e) \in Recaps
           /\ RecapOf(rung, e).task = "push"
           /\ RecapOf(rung, e).rung = rung
           /\ OwnRung(RecapOf(rung, e))
<1>1. RecapTells(rung, e) \subseteq Allowed(rung) /\ Disclosed(rung) \subseteq Allowed(rung)
  BY RecapAllowed, AllowedTold
<1>2. Allowed(rung) \subseteq OfLevel2 \cup OfLevel3
  BY AllowedTold DEF Told
<1>3. e.dumped \in BOOLEAN
  BY PushMemoryAssumption
<1> QED
  BY <1>1, <1>2, <1>3 DEF RecapOf, Recaps, OwnRung

-----------------------------------------------------------------------------
(* The invariant.                                                           *)

LEMMA InitInv == PushMemoryInit => IInv
<1> SUFFICES ASSUME PushMemoryInit PROVE IInv
  OBVIOUS
<1>1. root \in SUBSET Recaps /\ RootOwn
  BY PushMemoryAssumption DEF PushMemoryInit, RootOwn
<1>2. Off(0) \in Settings
  BY DEF Off, Settings, Rungs
<1>3. TypeInv
  BY <1>1, <1>2 DEF TypeInv, PushMemoryInit
<1>4. KnownOwn /\ NothingAboveTheRung
  BY DEF KnownOwn, NothingAboveTheRung, PushMemoryInit, Off
<1> QED
  BY <1>1, <1>3, <1>4 DEF IInv

LEMMA LaunchInv ==
    ASSUME IInv, NEW p \in Procs, Launch(p) PROVE IInv'
<1> USE DEF IInv
<1>1. PICK rung \in Rungs, memory \in {"off", "on", "no coords"}, writes \in BOOLEAN,
           feedback \in BOOLEAN :
           /\ PushOnly(root, rung)
           /\ run' = [run EXCEPT ![p] =
                  [pc |-> "start", rung |-> rung, memory |-> memory, writes |-> writes,
                   feedback |-> feedback, known |-> root, told |-> {},
                   episodes |-> @.episodes]]
  BY DEF Launch
<1>2. root' = root
  BY DEF Launch
<1>3. run[p] \in Settings /\ root \in SUBSET Recaps
  BY DEF TypeInv
<1> DEFINE new == [pc |-> "start", rung |-> rung, memory |-> memory, writes |-> writes,
                   feedback |-> feedback, known |-> root, told |-> {},
                   episodes |-> run[p].episodes]
<1>4. new \in Settings
  BY <1>3 DEF Settings
<1>5. TypeInv'
  BY <1>1, <1>2, <1>4 DEF TypeInv
<1>6. /\ run'[p].known = root /\ run'[p].rung = rung /\ run'[p].told = {}
      /\ \A q \in Procs \ {p} : run'[q] = run[q]
  BY <1>1 DEF TypeInv
<1>7. RootOwn'
  BY <1>2 DEF RootOwn
<1>8. KnownOwn'
  BY <1>1, <1>6 DEF KnownOwn, RootOwn, PushOnly
<1>9. NothingAboveTheRung'
  BY <1>6 DEF NothingAboveTheRung
<1> QED
  BY <1>5, <1>7, <1>8, <1>9

LEMMA FirstRoundInv ==
    ASSUME IInv, NEW p \in Procs, FirstRound(p) PROVE IInv'
<1> USE DEF IInv
<1> DEFINE rung == run[p].rung
           coords == run[p].memory = "on"
<1>1. run[p] \in Settings /\ rung \in Rungs /\ run[p].known \subseteq Recaps
  BY DEF TypeInv, Settings
<1>2. PICK kept :
          /\ kept \subseteq run[p].known
          /\ run' = [run EXCEPT ![p].pc = "rounds",
                                ![p].told = StateTells(rung) \cup
                                            PreambleTells(rung, coords, kept)]
  <2>1. PICK kept \in IF run[p].memory = "off" THEN {{}} ELSE Retrieved(p) :
           run' = [run EXCEPT ![p].pc = "rounds",
                              ![p].told = StateTells(run[p].rung) \cup
                                  PreambleTells(run[p].rung, run[p].memory = "on", kept)]
    BY DEF FirstRound
  <2>2. kept \subseteq run[p].known
    BY <2>1 DEF Retrieved
  <2> QED
    BY <2>1, <2>2
<1>3. root' = root
  BY DEF FirstRound
<1>4. PreambleTells(rung, coords, kept) \subseteq Allowed(rung)
  <2>1. ASSUME NEW recap \in kept
        PROVE  RecordTells(rung, coords, recap) \subseteq Allowed(rung)
    BY <1>1, <1>2, <2>1, RecordAllowed DEF KnownOwn
  <2> QED
    BY <2>1 DEF PreambleTells
<1>5. StateTells(rung) \subseteq Allowed(rung) /\ Allowed(rung) \subseteq Told
  BY <1>1, AllowedTold
<1> DEFINE told == StateTells(rung) \cup PreambleTells(rung, coords, kept)
<1>6. told \subseteq Allowed(rung) /\ told \subseteq Told
  BY <1>4, <1>5
<1> HIDE DEF told
<1>7. run' = [run EXCEPT ![p] = [@ EXCEPT !.pc = "rounds", !.told = told]]
  BY <1>1, <1>2 DEF told, TypeInv, Settings
<1>8. /\ run'[p] = [run[p] EXCEPT !.pc = "rounds", !.told = told]
      /\ \A q \in Procs \ {p} : run'[q] = run[q]
  BY <1>7 DEF TypeInv
<1>9. run'[p] \in Settings
  BY <1>1, <1>6, <1>8 DEF Settings
<1>10. TypeInv'
  BY <1>3, <1>7, <1>8, <1>9 DEF TypeInv
<1>11. run'[p].known = run[p].known /\ run'[p].rung = rung /\ run'[p].told = told
  BY <1>1, <1>8 DEF Settings
<1>12. RootOwn'
  BY <1>3 DEF RootOwn
<1>13. KnownOwn'
  <2>1. \A q \in Procs : run'[q].known = run[q].known /\ run'[q].rung = run[q].rung
    BY <1>8, <1>11
  <2> QED
    BY <2>1 DEF KnownOwn
<1>14. NothingAboveTheRung'
  BY <1>6, <1>8, <1>11 DEF NothingAboveTheRung
<1> QED
  BY <1>10, <1>12, <1>13, <1>14

LEMMA LaterRoundInv ==
    ASSUME IInv, NEW p \in Procs, LaterRound(p) PROVE IInv'
<1> USE DEF IInv
<1> DEFINE rung == run[p].rung
           told == StateTells(rung) \cup ReportTells(rung, run[p].feedback)
<1>1. run[p] \in Settings /\ rung \in Rungs /\ run[p].feedback \in BOOLEAN
  BY DEF TypeInv, Settings
<1>2. told \subseteq Allowed(rung) /\ told \subseteq Told
  BY <1>1, AllowedTold
<1>3. root' = root /\ run' = [run EXCEPT ![p].told = told]
  BY DEF LaterRound
<1> HIDE DEF told
<1>4. /\ run'[p] = [run[p] EXCEPT !.told = told]
      /\ \A q \in Procs \ {p} : run'[q] = run[q]
  BY <1>3 DEF TypeInv
<1>5. run'[p] \in Settings
  BY <1>1, <1>2, <1>4 DEF Settings
<1>6. TypeInv'
  BY <1>3, <1>4, <1>5 DEF TypeInv
<1>7. run'[p].known = run[p].known /\ run'[p].rung = rung /\ run'[p].told = told
  BY <1>1, <1>4 DEF Settings
<1>8. RootOwn' /\ KnownOwn' /\ NothingAboveTheRung'
  BY <1>2, <1>3, <1>4, <1>7 DEF RootOwn, KnownOwn, NothingAboveTheRung
<1> QED
  BY <1>6, <1>8

LEMMA EndEpisodeInv ==
    ASSUME IInv, NEW p \in Procs, EndEpisode(p) PROVE IInv'
<1> USE DEF IInv
<1> DEFINE rung == run[p].rung
<1>1. run[p] \in Settings /\ rung \in Rungs /\ run[p].known \subseteq Recaps
  BY DEF TypeInv, Settings
<1>2. PICK e \in Episodes, answered \in BOOLEAN :
           LET asks == run[p].writes /\ e.dists # <<>>
               new == IF asks /\ answered THEN {RecapOf(run[p].rung, e)} ELSE {}
           IN  /\ root' = root \cup new
               /\ run' = [run EXCEPT ![p].pc = "ended",
                              ![p].told = IF asks THEN RecapTells(run[p].rung, e) ELSE {},
                              ![p].known = @ \cup new,
                              ![p].episodes = @ + 1]
  BY DEF EndEpisode
<1> DEFINE asks == run[p].writes /\ e.dists # <<>>
           told == IF asks THEN RecapTells(rung, e) ELSE {}
           new == IF asks /\ answered THEN {RecapOf(rung, e)} ELSE {}
<1>3. told \subseteq Allowed(rung) /\ told \subseteq Told
  BY <1>1, RecapAllowed, AllowedTold
<1>4. \A recap \in new :
          recap \in Recaps /\ recap.task = "push" /\ recap.rung = rung /\ OwnRung(recap)
  BY <1>1, RecapTyped
<1>5. /\ root' = root \cup new
      /\ run'[p] = [run[p] EXCEPT !.pc = "ended", !.told = told,
                                  !.known = run[p].known \cup new,
                                  !.episodes = run[p].episodes + 1]
      /\ \A q \in Procs \ {p} : run'[q] = run[q]
      /\ DOMAIN run' = Procs /\ run' = [q \in Procs |-> run'[q]]
  BY <1>1, <1>2 DEF TypeInv, Settings
<1> HIDE DEF asks, told, new
<1>6. run'[p] \in Settings
  <2>1. run[p].known \cup new \in SUBSET Recaps
    BY <1>1, <1>4
  <2>2. run[p].episodes \in Nat
    BY <1>1 DEF Settings
  <2>3. run[p].episodes + 1 \in Nat
    BY <2>2
  <2> QED
    BY <1>1, <1>3, <1>5, <2>1, <2>3 DEF Settings
<1>7. TypeInv'
  BY <1>4, <1>5, <1>6 DEF TypeInv
<1>8. /\ run'[p].known = run[p].known \cup new
      /\ run'[p].rung = rung
      /\ run'[p].told = told
  BY <1>1, <1>5 DEF Settings
<1>9. RootOwn'
  BY <1>4, <1>5 DEF RootOwn
<1>10. KnownOwn'
  <2>1. ASSUME NEW q \in Procs, NEW recap \in run'[q].known
        PROVE  recap.task = "push" /\ recap.rung = run'[q].rung /\ OwnRung(recap)
    <3>1. CASE q = p
      BY <1>4, <1>8, <2>1, <3>1 DEF KnownOwn
    <3>2. CASE q # p
      BY <1>5, <2>1, <3>2 DEF KnownOwn
    <3> QED
      BY <3>1, <3>2
  <2> QED
    BY <2>1 DEF KnownOwn
<1>11. NothingAboveTheRung'
  BY <1>3, <1>5, <1>8 DEF NothingAboveTheRung
<1> QED
  BY <1>7, <1>9, <1>10, <1>11

LEMMA NextEpisodeInv ==
    ASSUME IInv, NEW p \in Procs, NextEpisode(p) PROVE IInv'
<1> USE DEF IInv
<1>1. run[p] \in Settings
  BY DEF TypeInv
<1>2. root' = root /\ run' = [run EXCEPT ![p].pc = "start"]
  BY DEF NextEpisode
<1>3. /\ run'[p] = [run[p] EXCEPT !.pc = "start"]
      /\ \A q \in Procs \ {p} : run'[q] = run[q]
  BY <1>2 DEF TypeInv
<1>4. run'[p] \in Settings
  BY <1>1, <1>3 DEF Settings
<1>5. TypeInv'
  BY <1>2, <1>3, <1>4 DEF TypeInv
<1>6. /\ run'[p].known = run[p].known
      /\ run'[p].rung = run[p].rung
      /\ run'[p].told = run[p].told
  BY <1>1, <1>3 DEF Settings
<1>7. RootOwn' /\ KnownOwn' /\ NothingAboveTheRung'
  BY <1>2, <1>3, <1>6 DEF RootOwn, KnownOwn, NothingAboveTheRung
<1> QED
  BY <1>5, <1>7

LEMMA LeaveInv ==
    ASSUME IInv, NEW p \in Procs, Leave(p) PROVE IInv'
<1> USE DEF IInv
<1>1. run[p].episodes \in Nat
  BY DEF TypeInv, Settings
<1>2. root' = root /\ run' = [run EXCEPT ![p] = Off(run[p].episodes)]
  BY DEF Leave
<1>3. Off(run[p].episodes) \in Settings
  BY <1>1 DEF Off, Settings, Rungs
<1>4. run'[p] = Off(run[p].episodes) /\ \A q \in Procs \ {p} : run'[q] = run[q]
  BY <1>2 DEF TypeInv
<1>5. TypeInv'
  BY <1>2, <1>3 DEF TypeInv
<1>6. RootOwn' /\ KnownOwn' /\ NothingAboveTheRung'
  BY <1>2, <1>4 DEF RootOwn, KnownOwn, NothingAboveTheRung, Off
<1> QED
  BY <1>5, <1>6

LEMMA NextInv == IInv /\ [PushMemoryNext]_pushMemoryVars => IInv'
<1> SUFFICES ASSUME IInv, [PushMemoryNext]_pushMemoryVars PROVE IInv'
  OBVIOUS
<1>1. CASE UNCHANGED pushMemoryVars
  BY <1>1 DEF pushMemoryVars, IInv, TypeInv, RootOwn, KnownOwn, NothingAboveTheRung
<1>2. CASE PushMemoryNext
  BY <1>2, LaunchInv, FirstRoundInv, LaterRoundInv, EndEpisodeInv, NextEpisodeInv,
     LeaveInv DEF PushMemoryNext
<1> QED
  BY <1>1, <1>2

\* No prompt tells the model more ground truth than the rung of its run discloses:
\* whatever the root held, however many runs share it and whatever their episodes.
THEOREM RungKept == PushMemorySpec => []NothingAboveTheRung
<1>1. IInv => NothingAboveTheRung
  BY DEF IInv
<1> QED
  BY InitInv, NextInv, <1>1, PTL DEF PushMemorySpec

-----------------------------------------------------------------------------
(* Numbers, for the proofs about PushGeometry.                              *)

\* A set of numbers that is not empty has a least one.
LEMMA LeastOf ==
    ASSUME NEW S \in SUBSET Nat, S # {}
    PROVE  \E m \in S : \A k \in S : m <= k
<1> DEFINE R == OpToRel(<, Nat)
<1>1. IsWellFoundedOn(R, Nat)
  BY NatLessThanWellFounded
<1>2. PICK m \in S : \A k \in S : ~(<<k, m>> \in R)
  <2> HIDE DEF R
  <2> QED
    BY <1>1, WFMin
<1>3. \A k \in S : k < m => <<k, m>> \in R
  BY DEF OpToRel
<1> HIDE DEF R
<1>4. \A k \in S : ~(k < m)
  BY <1>2, <1>3
<1> QED
  BY <1>4

\* What holds of 0 and with each number of the next one holds of them all.
LEMMA StepByStep ==
    ASSUME NEW Good, 0 \in Good, \A n \in Nat : n \in Good => n + 1 \in Good
    PROVE  Nat \subseteq Good
<1> SUFFICES ASSUME NEW bad \in Nat, bad \notin Good
             PROVE  FALSE
  OBVIOUS
<1> DEFINE Bad == {n \in Nat : n \notin Good}
<1>1. Bad \in SUBSET Nat /\ Bad # {}
  OBVIOUS
<1>2. PICK m \in Bad : \A k \in Bad : m <= k
  <2> HIDE DEF Bad
  <2> QED
    BY <1>1, LeastOf
<1>3. m \in Nat \ {0} /\ m - 1 \in Nat
  OBVIOUS
<1>4. m - 1 \in Good
  BY <1>2, <1>3
<1> QED
  BY <1>3, <1>4

-----------------------------------------------------------------------------
(* A scan that is stopped and resumed.                                      *)

\* The recursion of Scan, up to n.
IsScan(f, loaded, configs, trials, n) ==
    f = [k \in 0..n |-> IF k = 0 THEN loaded
                        ELSE ScanStep(f[k - 1], configs[k], trials[k])]

\* It has a solution.
LEMMA ScanExists ==
    \A loaded, configs, trials : \A n \in Nat : \E f : IsScan(f, loaded, configs, trials, n)
<1> SUFFICES ASSUME NEW loaded, NEW configs, NEW trials
             PROVE  \A n \in Nat : \E f : IsScan(f, loaded, configs, trials, n)
  OBVIOUS
<1> DEFINE Good == {n \in Nat : \E f : IsScan(f, loaded, configs, trials, n)}
<1>1. 0 \in Good
  <2> DEFINE f == [k \in 0..0 |-> loaded]
  <2>1. IsScan(f, loaded, configs, trials, 0)
    BY DEF IsScan
  <2> QED
    BY <2>1
<1>2. ASSUME NEW n \in Nat, n \in Good
      PROVE  n + 1 \in Good
  <2>1. PICK f : IsScan(f, loaded, configs, trials, n)
    BY <1>2
  <2> DEFINE last == ScanStep(f[n], configs[n + 1], trials[n + 1])
             g == [k \in 0..(n + 1) |-> IF k <= n THEN f[k] ELSE last]
  <2>2. \A k \in 0..(n + 1) :
            g[k] = (IF k = 0 THEN loaded
                    ELSE ScanStep(g[k - 1], configs[k], trials[k]))
    <3> SUFFICES ASSUME NEW k \in 0..(n + 1)
                 PROVE  g[k] = (IF k = 0 THEN loaded
                                ELSE ScanStep(g[k - 1], configs[k], trials[k]))
      OBVIOUS
    <3>1. CASE k = 0
      <4>1. f[0] = loaded
        BY <2>1 DEF IsScan
      <4> QED
        BY <3>1, <4>1
    <3>2. CASE k \in 1..n
      <4>1. f[k] = ScanStep(f[k - 1], configs[k], trials[k])
        BY <2>1, <3>2 DEF IsScan
      <4>2. g[k - 1] = f[k - 1] /\ g[k] = f[k]
        BY <3>2
      <4> QED
        BY <3>2, <4>1, <4>2
    <3>3. CASE k = n + 1
      <4>1. g[k - 1] = f[n] /\ g[k] = last
        BY <3>3
      <4> QED
        BY <3>3, <4>1
    <3> QED
      BY <3>1, <3>2, <3>3
  <2>3. IsScan(g, loaded, configs, trials, n + 1)
    <3>1. g = [k \in 0..(n + 1) |-> g[k]]
      OBVIOUS
    <3> HIDE DEF g
    <3> QED
      BY <2>2, <3>1 DEF IsScan
  <2> HIDE DEF g
  <2> QED
    BY <2>3
<1> HIDE DEF Good
<1>3. Nat \subseteq Good
  BY <1>1, <1>2, StepByStep
<1> QED
  BY <1>3 DEF Good

\* Two solutions agree as far as both go.
LEMMA ScansAgree ==
    ASSUME NEW loaded, NEW configs, NEW trials, NEW n \in Nat, NEW m \in Nat, NEW f, NEW g,
           IsScan(f, loaded, configs, trials, n), IsScan(g, loaded, configs, trials, m)
    PROVE  \A k \in Nat : k <= n /\ k <= m => f[k] = g[k]
<1> DEFINE Good == {k \in Nat : k <= n /\ k <= m => f[k] = g[k]}
<1>1. 0 \in Good
  BY DEF IsScan
<1>2. ASSUME NEW k \in Nat, k \in Good
      PROVE  k + 1 \in Good
  <2> SUFFICES ASSUME k + 1 <= n, k + 1 <= m
               PROVE  f[k + 1] = g[k + 1]
    OBVIOUS
  <2>1. f[k] = g[k]
    BY <1>2
  <2>2. f[k + 1] = ScanStep(f[k], configs[k + 1], trials[k + 1])
    BY DEF IsScan
  <2>3. g[k + 1] = ScanStep(g[k], configs[k + 1], trials[k + 1])
    BY DEF IsScan
  <2> QED
    BY <2>1, <2>2, <2>3
<1> HIDE DEF Good
<1>3. Nat \subseteq Good
  BY <1>1, <1>2, StepByStep
<1> QED
  BY <1>3 DEF Good

\* A scan is the last value of its recursion.
LEMMA ScanIs ==
    ASSUME NEW loaded, NEW configs, NEW trials, NEW n \in Nat
    PROVE  \E f : IsScan(f, loaded, configs, trials, n)
                    /\ Scan(loaded, configs, trials, n) = f[n]
<1> DEFINE f == CHOOSE g : IsScan(g, loaded, configs, trials, n)
<1>1. IsScan(f, loaded, configs, trials, n)
  BY ScanExists
<1>2. Scan(loaded, configs, trials, n) = f[n]
  BY DEF Scan, IsScan
<1> HIDE DEF f
<1> QED
  BY <1>1, <1>2

\* A scan of nothing is what was loaded.
LEMMA ScanNone ==
    ASSUME NEW loaded, NEW configs, NEW trials
    PROVE  Scan(loaded, configs, trials, 0) = loaded
<1>1. PICK f : /\ IsScan(f, loaded, configs, trials, 0)
               /\ Scan(loaded, configs, trials, 0) = f[0]
  BY ScanIs
<1> QED
  BY <1>1 DEF IsScan

\* A longer scan judges one more.
LEMMA ScanMore ==
    \A loaded, configs, trials : \A n, m \in Nat :
        m = n + 1 =>
            Scan(loaded, configs, trials, m) =
                ScanStep(Scan(loaded, configs, trials, n), configs[m], trials[m])
<1> SUFFICES ASSUME NEW loaded, NEW configs, NEW trials, NEW n \in Nat, NEW m \in Nat,
                    m = n + 1
             PROVE  Scan(loaded, configs, trials, m) =
                        ScanStep(Scan(loaded, configs, trials, n), configs[m], trials[m])
  OBVIOUS
<1>1. PICK f : /\ IsScan(f, loaded, configs, trials, n)
               /\ Scan(loaded, configs, trials, n) = f[n]
  BY ScanIs
<1>2. PICK g : /\ IsScan(g, loaded, configs, trials, m)
               /\ Scan(loaded, configs, trials, m) = g[m]
  BY ScanIs
<1>3. f[n] = g[n]
  BY <1>1, <1>2, ScansAgree
<1>4. g[m] = ScanStep(g[n], configs[m], trials[m])
  BY <1>2 DEF IsScan
<1> QED
  BY <1>1, <1>2, <1>3, <1>4

\* The records that a scan of these configurations makes.
Ran(configs, trials) == {RunConfig(configs[i], trials[i]) : i \in Nat}
Skipped(configs) == {[config |-> configs[i], reason |-> SkipReason(configs[i])] : i \in Nat}

Checkpoint(configs, trials) ==
    [results : Seq(Ran(configs, trials)), skipped : Seq(Skipped(configs))]

\* No configuration has two records.
JudgedOnce(saved) ==
    /\ \A i, j \in DOMAIN saved.results :
          saved.results[i].config = saved.results[j].config => i = j
    /\ \A i, j \in DOMAIN saved.skipped :
          saved.skipped[i].config = saved.skipped[j].config => i = j
    /\ \A i \in DOMAIN saved.results, j \in DOMAIN saved.skipped :
          saved.results[i].config # saved.skipped[j].config

\* What is named by the entries of a sequence, with one more at its end.
LEMMA NamesMore ==
    ASSUME NEW T, NEW s \in Seq(T), NEW x \in T
    PROVE  {r.config : r \in ToSet(Append(s, x))}
               = {r.config : r \in ToSet(s)} \cup {x.config}
<1>1. ToSet(Append(s, x)) = ToSet(s) \cup {x}
  <2>1. PICK n \in Nat : n = Len(s) /\ DOMAIN s = 1..n
    BY LenProperties
  <2>2. PICK t : t = Append(s, x)
    OBVIOUS
  <2>3. /\ DOMAIN t = 1..(n + 1) /\ t[n + 1] = x
        /\ \A i \in 1..n : t[i] = s[i]
    BY <2>1, <2>2, AppendProperties
  <2>4. ToSet(t) = ToSet(s) \cup {x}
    <3>1. \A y : y \in ToSet(t) <=> \E i \in 1..(n + 1) : t[i] = y
      BY <2>3 DEF ToSet
    <3>2. \A y : y \in ToSet(s) <=> \E i \in 1..n : s[i] = y
      BY <2>1 DEF ToSet
    <3>3. \A y : y \in ToSet(t) => y \in ToSet(s) \cup {x}
      BY <2>3, <3>1, <3>2
    <3>4. \A y : y \in ToSet(s) => y \in ToSet(t)
      BY <2>3, <3>1, <3>2
    <3>5. x \in ToSet(t)
      BY <2>3, <3>1
    <3> QED
      BY <3>3, <3>4, <3>5
  <2> QED
    BY <2>2, <2>4
<1> QED
  BY <1>1

\* No two entries of a sequence name the same, with one more that names another.
LEMMA DifferMore ==
    ASSUME NEW T, NEW s \in Seq(T), NEW x \in T,
           \A i, j \in DOMAIN s : s[i].config = s[j].config => i = j,
           x.config \notin {r.config : r \in ToSet(s)}
    PROVE  \A i, j \in DOMAIN Append(s, x) :
               Append(s, x)[i].config = Append(s, x)[j].config => i = j
<1>1. PICK n \in Nat : n = Len(s) /\ DOMAIN s = 1..n
  BY LenProperties
<1>2. PICK t : t = Append(s, x)
  OBVIOUS
<1>3. /\ DOMAIN t = 1..(n + 1) /\ t[n + 1] = x
      /\ \A i \in 1..n : t[i] = s[i]
  BY <1>1, <1>2, AppendProperties
<1>4. \A i \in 1..n : s[i].config # x.config
  BY <1>1 DEF ToSet
<1>5. \A i, j \in 1..(n + 1) : t[i].config = t[j].config => i = j
  <2> SUFFICES ASSUME NEW i \in 1..(n + 1), NEW j \in 1..(n + 1), t[i].config = t[j].config
               PROVE  i = j
    OBVIOUS
  <2>1. CASE i \in 1..n /\ j \in 1..n
    BY <1>1, <1>3, <2>1
  <2>2. CASE i = n + 1 /\ j \in 1..n
    BY <1>3, <1>4, <2>2
  <2>3. CASE i \in 1..n /\ j = n + 1
    BY <1>3, <1>4, <2>3
  <2> QED
    BY <2>1, <2>2, <2>3
<1> QED
  BY <1>2, <1>3, <1>5

\* What names no entry of a sequence names none.
LEMMA NamesAre ==
    ASSUME NEW s
    PROVE  \A y : y \in {r.config : r \in ToSet(s)} <=> \E i \in DOMAIN s : s[i].config = y
  BY DEF ToSet

\* One step completes its configuration, and judges it at most once.
LEMMA StepCompletes ==
    ASSUME NEW configs, NEW trials, NEW saved \in Checkpoint(configs, trials), NEW i \in Nat
    PROVE  LET next == ScanStep(saved, configs[i], trials[i])
           IN  /\ next \in Checkpoint(configs, trials)
               /\ Completed(next) = Completed(saved) \cup {configs[i]}
               /\ JudgedOnce(saved) => JudgedOnce(next)
               /\ configs[i] \in Completed(saved) => next = saved
<1>1. PICK c : c = configs[i]
  OBVIOUS
<1>2. PICK next : next = ScanStep(saved, c, trials[i])
  OBVIOUS
<1>3. PICK R, K : R = Ran(configs, trials) /\ K = Skipped(configs)
  OBVIOUS
<1>4. /\ saved = [results |-> saved.results, skipped |-> saved.skipped]
      /\ saved.results \in Seq(R) /\ saved.skipped \in Seq(K)
  BY <1>3 DEF Checkpoint
<1>5. CASE c \in Completed(saved)
  <2>1. next = saved
    BY <1>2, <1>5 DEF ScanStep
  <2> QED
    BY <1>1, <1>2, <1>5, <2>1
<1>6. CASE c \notin Completed(saved) /\ SkipReason(c) # {}
  <2>1. PICK x : x = [config |-> c, reason |-> SkipReason(c)]
    OBVIOUS
  <2>2. x \in K /\ x.config = c
    BY <1>1, <1>3, <2>1 DEF Skipped
  <2>3. PICK s : s = Append(saved.skipped, x)
    OBVIOUS
  <2>4. s \in Seq(K)
    BY <1>4, <2>2, <2>3, AppendProperties
  <2>5. next = [saved EXCEPT !.skipped = s]
    BY <1>2, <1>6, <2>1, <2>3 DEF ScanStep
  <2>6. next = [results |-> saved.results, skipped |-> s]
    BY <1>4, <2>5
  <2>7. next \in Checkpoint(configs, trials)
    BY <1>3, <1>4, <2>4, <2>6 DEF Checkpoint
  <2>8. {r.config : r \in ToSet(s)} = {r.config : r \in ToSet(saved.skipped)} \cup {c}
    BY <1>4, <2>2, <2>3, NamesMore
  <2>9. Completed(next) = Completed(saved) \cup {c}
    BY <2>6, <2>8 DEF Completed
  <2>10. c \notin {r.config : r \in ToSet(saved.results)}
         /\ c \notin {r.config : r \in ToSet(saved.skipped)}
    BY <1>6 DEF Completed
  <2>11. ASSUME JudgedOnce(saved) PROVE JudgedOnce(next)
    <3>1. \A p, q \in DOMAIN s : s[p].config = s[q].config => p = q
      <4>1. \A p, q \in DOMAIN saved.skipped :
                saved.skipped[p].config = saved.skipped[q].config => p = q
        BY <2>11 DEF JudgedOnce
      <4> QED
        BY <1>4, <2>2, <2>3, <2>10, <4>1, DifferMore
    <3>2. \A p \in DOMAIN saved.results, q \in DOMAIN s :
              saved.results[p].config # s[q].config
      <4> SUFFICES ASSUME NEW p \in DOMAIN saved.results, NEW q \in DOMAIN s,
                          saved.results[p].config = s[q].config
                   PROVE  FALSE
        OBVIOUS
      <4>1. s[q].config \in {r.config : r \in ToSet(saved.skipped)} \cup {c}
        BY <2>8, NamesAre
      <4>2. saved.results[p].config \in {r.config : r \in ToSet(saved.results)}
        BY NamesAre
      <4>3. PICK y : y = s[q].config /\ y \in {r.config : r \in ToSet(saved.skipped)}
        BY <2>10, <4>1, <4>2
      <4>4. \E u \in DOMAIN saved.skipped : saved.skipped[u].config = y
        BY <4>3 DEF ToSet
      <4> QED
        BY <2>11, <4>3, <4>4 DEF JudgedOnce
    <3>3. \A p, q \in DOMAIN saved.results :
              saved.results[p].config = saved.results[q].config => p = q
      BY <2>11 DEF JudgedOnce
    <3> QED
      BY <2>6, <3>1, <3>2, <3>3 DEF JudgedOnce
  <2> QED
    BY <1>1, <1>2, <1>6, <2>7, <2>9, <2>11
<1>7. CASE c \notin Completed(saved) /\ SkipReason(c) = {}
  <2>1. PICK x : x = RunConfig(c, trials[i])
    OBVIOUS
  <2>2. x \in R /\ x.config = c
    <3>1. x \in R
      BY <1>1, <1>3, <2>1 DEF Ran
    <3>2. x.config = c
      BY <2>1 DEF RunConfig
    <3> QED
      BY <3>1, <3>2
  <2>3. PICK s : s = Append(saved.results, x)
    OBVIOUS
  <2>4. s \in Seq(R)
    BY <1>4, <2>2, <2>3, AppendProperties
  <2>5. next = [saved EXCEPT !.results = s]
    BY <1>2, <1>7, <2>1, <2>3 DEF ScanStep
  <2>6. next = [results |-> s, skipped |-> saved.skipped]
    BY <1>4, <2>5
  <2>7. next \in Checkpoint(configs, trials)
    BY <1>3, <1>4, <2>4, <2>6 DEF Checkpoint
  <2>8. {r.config : r \in ToSet(s)} = {r.config : r \in ToSet(saved.results)} \cup {c}
    BY <1>4, <2>2, <2>3, NamesMore
  <2>9. Completed(next) = Completed(saved) \cup {c}
    BY <2>6, <2>8 DEF Completed
  <2>10. c \notin {r.config : r \in ToSet(saved.results)}
         /\ c \notin {r.config : r \in ToSet(saved.skipped)}
    BY <1>7 DEF Completed
  <2>11. ASSUME JudgedOnce(saved) PROVE JudgedOnce(next)
    <3>1. \A p, q \in DOMAIN s : s[p].config = s[q].config => p = q
      <4>1. \A p, q \in DOMAIN saved.results :
                saved.results[p].config = saved.results[q].config => p = q
        BY <2>11 DEF JudgedOnce
      <4> QED
        BY <1>4, <2>2, <2>3, <2>10, <4>1, DifferMore
    <3>2. \A p \in DOMAIN s, q \in DOMAIN saved.skipped :
              s[p].config # saved.skipped[q].config
      <4> SUFFICES ASSUME NEW p \in DOMAIN s, NEW q \in DOMAIN saved.skipped,
                          s[p].config = saved.skipped[q].config
                   PROVE  FALSE
        OBVIOUS
      <4>1. s[p].config \in {r.config : r \in ToSet(saved.results)} \cup {c}
        BY <2>8, NamesAre
      <4>2. saved.skipped[q].config \in {r.config : r \in ToSet(saved.skipped)}
        BY NamesAre
      <4>3. PICK y : y = s[p].config /\ y \in {r.config : r \in ToSet(saved.results)}
        BY <2>10, <4>1, <4>2
      <4>4. \E u \in DOMAIN saved.results : saved.results[u].config = y
        BY <4>3 DEF ToSet
      <4> QED
        BY <2>11, <4>3, <4>4 DEF JudgedOnce
    <3>3. \A p, q \in DOMAIN saved.skipped :
              saved.skipped[p].config = saved.skipped[q].config => p = q
      BY <2>11 DEF JudgedOnce
    <3> QED
      BY <2>6, <3>1, <3>2, <3>3 DEF JudgedOnce
  <2> QED
    BY <1>1, <1>2, <1>7, <2>7, <2>9, <2>11
<1> QED
  BY <1>5, <1>6, <1>7

\* What a scan has completed, after any number of configurations.
LEMMA ScanCompletes ==
    ASSUME NEW configs, NEW trials
    PROVE  \A n \in Nat :
               /\ Scan(NoCheckpoint, configs, trials, n) \in Checkpoint(configs, trials)
               /\ Completed(Scan(NoCheckpoint, configs, trials, n))
                      = {configs[i] : i \in 1..n}
               /\ JudgedOnce(Scan(NoCheckpoint, configs, trials, n))
<1> DEFINE After(n) == Scan(NoCheckpoint, configs, trials, n)
           Good == {n \in Nat : /\ After(n) \in Checkpoint(configs, trials)
                                /\ Completed(After(n)) = {configs[i] : i \in 1..n}
                                /\ JudgedOnce(After(n))}
<1>1. /\ After(0) = NoCheckpoint
      /\ \A n \in Nat : After(n + 1) = ScanStep(After(n), configs[n + 1], trials[n + 1])
  <2>1. After(0) = NoCheckpoint
    BY ScanNone, ScanMore
  <2>2. ASSUME NEW n \in Nat
        PROVE  After(n + 1) = ScanStep(After(n), configs[n + 1], trials[n + 1])
    BY ScanNone, ScanMore
  <2> QED
    BY <2>1, <2>2
<1> HIDE DEF After
<1>2. 0 \in Good
  <2>1. NoCheckpoint \in Checkpoint(configs, trials)
    BY EmptySeq DEF NoCheckpoint, Checkpoint
  <2>2. Completed(NoCheckpoint) = {}
    BY DEF NoCheckpoint, Completed, ToSet
  <2>3. JudgedOnce(NoCheckpoint)
    BY DEF NoCheckpoint, JudgedOnce
  <2>4. {configs[i] : i \in 1..0} = {}
    OBVIOUS
  <2> QED
    BY <1>1, <2>1, <2>2, <2>3, <2>4
<1>3. ASSUME NEW n \in Nat, n \in Good
      PROVE  n + 1 \in Good
  <2>1. PICK saved : saved = After(n)
    OBVIOUS
  <2>2. /\ saved \in Checkpoint(configs, trials)
        /\ Completed(saved) = {configs[i] : i \in 1..n}
        /\ JudgedOnce(saved)
    BY <1>3, <2>1
  <2>3. PICK next : next = ScanStep(saved, configs[n + 1], trials[n + 1])
    OBVIOUS
  <2>4. /\ next \in Checkpoint(configs, trials)
        /\ Completed(next) = Completed(saved) \cup {configs[n + 1]}
        /\ JudgedOnce(next)
    BY <2>2, <2>3, StepCompletes
  <2>5. {configs[i] : i \in 1..(n + 1)} = {configs[i] : i \in 1..n} \cup {configs[n + 1]}
    OBVIOUS
  <2>6. After(n + 1) = next
    BY <1>1, <2>1, <2>3
  <2> QED
    BY <2>2, <2>4, <2>5, <2>6
<1> HIDE DEF Good
<1>4. Nat \subseteq Good
  BY <1>2, <1>3, StepByStep
<1> QED
  BY <1>4 DEF Good, After

\* A reachability scan that is stopped after any of its configurations and resumed
\* with the same grid ends with the file of a scan that was not stopped; it has
\* completed every configuration and judged none of them twice
\* (wp3a_reach_scan_p4c.py: save_checkpoint, load_completed_keys).
THEOREM ResumedScanIsWhole ==
    ASSUME NEW configs, NEW trials, NEW n \in Nat, NEW k \in 0..n
    PROVE  LET whole == Scan(NoCheckpoint, configs, trials, n)
               stopped == Scan(NoCheckpoint, configs, trials, k)
           IN  /\ Scan(FromFile(TRUE, {stopped}), configs, trials, n) = whole
               /\ Completed(whole) = {configs[i] : i \in 1..n}
               /\ JudgedOnce(whole)
<1>1. PICK stopped : stopped = Scan(NoCheckpoint, configs, trials, k)
  OBVIOUS
<1>2. FromFile(TRUE, {stopped}) = stopped
  BY DEF FromFile
<1> DEFINE Resumed(j) == Scan(stopped, configs, trials, j)
           After(j) == Scan(NoCheckpoint, configs, trials, j)
           Good == {j \in Nat : Resumed(j) = IF j <= k THEN stopped ELSE After(j)}
<1>3. Resumed(0) = stopped /\ \A j \in Nat :
          Resumed(j + 1) = ScanStep(Resumed(j), configs[j + 1], trials[j + 1])
  BY ScanNone, ScanMore
<1>4. \A j \in Nat : After(j + 1) = ScanStep(After(j), configs[j + 1], trials[j + 1])
  BY ScanNone, ScanMore
<1>5. After(k) = stopped
  BY <1>1
<1>6. /\ stopped \in Checkpoint(configs, trials)
      /\ Completed(stopped) = {configs[i] : i \in 1..k}
  BY <1>1, ScanCompletes
<1> HIDE DEF Resumed, After
<1>7. 0 \in Good
  BY <1>3
<1>8. ASSUME NEW j \in Nat, j \in Good
      PROVE  j + 1 \in Good
  <2>1. CASE j + 1 <= k
    <3>1. configs[j + 1] \in Completed(stopped)
      BY <1>6, <2>1
    <3>2. ScanStep(stopped, configs[j + 1], trials[j + 1]) = stopped
      BY <3>1 DEF ScanStep
    <3>3. Resumed(j) = stopped
      BY <1>8, <2>1
    <3> QED
      BY <1>3, <2>1, <3>2, <3>3
  <2>2. CASE ~(j + 1 <= k)
    <3>1. Resumed(j) = After(j)
      BY <1>5, <1>8, <2>2
    <3> QED
      BY <1>3, <1>4, <2>2, <3>1
  <2> QED
    BY <2>1, <2>2
<1> HIDE DEF Good
<1>9. Nat \subseteq Good
  BY <1>7, <1>8, StepByStep
<1>10. Resumed(n) = After(n)
  BY <1>5, <1>9 DEF Good
<1>11. Scan(FromFile(TRUE, {stopped}), configs, trials, n)
           = Scan(NoCheckpoint, configs, trials, n)
  BY <1>2, <1>10 DEF Resumed, After
<1> QED
  BY <1>1, <1>11, ScanCompletes

-----------------------------------------------------------------------------
(* The region that is derived from a scan with even angles.                 *)

\* Arithmetic on a grid: division by the step,
LEMMA DivExact ==
    \A s \in Nat \ {0} : \A a \in Int : (s * a) \div s = a
  OBVIOUS

\* what fits below a bound,
LEMMA DivBounds ==
    \A s \in Nat \ {0} : \A a, b \in Nat : s * a <= b => a <= b \div s
  OBVIOUS

\* the order of multiples,
LEMMA TimesMonotone ==
    \A s \in Nat : \A a, b \in Int : a <= b => s * a <= s * b
  OBVIOUS

\* of which the factors can be read off,
LEMMA TimesStrict ==
    \A s \in Nat \ {0} : \A a, b \in Int : s * a <= s * b => a <= b
  OBVIOUS

\* and the steps to both sides of 0.
LEMMA TimesAround ==
    \A s \in Nat \ {0} : \A m, i \in Int :
        /\ -(s * m) + (i + m) * s = s * i
        /\ s * m - -(s * m) = s * (2 * m)
  OBVIOUS

\* All distances in one direction from one point.
AngleSolved(scan, x, y, theta) ==
    \A d \in scan.dists :
        LET c == [x |-> x, y |-> y, theta |-> theta, dist |-> d]
        IN  c \in DOMAIN scan.results /\ Solvable(scan.results[c])

\* A point solved up to m steps to both sides is one solved at each of them.
LEMMA SolvedAround ==
    ASSUME NEW scan, NEW x, NEW y, NEW m \in Nat, NEW step \in Nat \ {0},
           step = ThetaStep(scan.thetas)
    PROVE  PointSolved(scan, x, y, -(step * m), step * m)
               <=> \A i \in -m..m : AngleSolved(scan, x, y, step * i)
<1>1. (step * m - -(step * m)) \div step = 2 * m
  <2>1. step * m - -(step * m) = step * (2 * m)
    BY TimesAround
  <2>2. 2 * m \in Int
    OBVIOUS
  <2> QED
    BY <2>1, <2>2, DivExact
<1>2. PointSolved(scan, x, y, -(step * m), step * m)
          <=> \A j \in 0..(2 * m) : AngleSolved(scan, x, y, -(step * m) + j * step)
  BY <1>1 DEF PointSolved, AngleSolved
<1>3. ASSUME \A j \in 0..(2 * m) : AngleSolved(scan, x, y, -(step * m) + j * step),
             NEW i \in -m..m
      PROVE  AngleSolved(scan, x, y, step * i)
  <2>1. -(step * m) + (i + m) * step = step * i
    BY TimesAround
  <2>2. i + m \in 0..(2 * m)
    OBVIOUS
  <2> QED
    BY <1>3, <2>1, <2>2
<1>4. ASSUME \A i \in -m..m : AngleSolved(scan, x, y, step * i), NEW j \in 0..(2 * m)
      PROVE  AngleSolved(scan, x, y, -(step * m) + j * step)
  <2>1. j - m \in -m..m /\ j - m \in Int
    OBVIOUS
  <2>2. -(step * m) + ((j - m) + m) * step = step * (j - m)
    BY <2>1, TimesAround
  <2>3. (j - m) + m = j
    OBVIOUS
  <2>4. -(step * m) + j * step = step * (j - m)
    BY <2>2, <2>3
  <2> QED
    BY <1>4, <2>1, <2>4
<1> QED
  BY <1>2, <1>3, <1>4

\* A single direction is solved where each distance in it is.
LEMMA SolvedAt ==
    ASSUME NEW scan, NEW x, NEW y, NEW a \in Int, NEW step \in Nat \ {0},
           step = ThetaStep(scan.thetas)
    PROVE  PointSolved(scan, x, y, a, a) <=> AngleSolved(scan, x, y, a)
<1>1. (a - a) \div step = 0
  <2>1. a - a = step * 0
    OBVIOUS
  <2> QED
    BY <2>1, DivExact
<1>2. a + 0 * step = a
  OBVIOUS
<1>3. 0..0 = {0}
  OBVIOUS
<1>4. PointSolved(scan, x, y, a, a)
          <=> \A j \in 0..0 : AngleSolved(scan, x, y, a + j * step)
  BY <1>1 DEF PointSolved, AngleSolved
<1> QED
  BY <1>2, <1>3, <1>4

\* A set of numbers with a bound has a greatest, and Max is at least every one.
LEMMA MaxIsUpper ==
    ASSUME NEW S \in SUBSET Nat, NEW n \in Nat, \A k \in S : k <= n, NEW k \in S
    PROVE  k <= Max(S)
<1> DEFINE Depths == {n - j : j \in S}
<1>1. Depths \in SUBSET Nat /\ Depths # {}
  OBVIOUS
<1>2. PICK d \in Depths : \A e \in Depths : d <= e
  <2> HIDE DEF Depths
  <2> QED
    BY <1>1, LeastOf
<1>3. PICK j \in S : d = n - j
  OBVIOUS
<1>4. \A e \in S : e <= j
  <2> TAKE e \in S
  <2>1. n - j <= n - e
    BY <1>2, <1>3
  <2> QED
    BY <2>1
<1>5. \A e \in S : j >= e
  BY <1>4
<1>6. Max(S) \in S /\ \A e \in S : Max(S) >= e
  BY <1>5 DEF Max
<1> QED
  BY <1>6

\* What a largest box is: it starts beyond the hand, and each of its points is solved.
LEMMA BoxIsSolved ==
    ASSUME NEW scan, NEW theta, NEW box \in LargestBox(scan, theta),
           NEW p \in BoxPoints(scan, box)
    PROVE  /\ KeepOut <= box[1]
           /\ PointSolved(scan, p[1], p[2], -theta, theta)
  BY DEF LargestBox

\* What the derivation presumes of the scanned angles, and does not check: each is a
\* multiple of the step between the two lowest.
EvenAngles(scan) ==
    /\ ThetaStep(scan.thetas) \in Nat \ {0}
    /\ \A th \in scan.thetas : \E i \in Int : th = ThetaStep(scan.thetas) * i

\* The records are of scanned points, angles and distances.
OnGrid(scan) ==
    \A c \in DOMAIN scan.results :
        c \in [x : scan.xs, y : scan.ys, theta : scan.thetas, dist : scan.dists]

\* So they are in whatever the derivation merges.
LEMMA MergeIsOnGrid ==
    ASSUME NEW files,
           \A c \in DOMAIN Merge(files).results :
               c = [x |-> c.x, y |-> c.y, theta |-> c.theta, dist |-> c.dist]
    PROVE  OnGrid(Merge(files))
<1>1. PICK scan : scan = Merge(files)
  OBVIOUS
<1>2. ASSUME NEW c \in DOMAIN scan.results
      PROVE  /\ c.x \in scan.xs /\ c.y \in scan.ys
             /\ c.theta \in scan.thetas /\ c.dist \in scan.dists
  <2>1. {e["x"] : e \in DOMAIN scan.results} \subseteq scan.xs
    BY <1>1 DEF Merge
  <2>2. {e["y"] : e \in DOMAIN scan.results} \subseteq scan.ys
    BY <1>1 DEF Merge
  <2>3. {e["theta"] : e \in DOMAIN scan.results} \subseteq scan.thetas
    BY <1>1 DEF Merge
  <2>4. {e["dist"] : e \in DOMAIN scan.results} \subseteq scan.dists
    BY <1>1 DEF Merge
  <2> QED
    BY <2>1, <2>2, <2>3, <2>4
<1>3. \A c \in DOMAIN scan.results :
          c \in [x : scan.xs, y : scan.ys, theta : scan.thetas, dist : scan.dists]
  BY <1>1, <1>2
<1> QED
  BY <1>1, <1>3 DEF OnGrid

\* A region derived from even angles stands for what was solved: every record in it
\* is solvable, it stays beyond the hand, it reaches as far to either side as the
\* candidate it was derived for, and that of a wider candidate has no more points
\* (wp3a_p4c_derive.py: find_largest_box_for_range, compute_asymmetric_reach).
THEOREM DerivedRegionIsSolved ==
    ASSUME NEW scan, EvenAngles(scan), OnGrid(scan),
           scan.xs \subseteq Int, scan.ys \subseteq Int,
           IsFiniteSet(scan.xs), IsFiniteSet(scan.ys),
           NEW m \in Nat, NEW theta, theta = ThetaStep(scan.thetas) * m,
           NEW box \in LargestBox(scan, theta)
    PROVE  /\ \A c \in DOMAIN scan.results :
                 <<c.x, c.y>> \in BoxPoints(scan, box) /\ Magnitude(c.theta) <= theta
                     => Solvable(scan.results[c])
           /\ \A p \in BoxPoints(scan, box) : KeepOut <= p[1]
           /\ theta <= 90 => \A side \in {1, -1} : theta <= Reach(scan, box, side)
           /\ \A k \in 0..m : \A other \in LargestBox(scan, ThetaStep(scan.thetas) * k) :
                 Cardinality(BoxPoints(scan, box)) <= Cardinality(BoxPoints(scan, other))
<1>1. PICK step \in Nat \ {0} : step = ThetaStep(scan.thetas)
  BY DEF EvenAngles
<1>2. theta = step * m
  BY <1>1
<1>3. \A p \in BoxPoints(scan, box) : PointSolved(scan, p[1], p[2], -theta, theta)
  BY BoxIsSolved
<1>4. \A p \in BoxPoints(scan, box) : \A i \in -m..m :
          AngleSolved(scan, p[1], p[2], step * i)
  BY <1>1, <1>2, <1>3, SolvedAround
<1>5. ASSUME NEW c \in DOMAIN scan.results,
             <<c.x, c.y>> \in BoxPoints(scan, box), Magnitude(c.theta) <= theta
      PROVE  Solvable(scan.results[c])
  <2>1. /\ c = [x |-> c.x, y |-> c.y, theta |-> c.theta, dist |-> c.dist]
        /\ c.theta \in scan.thetas /\ c.dist \in scan.dists
    BY DEF OnGrid
  <2>2. PICK i \in Int : c.theta = step * i
    BY <1>1, <2>1 DEF EvenAngles
  <2>3. step * i <= step * m /\ -(step * i) <= step * m
    BY <1>2, <1>5, <2>2 DEF Magnitude
  <2>4. i <= m /\ -i <= m
    <3>1. -(step * i) = step * (-i)
      OBVIOUS
    <3> QED
      BY <2>3, <3>1, TimesStrict
  <2>5. i \in -m..m
    BY <2>4
  <2>6. PICK p : p = <<c.x, c.y>>
    OBVIOUS
  <2>7. AngleSolved(scan, c.x, c.y, c.theta)
    BY <1>4, <1>5, <2>2, <2>5, <2>6
  <2> QED
    BY <2>1, <2>7 DEF AngleSolved
<1>6. ASSUME NEW p \in BoxPoints(scan, box)
      PROVE  KeepOut <= p[1]
  <2>1. KeepOut <= box[1] /\ box[1] \in Int
    BY DEF LargestBox
  <2>2. p[1] \in Int /\ box[1] - 0 <= p[1]
    BY DEF BoxPoints, Inside
  <2> QED
    BY <2>1, <2>2 DEF KeepOut
<1>7. ASSUME theta <= 90, NEW side \in {1, -1}
      PROVE  theta <= Reach(scan, box, side)
  <2> DEFINE All(th) == \A p \in BoxPoints(scan, box) :
                            PointSolved(scan, p[1], p[2], side * th, side * th)
             S == {0} \cup {step * k : k \in {n \in 0..(90 \div step) :
                                                 \A i \in 0..n : All(step * i)}}
  <2>1. Reach(scan, box, side) = Max(S)
    BY <1>1 DEF Reach
  <2>2. m \in 0..(90 \div step)
    BY <1>2, <1>7, DivBounds
  <2>3. ASSUME NEW i \in 0..m
        PROVE  All(step * i)
    <3>1. side * (step * i) = step * (side * i) /\ side * i \in -m..m
          /\ side * (step * i) \in Int
      OBVIOUS
    <3>2. \A p \in BoxPoints(scan, box) : AngleSolved(scan, p[1], p[2], side * (step * i))
      BY <1>4, <3>1
    <3> QED
      BY <1>1, <3>1, <3>2, SolvedAt
  <2>4. theta \in S
    BY <1>2, <2>2, <2>3
  <2>5. S \in SUBSET Nat
    OBVIOUS
  <2>6. PICK top \in Nat : top = step * (90 \div step)
    OBVIOUS
  <2>7. \A t \in S : t <= top
    BY <2>6, TimesMonotone
  <2> HIDE DEF S
  <2> QED
    BY <2>1, <2>4, <2>5, <2>7, MaxIsUpper
<1>8. ASSUME NEW k \in 0..m, NEW other \in LargestBox(scan, step * k)
      PROVE  Cardinality(BoxPoints(scan, box)) <= Cardinality(BoxPoints(scan, other))
  <2>1. \A b : Cardinality(BoxPoints(scan, b)) \in Nat
    <3> TAKE b
    <3>1. IsFiniteSet(scan.xs \X scan.ys)
      BY FS_Product
    <3>2. BoxPoints(scan, b) \in SUBSET (scan.xs \X scan.ys)
      BY DEF BoxPoints
    <3> QED
      BY <3>1, <3>2, FS_Subset, FS_CardinalityType
  <2>2. ASSUME NEW p \in BoxPoints(scan, box)
        PROVE  PointSolved(scan, p[1], p[2], -(step * k), step * k)
    <3>1. \A i \in -k..k : i \in -m..m
      OBVIOUS
    <3>2. \A i \in -k..k : AngleSolved(scan, p[1], p[2], step * i)
      BY <1>4, <3>1
    <3>3. k \in Nat
      OBVIOUS
    <3> QED
      BY <1>1, <3>2, <3>3, SolvedAround
  <2>3. ~(Cardinality(BoxPoints(scan, box)) > Cardinality(BoxPoints(scan, other)))
    BY <2>2 DEF LargestBox
  <2> QED
    BY <2>1, <2>3
<1> QED
  BY <1>1, <1>5, <1>6, <1>7, <1>8

\* A variant counts as within the goal in the derivation if it ran to its end and its
\* distance is rounded into the radius.
LEMMA WithinIs ==
    ASSUME NEW variant, NEW trial, trial.final \in Nat
    PROVE  Within(Attempt(variant, trial)) <=> trial.end = "ran" /\ trial.final < GoalRadius + 5
<1>1. PICK a : a = Attempt(variant, trial)
  OBVIOUS
<1>2. a.final = {IF trial.end = "ran" THEN Measured(trial.final) ELSE Nowhere}
  BY <1>1 DEF Attempt
<1>3. Within(a) <=> (IF trial.end = "ran" THEN Measured(trial.final) ELSE Nowhere) <= GoalRadius
  BY <1>2 DEF Within
<1>4. Measured(trial.final) <= GoalRadius <=> trial.final < GoalRadius + 5
  BY DEF Measured, GoalRadius
<1>5. ~(Nowhere <= GoalRadius)
  BY DEF Nowhere, GoalRadius
<1> QED
  BY <1>1, <1>3, <1>4, <1>5

\* What the scan calls a success is solvable in the derivation; where they differ a
\* variant that ran was within the radius after it had disturbed the cube, or by the
\* rounding of its record alone (wp3a_reach_scan_p4c.py: run_config_variants;
\* wp3a_p4c_derive.py: is_record_solvable).
THEOREM SolvedIsWider ==
    ASSUME NEW config, NEW trials, \A k \in 1..4 : trials[k].final \in Nat
    PROVE  LET r == RunConfig(config, trials)
           IN  /\ r.success => Solvable(r)
               /\ Solvable(r) /\ ~r.success =>
                      \E k \in DOMAIN r.tried :
                          /\ trials[k].end = "ran"
                          /\ \/ trials[k].moved /\ trials[k].final < GoalRadius + 5
                             \/ trials[k].final \in (GoalRadius + 1)..(GoalRadius + 4)
<1>1. PICK tries : tries = [k \in 1..4 |-> Attempt(Variants[k], trials[k])]
  OBVIOUS
<1>2. \A k \in 1..4 : tries[k].success <=>
          /\ trials[k].end = "ran" /\ trials[k].final <= GoalRadius /\ ~trials[k].moved
  BY <1>1 DEF Attempt
<1>3. \A k \in 1..4 : Within(tries[k]) <=>
          trials[k].end = "ran" /\ trials[k].final < GoalRadius + 5
  BY <1>1, WithinIs
<1>4. PICK won : won = {k \in 1..4 : tries[k].success}
  OBVIOUS
<1>5. PICK last : last = IF won = {} THEN 4 ELSE Min(won)
  OBVIOUS
<1>6. last \in 1..4 /\ (won # {} => last \in won)
  <2>1. CASE won = {}
    BY <1>5, <2>1
  <2>2. CASE won # {}
    <3>1. won \in SUBSET Nat
      BY <1>4
    <3>2. \E least \in won : \A k \in won : least <= k
      BY <2>2, <3>1, LeastOf
    <3>3. Min(won) \in won
      BY <3>2 DEF Min
    <3> QED
      BY <1>4, <1>5, <2>2, <3>3
  <2> QED
    BY <2>1, <2>2
<1>7. PICK r : r = RunConfig(config, trials)
  OBVIOUS
<1>8. r.success <=> won # {}
  <2>1. DOMAIN Variants = 1..4
    BY DEF Variants
  <2> QED
    BY <1>1, <1>4, <1>7, <2>1 DEF RunConfig
<1>9. r.tried = SubSeq(tries, 1, last)
  <2>1. DOMAIN Variants = 1..4
    BY DEF Variants
  <2>2. DOMAIN tries = 1..4 /\ Len(tries) = 4
    BY <1>1
  <2> QED
    BY <1>1, <1>4, <1>5, <1>7, <2>1, <2>2 DEF RunConfig
<1>10. PICK tried : tried = r.tried
  OBVIOUS
<1>11. DOMAIN tried = 1..last /\ Len(tried) = last /\ \A k \in 1..last : tried[k] = tries[k]
  <2>1. PICK T : T = {tries[k] : k \in 1..4}
    OBVIOUS
  <2>2. \A k \in 1..last : tries[k] \in T
    BY <1>6, <2>1
  <2>3. /\ SubSeq(tries, 1, last) \in Seq(T)
        /\ Len(SubSeq(tries, 1, last)) = last
        /\ \A k \in 1..last : SubSeq(tries, 1, last)[k] = tries[k]
    BY <1>6, <2>2, SubSeqProperties
  <2> QED
    BY <1>9, <1>10, <2>3
<1>12. tried # <<>>
  BY <1>6, <1>11
<1>13. Solvable(r) <=> \E k \in 1..last : Within(tries[k])
  <2>1. Solvable(r) <=> \E v \in ToSet(tried) : Within(v)
    BY <1>10, <1>12 DEF Solvable
  <2>2. ToSet(tried) = {tried[k] : k \in 1..last}
    BY <1>11 DEF ToSet
  <2> QED
    BY <1>11, <2>1, <2>2
<1>14. r.success => Solvable(r)
  <2> SUFFICES ASSUME r.success PROVE Within(tries[last])
    BY <1>6, <1>13
  <2>1. tries[last].success /\ trials[last].final \in Nat
    BY <1>4, <1>6, <1>8
  <2> QED
    BY <1>2, <1>3, <1>6, <2>1 DEF GoalRadius
<1>15. ASSUME Solvable(r), ~r.success
       PROVE  \E k \in DOMAIN r.tried :
                  /\ trials[k].end = "ran"
                  /\ \/ trials[k].moved /\ trials[k].final < GoalRadius + 5
                     \/ trials[k].final \in (GoalRadius + 1)..(GoalRadius + 4)
  <2>1. PICK k \in 1..last : Within(tries[k])
    BY <1>13, <1>15
  <2>2. k \in 1..4 /\ k \in DOMAIN r.tried
    BY <1>6, <1>10, <1>11, <2>1
  <2>3. ~tries[k].success
    BY <1>4, <1>8, <1>15, <2>2
  <2>4. trials[k].end = "ran" /\ trials[k].final < GoalRadius + 5
    BY <1>3, <2>1, <2>2
  <2>5. trials[k].moved \/ ~(trials[k].final <= GoalRadius)
    BY <1>2, <2>2, <2>3, <2>4
  <2> QED
    BY <2>2, <2>4, <2>5 DEF GoalRadius
<1> QED
  BY <1>7, <1>14, <1>15

\* Every draw of Pin-4b passes its gate if the cube stays where it was placed: the
\* goal is ahead and not yet reached, clipped or not (cube_relative_goal.py;
\* wp3a_pin4b_gate.py).
THEOREM DrawPassesItsGate ==
    ASSUME NEW x \in Pin4b.x[1]..Pin4b.x[2], NEW y \in Pin4b.y[1]..Pin4b.y[2],
           NEW dx \in Pin4b.offsetX[1]..Pin4b.offsetX[2],
           NEW dy \in Pin4b.offsetY[1]..Pin4b.offsetY[2]
    PROVE  Gate4bPasses([cube |-> <<x, y>>, settled |-> <<x, y>>,
                         goal |-> OffsetReset(<<x, y>>, dx, dy).goal,
                         same |-> TRUE, still |-> TRUE, static |-> TRUE, near |-> TRUE])
<1>1. /\ x \in 380..420 /\ y \in 50..150 /\ dx \in 70..100 /\ dy \in -40..40
  BY DEF Pin4b
<1>2. PICK gx, gy : gx = Clamp(x + dx, <<440, 500>>) /\ gy = Clamp(y + dy, <<70, 190>>)
  OBVIOUS
<1>3. /\ gx \in 440..500 /\ gx - x \in 70..100
      /\ gy \in 70..190 /\ gy - y \in -40..40
  BY <1>1, <1>2 DEF Clamp
<1>4. OffsetReset(<<x, y>>, dx, dy).goal = <<gx, gy>>
  BY <1>2 DEF OffsetReset, Pin4b
<1>5. PICK e : e = [cube |-> <<x, y>>, settled |-> <<x, y>>, goal |-> <<gx, gy>>,
                    same |-> TRUE, still |-> TRUE, static |-> TRUE, near |-> TRUE]
  OBVIOUS
<1>6. /\ e.goal[1] - e.settled[1] \in 70..100 /\ e.goal[2] - e.settled[2] \in -40..40
      /\ e.goal[1] = gx /\ e.goal[2] = gy /\ e.cube[1] = x /\ e.cube[2] = y
      /\ Steady(e) /\ e.near
  BY <1>3, <1>5 DEF Steady
<1>7. /\ Inside(x, Pin4b.x, 1) /\ Inside(y, Pin4b.y, 1)
      /\ Inside(gx, Pin4b.clipX, 1) /\ Inside(gy, Pin4b.clipY, 1)
  BY <1>1, <1>3 DEF Pin4b, Inside
<1>8. \A a \in 70..100, b \in -40..40 : a > Magnitude(b) /\ a * a + b * b >= 65 * 65
  <2> TAKE a \in 70..100, b \in -40..40
  <2>1. a * a >= 4900 /\ b * b >= 0
    OBVIOUS
  <2> QED
    BY <2>1 DEF Magnitude
<1>9. Gate4bPasses(e)
  BY <1>6, <1>7, <1>8 DEF Gate4bPasses
<1> QED
  BY <1>4, <1>5, <1>9
=============================================================================
