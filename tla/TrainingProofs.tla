---------------------------- MODULE TrainingProofs ----------------------------
(* Proofs that the arms of a training campaign share their rows and that the    *)
(* pairs which answer a collect are made of whole gated files, for any          *)
(* campaign, arms, protocols and number of faults.                              *)
EXTENDS TrainingPipeline, SequenceTheorems, TLAPS

\* The pins are those of the campaign's own rows, and stay so.
Pinned ==
    /\ campaign \in Campaigns
    /\ pins = [a \in Arms |-> [k \in Kinds |-> Prepared(a, k)]]

-----------------------------------------------------------------------------
(* The rows of an episode.                                                  *)

\* With --restrict_to_retrievable, whether an episode is read does not depend on
\* the arm.
ReadBy(w, includeFailures, ep) ==
    /\ w.episodes[ep].outcome = "success" \/ includeFailures
    /\ w.episodes[ep].dumped
    /\ ~(Lessons(w, ep) = <<>>)

LEMMA RestrictedRead ==
    ASSUME NEW w, NEW source, NEW includeFailures, NEW ep
    PROVE  Read(w, source, TRUE, includeFailures, ep) <=> ReadBy(w, includeFailures, ep)
  BY DEF Read, ReadBy, Dropped

\* What a row of the training file comes from.
IsRow(w, source, includeFailures, row) ==
    \E ep \in DOMAIN w.episodes : \E r \in Kept(w, ep) :
        ReadBy(w, includeFailures, ep) /\ row = Row(w, source, ep, r)

LEMMA RowsOfAnEpisode ==
    ASSUME NEW w, NEW source, NEW includeFailures, NEW row
    PROVE  row \in BuildSamples(w, source, TRUE, includeFailures) <=>
             IsRow(w, source, includeFailures, row)
<1> DEFINE Rows(ep) == {Row(w, source, ep, r) : r \in Kept(w, ep)}
           Eps == {x \in DOMAIN w.episodes : Read(w, source, TRUE, includeFailures, x)}
<1>1. row \in BuildSamples(w, source, TRUE, includeFailures) <=>
          \E ep \in Eps : row \in Rows(ep)
  BY DEF BuildSamples
<1>2. \A ep : row \in Rows(ep) <=> \E r \in Kept(w, ep) : row = Row(w, source, ep, r)
  OBVIOUS
<1>3. \A ep : ep \in Eps <=> ep \in DOMAIN w.episodes /\ ReadBy(w, includeFailures, ep)
  BY RestrictedRead
<1> HIDE DEF Rows, Eps
<1> QED
  BY <1>1, <1>2, <1>3 DEF IsRow

LEMMA RowFields ==
    ASSUME NEW w, NEW source, NEW ep, NEW r
    PROVE  /\ Row(w, source, ep, r).ep = ep
           /\ Row(w, source, ep, r).round = r
           /\ Row(w, source, ep, r).label =
                Label(w.episodes[ep].outcome, Progress(w.episodes[ep].traj, r))
  BY DEF Row

LEMMA IdentityOf ==
    ASSUME NEW rows, NEW id
    PROVE  id \in Identities(rows) <=>
             \E row \in rows : id = <<row.ep, row.round, row.label>>
  BY DEF Identities

\* The arm decides what a row says, and nothing else.
LEMMA SameIdentities ==
    ASSUME NEW w, NEW s1, NEW s2, NEW includeFailures
    PROVE  Identities(BuildSamples(w, s1, TRUE, includeFailures)) =
           Identities(BuildSamples(w, s2, TRUE, includeFailures))
<1> DEFINE Of(s) == BuildSamples(w, s, TRUE, includeFailures)
<1>1. ASSUME NEW s, NEW t, NEW row \in Of(s)
      PROVE  \E other \in Of(t) :
                 <<row.ep, row.round, row.label>> = <<other.ep, other.round, other.label>>
  <2>0. IsRow(w, s, includeFailures, row)
    BY RowsOfAnEpisode
  <2>1. PICK ep \in DOMAIN w.episodes : \E r \in Kept(w, ep) :
            ReadBy(w, includeFailures, ep) /\ row = Row(w, s, ep, r)
    BY <2>0 DEF IsRow
  <2>2. PICK r \in Kept(w, ep) :
            ReadBy(w, includeFailures, ep) /\ row = Row(w, s, ep, r)
    BY <2>1
  <2> DEFINE other == Row(w, t, ep, r)
  <2>3. other \in Of(t)
    BY <2>2, RowsOfAnEpisode DEF IsRow
  <2>4. row.ep = other.ep /\ row.round = other.round /\ row.label = other.label
    BY <2>2, RowFields
  <2> QED
    BY <2>3, <2>4
<1> HIDE DEF Of
<1>2. ASSUME NEW s, NEW t, NEW id \in Identities(Of(s))
      PROVE  id \in Identities(Of(t))
  <2>1. \E row \in Of(s) : id = <<row.ep, row.round, row.label>>
    BY <1>2, IdentityOf
  <2>2. PICK row \in Of(s) : id = <<row.ep, row.round, row.label>>
    BY <2>1
  <2>3. PICK other \in Of(t) :
            <<row.ep, row.round, row.label>> = <<other.ep, other.round, other.label>>
    BY <1>1
  <2> QED
    BY <2>2, <2>3, IdentityOf
<1>3. Identities(Of(s1)) = Identities(Of(s2))
  BY <1>2
<1> QED
  BY <1>3 DEF Of

\* An arm's SFT rows are the desirable ones of its KTO rows.
LEMMA SftIsDesirable ==
    ASSUME NEW w \in Campaigns, NEW source
    PROVE  BuildSamples(w, source, TRUE, FALSE) =
           {r \in BuildSamples(w, source, TRUE, TRUE) : r.label = "desirable"}
<1>1. ASSUME NEW ep \in DOMAIN w.episodes, NEW r \in Kept(w, ep)
      PROVE  /\ Row(w, source, ep, r).label = "desirable" <=>
                    w.episodes[ep].outcome = "success"
  <2>1. Progress(w.episodes[ep].traj, r) = "yes"
    BY DEF Kept
  <2>2. w.episodes[ep].outcome \in {"success", "failure"}
    BY PipelineAssumption
  <2> QED
    BY <2>1, <2>2, RowFields DEF Label
<1>2. ASSUME NEW ep
      PROVE  /\ ReadBy(w, FALSE, ep) <=>
                    ReadBy(w, TRUE, ep) /\ w.episodes[ep].outcome = "success"
  BY DEF ReadBy
<1>3. ASSUME NEW row
      PROVE  row \in BuildSamples(w, source, TRUE, FALSE) <=>
             row \in BuildSamples(w, source, TRUE, TRUE) /\ row.label = "desirable"
  <2>1. ASSUME row \in BuildSamples(w, source, TRUE, FALSE)
        PROVE  row \in BuildSamples(w, source, TRUE, TRUE) /\ row.label = "desirable"
    <3>0. IsRow(w, source, FALSE, row)
      BY <2>1, RowsOfAnEpisode
    <3>1. PICK ep \in DOMAIN w.episodes : \E r \in Kept(w, ep) :
              ReadBy(w, FALSE, ep) /\ row = Row(w, source, ep, r)
      BY <3>0 DEF IsRow
    <3>2. PICK r \in Kept(w, ep) : ReadBy(w, FALSE, ep) /\ row = Row(w, source, ep, r)
      BY <3>1
    <3> QED
      BY <3>2, <1>1, <1>2, RowsOfAnEpisode DEF IsRow
  <2>2. ASSUME row \in BuildSamples(w, source, TRUE, TRUE), row.label = "desirable"
        PROVE  row \in BuildSamples(w, source, TRUE, FALSE)
    <3>0. IsRow(w, source, TRUE, row)
      BY <2>2, RowsOfAnEpisode
    <3>1. PICK ep \in DOMAIN w.episodes : \E r \in Kept(w, ep) :
              ReadBy(w, TRUE, ep) /\ row = Row(w, source, ep, r)
      BY <3>0 DEF IsRow
    <3>2. PICK r \in Kept(w, ep) : ReadBy(w, TRUE, ep) /\ row = Row(w, source, ep, r)
      BY <3>1
    <3> QED
      BY <2>2, <3>2, <1>1, <1>2, RowsOfAnEpisode DEF IsRow
  <2> QED
    BY <2>1, <2>2
<1> QED
  BY <1>3

-----------------------------------------------------------------------------
(* The invariant.                                                           *)

LEMMA InitPinned == Init => Pinned
  BY DEF Init, Pinned

LEMMA NextKeeps == Next => UNCHANGED <<campaign, pins>>
  BY DEF Next, Launch, SkipTask, ExtractOrSmoke, Prep, FilterRaw, Verify, Sync,
         TrainDone, Train, TrainFails, Export, Convert, Patch, ProtocolDone, Reload,
         OldAnswers, Collect, EndCollect, StopBetween, StopInFilter, StopInSync,
         StopInConvert, StopInReload

LEMMA NextPinned == Pinned /\ [Next]_vars => Pinned'
<1> SUFFICES ASSUME Pinned, [Next]_vars PROVE Pinned'
  OBVIOUS
<1>1. campaign' = campaign /\ pins' = pins
  BY NextKeeps DEF vars
<1> QED
  BY <1>1 DEF Pinned, Prepared

LEMMA PinnedShares == Pinned => ArmsShareRows
<1> SUFFICES ASSUME Pinned, NEW a \in Arms, NEW b \in Arms
             PROVE  /\ \A k \in Kinds : Whole(a, k) /\ Whole(b, k) =>
                           Identities(jsonl[a][k][1]) = Identities(jsonl[b][k][1])
                    /\ Whole(a, "sft") /\ Whole(a, "kto") =>
                           jsonl[a].sft[1] = {r \in jsonl[a].kto[1] : r.label = "desirable"}
  BY DEF ArmsShareRows, Active
<1>1. ASSUME NEW arm \in Arms, NEW k \in Kinds, Whole(arm, k)
      PROVE  jsonl[arm][k][1] = BuildSamples(campaign, SourceOf[arm], TRUE, k = "kto")
  BY <1>1 DEF Whole, Pinned, Prepared
<1>2. ASSUME NEW k \in Kinds, Whole(a, k), Whole(b, k)
      PROVE  Identities(jsonl[a][k][1]) = Identities(jsonl[b][k][1])
  <2>1. Identities(BuildSamples(campaign, SourceOf[a], TRUE, k = "kto")) =
        Identities(BuildSamples(campaign, SourceOf[b], TRUE, k = "kto"))
    <3> DEFINE includeFailures == k = "kto"
    <3> HIDE DEF includeFailures
    <3>1. Identities(BuildSamples(campaign, SourceOf[a], TRUE, includeFailures)) =
          Identities(BuildSamples(campaign, SourceOf[b], TRUE, includeFailures))
      BY SameIdentities
    <3> QED
      BY <3>1 DEF includeFailures
  <2>2. jsonl[a][k][1] = BuildSamples(campaign, SourceOf[a], TRUE, k = "kto")
    BY <1>1, <1>2
  <2>3. jsonl[b][k][1] = BuildSamples(campaign, SourceOf[b], TRUE, k = "kto")
    BY <1>1, <1>2
  <2> QED
    BY <2>1, <2>2, <2>3
<1>3. ASSUME Whole(a, "sft"), Whole(a, "kto")
      PROVE  jsonl[a].sft[1] = {r \in jsonl[a].kto[1] : r.label = "desirable"}
  <2>1. jsonl[a]["sft"][1] = BuildSamples(campaign, SourceOf[a], TRUE, FALSE)
    BY <1>1, <1>3 DEF Kinds
  <2>2. jsonl[a]["kto"][1] = BuildSamples(campaign, SourceOf[a], TRUE, TRUE)
    BY <1>1, <1>3 DEF Kinds
  <2> QED
    BY <2>1, <2>2, SftIsDesirable DEF Pinned
<1> QED
  BY <1>2, <1>3

\* The arms of the factorial share their rows, whatever was recorded, whatever the
\* logs say and however often the pipeline is stopped and resumed.
THEOREM RowsShared == Spec => []ArmsShareRows
  BY InitPinned, NextPinned, PinnedShares, PTL DEF Spec

-----------------------------------------------------------------------------
(* The script, position by position.                                        *)

Ops == {"extract", "prep", "filter", "verify", "smoke", "sync", "train", "export",
        "convert", "patch", "protocol", "reload", "collect"}

AnyTask ==
    [step : 1..8, op : Ops, arm : Arms \cup {"all"}, kind : {"all"} \cup Kinds \cup Names]

PrepBlock == EachOf(ArmOrder, 4, PrepTasks)
SftBlock == EachOf(ArmOrder, 1, SftTask)
KtoBlock == EachOf(ArmOrder, 1, KtoTask)
ExportBlock == EachOf(ArmOrder, 5, ExportTasks)
EvalBlock == EachOf(Protocols, 3, EvalTasks)

LEMMA Lengths ==
    /\ Len(ArmOrder) \in Nat /\ \A i \in 1..Len(ArmOrder) : ArmOrder[i] \in Arms
    /\ Len(Protocols) \in Nat
    /\ \A i \in 1..Len(Protocols) : Protocols[i] \in [name : Names, arm : Arms]
<1>1. ArmOrder \in Seq(Arms) /\ Protocols \in Seq([name : Names, arm : Arms])
  BY PipelineAssumption
<1>2. Len(ArmOrder) \in Nat /\ Len(Protocols) \in Nat
  BY <1>1
<1>3. \A i \in 1..Len(ArmOrder) : ArmOrder[i] \in Arms
  BY <1>1, ElementOfSeq
<1>4. \A i \in 1..Len(Protocols) : Protocols[i] \in [name : Names, arm : Arms]
  BY <1>1, ElementOfSeq
<1> QED
  BY <1>2, <1>3, <1>4

\* The task at place i of a loop of n tasks per element.
LEMMA Places ==
    ASSUME NEW n \in {1, 3, 4, 5}, NEW m \in Nat, NEW i \in 1..(n * m)
    PROVE  /\ (i - 1) \div n + 1 \in 1..m
           /\ ((i - 1) % n) + 1 \in 1..n
  OBVIOUS

LEMMA TaskFields ==
    ASSUME NEW step \in 1..8, NEW op \in Ops, NEW a \in Arms \cup {"all"},
           NEW k \in {"all"} \cup Kinds \cup Names
    PROVE  LET t == Task(step, op, a, k)
           IN  /\ t \in AnyTask
               /\ t.step = step /\ t.op = op /\ t.arm = a /\ t.kind = k
  BY DEF Task, AnyTask

\* Place i of a loop is task number j of its element a.
LEMMA PrepIs ==
    /\ PrepBlock \in Seq(AnyTask) /\ Len(PrepBlock) = 4 * Len(ArmOrder)
    /\ \A i \in 1..(4 * Len(ArmOrder)) :
         \E a \in Arms, j \in 1..4 :
             /\ a = ArmOrder[(i - 1) \div 4 + 1] /\ j = ((i - 1) % 4) + 1
             /\ PrepBlock[i] = PrepTasks(a)[j]
             /\ PrepBlock[i] \in AnyTask /\ PrepBlock[i].step = 2
<1> DEFINE Of(i) == PrepTasks(ArmOrder[(i - 1) \div 4 + 1])[((i - 1) % 4) + 1]
<1>1. PrepBlock = [i \in 1..(4 * Len(ArmOrder)) |-> Of(i)]
  BY DEF PrepBlock, EachOf
<1>2. ASSUME NEW a \in Arms, NEW j \in 1..4
      PROVE  PrepTasks(a)[j] \in AnyTask /\ PrepTasks(a)[j].step = 2
  <2>1. \A op \in Ops, k \in {"all"} \cup Kinds :
            Task(2, op, a, k) \in AnyTask /\ Task(2, op, a, k).step = 2
    BY TaskFields
  <2>2. PICK op \in Ops, k \in {"all"} \cup Kinds : PrepTasks(a)[j] = Task(2, op, a, k)
    BY DEF PrepTasks, Ops, Kinds
  <2> QED
    BY <2>1, <2>2
<1>3. ASSUME NEW i \in 1..(4 * Len(ArmOrder))
      PROVE  \E a \in Arms, j \in 1..4 :
                /\ a = ArmOrder[(i - 1) \div 4 + 1] /\ j = ((i - 1) % 4) + 1
                /\ Of(i) = PrepTasks(a)[j]
                /\ Of(i) \in AnyTask /\ Of(i).step = 2
  <2>1. PICK a \in Arms : a = ArmOrder[(i - 1) \div 4 + 1]
    BY Lengths, Places
  <2>2. PICK j \in 1..4 : j = ((i - 1) % 4) + 1
    BY Lengths, Places
  <2> QED
    BY <1>2, <2>1, <2>2
<1> HIDE DEF Of
<1> QED
  BY <1>1, <1>3, Lengths

LEMMA SftIs ==
    /\ SftBlock \in Seq(AnyTask) /\ Len(SftBlock) = 1 * Len(ArmOrder)
    /\ \A i \in 1..(1 * Len(ArmOrder)) :
         \E a \in Arms, j \in 1..1 :
             /\ a = ArmOrder[(i - 1) \div 1 + 1] /\ j = ((i - 1) % 1) + 1
             /\ SftBlock[i] = SftTask(a)[j]
             /\ SftBlock[i] \in AnyTask /\ SftBlock[i].step = 5
<1> DEFINE Of(i) == SftTask(ArmOrder[(i - 1) \div 1 + 1])[((i - 1) % 1) + 1]
<1>1. SftBlock = [i \in 1..(1 * Len(ArmOrder)) |-> Of(i)]
  BY DEF SftBlock, EachOf
<1>2. ASSUME NEW a \in Arms, NEW j \in 1..1
      PROVE  SftTask(a)[j] \in AnyTask /\ SftTask(a)[j].step = 5
  <2>1. \A op \in Ops, k \in {"all"} \cup Kinds :
            Task(5, op, a, k) \in AnyTask /\ Task(5, op, a, k).step = 5
    BY TaskFields
  <2>2. PICK op \in Ops, k \in {"all"} \cup Kinds : SftTask(a)[j] = Task(5, op, a, k)
    BY DEF SftTask, Ops, Kinds
  <2> QED
    BY <2>1, <2>2
<1>3. ASSUME NEW i \in 1..(1 * Len(ArmOrder))
      PROVE  \E a \in Arms, j \in 1..1 :
                /\ a = ArmOrder[(i - 1) \div 1 + 1] /\ j = ((i - 1) % 1) + 1
                /\ Of(i) = SftTask(a)[j]
                /\ Of(i) \in AnyTask /\ Of(i).step = 5
  <2>1. PICK a \in Arms : a = ArmOrder[(i - 1) \div 1 + 1]
    BY Lengths, Places
  <2>2. PICK j \in 1..1 : j = ((i - 1) % 1) + 1
    BY Lengths, Places
  <2> QED
    BY <1>2, <2>1, <2>2
<1> HIDE DEF Of
<1> QED
  BY <1>1, <1>3, Lengths

LEMMA KtoIs ==
    /\ KtoBlock \in Seq(AnyTask) /\ Len(KtoBlock) = 1 * Len(ArmOrder)
    /\ \A i \in 1..(1 * Len(ArmOrder)) :
         \E a \in Arms, j \in 1..1 :
             /\ a = ArmOrder[(i - 1) \div 1 + 1] /\ j = ((i - 1) % 1) + 1
             /\ KtoBlock[i] = KtoTask(a)[j]
             /\ KtoBlock[i] \in AnyTask /\ KtoBlock[i].step = 6
<1> DEFINE Of(i) == KtoTask(ArmOrder[(i - 1) \div 1 + 1])[((i - 1) % 1) + 1]
<1>1. KtoBlock = [i \in 1..(1 * Len(ArmOrder)) |-> Of(i)]
  BY DEF KtoBlock, EachOf
<1>2. ASSUME NEW a \in Arms, NEW j \in 1..1
      PROVE  KtoTask(a)[j] \in AnyTask /\ KtoTask(a)[j].step = 6
  <2>1. \A op \in Ops, k \in {"all"} \cup Kinds :
            Task(6, op, a, k) \in AnyTask /\ Task(6, op, a, k).step = 6
    BY TaskFields
  <2>2. PICK op \in Ops, k \in {"all"} \cup Kinds : KtoTask(a)[j] = Task(6, op, a, k)
    BY DEF KtoTask, Ops, Kinds
  <2> QED
    BY <2>1, <2>2
<1>3. ASSUME NEW i \in 1..(1 * Len(ArmOrder))
      PROVE  \E a \in Arms, j \in 1..1 :
                /\ a = ArmOrder[(i - 1) \div 1 + 1] /\ j = ((i - 1) % 1) + 1
                /\ Of(i) = KtoTask(a)[j]
                /\ Of(i) \in AnyTask /\ Of(i).step = 6
  <2>1. PICK a \in Arms : a = ArmOrder[(i - 1) \div 1 + 1]
    BY Lengths, Places
  <2>2. PICK j \in 1..1 : j = ((i - 1) % 1) + 1
    BY Lengths, Places
  <2> QED
    BY <1>2, <2>1, <2>2
<1> HIDE DEF Of
<1> QED
  BY <1>1, <1>3, Lengths

LEMMA ExportIs ==
    /\ ExportBlock \in Seq(AnyTask) /\ Len(ExportBlock) = 5 * Len(ArmOrder)
    /\ \A i \in 1..(5 * Len(ArmOrder)) :
         \E a \in Arms, j \in 1..5 :
             /\ a = ArmOrder[(i - 1) \div 5 + 1] /\ j = ((i - 1) % 5) + 1
             /\ ExportBlock[i] = ExportTasks(a)[j]
             /\ ExportBlock[i] \in AnyTask /\ ExportBlock[i].step = 7
<1> DEFINE Of(i) == ExportTasks(ArmOrder[(i - 1) \div 5 + 1])[((i - 1) % 5) + 1]
<1>1. ExportBlock = [i \in 1..(5 * Len(ArmOrder)) |-> Of(i)]
  BY DEF ExportBlock, EachOf
<1>2. ASSUME NEW a \in Arms, NEW j \in 1..5
      PROVE  ExportTasks(a)[j] \in AnyTask /\ ExportTasks(a)[j].step = 7
  <2>1. \A op \in Ops, k \in {"all"} \cup Kinds :
            Task(7, op, a, k) \in AnyTask /\ Task(7, op, a, k).step = 7
    BY TaskFields
  <2>2. PICK op \in Ops, k \in {"all"} \cup Kinds : ExportTasks(a)[j] = Task(7, op, a, k)
    BY DEF ExportTasks, Ops, Kinds
  <2> QED
    BY <2>1, <2>2
<1>3. ASSUME NEW i \in 1..(5 * Len(ArmOrder))
      PROVE  \E a \in Arms, j \in 1..5 :
                /\ a = ArmOrder[(i - 1) \div 5 + 1] /\ j = ((i - 1) % 5) + 1
                /\ Of(i) = ExportTasks(a)[j]
                /\ Of(i) \in AnyTask /\ Of(i).step = 7
  <2>1. PICK a \in Arms : a = ArmOrder[(i - 1) \div 5 + 1]
    BY Lengths, Places
  <2>2. PICK j \in 1..5 : j = ((i - 1) % 5) + 1
    BY Lengths, Places
  <2> QED
    BY <1>2, <2>1, <2>2
<1> HIDE DEF Of
<1> QED
  BY <1>1, <1>3, Lengths

LEMMA EvalIs ==
    /\ EvalBlock \in Seq(AnyTask) /\ Len(EvalBlock) = 3 * Len(Protocols)
    /\ \A i \in 1..(3 * Len(Protocols)) :
         \E a \in [name : Names, arm : Arms], j \in 1..3 :
             /\ a = Protocols[(i - 1) \div 3 + 1] /\ j = ((i - 1) % 3) + 1
             /\ EvalBlock[i] = EvalTasks(a)[j]
             /\ EvalBlock[i] \in AnyTask /\ EvalBlock[i].step = 8
<1> DEFINE Of(i) == EvalTasks(Protocols[(i - 1) \div 3 + 1])[((i - 1) % 3) + 1]
<1>1. EvalBlock = [i \in 1..(3 * Len(Protocols)) |-> Of(i)]
  BY DEF EvalBlock, EachOf
<1>2. ASSUME NEW a \in [name : Names, arm : Arms], NEW j \in 1..3
      PROVE  EvalTasks(a)[j] \in AnyTask /\ EvalTasks(a)[j].step = 8
  <2>1. \A op \in Ops, k \in Names :
            Task(8, op, a.arm, k) \in AnyTask /\ Task(8, op, a.arm, k).step = 8
    <3> DEFINE b == a.arm
    <3>1. b \in Arms
      OBVIOUS
    <3> HIDE DEF b
    <3>2. ASSUME NEW op \in Ops, NEW k \in Names
          PROVE  Task(8, op, b, k) \in AnyTask /\ Task(8, op, b, k).step = 8
      <4>1. 8 \in 1..8 /\ b \in Arms \cup {"all"} /\ k \in {"all"} \cup Kinds \cup Names
        BY <3>1
      <4> QED
        BY <4>1, TaskFields
    <3> QED
      BY <3>2 DEF b
  <2>2. PICK op \in Ops, k \in Names : EvalTasks(a)[j] = Task(8, op, a.arm, k)
    BY DEF EvalTasks, Ops, Kinds
  <2> QED
    BY <2>1, <2>2
<1>3. ASSUME NEW i \in 1..(3 * Len(Protocols))
      PROVE  \E a \in [name : Names, arm : Arms], j \in 1..3 :
                /\ a = Protocols[(i - 1) \div 3 + 1] /\ j = ((i - 1) % 3) + 1
                /\ Of(i) = EvalTasks(a)[j]
                /\ Of(i) \in AnyTask /\ Of(i).step = 8
  <2>1. PICK a \in [name : Names, arm : Arms] : a = Protocols[(i - 1) \div 3 + 1]
    BY Lengths, Places
  <2>2. PICK j \in 1..3 : j = ((i - 1) % 3) + 1
    BY Lengths, Places
  <2> QED
    BY <1>2, <2>1, <2>2
<1> HIDE DEF Of
<1> QED
  BY <1>1, <1>3, Lengths

\* Two pieces of the script, one after the other.
LEMMA Joined ==
    ASSUME NEW s \in Seq(AnyTask), NEW t \in Seq(AnyTask)
    PROVE  /\ s \o t \in Seq(AnyTask) /\ Len(s \o t) = Len(s) + Len(t)
           /\ \A i \in 1..Len(s) : (s \o t)[i] = s[i]
           /\ \A i \in 1..Len(t) : (s \o t)[Len(s) + i] = t[i]
<1> DEFINE m == Len(s)
           n == Len(t)
<1>0. m \in Nat /\ n \in Nat
  OBVIOUS
<1>1. /\ s \o t \in Seq(AnyTask) /\ Len(s \o t) = m + n
      /\ \A i \in 1..(m + n) : (s \o t)[i] = IF i <= m THEN s[i] ELSE t[i - m]
  BY ConcatProperties
<1> HIDE DEF m, n
<1>2. \A i \in 1..m : i \in 1..(m + n) /\ i <= m
  BY <1>0
<1>3. \A i \in 1..n : m + i \in 1..(m + n) /\ ~(m + i <= m) /\ (m + i) - m = i
  BY <1>0
<1>4. /\ s \o t \in Seq(AnyTask) /\ Len(s \o t) = m + n
      /\ \A i \in 1..m : (s \o t)[i] = s[i]
      /\ \A i \in 1..n : (s \o t)[m + i] = t[i]
  BY <1>1, <1>2, <1>3
<1> QED
  BY <1>4 DEF m, n

LEMMA CommonIs ==
    ASSUME NEW step \in 1..8, NEW op \in Ops
    PROVE  /\ Common(step, op) \in Seq(AnyTask) /\ Len(Common(step, op)) = 1
           /\ Common(step, op)[1] = Task(step, op, "all", "all")
<1>1. Task(step, op, "all", "all") \in AnyTask
  BY TaskFields
<1> QED
  BY <1>1 DEF Common

LEMMA Layout ==
    LET n == Len(ArmOrder)
        p == Len(Protocols)
    IN  /\ Script \in Seq(AnyTask) /\ Len(Script) = 11 * n + 3 * p + 4
        /\ Script[1] = Task(1, "extract", "all", "all")
        /\ \A i \in 1..(4 * n) : Script[1 + i] = PrepBlock[i]
        /\ Script[4 * n + 2] = Task(2, "verify", "all", "all")
        /\ Script[4 * n + 3] = Task(3, "smoke", "all", "all")
        /\ Script[4 * n + 4] = Task(4, "sync", "all", "all")
        /\ \A i \in 1..n : Script[4 * n + 4 + i] = SftBlock[i]
        /\ \A i \in 1..n : Script[5 * n + 4 + i] = KtoBlock[i]
        /\ \A i \in 1..(5 * n) : Script[6 * n + 4 + i] = ExportBlock[i]
        /\ \A i \in 1..(3 * p) : Script[11 * n + 4 + i] = EvalBlock[i]
<1> DEFINE n == Len(ArmOrder)
           p == Len(Protocols)
           s1 == Common(1, "extract")
           s2 == s1 \o PrepBlock
           s3 == s2 \o Common(2, "verify")
           s4 == s3 \o Common(3, "smoke")
           s5 == s4 \o Common(4, "sync")
           s6 == s5 \o SftBlock
           s7 == s6 \o KtoBlock
           s8 == s7 \o ExportBlock
           s9 == s8 \o EvalBlock
<1>0. n \in Nat /\ p \in Nat
  BY Lengths
<1>1. /\ s1 \in Seq(AnyTask) /\ Len(s1) = 1 /\ s1[1] = Task(1, "extract", "all", "all")
  BY CommonIs DEF Ops
<1>c. /\ Common(2, "verify") \in Seq(AnyTask) /\ Len(Common(2, "verify")) = 1
      /\ Common(2, "verify")[1] = Task(2, "verify", "all", "all")
      /\ Common(3, "smoke") \in Seq(AnyTask) /\ Len(Common(3, "smoke")) = 1
      /\ Common(3, "smoke")[1] = Task(3, "smoke", "all", "all")
      /\ Common(4, "sync") \in Seq(AnyTask) /\ Len(Common(4, "sync")) = 1
      /\ Common(4, "sync")[1] = Task(4, "sync", "all", "all")
  BY CommonIs DEF Ops
<1> HIDE DEF n, p
<1>2. /\ s2 \in Seq(AnyTask) /\ Len(s2) = 1 + 4 * n
      /\ \A i \in 1..(1) : s2[i] = s1[i]
      /\ \A i \in 1..(4 * n) : s2[1 + i] = PrepBlock[i]
  <2>1. PrepBlock \in Seq(AnyTask) /\ Len(PrepBlock) = 4 * n
    BY <1>0, PrepIs DEF n, p
  <2> DEFINE m == 1
             k == 4 * n
             t == PrepBlock
  <2>2. m \in Nat /\ k \in Nat /\ m + k = 1 + 4 * n
    BY <1>0
  <2>3. s1 \in Seq(AnyTask) /\ Len(s1) = m
    BY <1>1
  <2>4. t \in Seq(AnyTask) /\ Len(t) = k
    BY <2>1
  <2> HIDE DEF s1, m, k, t
  <2>5. /\ s1 \o t \in Seq(AnyTask) /\ Len(s1 \o t) = Len(s1) + Len(t)
        /\ \A i \in 1..Len(s1) : (s1 \o t)[i] = s1[i]
        /\ \A i \in 1..Len(t) : (s1 \o t)[Len(s1) + i] = t[i]
    BY <2>3, <2>4, Joined
  <2> QED
    BY <2>2, <2>3, <2>4, <2>5 DEF m, k, t
<1>3. /\ s3 \in Seq(AnyTask) /\ Len(s3) = 4 * n + 2
      /\ \A i \in 1..(1 + 4 * n) : s3[i] = s2[i]
      /\ \A i \in 1..(1) : s3[1 + 4 * n + i] = Common(2, "verify")[i]
  <2>1. Common(2, "verify") \in Seq(AnyTask) /\ Len(Common(2, "verify")) = 1
    BY <1>c
  <2> DEFINE m == 1 + 4 * n
             k == 1
             t == Common(2, "verify")
  <2>2. m \in Nat /\ k \in Nat /\ m + k = 4 * n + 2
    BY <1>0
  <2>3. s2 \in Seq(AnyTask) /\ Len(s2) = m
    BY <1>2
  <2>4. t \in Seq(AnyTask) /\ Len(t) = k
    BY <2>1
  <2> HIDE DEF s2, m, k, t
  <2>5. /\ s2 \o t \in Seq(AnyTask) /\ Len(s2 \o t) = Len(s2) + Len(t)
        /\ \A i \in 1..Len(s2) : (s2 \o t)[i] = s2[i]
        /\ \A i \in 1..Len(t) : (s2 \o t)[Len(s2) + i] = t[i]
    BY <2>3, <2>4, Joined
  <2> QED
    BY <2>2, <2>3, <2>4, <2>5 DEF m, k, t
<1>4. /\ s4 \in Seq(AnyTask) /\ Len(s4) = 4 * n + 3
      /\ \A i \in 1..(4 * n + 2) : s4[i] = s3[i]
      /\ \A i \in 1..(1) : s4[4 * n + 2 + i] = Common(3, "smoke")[i]
  <2>1. Common(3, "smoke") \in Seq(AnyTask) /\ Len(Common(3, "smoke")) = 1
    BY <1>c
  <2> DEFINE m == 4 * n + 2
             k == 1
             t == Common(3, "smoke")
  <2>2. m \in Nat /\ k \in Nat /\ m + k = 4 * n + 3
    BY <1>0
  <2>3. s3 \in Seq(AnyTask) /\ Len(s3) = m
    BY <1>3
  <2>4. t \in Seq(AnyTask) /\ Len(t) = k
    BY <2>1
  <2> HIDE DEF s3, m, k, t
  <2>5. /\ s3 \o t \in Seq(AnyTask) /\ Len(s3 \o t) = Len(s3) + Len(t)
        /\ \A i \in 1..Len(s3) : (s3 \o t)[i] = s3[i]
        /\ \A i \in 1..Len(t) : (s3 \o t)[Len(s3) + i] = t[i]
    BY <2>3, <2>4, Joined
  <2> QED
    BY <2>2, <2>3, <2>4, <2>5 DEF m, k, t
<1>5. /\ s5 \in Seq(AnyTask) /\ Len(s5) = 4 * n + 4
      /\ \A i \in 1..(4 * n + 3) : s5[i] = s4[i]
      /\ \A i \in 1..(1) : s5[4 * n + 3 + i] = Common(4, "sync")[i]
  <2>1. Common(4, "sync") \in Seq(AnyTask) /\ Len(Common(4, "sync")) = 1
    BY <1>c
  <2> DEFINE m == 4 * n + 3
             k == 1
             t == Common(4, "sync")
  <2>2. m \in Nat /\ k \in Nat /\ m + k = 4 * n + 4
    BY <1>0
  <2>3. s4 \in Seq(AnyTask) /\ Len(s4) = m
    BY <1>4
  <2>4. t \in Seq(AnyTask) /\ Len(t) = k
    BY <2>1
  <2> HIDE DEF s4, m, k, t
  <2>5. /\ s4 \o t \in Seq(AnyTask) /\ Len(s4 \o t) = Len(s4) + Len(t)
        /\ \A i \in 1..Len(s4) : (s4 \o t)[i] = s4[i]
        /\ \A i \in 1..Len(t) : (s4 \o t)[Len(s4) + i] = t[i]
    BY <2>3, <2>4, Joined
  <2> QED
    BY <2>2, <2>3, <2>4, <2>5 DEF m, k, t
<1>6. /\ s6 \in Seq(AnyTask) /\ Len(s6) = 5 * n + 4
      /\ \A i \in 1..(4 * n + 4) : s6[i] = s5[i]
      /\ \A i \in 1..(n) : s6[4 * n + 4 + i] = SftBlock[i]
  <2>1. SftBlock \in Seq(AnyTask) /\ Len(SftBlock) = n
    BY <1>0, SftIs DEF n, p
  <2> DEFINE m == 4 * n + 4
             k == n
             t == SftBlock
  <2>2. m \in Nat /\ k \in Nat /\ m + k = 5 * n + 4
    BY <1>0
  <2>3. s5 \in Seq(AnyTask) /\ Len(s5) = m
    BY <1>5
  <2>4. t \in Seq(AnyTask) /\ Len(t) = k
    BY <2>1
  <2> HIDE DEF s5, m, k, t
  <2>5. /\ s5 \o t \in Seq(AnyTask) /\ Len(s5 \o t) = Len(s5) + Len(t)
        /\ \A i \in 1..Len(s5) : (s5 \o t)[i] = s5[i]
        /\ \A i \in 1..Len(t) : (s5 \o t)[Len(s5) + i] = t[i]
    BY <2>3, <2>4, Joined
  <2> QED
    BY <2>2, <2>3, <2>4, <2>5 DEF m, k, t
<1>7. /\ s7 \in Seq(AnyTask) /\ Len(s7) = 6 * n + 4
      /\ \A i \in 1..(5 * n + 4) : s7[i] = s6[i]
      /\ \A i \in 1..(n) : s7[5 * n + 4 + i] = KtoBlock[i]
  <2>1. KtoBlock \in Seq(AnyTask) /\ Len(KtoBlock) = n
    BY <1>0, KtoIs DEF n, p
  <2> DEFINE m == 5 * n + 4
             k == n
             t == KtoBlock
  <2>2. m \in Nat /\ k \in Nat /\ m + k = 6 * n + 4
    BY <1>0
  <2>3. s6 \in Seq(AnyTask) /\ Len(s6) = m
    BY <1>6
  <2>4. t \in Seq(AnyTask) /\ Len(t) = k
    BY <2>1
  <2> HIDE DEF s6, m, k, t
  <2>5. /\ s6 \o t \in Seq(AnyTask) /\ Len(s6 \o t) = Len(s6) + Len(t)
        /\ \A i \in 1..Len(s6) : (s6 \o t)[i] = s6[i]
        /\ \A i \in 1..Len(t) : (s6 \o t)[Len(s6) + i] = t[i]
    BY <2>3, <2>4, Joined
  <2> QED
    BY <2>2, <2>3, <2>4, <2>5 DEF m, k, t
<1>8. /\ s8 \in Seq(AnyTask) /\ Len(s8) = 11 * n + 4
      /\ \A i \in 1..(6 * n + 4) : s8[i] = s7[i]
      /\ \A i \in 1..(5 * n) : s8[6 * n + 4 + i] = ExportBlock[i]
  <2>1. ExportBlock \in Seq(AnyTask) /\ Len(ExportBlock) = 5 * n
    BY <1>0, ExportIs DEF n, p
  <2> DEFINE m == 6 * n + 4
             k == 5 * n
             t == ExportBlock
  <2>2. m \in Nat /\ k \in Nat /\ m + k = 11 * n + 4
    BY <1>0
  <2>3. s7 \in Seq(AnyTask) /\ Len(s7) = m
    BY <1>7
  <2>4. t \in Seq(AnyTask) /\ Len(t) = k
    BY <2>1
  <2> HIDE DEF s7, m, k, t
  <2>5. /\ s7 \o t \in Seq(AnyTask) /\ Len(s7 \o t) = Len(s7) + Len(t)
        /\ \A i \in 1..Len(s7) : (s7 \o t)[i] = s7[i]
        /\ \A i \in 1..Len(t) : (s7 \o t)[Len(s7) + i] = t[i]
    BY <2>3, <2>4, Joined
  <2> QED
    BY <2>2, <2>3, <2>4, <2>5 DEF m, k, t
<1>9. /\ s9 \in Seq(AnyTask) /\ Len(s9) = 11 * n + 3 * p + 4
      /\ \A i \in 1..(11 * n + 4) : s9[i] = s8[i]
      /\ \A i \in 1..(3 * p) : s9[11 * n + 4 + i] = EvalBlock[i]
  <2>1. EvalBlock \in Seq(AnyTask) /\ Len(EvalBlock) = 3 * p
    BY <1>0, EvalIs DEF n, p
  <2> DEFINE m == 11 * n + 4
             k == 3 * p
             t == EvalBlock
  <2>2. m \in Nat /\ k \in Nat /\ m + k = 11 * n + 3 * p + 4
    BY <1>0
  <2>3. s8 \in Seq(AnyTask) /\ Len(s8) = m
    BY <1>8
  <2>4. t \in Seq(AnyTask) /\ Len(t) = k
    BY <2>1
  <2> HIDE DEF s8, m, k, t
  <2>5. /\ s8 \o t \in Seq(AnyTask) /\ Len(s8 \o t) = Len(s8) + Len(t)
        /\ \A i \in 1..Len(s8) : (s8 \o t)[i] = s8[i]
        /\ \A i \in 1..Len(t) : (s8 \o t)[Len(s8) + i] = t[i]
    BY <2>3, <2>4, Joined
  <2> QED
    BY <2>2, <2>3, <2>4, <2>5 DEF m, k, t
<1>10. Script = s9
  BY DEF Script, PrepBlock, SftBlock, KtoBlock, ExportBlock, EvalBlock
<1> HIDE DEF s1, s2, s3, s4, s5, s6, s7, s8, s9
<1>11. /\ \A i \in 1..(11 * n + 4) : s9[i] = s8[i]
       /\ \A i \in 1..(6 * n + 4) : s9[i] = s7[i]
       /\ \A i \in 1..(5 * n + 4) : s9[i] = s6[i]
       /\ \A i \in 1..(4 * n + 4) : s9[i] = s5[i]
  <2>1. \A i \in 1..(4 * n + 4) : i \in 1..(5 * n + 4)
    BY <1>0
  <2>2. \A i \in 1..(5 * n + 4) : i \in 1..(6 * n + 4)
    BY <1>0
  <2>3. \A i \in 1..(6 * n + 4) : i \in 1..(11 * n + 4)
    BY <1>0
  <2> QED
    BY <1>6, <1>7, <1>8, <1>9, <2>1, <2>2, <2>3
<1>12. /\ \A i \in 1..(4 * n + 3) : s9[i] = s4[i]
       /\ \A i \in 1..(4 * n + 2) : s9[i] = s3[i]
       /\ \A i \in 1..(1 + 4 * n) : s9[i] = s2[i]
       /\ s9[1] = s1[1]
  BY <1>0, <1>2, <1>3, <1>4, <1>5, <1>11
<1>13. /\ s9[1] = Task(1, "extract", "all", "all")
       /\ \A i \in 1..(4 * n) : s9[1 + i] = PrepBlock[i]
       /\ s9[4 * n + 2] = Task(2, "verify", "all", "all")
       /\ s9[4 * n + 3] = Task(3, "smoke", "all", "all")
       /\ s9[4 * n + 4] = Task(4, "sync", "all", "all")
  <2>1. s3[1 + 4 * n + 1] = Common(2, "verify")[1] /\ 1 + 4 * n + 1 = 4 * n + 2
    BY <1>0, <1>3
  <2>2. s4[4 * n + 2 + 1] = Common(3, "smoke")[1] /\ 4 * n + 2 + 1 = 4 * n + 3
    BY <1>0, <1>4
  <2>3. s5[4 * n + 3 + 1] = Common(4, "sync")[1] /\ 4 * n + 3 + 1 = 4 * n + 4
    BY <1>0, <1>5
  <2>4. s9[4 * n + 2] = s3[4 * n + 2] /\ s9[4 * n + 3] = s4[4 * n + 3]
        /\ s9[4 * n + 4] = s5[4 * n + 4]
    BY <1>0, <1>11, <1>12
  <2>5. \A i \in 1..(4 * n) : s9[1 + i] = PrepBlock[i]
    BY <1>0, <1>2, <1>12
  <2> QED
    BY <1>1, <1>c, <1>12, <2>1, <2>2, <2>3, <2>4, <2>5
<1>14. /\ \A i \in 1..n : s9[4 * n + 4 + i] = SftBlock[i]
       /\ \A i \in 1..n : s9[5 * n + 4 + i] = KtoBlock[i]
       /\ \A i \in 1..(5 * n) : s9[6 * n + 4 + i] = ExportBlock[i]
       /\ \A i \in 1..(3 * p) : s9[11 * n + 4 + i] = EvalBlock[i]
  BY <1>0, <1>6, <1>7, <1>8, <1>9, <1>11
<1> QED
  BY <1>9, <1>10, <1>13, <1>14 DEF n, p

\* The positions of the segments.
LEMMA Segments ==
    ASSUME NEW i \in 1..Len(Script)
    PROVE  LET n == Len(ArmOrder)
               p == Len(Protocols)
           IN  \/ i = 1
               \/ \E k \in 1..(4 * n) : i = 1 + k
               \/ i = 4 * n + 2
               \/ i = 4 * n + 3
               \/ i = 4 * n + 4
               \/ \E k \in 1..n : i = 4 * n + 4 + k
               \/ \E k \in 1..n : i = 5 * n + 4 + k
               \/ \E k \in 1..(5 * n) : i = 6 * n + 4 + k
               \/ \E k \in 1..(3 * p) : i = 11 * n + 4 + k
<1> DEFINE n == Len(ArmOrder)
           p == Len(Protocols)
<1>1. n \in Nat /\ p \in Nat /\ i \in Nat /\ 1 <= i /\ i <= 11 * n + 3 * p + 4
  BY Lengths, Layout
<1> HIDE DEF n, p
<1>2. CASE 1 < i /\ i <= 1 + 4 * n
  <2>1. i - 1 \in 1..(4 * n) /\ i = 1 + (i - 1)
    BY <1>1, <1>2
  <2> QED
    BY <2>1 DEF n, p
<1>3. CASE 4 * n + 4 < i /\ i <= 5 * n + 4
  <2>1. i - (4 * n + 4) \in 1..n /\ i = 4 * n + 4 + (i - (4 * n + 4))
    BY <1>1, <1>3
  <2> QED
    BY <2>1 DEF n, p
<1>4. CASE 5 * n + 4 < i /\ i <= 6 * n + 4
  <2>1. i - (5 * n + 4) \in 1..n /\ i = 5 * n + 4 + (i - (5 * n + 4))
    BY <1>1, <1>4
  <2> QED
    BY <2>1 DEF n, p
<1>5. CASE 6 * n + 4 < i /\ i <= 11 * n + 4
  <2>1. i - (6 * n + 4) \in 1..(5 * n) /\ i = 6 * n + 4 + (i - (6 * n + 4))
    BY <1>1, <1>5
  <2> QED
    BY <2>1 DEF n, p
<1>6. CASE 11 * n + 4 < i
  <2>1. i - (11 * n + 4) \in 1..(3 * p) /\ i = 11 * n + 4 + (i - (11 * n + 4))
    BY <1>1, <1>6
  <2> QED
    BY <2>1 DEF n, p
<1>7. \/ i = 1 \/ i = 4 * n + 2 \/ i = 4 * n + 3 \/ i = 4 * n + 4
      \/ 1 < i /\ i <= 1 + 4 * n
      \/ 4 * n + 4 < i /\ i <= 5 * n + 4
      \/ 5 * n + 4 < i /\ i <= 6 * n + 4
      \/ 6 * n + 4 < i /\ i <= 11 * n + 4
      \/ 11 * n + 4 < i
  BY <1>1
<1> QED
  BY <1>2, <1>3, <1>4, <1>5, <1>6, <1>7 DEF n, p

\* The position of step 4 in the script.
SyncAt == 4 * Len(ArmOrder) + 4

\* Before, at and after the shipping of the files.
LEMMA Order ==
    ASSUME NEW i \in 1..Len(Script)
    PROVE  /\ Script[i] \in AnyTask
           /\ Script[i].step >= 5 <=> i > SyncAt
           /\ i = SyncAt - 2 => Script[i].op = "verify"
           /\ i = SyncAt - 1 => Script[i].op = "smoke"
           /\ i = SyncAt => Script[i] = Task(4, "sync", "all", "all")
           /\ Script[i].op = "filter" => i < SyncAt - 2
           /\ Script[i].op \in {"train", "export", "convert", "patch", "protocol", "reload",
                              "collect"} => i > SyncAt
           /\ Script[i].op = "sync" => i = SyncAt
<1> DEFINE n == Len(ArmOrder)
           p == Len(Protocols)
           t == Script[i]
<1>0. n \in Nat /\ p \in Nat /\ SyncAt = 4 * n + 4 /\ i \in Nat
  BY Lengths, Layout DEF SyncAt
<1>1. CASE i = 1
  <2>1. t = Task(1, "extract", "all", "all")
    BY <1>1, Layout
  <2>2. t \in AnyTask /\ t.step = 1 /\ t.op = "extract"
    BY <2>1, TaskFields DEF Ops
  <2> HIDE DEF n, p
  <2> QED
    BY <1>0, <1>1, <2>2
<1>2. CASE i = 4 * n + 2
  <2>1. t = Task(2, "verify", "all", "all")
    BY <1>2, Layout
  <2>2. t \in AnyTask /\ t.step = 2 /\ t.op = "verify"
    BY <2>1, TaskFields DEF Ops
  <2> HIDE DEF n, p
  <2> QED
    BY <1>0, <1>2, <2>2
<1>3. CASE i = 4 * n + 3
  <2>1. t = Task(3, "smoke", "all", "all")
    BY <1>3, Layout
  <2>2. t \in AnyTask /\ t.step = 3 /\ t.op = "smoke"
    BY <2>1, TaskFields DEF Ops
  <2> HIDE DEF n, p
  <2> QED
    BY <1>0, <1>3, <2>2
<1>4. CASE i = 4 * n + 4
  <2>1. t = Task(4, "sync", "all", "all")
    BY <1>4, Layout
  <2>2. t \in AnyTask /\ t.step = 4 /\ t.op = "sync"
    BY <2>1, TaskFields DEF Ops
  <2> HIDE DEF n, p
  <2> QED
    BY <1>0, <1>4, <2>1, <2>2
<1>5. CASE \E k \in 1..(4 * n) : i = 1 + k
  <2>1. PICK k \in 1..(4 * n) : i = 1 + k
    BY <1>5
  <2>2. t \in AnyTask /\ t.step = 2
    BY <2>1, Layout, PrepIs
  <2>3. t.op \in {"prep", "filter"}
    <3>1. PICK a \in Arms, j \in 1..4 : PrepBlock[k] = PrepTasks(a)[j]
      BY <2>1, PrepIs
    <3>2. t = PrepTasks(a)[j]
      BY <2>1, <3>1, Layout
    <3> HIDE DEF t
    <3> QED
      BY <3>2 DEF PrepTasks, Task
  <2> HIDE DEF n, p, t
  <2>4. i <= 4 * n + 1
    BY <1>0, <2>1
  <2> QED
    BY <1>0, <2>2, <2>3, <2>4 DEF t
<1>6. CASE \E k \in 1..n : i = 4 * n + 4 + k
  <2>1. PICK k \in 1..n : i = 4 * n + 4 + k
    BY <1>6
  <2>2. k \in 1..(1 * n)
    BY <1>0
  <2>3. t \in AnyTask /\ t.step = 5
    BY <2>1, <2>2, Layout, SftIs
  <2>4. t.op = "train"
    <3>1. PICK a \in Arms, j \in 1..1 : SftBlock[k] = SftTask(a)[j]
      BY <2>2, SftIs
    <3>2. t = SftTask(a)[1]
      BY <2>1, <3>1, Layout
    <3> HIDE DEF t
    <3> QED
      BY <3>2 DEF SftTask, Task
  <2> HIDE DEF n, p, t
  <2> QED
    BY <1>0, <2>1, <2>3, <2>4 DEF t
<1>7. CASE \E k \in 1..n : i = 5 * n + 4 + k
  <2>1. PICK k \in 1..n : i = 5 * n + 4 + k
    BY <1>7
  <2>2. k \in 1..(1 * n)
    BY <1>0
  <2>3. t \in AnyTask /\ t.step = 6
    BY <2>1, <2>2, Layout, KtoIs
  <2>4. t.op = "train"
    <3>1. PICK a \in Arms, j \in 1..1 : KtoBlock[k] = KtoTask(a)[j]
      BY <2>2, KtoIs
    <3>2. t = KtoTask(a)[1]
      BY <2>1, <3>1, Layout
    <3> HIDE DEF t
    <3> QED
      BY <3>2 DEF KtoTask, Task
  <2> HIDE DEF n, p, t
  <2> QED
    BY <1>0, <2>1, <2>3, <2>4 DEF t
<1>8. CASE \E k \in 1..(5 * n) : i = 6 * n + 4 + k
  <2>1. PICK k \in 1..(5 * n) : i = 6 * n + 4 + k
    BY <1>8
  <2>3. t \in AnyTask /\ t.step = 7
    BY <2>1, Layout, ExportIs
  <2>4. t.op \in {"export", "convert", "patch"}
    <3>1. PICK a \in Arms, j \in 1..5 : ExportBlock[k] = ExportTasks(a)[j]
      BY <2>1, ExportIs
    <3>2. t = ExportTasks(a)[j]
      BY <2>1, <3>1, Layout
    <3> HIDE DEF t
    <3> QED
      BY <3>2 DEF ExportTasks, Task
  <2> HIDE DEF n, p, t
  <2> QED
    BY <1>0, <2>1, <2>3, <2>4 DEF t
<1>9. CASE \E k \in 1..(3 * p) : i = 11 * n + 4 + k
  <2>1. PICK k \in 1..(3 * p) : i = 11 * n + 4 + k
    BY <1>9
  <2>3. t \in AnyTask /\ t.step = 8
    BY <2>1, Layout, EvalIs
  <2>4. t.op \in {"protocol", "reload", "collect"}
    <3>1. PICK a \in [name : Names, arm : Arms], j \in 1..3 : EvalBlock[k] = EvalTasks(a)[j]
      BY <2>1, EvalIs
    <3>2. t = EvalTasks(a)[j]
      BY <2>1, <3>1, Layout
    <3> HIDE DEF t
    <3> QED
      BY <3>2 DEF EvalTasks, Task
  <2> HIDE DEF n, p, t
  <2> QED
    BY <1>0, <2>1, <2>3, <2>4 DEF t
<1> QED
  BY <1>1, <1>2, <1>3, <1>4, <1>5, <1>6, <1>7, <1>8, <1>9, Segments

\* A command of the export chain, with the one before it; and where the next chain
\* begins.
LEMMA ExportAt ==
    ASSUME NEW k \in 1..(5 * Len(ArmOrder))
    PROVE  LET i == 6 * Len(ArmOrder) + 4 + k
           IN  \E a \in Arms, j \in 1..5 :
                 /\ Script[i] = ExportTasks(a)[j]
                 /\ j > 1 => i - 1 \in 1..Len(Script) /\ Script[i - 1] = ExportTasks(a)[j - 1]
                 /\ j = 1 /\ i + 5 \in 1..Len(Script) =>
                        Script[i + 5].op \in {"export", "protocol"}
<1> DEFINE n == Len(ArmOrder)
           p == Len(Protocols)
           i == 6 * n + 4 + k
           ArmAt(x) == ArmOrder[(x - 1) \div 5 + 1]
<1>0. n \in Nat /\ p \in Nat /\ k \in 1..(5 * n) /\ Len(Script) = 11 * n + 3 * p + 4
  BY Lengths, Layout
<1>1. \A x \in 1..(5 * n) : \E a \in Arms, j \in 1..5 :
          /\ a = ArmAt(x) /\ j = ((x - 1) % 5) + 1 /\ ExportBlock[x] = ExportTasks(a)[j]
  BY ExportIs
<1>2. \A x \in 1..(5 * n) : Script[6 * n + 4 + x] = ExportBlock[x]
  BY Layout
<1>3. PICK a \in Arms, j \in 1..5 :
          a = ArmAt(k) /\ j = ((k - 1) % 5) + 1 /\ ExportBlock[k] = ExportTasks(a)[j]
  BY <1>1
<1>4. Script[i] = ExportTasks(a)[j]
  BY <1>2, <1>3
<1>5. ASSUME j > 1
      PROVE  i - 1 \in 1..Len(Script) /\ Script[i - 1] = ExportTasks(a)[j - 1]
  <2>1. /\ k - 1 \in 1..(5 * n)
        /\ (k - 1 - 1) \div 5 = (k - 1) \div 5
        /\ ((k - 1 - 1) % 5) + 1 = j - 1
        /\ i - 1 = 6 * n + 4 + (k - 1) /\ i - 1 \in 1..Len(Script)
    <3> HIDE DEF n, p
    <3> QED
      BY <1>0, <1>3, <1>5
  <2>2. ExportBlock[k - 1] = ExportTasks(a)[j - 1]
    BY <1>1, <1>3, <2>1
  <2>3. Script[6 * n + 4 + (k - 1)] = ExportBlock[k - 1]
    BY <1>2, <2>1
  <2> HIDE DEF i, n
  <2> QED
    BY <2>1, <2>2, <2>3
<1>6. ASSUME j = 1, i + 5 \in 1..Len(Script)
      PROVE  Script[i + 5].op \in {"export", "protocol"}
  <2>1. CASE k + 5 <= 5 * n
    <3>1. /\ k + 5 \in 1..(5 * n)
          /\ ((k + 5 - 1) % 5) + 1 = 1
          /\ i + 5 = 6 * n + 4 + (k + 5)
      <4> HIDE DEF n, p
      <4> QED
        BY <1>0, <1>3, <1>6, <2>1
    <3>2. PICK b \in Arms : ExportBlock[k + 5] = ExportTasks(b)[1]
      BY <1>1, <3>1
    <3>3. Script[6 * n + 4 + (k + 5)] = ExportBlock[k + 5]
      BY <1>2, <3>1
    <3>4. Script[i + 5] = ExportTasks(b)[1]
      <4> HIDE DEF i, n
      <4> QED
        BY <3>1, <3>2, <3>3
    <3> HIDE DEF i
    <3> QED
      BY <3>4 DEF ExportTasks, Task
  <2>2. CASE k + 5 > 5 * n
    <3>1. k = 5 * n - 4
      <4> HIDE DEF n, p
      <4> QED
        BY <1>0, <1>3, <1>6, <2>2
    <3>2. i + 5 = 11 * n + 4 + 1 /\ 1 \in 1..(3 * p)
      <4> HIDE DEF n, p
      <4> QED
        BY <1>0, <1>6, <3>1
    <3>3. PICK b \in [name : Names, arm : Arms] : EvalBlock[1] = EvalTasks(b)[1]
      BY <3>2, EvalIs
    <3>4. Script[11 * n + 4 + 1] = EvalBlock[1]
      BY <3>2, Layout
    <3>5. Script[i + 5] = EvalTasks(b)[1]
      <4> HIDE DEF i, n
      <4> QED
        BY <3>2, <3>3, <3>4
    <3> HIDE DEF i
    <3> QED
      BY <3>5 DEF EvalTasks, Task
  <2> HIDE DEF n, p
  <2> QED
    BY <1>0, <2>1, <2>2
<1> HIDE DEF i
<1>7. \E b \in Arms, l \in 1..5 :
          /\ Script[i] = ExportTasks(b)[l]
          /\ l > 1 => i - 1 \in 1..Len(Script) /\ Script[i - 1] = ExportTasks(b)[l - 1]
          /\ l = 1 /\ i + 5 \in 1..Len(Script) => Script[i + 5].op \in {"export", "protocol"}
  BY <1>4, <1>5, <1>6
<1> QED
  BY <1>7 DEF i, n

\* A command of a protocol, likewise.
LEMMA EvalAt ==
    ASSUME NEW k \in 1..(3 * Len(Protocols))
    PROVE  LET i == 11 * Len(ArmOrder) + 4 + k
           IN  \E a \in [name : Names, arm : Arms], j \in 1..3 :
                 /\ Script[i] = EvalTasks(a)[j]
                 /\ j > 1 => i - 1 \in 1..Len(Script) /\ Script[i - 1] = EvalTasks(a)[j - 1]
                 /\ j = 1 /\ i + 3 \in 1..Len(Script) => Script[i + 3].op = "protocol"
<1> DEFINE n == Len(ArmOrder)
           p == Len(Protocols)
           i == 11 * n + 4 + k
           ProtocolAt(x) == Protocols[(x - 1) \div 3 + 1]
<1>0. n \in Nat /\ p \in Nat /\ k \in 1..(3 * p) /\ Len(Script) = 11 * n + 3 * p + 4
  BY Lengths, Layout
<1>1. \A x \in 1..(3 * p) : \E a \in [name : Names, arm : Arms], j \in 1..3 :
          /\ a = ProtocolAt(x) /\ j = ((x - 1) % 3) + 1 /\ EvalBlock[x] = EvalTasks(a)[j]
  BY EvalIs
<1>2. \A x \in 1..(3 * p) : Script[11 * n + 4 + x] = EvalBlock[x]
  BY Layout
<1>3. PICK a \in [name : Names, arm : Arms], j \in 1..3 :
          a = ProtocolAt(k) /\ j = ((k - 1) % 3) + 1 /\ EvalBlock[k] = EvalTasks(a)[j]
  BY <1>1
<1>4. Script[i] = EvalTasks(a)[j]
  BY <1>2, <1>3
<1>5. ASSUME j > 1
      PROVE  i - 1 \in 1..Len(Script) /\ Script[i - 1] = EvalTasks(a)[j - 1]
  <2>1. /\ k - 1 \in 1..(3 * p)
        /\ (k - 1 - 1) \div 3 = (k - 1) \div 3
        /\ ((k - 1 - 1) % 3) + 1 = j - 1
        /\ i - 1 = 11 * n + 4 + (k - 1) /\ i - 1 \in 1..Len(Script)
    <3> HIDE DEF n, p
    <3> QED
      BY <1>0, <1>3, <1>5
  <2>2. EvalBlock[k - 1] = EvalTasks(a)[j - 1]
    BY <1>1, <1>3, <2>1
  <2>3. Script[11 * n + 4 + (k - 1)] = EvalBlock[k - 1]
    BY <1>2, <2>1
  <2> HIDE DEF i, n
  <2> QED
    BY <2>1, <2>2, <2>3
<1>6. ASSUME j = 1, i + 3 \in 1..Len(Script)
      PROVE  Script[i + 3].op = "protocol"
  <2>1. /\ k + 3 \in 1..(3 * p)
        /\ ((k + 3 - 1) % 3) + 1 = 1
        /\ i + 3 = 11 * n + 4 + (k + 3)
    <3> HIDE DEF n, p
    <3> QED
      BY <1>0, <1>3, <1>6
  <2>2. PICK b \in [name : Names, arm : Arms], l \in 1..3 :
            l = ((k + 3 - 1) % 3) + 1 /\ EvalBlock[k + 3] = EvalTasks(b)[l]
    <3> DEFINE x == k + 3
    <3>1. x \in 1..(3 * p)
      BY <2>1
    <3> HIDE DEF x
    <3>2. \E b \in [name : Names, arm : Arms], l \in 1..3 :
              l = ((x - 1) % 3) + 1 /\ EvalBlock[x] = EvalTasks(b)[l]
      BY <1>1, <3>1
    <3> QED
      BY <3>2 DEF x
  <2>3. Script[11 * n + 4 + (k + 3)] = EvalBlock[k + 3]
    BY <1>2, <2>1
  <2>4. Script[i + 3] = EvalTasks(b)[1]
    <3>1. l = 1
      BY <2>1, <2>2
    <3> HIDE DEF i, n
    <3> QED
      BY <2>1, <2>2, <2>3, <3>1
  <2> HIDE DEF i
  <2> QED
    BY <2>4 DEF EvalTasks, Task
<1> HIDE DEF i
<1>7. \E b \in [name : Names, arm : Arms], l \in 1..3 :
          /\ Script[i] = EvalTasks(b)[l]
          /\ l > 1 => i - 1 \in 1..Len(Script) /\ Script[i - 1] = EvalTasks(b)[l - 1]
          /\ l = 1 /\ i + 3 \in 1..Len(Script) => Script[i + 3].op = "protocol"
  BY <1>4, <1>5, <1>6
<1> QED
  BY <1>7 DEF i, n

\* What the steps of the driver need to know of the script: the arm and kind of a
\* task, the command before it in its chain, and where passing over a chain leads.
LEMMA TaskInScript ==
    ASSUME NEW i \in 1..Len(Script)
    PROVE  LET t == Script[i]
               Prev(s) == i - 1 \in 1..Len(Script) /\ Script[i - 1] = s
           IN  /\ t.op = "train" => t.step \in {5, 6} /\ t.arm \in Arms /\ t.kind \in Kinds
               /\ t.op \in {"convert", "patch"} =>
                      t.step = 7 /\ t.arm \in Arms /\ t.kind \in Kinds
               /\ t.op = "convert" /\ t.kind = "kto" => Prev(Task(7, "convert", t.arm, "sft"))
               /\ t.op = "patch" /\ t.kind = "sft" => Prev(Task(7, "convert", t.arm, "kto"))
               /\ t.op = "patch" /\ t.kind = "kto" => Prev(Task(7, "patch", t.arm, "sft"))
               /\ t.op \in {"reload", "collect"} => t.step = 8 /\ t.arm \in Arms
               /\ t.op = "collect" => Prev(Task(8, "reload", t.arm, t.kind))
               /\ t.op = "export" /\ i + 5 \in 1..Len(Script) =>
                      Script[i + 5].op \in {"export", "protocol"}
               /\ t.op = "protocol" /\ i + 3 \in 1..Len(Script) =>
                      Script[i + 3].op = "protocol"
<1> DEFINE t == Script[i]
           Prev(s) == i - 1 \in 1..Len(Script) /\ Script[i - 1] = s
           n == Len(ArmOrder)
           p == Len(Protocols)
<1>1. CASE \E k \in 1..(5 * n) : i = 6 * n + 4 + k
  <2>1. PICK a \in Arms, j \in 1..5 :
            /\ t = ExportTasks(a)[j]
            /\ j > 1 => Prev(ExportTasks(a)[j - 1])
            /\ j = 1 /\ i + 5 \in 1..Len(Script) => Script[i + 5].op \in {"export", "protocol"}
    BY <1>1, ExportAt
  <2> HIDE DEF t, Prev
  <2>2. CASE j = 1
    <3>1. t = Task(7, "export", a, "all")
      BY <2>1, <2>2 DEF ExportTasks
    <3> QED
      BY <2>1, <2>2, <3>1 DEF Task, t
  <2>3. CASE j = 2
    <3>1. t = Task(7, "convert", a, "sft")
      BY <2>1, <2>3 DEF ExportTasks
    <3> QED
      BY <3>1 DEF Task, t, Kinds
  <2>4. CASE j = 3
    <3>1. t = Task(7, "convert", a, "kto") /\ Prev(Task(7, "convert", a, "sft"))
      BY <2>1, <2>4 DEF ExportTasks
    <3> QED
      BY <3>1 DEF Task, t, Kinds, Prev
  <2>5. CASE j = 4
    <3>1. t = Task(7, "patch", a, "sft") /\ Prev(Task(7, "convert", a, "kto"))
      BY <2>1, <2>5 DEF ExportTasks
    <3> QED
      BY <3>1 DEF Task, t, Kinds, Prev
  <2>6. CASE j = 5
    <3>1. t = Task(7, "patch", a, "kto") /\ Prev(Task(7, "patch", a, "sft"))
      BY <2>1, <2>6 DEF ExportTasks
    <3> QED
      BY <3>1 DEF Task, t, Kinds, Prev
  <2> QED
    BY <2>2, <2>3, <2>4, <2>5, <2>6
<1>2. CASE \E k \in 1..(3 * p) : i = 11 * n + 4 + k
  <2>1. PICK a \in [name : Names, arm : Arms], j \in 1..3 :
            /\ t = EvalTasks(a)[j]
            /\ j > 1 => Prev(EvalTasks(a)[j - 1])
            /\ j = 1 /\ i + 3 \in 1..Len(Script) => Script[i + 3].op = "protocol"
    BY <1>2, EvalAt
  <2> HIDE DEF t, Prev
  <2>2. CASE j = 1
    <3>1. t = Task(8, "protocol", a.arm, a.name)
      BY <2>1, <2>2 DEF EvalTasks
    <3> QED
      BY <2>1, <2>2, <3>1 DEF Task, t
  <2>3. CASE j = 2
    <3>1. t = Task(8, "reload", a.arm, a.name)
      BY <2>1, <2>3 DEF EvalTasks
    <3> QED
      BY <3>1 DEF Task, t
  <2>4. CASE j = 3
    <3>1. t = Task(8, "collect", a.arm, a.name) /\ Prev(Task(8, "reload", a.arm, a.name))
      BY <2>1, <2>4 DEF EvalTasks
    <3> QED
      BY <3>1 DEF Task, t, Prev
  <2> QED
    BY <2>2, <2>3, <2>4
<1>3. CASE \E k \in 1..n : i = 4 * n + 4 + k
  <2>1. PICK k \in 1..n : i = 4 * n + 4 + k
    BY <1>3
  <2>2. k \in 1..(1 * n)
    BY Lengths
  <2>3. PICK a \in Arms, j \in 1..1 : SftBlock[k] = SftTask(a)[j]
    BY <2>2, SftIs
  <2>4. t = SftBlock[k]
    BY <2>1, Layout
  <2>5. t = Task(5, "train", a, "sft")
    <3> HIDE DEF t
    <3> QED
      BY <2>3, <2>4 DEF SftTask
  <2> HIDE DEF t
  <2> QED
    BY <2>5 DEF Task, t, Kinds
<1>4. CASE \E k \in 1..n : i = 5 * n + 4 + k
  <2>1. PICK k \in 1..n : i = 5 * n + 4 + k
    BY <1>4
  <2>2. k \in 1..(1 * n)
    BY Lengths
  <2>3. PICK a \in Arms, j \in 1..1 : KtoBlock[k] = KtoTask(a)[j]
    BY <2>2, KtoIs
  <2>4. t = KtoBlock[k]
    BY <2>1, Layout
  <2>5. t = Task(6, "train", a, "kto")
    <3> HIDE DEF t
    <3> QED
      BY <2>3, <2>4 DEF KtoTask
  <2> HIDE DEF t
  <2> QED
    BY <2>5 DEF Task, t, Kinds
<1>5. CASE t.op \in {"extract", "prep", "filter", "verify", "smoke", "sync"}
  BY <1>5
<1>6. \/ t.op \in {"extract", "prep", "filter", "verify", "smoke", "sync"}
      \/ \E k \in 1..n : i = 4 * n + 4 + k
      \/ \E k \in 1..n : i = 5 * n + 4 + k
      \/ \E k \in 1..(5 * n) : i = 6 * n + 4 + k
      \/ \E k \in 1..(3 * p) : i = 11 * n + 4 + k
  <2>1. ASSUME NEW k \in 1..(4 * n), i = 1 + k
        PROVE  t.op \in {"prep", "filter"}
    <3>1. PICK a \in Arms, j \in 1..4 : PrepBlock[k] = PrepTasks(a)[j]
      BY PrepIs
    <3>2. t = PrepBlock[k]
      BY <2>1, Layout
    <3> HIDE DEF t
    <3> QED
      BY <3>1, <3>2 DEF PrepTasks, Task
  <2>2. ASSUME i \in {1, 4 * n + 2, 4 * n + 3, 4 * n + 4}
        PROVE  t.op \in {"extract", "verify", "smoke", "sync"}
    BY <2>2, Layout DEF Task
  <2> QED
    BY <2>1, <2>2, Segments
<1> QED
  BY <1>1, <1>2, <1>3, <1>4, <1>5, <1>6

-----------------------------------------------------------------------------
(* What the pipeline relies on from one step to the next.                   *)

Table(f) == DOMAIN f = Arms /\ \A a \in Arms : DOMAIN f[a] = Kinds

Shape ==
    /\ at \in Nat
    /\ skip \in 0..8
    /\ reached \in 0..8
    /\ without \subseteq {Secondary}
    /\ DOMAIN served = Names
    /\ Table(adapter) /\ Table(gguf) /\ Table(jsonl)
    /\ \A a \in Arms, k \in Kinds : jsonl[a][k] = <<>> \/ jsonl[a][k] = <<jsonl[a][k][1]>>

\* The files of the arms that take part hold what the pins say, here and on the
\* server.
Gated == \A a \in Active, k \in Kinds : jsonl[a][k] = <<pins[a][k]>>
Shipped == \A a \in Active, k \in Kinds : remote[a][k] = <<pins[a][k]>>

\* Between the gate and step 4 the local files are good, and the server's are
\* after step 4; a run that skips step 4 has been beyond it before.
FilesInv ==
    /\ at \in {SyncAt - 1, SyncAt} /\ skip <= 4 => Gated
    /\ at > SyncAt => Shipped
    /\ at > 0 /\ skip >= 5 => Shipped
    /\ at = 0 /\ reached >= 5 => Shipped

\* Adapters are made of good files, KTO on the SFT adapter that is there.
AdapterInv ==
    /\ \A a \in Arms, k \in Kinds :
           adapter[a][k] # None => adapter[a][k].rows = pins[a][k]
    /\ \A a \in Arms :
           adapter[a].kto # None =>
               adapter[a].sft # None /\ adapter[a].kto.on = adapter[a].sft.id

\* A GGUF is that of the adapter which is there.
IsGguf(a, k) ==
    LET g == gguf[a][k]
    IN  /\ adapter[a][k] # None
        /\ g = [id |-> g.id, of |-> adapter[a][k], arch |-> g.arch, whole |-> g.whole]

GgufInv ==
    \A a \in Arms, k \in Kinds :
        gguf[a][k] # None =>
            IsGguf(a, k) /\ (gguf[a][k].arch = "gemma4" => gguf[a][k].whole)

\* Within the chain of one arm's commands, what has been converted is whole.
Made(a, k) == IsGguf(a, k) /\ gguf[a][k].whole

ChainInv ==
    at \in 1..Len(Script) /\ skip <= 7 /\ ~LeftOut =>
        /\ Now.op = "convert" /\ Now.kind = "kto" => Made(Now.arm, "sft")
        /\ Now.op = "patch" => Made(Now.arm, "sft") /\ Made(Now.arm, "kto")

Matches(pair) ==
    /\ pair.sft.whole /\ pair.sft.arch = "gemma4"
    /\ pair.kto.whole /\ pair.kto.arch = "gemma4"
    /\ pair.kto.of.on = pair.sft.of.id
    /\ \E a \in Arms : pair.sft.of.rows = pins[a].sft /\ pair.kto.of.rows = pins[a].kto

ServedInv ==
    /\ loaded # None => Matches(loaded)
    /\ \A n \in Names : \A pair \in served[n] : Matches(pair)
    /\ at \in 1..Len(Script) /\ ~LeftOut /\ Now.op = "collect" => loaded # None

PairsInv == Shape /\ FilesInv /\ AdapterInv /\ GgufInv /\ ChainInv /\ ServedInv

LEMMA PairsInit == Init => PairsInv
<1> SUFFICES ASSUME Init PROVE PairsInv
  OBVIOUS
<1>1. Shape
  BY DEF Init, Shape, Table, Nothing, Absent
<1>2. FilesInv
  <2>1. SyncAt >= 4 /\ SyncAt \in Nat
    BY Lengths DEF SyncAt
  <2> QED
    BY <2>1 DEF Init, FilesInv
<1>3. AdapterInv /\ GgufInv
  BY DEF Init, AdapterInv, GgufInv, Nothing, Kinds
<1>4. ChainInv /\ ServedInv
  BY DEF Init, ChainInv, ServedInv
<1> QED
  BY <1>1, <1>2, <1>3, <1>4 DEF PairsInv

LEMMA StepsKeep == [Next]_vars => pins' = pins /\ without' = without
<1> SUFFICES ASSUME [Next]_vars PROVE pins' = pins /\ without' = without
  OBVIOUS
<1>1. pins' = pins
  BY NextKeeps DEF vars
<1>2. CASE UNCHANGED vars
  BY <1>2 DEF vars, driverVars
<1>3. CASE Next
  BY <1>3 DEF Next, Launch, SkipTask, ExtractOrSmoke, Prep, FilterRaw, Verify, Sync,
         TrainDone, Train, TrainFails, Export, Convert, Patch, ProtocolDone, Reload,
         OldAnswers, Collect, EndCollect, StopBetween, StopInFilter, StopInSync,
         StopInConvert, StopInReload, Continue, Move, MovePastFault, Exit, Stop
<1> QED
  BY <1>1, <1>2, <1>3

\* Where the driver is, and where it may go.
AtTask == at \in 1..Len(Script)
Forward == AtTask /\ at' = at + 1 /\ UNCHANGED <<skip, reached>>
PastChain == Runs("export") /\ at' = at + 5 /\ UNCHANGED <<skip, reached>>
PastProtocol == Runs("protocol") /\ at' = at + 3 /\ UNCHANGED <<skip, reached>>
Halt == AtTask /\ at' = 0 /\ reached' = Now.step /\ UNCHANGED skip
Wait == UNCHANGED <<at, skip, reached>>

LEMMA AtIsTask ==
    ASSUME Shape
    PROVE  /\ AtTask <=> at > 0 /\ at <= Len(Script)
           /\ \A op : At(op) => AtTask /\ Now.op = op
<1>1. at \in Nat /\ Len(Script) \in Nat
  BY Lengths, Layout DEF Shape
<1> QED
  BY <1>1 DEF AtTask, At

LEMMA DriverMoves ==
    ASSUME Shape, Next
    PROVE  Wait \/ Launch \/ Forward \/ PastChain \/ PastProtocol \/ Halt
<1>1. /\ AtTask <=> at > 0 /\ at <= Len(Script)
      /\ \A op : At(op) => AtTask
  BY AtIsTask
<1>2. CASE Launch \/ \E n \in Names : EndCollect(n)
  BY <1>2 DEF EndCollect, Wait
<1>3. CASE SkipTask \/ ExtractOrSmoke \/ Prep \/ FilterRaw \/ TrainDone \/ Train
           \/ Patch \/ Collect
  BY <1>1, <1>3 DEF SkipTask, ExtractOrSmoke, Prep, FilterRaw, TrainDone, Train, Patch,
                    Collect, Runs, Continue, Move, Forward
<1>4. CASE Verify \/ Sync \/ TrainFails \/ Convert \/ Reload \/ OldAnswers
  BY <1>1, <1>4 DEF Verify, Sync, TrainFails, Convert, Reload, OldAnswers, Runs, Continue,
                    Move, MovePastFault, Exit, Forward, Halt
<1>5. CASE Export \/ ProtocolDone
  BY <1>1, <1>5 DEF Export, ProtocolDone, Runs, Continue, Move, Forward, PastChain,
                    PastProtocol
<1>6. CASE StopBetween \/ StopInFilter \/ StopInSync \/ StopInConvert \/ StopInReload
  BY <1>1, <1>6 DEF StopBetween, StopInFilter, StopInSync, StopInConvert, StopInReload,
                    Stop, Halt
<1> QED
  BY <1>2, <1>3, <1>4, <1>5, <1>6 DEF Next

LEMMA ShapeStep ==
    ASSUME Shape, [Next]_vars
    PROVE  Shape'
<1>1. CASE UNCHANGED vars
  BY <1>1 DEF vars, driverVars, fileVars, modelVars, evalVars, Shape, Table
<1>2. CASE Next
  <2>1. at' \in Nat /\ skip' \in 0..8 /\ reached' \in 0..8
    <3>1. AtTask => Now.step \in 1..8
      BY Order DEF AtTask, Now, AnyTask
    <3>2. Wait \/ Launch \/ Forward \/ PastChain \/ PastProtocol \/ Halt
      BY <1>2, DriverMoves
    <3> QED
      BY <3>1, <3>2 DEF Shape, Wait, Launch, Forward, PastChain, PastProtocol, Halt
  <2>2. without' \subseteq {Secondary}
    BY StepsKeep DEF Shape
  <2>3. DOMAIN served' = Names
    BY <1>2 DEF Next, Launch, SkipTask, ExtractOrSmoke, Prep, FilterRaw, Verify, Sync,
         TrainDone, Train, TrainFails, Export, Convert, Patch, ProtocolDone, Reload,
         OldAnswers, Collect, EndCollect, StopBetween, StopInFilter, StopInSync,
         StopInConvert, StopInReload, Serve, Shape, evalVars
  <2>4. Table(adapter)' /\ Table(gguf)'
    BY <1>2 DEF Next, Launch, SkipTask, ExtractOrSmoke, Prep, FilterRaw, Verify, Sync,
         TrainDone, Train, TrainFails, Export, Convert, Patch, ProtocolDone, Reload,
         OldAnswers, Collect, EndCollect, StopBetween, StopInFilter, StopInSync,
         StopInConvert, StopInReload, Shape, Table, modelVars
  <2>5. Table(jsonl)'
        /\ \A a \in Arms, k \in Kinds : jsonl'[a][k] = <<>> \/ jsonl'[a][k] = <<jsonl'[a][k][1]>>
    <3>1. CASE UNCHANGED jsonl
      BY <3>1 DEF Shape, Table
    <3>2. CASE FilterRaw \/ StopInFilter
      <4>1. PICK rows : jsonl' = [jsonl EXCEPT ![Now.arm][Now.kind] = <<rows>>]
        BY <3>2 DEF FilterRaw, StopInFilter
      <4> QED
        BY <4>1 DEF Shape, Table
    <3> QED
      BY <1>2, <3>1, <3>2 DEF Next, Launch, SkipTask, ExtractOrSmoke, Prep, Verify, Sync,
         TrainDone, Train, TrainFails, Export, Convert, Patch, ProtocolDone, Reload,
         OldAnswers, Collect, EndCollect, StopBetween, StopInSync,
         StopInConvert, StopInReload, fileVars
  <2> QED
    BY <2>1, <2>2, <2>3, <2>4, <2>5 DEF Shape
<1> QED
  BY <1>1, <1>2

-----------------------------------------------------------------------------
(* Every step keeps it.                                                     *)

LEMMA FilesStep ==
    ASSUME Shape, FilesInv, [Next]_vars
    PROVE  FilesInv'
<1>1. pins' = pins /\ without' = without
  BY StepsKeep
<1>2. /\ UNCHANGED jsonl => Gated' = Gated
      /\ UNCHANGED remote => Shipped' = Shipped
  BY <1>1 DEF Gated, Shipped, Active
<1>3. SyncAt \in Nat /\ SyncAt >= 4 /\ SyncAt' = SyncAt
  BY Lengths DEF SyncAt
<1>4. at \in Nat /\ skip \in 0..8 /\ reached \in 0..8
  BY DEF Shape
<1>5. AtTask => /\ Now.step \in 1..8
                /\ Now.step >= 5 <=> at > SyncAt
  BY Order DEF AtTask, Now, AnyTask
<1>6. /\ AtTask <=> at > 0 /\ at <= Len(Script)
      /\ \A op : At(op) => AtTask /\ Now.op = op
  BY AtIsTask
<1>7. CASE UNCHANGED vars
  BY <1>2, <1>3, <1>7 DEF vars, driverVars, fileVars, FilesInv
<1>8. ASSUME Next, UNCHANGED <<jsonl, remote>>,
             Forward /\ at = SyncAt - 2 /\ skip <= 4 => Gated,
             Forward /\ at = SyncAt => skip >= 5
      PROVE  FilesInv'
  <2>1. CASE Wait
    BY <1>2, <1>3, <1>8, <2>1 DEF Wait, FilesInv
  <2>2. CASE Launch
    BY <1>2, <1>3, <1>4, <1>8, <2>2 DEF Launch, FilesInv
  <2>3. CASE Forward
    <3>1. at' = at + 1 /\ skip' = skip /\ reached' = reached /\ at > 0
      BY <1>6, <2>3 DEF Forward
    <3>2. CASE at' < SyncAt - 1
      BY <1>2, <1>3, <1>4, <1>8, <3>1, <3>2 DEF FilesInv
    <3>3. CASE at' = SyncAt - 1
      BY <1>2, <1>3, <1>4, <1>8, <2>3, <3>1, <3>3 DEF FilesInv
    <3>4. CASE at' = SyncAt
      BY <1>2, <1>3, <1>4, <1>8, <3>1, <3>4 DEF FilesInv
    <3>5. CASE at' > SyncAt
      <4>1. Shipped
        BY <1>3, <1>4, <1>8, <2>3, <3>1, <3>5 DEF FilesInv
      <4> QED
        BY <1>2, <1>3, <1>4, <1>8, <3>1, <3>5, <4>1 DEF FilesInv
    <3> QED
      BY <1>3, <1>4, <3>1, <3>2, <3>3, <3>4, <3>5
  <2>4. CASE PastChain \/ PastProtocol
    <3>1. at > SyncAt
      BY <1>6, <2>4, Order DEF PastChain, PastProtocol, Runs, AtTask, Now
    <3> QED
      BY <1>2, <1>3, <1>4, <1>8, <2>4, <3>1 DEF PastChain, PastProtocol, FilesInv
  <2>5. CASE Halt
    BY <1>2, <1>3, <1>4, <1>5, <1>8, <2>5 DEF Halt, FilesInv
  <2> QED
    BY <1>8, <2>1, <2>2, <2>3, <2>4, <2>5, DriverMoves
<1>9. CASE FilterRaw \/ StopInFilter
  <2>1. AtTask /\ Now.op = "filter"
    BY <1>6, <1>9 DEF FilterRaw, StopInFilter, Runs
  <2>2. at < SyncAt - 2 /\ Now.step < 5
    BY <1>3, <1>4, <1>5, <2>1, Order DEF AtTask, Now
  <2>3. /\ skip' = skip /\ skip <= 4
        /\ (at' = at + 1) \/ (at' = 0 /\ reached' = Now.step)
    BY <1>4, <1>5, <1>9, <2>1, <2>2 DEF FilterRaw, StopInFilter, Runs, Stop, Continue, Move
  <2> QED
    BY <1>3, <1>4, <1>5, <2>1, <2>2, <2>3 DEF FilesInv
<1>10. CASE Sync
  <2>1. AtTask /\ at = SyncAt /\ Now.step = 4 /\ skip <= 4
    <3>1. AtTask /\ Now.op = "sync"
      BY <1>6, <1>10 DEF Sync, Runs
    <3>2. at = SyncAt
      BY <3>1, Order DEF AtTask, Now
    <3>3. Now = Task(4, "sync", "all", "all")
      BY <3>1, <3>2, Order DEF AtTask, Now
    <3>4. Now.step = 4
      BY <3>3 DEF Task
    <3> QED
      BY <1>4, <1>10, <3>1, <3>2, <3>4 DEF Sync, Runs
  <2>2. Gated
    BY <1>3, <2>1 DEF FilesInv
  <2>3. CASE Exit /\ UNCHANGED remote
    BY <1>3, <1>4, <2>1, <2>3 DEF Exit, FilesInv
  <2>4. CASE /\ remote' = [a \in Arms |-> IF a \in Active THEN jsonl[a] ELSE remote[a]]
             /\ Continue
    <3>1. Shipped'
      BY <1>1, <2>2, <2>4 DEF Gated, Shipped, Active
    <3>2. at' = SyncAt + 1
      BY <2>1, <2>4 DEF Continue, Move
    <3> QED
      BY <1>3, <3>1, <3>2 DEF FilesInv
  <2> QED
    BY <1>10, <2>3, <2>4 DEF Sync
<1>11. CASE StopInSync
  <2>1. AtTask /\ Now.op = "sync" /\ Now.step >= skip
    BY <1>6, <1>11 DEF StopInSync, Runs
  <2>2. Now.step < 5
    BY <1>3, <1>4, <1>5, <2>1, Order DEF AtTask, Now
  <2>3. at' = 0 /\ reached' = Now.step
    BY <1>11 DEF StopInSync, Stop
  <2> QED
    BY <1>3, <1>5, <2>1, <2>2, <2>3 DEF FilesInv
<1>12. CASE Verify
  <2>1. AtTask /\ Now.op = "verify" /\ UNCHANGED <<jsonl, remote>>
    BY <1>6, <1>12 DEF Verify, fileVars
  <2>2. at # SyncAt
    <3>1. ASSUME at = SyncAt PROVE FALSE
      <4>1. Now = Task(4, "sync", "all", "all")
        BY <2>1, <3>1, Order DEF AtTask, Now
      <4> QED
        BY <2>1, <4>1 DEF Task
    <3> QED
      BY <3>1
  <2>3. Forward /\ skip <= 4 => Gated
    <3>1. ASSUME Forward, skip <= 4 PROVE Verified
      BY <1>4, <1>12, <3>1 DEF Verify, Forward, Exit
    <3>2. Verified => Gated
      <4> SUFFICES ASSUME Verified, NEW a \in Active, NEW k \in Kinds
                   PROVE  jsonl[a][k] = <<pins[a][k]>>
        BY DEF Gated
      <4>1. jsonl[a][k] # <<>> /\ jsonl[a][k][1] = pins[a][k]
        BY DEF Verified
      <4>2. jsonl[a][k] = <<jsonl[a][k][1]>>
        BY <4>1 DEF Shape, Active
      <4> QED
        BY <4>1, <4>2
    <3> QED
      BY <3>1, <3>2
  <2>4. Next
    BY <1>12 DEF Next
  <2> QED
    BY <1>8, <2>1, <2>2, <2>3, <2>4
\* Every other action leaves the files alone, and passes the gate and step 4 only
\* by being told to.
<1>13. ASSUME UNCHANGED <<jsonl, remote>>, Next, ~Verify, ~Sync
       PROVE  FilesInv'
  <2>1. ASSUME Forward, at = SyncAt - 2 PROVE FALSE
    <3>1. Now.op = "verify"
      BY <1>13, <2>1, Order DEF Forward, AtTask, Now
    <3> QED
      BY <1>3, <1>4, <1>13, <2>1, <3>1 DEF Next, Launch, SkipTask, ExtractOrSmoke, Prep, FilterRaw,
           TrainDone, Train, TrainFails, Export, Convert, Patch, ProtocolDone, Reload, OldAnswers,
           Collect, EndCollect, StopBetween, StopInFilter, StopInSync, StopInConvert,
           StopInReload, Stop, Runs, At, Forward
  <2>2. ASSUME Forward, at = SyncAt PROVE skip >= 5
    <3>1. Now = Task(4, "sync", "all", "all")
      BY <2>2, Order DEF Forward, AtTask, Now
    <3>2. Now.op = "sync" /\ Now.step = 4 /\ Now.arm = "all"
      BY <3>1 DEF Task
    <3>3. ~LeftOut
      BY <3>2, PipelineAssumption DEF LeftOut, Shape
    <3>4. SkipTask
      BY <1>3, <1>4, <1>13, <2>2, <3>2 DEF Next, Launch, ExtractOrSmoke, Prep, FilterRaw,
           TrainDone, Train, TrainFails, Export, Convert, Patch, ProtocolDone, Reload, OldAnswers,
           Collect, EndCollect, StopBetween, StopInFilter, StopInSync, StopInConvert,
           StopInReload, Stop, Runs, At, Forward
    <3> QED
      BY <1>4, <3>2, <3>3, <3>4 DEF SkipTask
  <2> QED
    BY <1>8, <1>13, <2>1, <2>2
<1>14. Next /\ ~FilterRaw /\ ~StopInFilter /\ ~Sync /\ ~StopInSync
           => UNCHANGED <<jsonl, remote>>
  BY DEF Next, Launch, SkipTask, ExtractOrSmoke, Prep, Verify,
         TrainDone, Train, TrainFails, Export, Convert, Patch, ProtocolDone, Reload,
         OldAnswers, Collect, EndCollect, StopBetween, StopInConvert, StopInReload, fileVars
<1> QED
  BY <1>7, <1>9, <1>10, <1>11, <1>12, <1>13, <1>14

LEMMA AdapterStep ==
    ASSUME Shape, FilesInv, AdapterInv, [Next]_vars
    PROVE  AdapterInv'
<1>1. pins' = pins
  BY StepsKeep
<1>2. CASE UNCHANGED adapter
  BY <1>1, <1>2 DEF AdapterInv
<1>3. CASE Train
  <2> DEFINE arm == Now.arm
             kind == Now.kind
             new == [id |-> training', rows |-> remote[arm][kind][1],
                     on |-> IF kind = "kto" THEN adapter[arm].sft.id ELSE 0]
  <2>1. AtTask /\ Now.op = "train" /\ ~LeftOut
    BY <1>3, AtIsTask DEF Train, Runs
  <2>2. arm \in Arms /\ kind \in Kinds /\ Now.step \in {5, 6} /\ at > SyncAt
    BY <2>1, TaskInScript, Order DEF AtTask, Now
  <2>3. arm \in Active
    BY <2>1, <2>2 DEF LeftOut, Active
  <2>4. remote[arm][kind] = <<pins[arm][kind]>>
    BY <2>2, <2>3 DEF FilesInv, Shipped
  <2>5. /\ adapter[arm][kind] = None
        /\ kind = "kto" => adapter[arm].sft # None
        /\ adapter' = [adapter EXCEPT ![arm][kind] = new]
    BY <1>3 DEF Train, Trained, CanTrain
  <2>6. new.rows = pins[arm][kind]
    BY <2>4
  <2>7. kind = "kto" => new.on = adapter[arm].sft.id
    OBVIOUS
  <2> HIDE DEF arm, kind, new
  <2>8. /\ adapter'[arm][kind] = new
        /\ \A a \in Arms, k \in Kinds :
               a # arm \/ k # kind => adapter'[a][k] = adapter[a][k]
    BY <2>2, <2>5 DEF Shape, Table
  <2>9. \A a \in Arms, k \in Kinds : adapter'[a][k] # None => adapter'[a][k].rows = pins[a][k]
    BY <2>6, <2>8 DEF AdapterInv
  <2>10. ASSUME NEW a \in Arms, adapter'[a].kto # None
         PROVE  adapter'[a].sft # None /\ adapter'[a].kto.on = adapter'[a].sft.id
    <3>1. "sft" \in Kinds /\ "kto" \in Kinds /\ "sft" # "kto"
      BY DEF Kinds
    <3>2. CASE a = arm /\ kind = "kto"
      BY <2>5, <2>7, <2>8, <3>1, <3>2
    <3>3. CASE a = arm /\ kind = "sft"
      BY <2>5, <2>8, <2>10, <3>1, <3>3 DEF AdapterInv
    <3>4. CASE a # arm
      BY <2>8, <2>10, <3>1, <3>4 DEF AdapterInv
    <3> QED
      BY <2>2, <3>2, <3>3, <3>4 DEF Kinds
  <2> QED
    BY <1>1, <2>9, <2>10 DEF AdapterInv
<1> QED
  BY <1>2, <1>3 DEF Next, Launch, SkipTask, ExtractOrSmoke, Prep, FilterRaw, Verify, Sync,
         TrainDone, TrainFails, Export, Convert, Patch, ProtocolDone, Reload,
         OldAnswers, Collect, EndCollect, StopBetween, StopInFilter, StopInSync,
         StopInConvert, StopInReload, vars, modelVars

\* What the export commands leave: the converted file is made of the adapter that
\* is there, and a patch changes the architecture alone.
LEMMA ExportSteps ==
    ASSUME Shape, Convert \/ Patch \/ StopInConvert,
           NEW arm, NEW kind, arm = Now.arm, kind = Now.kind
    PROVE  /\ AtTask /\ ~LeftOut /\ Now.step = 7 /\ Now.step >= skip
           /\ arm \in Arms /\ kind \in Kinds
           /\ UNCHANGED adapter
           /\ \A a \in Arms, k \in Kinds :
                  a # arm \/ k # kind => gguf'[a][k] = gguf[a][k]
           /\ Convert => \/ UNCHANGED gguf /\ at' = 0
                         \/ /\ Made(arm, kind)'
                            /\ gguf'[arm][kind].arch = "gemma3"
           /\ StopInConvert => IsGguf(arm, kind)' /\ gguf'[arm][kind].arch = "gemma3"
           /\ Patch => gguf'[arm][kind] = [gguf[arm][kind] EXCEPT !.arch = "gemma4"]
<1>1. AtTask /\ Now.op \in {"convert", "patch"} /\ ~LeftOut /\ Now.step >= skip
  BY AtIsTask DEF Convert, Patch, StopInConvert, Runs
<1>2. arm \in Arms /\ kind \in Kinds /\ Now.step = 7
  BY <1>1, TaskInScript DEF AtTask, Now
<1>3. UNCHANGED adapter
  BY DEF Convert, Patch, StopInConvert
<1>4. /\ Convert =>
           \/ UNCHANGED gguf /\ at' = 0
           \/ /\ adapter[arm][kind] # None
              /\ gguf' = [gguf EXCEPT ![arm][kind] =
                     [id |-> training, of |-> adapter[arm][kind], arch |-> "gemma3",
                      whole |-> TRUE]]
      /\ StopInConvert =>
              /\ adapter[arm][kind] # None
              /\ gguf' = [gguf EXCEPT ![arm][kind] =
                     [id |-> training, of |-> adapter[arm][kind], arch |-> "gemma3",
                      whole |-> FALSE]]
      /\ Patch => gguf' = [gguf EXCEPT ![arm][kind] =
                     [gguf[arm][kind] EXCEPT !.arch = "gemma4"]]
  BY <1>2 DEF Convert, Patch, StopInConvert, Exit, Shape, Table
<1>5. \A a \in Arms, k \in Kinds : a # arm \/ k # kind => gguf'[a][k] = gguf[a][k]
  BY <1>2, <1>4 DEF Shape, Table
<1>6. ASSUME NEW w \in BOOLEAN, adapter[arm][kind] # None,
             gguf' = [gguf EXCEPT ![arm][kind] =
                     [id |-> training, of |-> adapter[arm][kind], arch |-> "gemma3",
                      whole |-> w]]
      PROVE  /\ IsGguf(arm, kind)'
             /\ gguf'[arm][kind].arch = "gemma3"
             /\ gguf'[arm][kind].whole = w
  <2>1. gguf'[arm][kind] = [id |-> training, of |-> adapter[arm][kind],
                            arch |-> "gemma3", whole |-> w]
    BY <1>2, <1>6 DEF Shape, Table
  <2> DEFINE g == gguf'[arm][kind]
  <2>2. g.id = training /\ g.of = adapter[arm][kind] /\ g.arch = "gemma3" /\ g.whole = w
    BY <2>1
  <2>3. g = [id |-> g.id, of |-> adapter[arm][kind], arch |-> g.arch, whole |-> g.whole]
    <3> HIDE DEF g
    <3> QED
      BY <2>1, <2>2 DEF g
  <2> QED
    BY <1>3, <1>6, <2>2, <2>3 DEF IsGguf
<1>7. Convert => \/ UNCHANGED gguf /\ at' = 0
                 \/ Made(arm, kind)' /\ gguf'[arm][kind].arch = "gemma3"
  BY <1>4, <1>6 DEF Made
<1>8. StopInConvert => IsGguf(arm, kind)' /\ gguf'[arm][kind].arch = "gemma3"
  BY <1>4, <1>6
<1>9. Patch => gguf'[arm][kind] = [gguf[arm][kind] EXCEPT !.arch = "gemma4"]
  BY <1>2, <1>4 DEF Shape, Table
<1> QED
  BY <1>1, <1>2, <1>3, <1>5, <1>7, <1>8, <1>9

LEMMA OthersKeep ==
    ASSUME Shape, Convert \/ Patch, NEW a \in Arms, NEW k \in Kinds,
           a # Now.arm \/ k # Now.kind
    PROVE  gguf'[a][k] = gguf[a][k]
<1>1. PICK b, c : b = Now.arm /\ c = Now.kind
  OBVIOUS
<1>2. b \in Arms /\ c \in Kinds
  BY <1>1, ExportSteps
<1>3. UNCHANGED gguf \/ \E new : gguf' = [gguf EXCEPT ![b][c] = new]
  <2>1. CASE Convert
    BY <1>1, <2>1 DEF Convert
  <2>2. CASE Patch
    BY <1>1, <1>2, <2>2 DEF Patch, Shape, Table
  <2> QED
    BY <2>1, <2>2
<1>4. CASE UNCHANGED gguf
  BY <1>4
<1>5. ASSUME NEW new, gguf' = [gguf EXCEPT ![b][c] = new]
      PROVE  gguf'[a][k] = gguf[a][k]
  <2>1. a # b \/ k # c
    BY <1>1
  <2> QED
    BY <1>2, <1>5, <2>1 DEF Shape, Table
<1> QED
  BY <1>3, <1>4, <1>5

\* A patched file that is whole stays so, and stays that of its adapter.
LEMMA PatchKeeps ==
    ASSUME NEW arm \in Arms, NEW kind \in Kinds, Made(arm, kind), UNCHANGED adapter,
           gguf'[arm][kind] = [gguf[arm][kind] EXCEPT !.arch = "gemma4"]
    PROVE  Made(arm, kind)'
<1> DEFINE f == gguf[arm][kind]
           g == gguf'[arm][kind]
<1>1. /\ adapter[arm][kind] # None
      /\ f = [id |-> f.id, of |-> adapter[arm][kind], arch |-> f.arch, whole |-> f.whole]
      /\ g = [f EXCEPT !.arch = "gemma4"]
  BY DEF Made, IsGguf
<1>0. f.whole
  BY DEF Made
<1> HIDE DEF f, g
<1>2. g = [id |-> f.id, of |-> adapter[arm][kind], arch |-> "gemma4", whole |-> f.whole]
  BY <1>1
<1>3. g.id = f.id /\ g.arch = "gemma4" /\ g.whole = f.whole
  BY <1>2
<1>4. g = [id |-> g.id, of |-> adapter[arm][kind], arch |-> g.arch, whole |-> g.whole]
  BY <1>2, <1>3
<1>5. IsGguf(arm, kind)'
  BY <1>1, <1>4 DEF IsGguf, g
<1>6. gguf'[arm][kind].whole
  BY <1>0, <1>3 DEF g
<1> QED
  BY <1>5, <1>6 DEF Made

LEMMA SameGguf ==
    ASSUME NEW a, NEW k, adapter'[a][k] = adapter[a][k], gguf'[a][k] = gguf[a][k]
    PROVE  /\ IsGguf(a, k)' <=> IsGguf(a, k)
           /\ Made(a, k)' <=> Made(a, k)
  BY DEF IsGguf, Made

\* A patch that is run finds both files of the arm whole.
LEMMA Patching ==
    ASSUME Shape, ChainInv, Patch, NEW arm, NEW kind, arm = Now.arm, kind = Now.kind
    PROVE  Made(arm, "sft") /\ Made(arm, "kto")
<1>1. AtTask /\ ~LeftOut /\ Now.step = 7 /\ Now.step >= skip
  BY ExportSteps
<1>2. Now.op = "patch" /\ skip <= 7
  BY <1>1, AtIsTask DEF Patch, Runs, Shape
<1> QED
  BY <1>1, <1>2 DEF ChainInv, AtTask

LEMMA GgufStep ==
    ASSUME Shape, GgufInv, ChainInv, [Next]_vars
    PROVE  GgufInv'
<1> SUFFICES ASSUME NEW a \in Arms, NEW k \in Kinds, gguf'[a][k] # None
             PROVE  /\ IsGguf(a, k)'
                    /\ gguf'[a][k].arch = "gemma4" => gguf'[a][k].whole
  BY DEF GgufInv
<1>1. ASSUME adapter'[a][k] = adapter[a][k], gguf'[a][k] = gguf[a][k]
      PROVE  /\ IsGguf(a, k)'
             /\ gguf'[a][k].arch = "gemma4" => gguf'[a][k].whole
  BY <1>1, SameGguf DEF GgufInv
<1>2. CASE Train
  <2>1. /\ UNCHANGED gguf
        /\ adapter[Now.arm][Now.kind] = None
        /\ \E new : adapter' = [adapter EXCEPT ![Now.arm][Now.kind] = new]
    BY <1>2 DEF Train, Trained
  <2>2. adapter[a][k] # None
    BY <2>1 DEF GgufInv, IsGguf
  <2>3. adapter'[a][k] = adapter[a][k]
    BY <2>1, <2>2 DEF Shape, Table
  <2> QED
    BY <1>1, <2>1, <2>3
<1>3. CASE Convert \/ Patch \/ StopInConvert
  <2>1. PICK b, c : b = Now.arm /\ c = Now.kind
    OBVIOUS
  <2>2. /\ b \in Arms /\ c \in Kinds
        /\ UNCHANGED adapter
        /\ a # b \/ k # c => gguf'[a][k] = gguf[a][k]
        /\ Convert => \/ UNCHANGED gguf
                      \/ Made(b, c)' /\ gguf'[b][c].arch = "gemma3"
        /\ StopInConvert => IsGguf(b, c)' /\ gguf'[b][c].arch = "gemma3"
        /\ Patch => gguf'[b][c] = [gguf[b][c] EXCEPT !.arch = "gemma4"]
    BY <1>3, <2>1, ExportSteps
  <2>3. CASE a # b \/ k # c
    BY <1>1, <2>2, <2>3
  <2>4. CASE a = b /\ k = c /\ Patch
    <3>1. Made(b, c)
      BY <2>1, <2>2, <2>4, Patching DEF Kinds
    <3>2. Made(b, c)'
      BY <2>2, <2>4, <3>1, PatchKeeps
    <3> QED
      BY <2>4, <3>2 DEF Made
  <2>5. CASE a = b /\ k = c /\ (Convert \/ StopInConvert)
    <3>1. CASE UNCHANGED gguf
      BY <1>1, <2>2, <3>1
    <3>2. CASE IsGguf(b, c)' /\ gguf'[b][c].arch = "gemma3"
      BY <2>5, <3>2
    <3> QED
      BY <2>2, <2>5, <3>1, <3>2 DEF Made
  <2> QED
    BY <1>3, <2>3, <2>4, <2>5
<1>4. CASE UNCHANGED <<adapter, gguf>>
  BY <1>1, <1>4
<1> QED
  BY <1>2, <1>3, <1>4 DEF Next, Launch, SkipTask, ExtractOrSmoke, Prep, FilterRaw, Verify, Sync,
         TrainDone, TrainFails, Export, ProtocolDone, Reload,
         OldAnswers, Collect, EndCollect, StopBetween, StopInFilter, StopInSync,
         StopInReload, vars, modelVars

\* When the driver has gone one task on, the task before was run, unless --skip
\* or SKIP_D_GIST passed over it.
LEMMA RanBefore ==
    ASSUME Shape, Next, at' = at + 1, AtTask, ~SkipTask
    PROVE  /\ Now.op = "convert" => Convert
           /\ Now.op = "patch" => Patch
           /\ Now.op = "reload" => Reload \/ OldAnswers
<1>1. at > 0 /\ at \in Nat
  BY DEF Shape, AtTask
<1>2. ~Launch /\ ~(\E n \in Names : EndCollect(n))
  BY <1>1 DEF Launch, EndCollect
<1>3. ~StopBetween /\ ~StopInFilter /\ ~StopInSync /\ ~StopInConvert /\ ~StopInReload
  BY <1>1 DEF StopBetween, StopInFilter, StopInSync, StopInConvert, StopInReload, Stop
<1>4. ExtractOrSmoke \/ Prep \/ FilterRaw \/ Verify \/ Sync \/ TrainDone \/ Train
          \/ TrainFails \/ Export \/ ProtocolDone \/ Collect
          => Now.op \notin {"convert", "patch", "reload"}
  BY DEF ExtractOrSmoke, Prep, FilterRaw, Verify, Sync, TrainDone, Train, TrainFails,
         Export, ProtocolDone, Collect, Runs, At
<1>5. /\ Convert => Now.op = "convert"
      /\ Patch => Now.op = "patch"
      /\ Reload \/ OldAnswers => Now.op = "reload"
  BY DEF Convert, Patch, Reload, OldAnswers, Runs, At
<1> QED
  BY <1>2, <1>3, <1>4, <1>5 DEF Next

\* Where a step may lead when it does not end the driver: to the next task, past a
\* chain that is done, or to the first task.
LEMMA Arrives ==
    ASSUME Shape, Next, at' \in 1..Len(Script)
    PROVE  \/ UNCHANGED <<at, skip>> /\ \E n \in Names : EndCollect(n)
           \/ Forward /\ at = at' - 1
           \/ Script[at'].op \in {"extract", "export", "protocol"}
<1>1. at \in Nat /\ at' \in Nat /\ at' > 0
  BY DEF Shape
<1>2. CASE Launch
  <2>1. Script[1] = Task(1, "extract", "all", "all")
    BY Layout
  <2> QED
    BY <1>2, <2>1 DEF Launch, Task
<1>3. CASE PastChain
  <2>1. AtTask /\ Now.op = "export" /\ at' = at + 5
    BY <1>3, AtIsTask DEF PastChain, Runs
  <2> QED
    BY <2>1, TaskInScript DEF AtTask, Now
<1>4. CASE PastProtocol
  <2>1. AtTask /\ Now.op = "protocol" /\ at' = at + 3
    BY <1>4, AtIsTask DEF PastProtocol, Runs
  <2> QED
    BY <2>1, TaskInScript DEF AtTask, Now
<1>5. CASE Forward
  BY <1>1, <1>5 DEF Forward
<1>6. CASE Halt
  BY <1>1, <1>6 DEF Halt
<1>7. CASE Wait
  <2>1. at' = at /\ skip' = skip
    BY <1>7 DEF Wait
  <2>2. \E n \in Names : EndCollect(n)
    BY <1>1, <2>1 DEF Next, Launch, SkipTask, ExtractOrSmoke, Prep, FilterRaw, Verify, Sync,
         TrainDone, Train, TrainFails, Export, Convert, Patch, ProtocolDone, Reload,
         OldAnswers, Collect, StopBetween, StopInFilter, StopInSync,
         StopInConvert, StopInReload, Continue, Move, MovePastFault, Exit, Stop
  <2> QED
    BY <2>1, <2>2
<1> QED
  BY <1>2, <1>3, <1>4, <1>5, <1>6, <1>7, DriverMoves

LEMMA ChainStep ==
    ASSUME Shape, ChainInv, [Next]_vars
    PROVE  ChainInv'
<1>1. without' = without
  BY StepsKeep
<1>2. CASE UNCHANGED <<at, skip, adapter, gguf>>
  <2>1. \A a, k : Made(a, k)' <=> Made(a, k)
    BY <1>2, SameGguf
  <2>2. Now' = Now /\ LeftOut' = LeftOut
    BY <1>1, <1>2 DEF Now, LeftOut
  <2> QED
    BY <1>2, <2>1, <2>2 DEF ChainInv
<1>3. ASSUME Next, at' \in 1..Len(Script), skip' <= 7, ~LeftOut', Forward, at = at' - 1,
             NEW t, t = Script[at']
      PROVE  /\ t.op = "convert" /\ t.kind = "kto" => Made(t.arm, "sft")'
             /\ t.op = "patch" => Made(t.arm, "sft")' /\ Made(t.arm, "kto")'
  <2> SUFFICES ASSUME (t.op = "convert" /\ t.kind = "kto") \/ t.op = "patch"
               PROVE  /\ t.op = "convert" /\ t.kind = "kto" => Made(t.arm, "sft")'
                      /\ t.op = "patch" => Made(t.arm, "sft")' /\ Made(t.arm, "kto")'
    OBVIOUS
  <2>0. PICK c : c = t.arm
    OBVIOUS
  <2>1. /\ t.step = 7 /\ c \in Arms /\ t.kind \in Kinds
        /\ t.op = "convert" /\ t.kind = "kto" => Now = Task(7, "convert", c, "sft")
        /\ t.op = "patch" /\ t.kind = "sft" => Now = Task(7, "convert", c, "kto")
        /\ t.op = "patch" /\ t.kind = "kto" => Now = Task(7, "patch", c, "sft")
    BY <1>3, <2>0, TaskInScript DEF Now
  <2>2. c \notin without
    BY <1>1, <1>3, <2>0, <2>1 DEF LeftOut, Now
  <2>3. at' = at + 1 /\ skip' = skip /\ AtTask /\ at' # 0
    BY <1>3 DEF Forward
  <2>4. ASSUME NEW op, NEW k, Now = Task(7, op, c, k)
        PROVE  Now.op = op /\ Now.arm = c /\ Now.kind = k /\ ~SkipTask
    <3>1. Now.op = op /\ Now.arm = c /\ Now.kind = k /\ Now.step = 7
      BY <2>4 DEF Task
    <3>2. skip \in 0..8 /\ skip <= 7
      BY <1>3, <2>3 DEF Shape
    <3>3. ~LeftOut
      BY <2>2, <3>1 DEF LeftOut
    <3> QED
      BY <3>1, <3>2, <3>3 DEF SkipTask
  <2>5. ASSUME NEW k \in Kinds, Now = Task(7, "convert", c, k)
        PROVE  /\ Made(c, k)'
               /\ \A b \in Kinds \ {k} : Made(c, b) => Made(c, b)'
    <3>1. Convert /\ c = Now.arm /\ k = Now.kind
      BY <1>3, <2>3, <2>4, <2>5, RanBefore
    <3>0. Convert => at' = 0 \/ Made(c, k)'
      BY <3>1, ExportSteps
    <3>1b. UNCHANGED adapter
      BY <3>1, ExportSteps
    <3>1a. ASSUME NEW b \in Kinds, b # k PROVE gguf'[c][b] = gguf[c][b]
      BY <2>1, <3>1, <3>1a, OthersKeep
    <3>2. /\ UNCHANGED adapter
          /\ \A b \in Kinds : b # k => gguf'[c][b] = gguf[c][b]
          /\ at' = 0 \/ Made(c, k)'
      BY <2>3, <3>0, <3>1, <3>1a, <3>1b
    <3>3. \A b \in Kinds \ {k} : Made(c, b) => Made(c, b)'
      BY <3>2, SameGguf
    <3> QED
      BY <2>3, <3>2, <3>3
  <2>6. CASE t.op = "convert" /\ t.kind = "kto"
    BY <2>0, <2>1, <2>5, <2>6 DEF Kinds
  <2>7. CASE t.op = "patch" /\ t.kind = "sft"
    <3>1. Now = Task(7, "convert", c, "kto") /\ Now.op = "convert" /\ Now.arm = c
          /\ Now.kind = "kto" /\ Convert
      BY <1>3, <2>1, <2>3, <2>4, <2>7, RanBefore
    <3>2. AtTask /\ ~LeftOut /\ skip <= 7
      BY <1>3, <2>3, <3>1, ExportSteps
    <3>3. Made(c, "sft")
      BY <3>1, <3>2 DEF ChainInv, AtTask
    <3>4. Made(c, "kto")' /\ Made(c, "sft")'
      BY <2>5, <3>1, <3>3 DEF Kinds
    <3> QED
      BY <2>0, <2>7, <3>4
  <2>8. CASE t.op = "patch" /\ t.kind = "kto"
    <3>1. Now.op = "patch" /\ Now.arm = c /\ Now.kind = "sft" /\ Patch
      BY <1>3, <2>1, <2>3, <2>4, <2>8, RanBefore
    <3>2. Made(c, "sft") /\ Made(c, "kto")
      BY <3>1, Patching
    <3>3. /\ UNCHANGED adapter
          /\ gguf'[c]["kto"] = gguf[c]["kto"]
          /\ gguf'[c]["sft"] = [gguf[c]["sft"] EXCEPT !.arch = "gemma4"]
      BY <2>1, <3>1, ExportSteps DEF Kinds
    <3>4. Made(c, "sft")' /\ Made(c, "kto")'
      BY <2>1, <3>2, <3>3, PatchKeeps, SameGguf DEF Kinds
    <3> QED
      BY <2>0, <2>8, <3>4
  <2> QED
    BY <2>1, <2>6, <2>7, <2>8 DEF Kinds
<1>4. CASE Next
  <2> SUFFICES ASSUME at' \in 1..Len(Script), skip' <= 7, ~LeftOut'
               PROVE  /\ Now'.op = "convert" /\ Now'.kind = "kto" => Made(Now.arm, "sft")'
                      /\ Now'.op = "patch" => Made(Now.arm, "sft")' /\ Made(Now.arm, "kto")'
    BY DEF ChainInv
  <2>1. PICK t : t = Script[at'] /\ t = Now'
    BY DEF Now
  <2>2. CASE t.op \in {"extract", "export", "protocol"}
    BY <2>1, <2>2
  <2>3. CASE Forward /\ at = at' - 1
    BY <1>3, <1>4, <2>1, <2>3
  <2>4. CASE UNCHANGED <<at, skip>> /\ \E n \in Names : EndCollect(n)
    BY <1>2, <2>4 DEF EndCollect, modelVars, ChainInv
  <2> QED
    BY <1>4, <2>1, <2>2, <2>3, <2>4, Arrives
<1> QED
  BY <1>2, <1>4 DEF vars, driverVars, modelVars

LEMMA ServedStep ==
    ASSUME Shape, AdapterInv, GgufInv, ServedInv, [Next]_vars
    PROVE  ServedInv'
<1>1. \A pair : Matches(pair)' <=> Matches(pair)
  BY StepsKeep DEF Matches
<1>2. ASSUME NEW arm \in Arms, Loadable(arm)
      PROVE  LET pair == [sft |-> gguf[arm].sft, kto |-> gguf[arm].kto]
             IN  Matches(pair) /\ pair # None
  <2> DEFINE s == gguf[arm]["sft"]
             k == gguf[arm]["kto"]
             pair == [sft |-> s, kto |-> k]
  <2>1. /\ s # None /\ s.arch = "gemma4" /\ IsGguf(arm, "sft") /\ s.whole
        /\ k # None /\ k.arch = "gemma4" /\ IsGguf(arm, "kto") /\ k.whole
    BY <1>2 DEF Loadable, Exported, GgufInv, Kinds
  <2>2. /\ adapter[arm]["sft"] # None /\ s.of = adapter[arm]["sft"]
        /\ adapter[arm]["kto"] # None /\ k.of = adapter[arm]["kto"]
    <3>1. /\ adapter[arm]["sft"] # None
          /\ s = [id |-> s.id, of |-> adapter[arm]["sft"], arch |-> s.arch, whole |-> s.whole]
          /\ adapter[arm]["kto"] # None
          /\ k = [id |-> k.id, of |-> adapter[arm]["kto"], arch |-> k.arch, whole |-> k.whole]
      BY <2>1 DEF IsGguf
    <3> HIDE DEF s, k
    <3> QED
      BY <3>1
  <2>3. /\ s.of.rows = pins[arm].sft /\ k.of.rows = pins[arm].kto
        /\ k.of.on = s.of.id
    BY <2>2 DEF AdapterInv, Kinds
  <2>4. pair.sft = s /\ pair.kto = k
    OBVIOUS
  <2>5. pair # None
    <3>1. DOMAIN pair = {"sft", "kto"} /\ DOMAIN None = {"id"}
      BY DEF None
    <3> QED
      BY <3>1
  <2>6. Matches(pair)
    <3> HIDE DEF s, k, pair
    <3> QED
      BY <2>1, <2>3, <2>4 DEF Matches
  <2> QED
    BY <2>5, <2>6
\* A collect that is not passed over comes after a reload that was not, and so finds
\* a pair.
<1>3. ASSUME Next, loaded' = loaded \/ loaded' # None,
             at' \in 1..Len(Script), ~LeftOut', Now'.op = "collect"
      PROVE  loaded' # None
  <2>1. CASE UNCHANGED <<at, skip>> /\ \E n \in Names : EndCollect(n)
    <3>1. Now' = Now /\ LeftOut' = LeftOut /\ loaded' = loaded
      BY <2>1, StepsKeep DEF Now, LeftOut, EndCollect
    <3> QED
      BY <1>3, <2>1, <3>1 DEF ServedInv
  <2>2. CASE Forward /\ at = at' - 1
    <3>1. PICK t : t = Script[at'] /\ t = Now'
      BY DEF Now
    <3>2. t.step = 8 /\ Now = Task(8, "reload", t.arm, t.kind)
      BY <1>3, <2>2, <3>1, TaskInScript DEF Now
    <3>3. Now.step = 8 /\ Now.op = "reload" /\ Now.kind = t.kind
      BY <3>2 DEF Task
    <3>4. ~LeftOut
      <4>1. without' = without
        BY StepsKeep
      <4> QED
        BY <1>3, <3>1, <3>2, <3>3, <4>1 DEF LeftOut
    <3>5. ~SkipTask
      BY <3>3, <3>4 DEF SkipTask, Shape
    <3>6. at' = at + 1 /\ AtTask /\ at' # 0
      BY <1>3, <2>2 DEF Forward
    <3>7. Reload \/ OldAnswers
      BY <1>3, <3>3, <3>5, <3>6, RanBefore
    <3>8. CASE OldAnswers
      BY <1>3, <3>8 DEF OldAnswers
    <3>9. CASE Reload
      <4>1. Now.arm \in Arms
        BY <3>3, <3>6, TaskInScript DEF AtTask, Now
      <4>2. loaded' = [sft |-> gguf[Now.arm].sft, kto |-> gguf[Now.arm].kto]
            /\ Loadable(Now.arm)
        BY <3>6, <3>9 DEF Reload, Serve, Exit
      <4> QED
        BY <1>2, <4>1, <4>2
    <3> QED
      BY <3>7, <3>8, <3>9
  <2>3. CASE Script[at'].op \in {"extract", "export", "protocol"}
    BY <1>3, <2>3 DEF Now
  <2> QED
    BY <1>3, <2>1, <2>2, <2>3, Arrives
<1>4. CASE Next /\ UNCHANGED <<loaded, served>>
  BY <1>1, <1>3, <1>4 DEF ServedInv
<1>5. CASE StopInReload
  <2>1. at' = 0 /\ loaded' = None /\ served' = served
    BY <1>5 DEF StopInReload, Stop
  <2> QED
    BY <1>1, <2>1 DEF ServedInv
<1>6. CASE Reload
  <2>1. AtTask /\ Now.op = "reload"
    BY <1>6, AtIsTask DEF Reload, Runs
  <2>2. PICK arm \in Arms : arm = Now.arm
    BY <2>1, TaskInScript DEF AtTask, Now
  <2>3. CASE Loadable(arm)
    <3> DEFINE pair == [sft |-> gguf[arm].sft, kto |-> gguf[arm].kto]
    <3>1. Matches(pair) /\ pair # None
      BY <1>2, <2>3
    <3> HIDE DEF pair
    <3>2. /\ loaded' = pair
          /\ served' = [n \in Names |-> IF n \in running THEN served[n] \cup {pair} ELSE served[n]]
      BY <1>6, <2>2, <2>3 DEF Reload, Serve, pair
    <3>3. \A n \in Names : \A q \in served'[n] : Matches(q)
      BY <3>1, <3>2 DEF ServedInv
    <3> QED
      BY <1>1, <3>1, <3>2, <3>3 DEF ServedInv
  <2>4. CASE ~Loadable(arm)
    <3>1. at' = 0 /\ (loaded' = None \/ loaded' = loaded) /\ served' = served
      BY <1>6, <2>2, <2>4 DEF Reload, Exit
    <3> QED
      BY <1>1, <3>1 DEF ServedInv
  <2> QED
    BY <2>3, <2>4
<1>7. CASE Collect
  <2>1. AtTask /\ Now.op = "collect" /\ ~LeftOut
    BY <1>7, AtIsTask DEF Collect, Runs
  <2>2. loaded # None /\ Matches(loaded)
    BY <2>1 DEF ServedInv, AtTask
  <2>3. loaded' = loaded /\ served' = [served EXCEPT ![Now.kind] = @ \cup {loaded}]
    BY <1>7 DEF Collect
  <2>4. \A n \in Names : \A q \in served'[n] : Matches(q)
    BY <2>2, <2>3 DEF ServedInv, Shape
  <2> QED
    BY <1>1, <2>2, <2>3, <2>4 DEF ServedInv
<1>8. CASE UNCHANGED vars
  <2>1. Now' = Now /\ LeftOut' = LeftOut
    BY <1>8 DEF vars, driverVars, Now, LeftOut
  <2> QED
    BY <1>1, <1>8, <2>1 DEF vars, driverVars, evalVars, ServedInv
<1> QED
  BY <1>4, <1>5, <1>6, <1>7, <1>8 DEF Next, Launch, SkipTask, ExtractOrSmoke, Prep, FilterRaw,
         Verify, Sync, TrainDone, Train, TrainFails, Export, Convert, Patch, ProtocolDone,
         OldAnswers, EndCollect, StopBetween, StopInFilter, StopInSync, StopInConvert, evalVars

LEMMA PairsStep == PairsInv /\ [Next]_vars => PairsInv'
  BY ShapeStep, FilesStep, AdapterStep, GgufStep, ChainStep, ServedStep DEF PairsInv

LEMMA PairsAlways == Spec => []PairsInv
  BY PairsInit, PairsStep, PTL DEF Spec

\* No protocol is answered by an artifact that a failed or interrupted step left:
\* for every set of arms and protocols, every campaign, and however often the
\* driver stops, is resumed by --skip, loses a training's status or meets an old
\* server (run_d11_pipeline_v2.sh), each pair that has answered a collect is whole
\* and patched, and its adapters are of one arm's gated files, KTO on that SFT.
THEOREM PairsCorrect == Spec => []EvaluatedPairsMatch
<1>1. PairsInv => EvaluatedPairsMatch
  BY DEF PairsInv, ServedInv, Matches, EvaluatedPairsMatch
<1> QED
  BY <1>1, PairsAlways, PTL
=============================================================================
