-------------------------- MODULE RecapMemoryProofs --------------------------
(***************************************************************************)
(* Proofs about RecapMemory and RecapPrompt, for any recaps, dimensions,   *)
(* retrievals and lessons.  A running process and the directory agree on   *)
(* the records; the index may lag behind them only once two dimensions     *)
(* have met.  The second half is about the text of a preamble, as filters  *)
(* see it: the whole text, then one block, then one part.                  *)
(***************************************************************************)
EXTENDS RecapPrompt, FiniteSetTheorems, SequenceTheorems, WellFoundedInduction, TLAPS

\* A process between two operations, or inside add.
Running == pc \in {"up", "adding"}

TypeInv ==
    /\ file \in [Ids -> {"absent", "half", "whole"}]
    /\ pc \in {"down", "up", "adding", "refused"}
    /\ adding \subseteq NewIds

RecordsAreWhole == Running => records = Whole

IndexIsComplete ==
    Running /\ ~Mixed(Whole) => placed = Whole /\ embedded = Whole

HalfWritten == \A i \in adding : file[i] # "whole"

\* The inductive invariant.
IInv ==
    /\ TypeInv
    /\ RecordsAreWhole
    /\ IndexIsComplete
    /\ HalfWritten
    /\ FailsOnlyWhenMixed

\* Two dimensions that have met stay met when a recap is added.
LEMMA MixedGrows ==
    ASSUME NEW S, NEW T, S \subseteq T, Mixed(S)
    PROVE  Mixed(T)
  BY DEF Mixed

LEMMA InitInv == Init => IInv
<1> SUFFICES ASSUME Init PROVE IInv
  OBVIOUS
<1>1. TypeInv
  BY DEF Init, TypeInv
<1>2. ~Running /\ adding = {}
  BY DEF Init, Running
<1>3. answer.status # "raised" /\ pc # "refused"
  BY DEF Init, Empty
<1> QED
  BY <1>1, <1>2, <1>3
  DEF IInv, RecordsAreWhole, IndexIsComplete, HalfWritten, FailsOnlyWhenMixed

LEMMA LoadInv == IInv /\ Load => IInv'
<1> SUFFICES ASSUME IInv, Load PROVE IInv'
  OBVIOUS
<1>1. TypeInv'
  BY DEF IInv, TypeInv, Load
<1>2. Whole' = Whole /\ records' = Whole
  BY DEF Load, Parsed, Whole
<1>3. Mixed(Whole)' <=> Mixed(Whole)
  BY <1>2 DEF Load, Mixed
<1>4. IndexIsComplete'
  BY <1>2, <1>3 DEF Load, Mixed, IndexIsComplete, Running
<1>5. FailsOnlyWhenMixed'
  <2>1. pc' = "refused" => Mixed(Whole)'
    BY <1>2, <1>3 DEF Load, Mixed
  <2>2. answer'.status = "raised" => Mixed(Whole)'
    BY <1>3 DEF Load, IInv, FailsOnlyWhenMixed
  <2> QED
    BY <2>1, <2>2 DEF FailsOnlyWhenMixed
<1> QED
  BY <1>1, <1>2, <1>4, <1>5
  DEF IInv, RecordsAreWhole, HalfWritten, Load

LEMMA StopInv == IInv /\ Stop => IInv'
<1> SUFFICES ASSUME IInv, Stop PROVE IInv'
  OBVIOUS
<1>1. TypeInv'
  BY DEF IInv, TypeInv, Stop
<1>2. ~Running' /\ adding' = {}
  BY DEF Stop, Running
<1>3. answer'.status # "raised" /\ pc' # "refused"
  BY DEF Stop, Empty
<1> QED
  BY <1>1, <1>2, <1>3
  DEF IInv, RecordsAreWhole, IndexIsComplete, HalfWritten, FailsOnlyWhenMixed

LEMMA BeginAddInv == IInv /\ BeginAdd => IInv'
<1> SUFFICES ASSUME IInv, BeginAdd PROVE IInv'
  OBVIOUS
<1>1. PICK i \in NewIds : /\ file[i] = "absent"
                          /\ file' = [file EXCEPT ![i] = "half"]
                          /\ adding' = {i}
  BY DEF BeginAdd
<1>2. TypeInv'
  BY <1>1 DEF IInv, TypeInv, BeginAdd, Ids
<1>3. Whole' = Whole
  BY <1>1 DEF IInv, TypeInv, Whole
<1>4. Mixed(Whole)' <=> Mixed(Whole)
  BY <1>3 DEF BeginAdd, Mixed
<1>5. HalfWritten'
  BY <1>1 DEF IInv, TypeInv, HalfWritten, Ids
<1>6. Running /\ Running' /\ pc' # "refused"
  BY DEF BeginAdd, Running
<1> QED
  BY <1>2, <1>3, <1>4, <1>5, <1>6
  DEF IInv, RecordsAreWhole, IndexIsComplete, FailsOnlyWhenMixed, BeginAdd

LEMMA FinishAddInv == IInv /\ FinishAdd => IInv'
<1> SUFFICES ASSUME IInv, FinishAdd PROVE IInv'
  OBVIOUS
<1>1. TypeInv'
  BY DEF IInv, TypeInv, FinishAdd, Ids
<1>2. records = Whole /\ Running' /\ pc' = "up"
  BY DEF IInv, RecordsAreWhole, Running, FinishAdd
<1>3. Whole' = Whole \cup adding
  BY DEF IInv, TypeInv, FinishAdd, Whole, Ids
<1>4. records' = Whole' /\ placed' = Whole'
  BY <1>2, <1>3 DEF FinishAdd
<1>5. IndexIsComplete'
  BY <1>4 DEF FinishAdd, Mixed, IndexIsComplete, Running
<1>6. FailsOnlyWhenMixed'
  <2>1. answer'.status = "raised" => Mixed(Whole)
    BY DEF IInv, FailsOnlyWhenMixed, FinishAdd
  <2>2. Mixed(Whole) => Mixed(Whole')
    BY <1>3, MixedGrows
  <2>3. Mixed(Whole') => Mixed(Whole)'
    BY DEF Mixed, FinishAdd
  <2> QED
    BY <1>2, <2>1, <2>2, <2>3 DEF FailsOnlyWhenMixed
<1> QED
  BY <1>1, <1>4, <1>5, <1>6
  DEF IInv, RecordsAreWhole, HalfWritten, FinishAdd

LEMMA FailAddInv == IInv /\ FailAdd => IInv'
<1> SUFFICES ASSUME IInv, FailAdd PROVE IInv'
  OBVIOUS
<1>1. TypeInv'
  BY DEF IInv, TypeInv, FailAdd
<1>2. Whole' = Whole /\ (Mixed(Whole)' <=> Mixed(Whole))
  BY DEF FailAdd, Whole, Mixed
<1>3. Running /\ Running' /\ pc' # "refused" /\ adding' = {}
  BY DEF FailAdd, Running
<1> QED
  BY <1>1, <1>2, <1>3
  DEF IInv, RecordsAreWhole, IndexIsComplete, HalfWritten, FailsOnlyWhenMixed,
      FailAdd

LEMMA RetrieveInv == IInv /\ Retrieve => IInv'
<1> SUFFICES ASSUME IInv, Retrieve PROVE IInv'
  OBVIOUS
<1>1. TypeInv'
  BY DEF IInv, TypeInv, Retrieve
<1>2. Whole' = Whole /\ (Mixed(Whole)' <=> Mixed(Whole))
  BY DEF Retrieve, Whole, Mixed
<1>3. Running /\ Running' /\ pc' # "refused"
  BY DEF Retrieve, Running
<1>4. answer'.status = "raised" => Mixed(Whole)
  <2>1. PICK only \in BOOLEAN :
            LET keep == {r \in records : only => success[r]}
            IN  \/ answer' = Empty
                \/ ~(keep \subseteq placed \cap embedded)
                \/ \E rank, hits, shown, byImage :
                        answer' = [status |-> "given", rank |-> rank,
                                   hits |-> hits, shown |-> shown,
                                   byImage |-> byImage]
    BY DEF Retrieve
  <2>2. CASE answer' = Empty
    BY <2>2 DEF Empty
  <2>3. CASE ~({r \in records : only => success[r]} \subseteq placed \cap embedded)
    BY <2>3, <1>3 DEF IInv, RecordsAreWhole, IndexIsComplete
  <2>4. CASE \E rank, hits, shown, byImage :
                answer' = [status |-> "given", rank |-> rank, hits |-> hits,
                           shown |-> shown, byImage |-> byImage]
    BY <2>4
  <2> QED
    BY <2>1, <2>2, <2>3, <2>4
<1> QED
  BY <1>1, <1>2, <1>3, <1>4
  DEF IInv, RecordsAreWhole, IndexIsComplete, HalfWritten, FailsOnlyWhenMixed,
      Retrieve

LEMMA StepInv == IInv /\ [Next]_recapVars => IInv'
<1> SUFFICES ASSUME IInv, [Next]_recapVars PROVE IInv'
  OBVIOUS
<1>1. CASE UNCHANGED recapVars
  BY <1>1
  DEF recapVars, IInv, TypeInv, RecordsAreWhole, IndexIsComplete, HalfWritten,
      FailsOnlyWhenMixed, Running, Whole, Mixed
<1> QED
  BY <1>1, LoadInv, StopInv, BeginAddInv, FinishAddInv, FailAddInv, RetrieveInv
  DEF Next

LEMMA Invariant == Spec => []IInv
  BY InitInv, StepInv, PTL DEF Spec

\* A running process knows exactly the recaps that are whole on disk, after any
\* number of kills, failed writes and restarts (RecapBuffer.load and add).
THEOREM DurableMemory == Spec => []MemoryIsDurable
<1>1. IInv => MemoryIsDurable
  BY DEF IInv, RecordsAreWhole, MemoryIsDurable, Running
<1> QED
  BY <1>1, Invariant, PTL

\* Retrieval and start-up fail only once embeddings of two dimensions have met in
\* the directory (RecapBuffer._rebuild_index and retrieve).
THEOREM FailureNeedsMixing == Spec => []FailsOnlyWhenMixed
<1>1. IInv => FailsOnlyWhenMixed
  BY DEF IInv
<1> QED
  BY <1>1, Invariant, PTL

-----------------------------------------------------------------------------
(* The choice of the records.                                               *)

LEMMA Smallest ==
    ASSUME NEW S \in SUBSET Nat, S # {}
    PROVE  \E m \in S : \A k \in S : m <= k
<1> DEFINE R == OpToRel(<, Nat)
<1>1. IsWellFoundedOn(R, Nat)
  BY NatLessThanWellFounded
<1>2. PICK m \in S : \A k \in S : ~(<<k, m>> \in R)
  <2> HIDE DEF R
  <2> QED
    BY <1>1, WFMin
<1>3. \A k \in S : k < m => <<k, m>> \in R
  BY DEF OpToRel
<1> HIDE DEF R
<1>4. \A k \in S : ~(k < m)
  BY <1>2, <1>3
<1> QED
  BY <1>4

\* A non-empty set of ranked records has a first and, if finite, a last one.
LEMMA BestRanked ==
    ASSUME NEW S, S # {}, NEW rank, \A r \in S : rank[r] \in Nat
    PROVE  \E r \in S : \A s \in S : rank[r] <= rank[s]
<1> DEFINE Ranks == {rank[r] : r \in S}
<1>1. Ranks \in SUBSET Nat /\ Ranks # {}
  OBVIOUS
<1>2. PICK m \in Ranks : \A k \in Ranks : m <= k
  <2> HIDE DEF Ranks
  <2> QED
    BY <1>1, Smallest
<1> QED
  BY <1>2

LEMMA WorstRanked ==
    ASSUME NEW S, S # {}, NEW rank, NEW n \in Nat, \A r \in S : rank[r] \in 0..n
    PROVE  \E r \in S : \A s \in S : rank[s] <= rank[r]
<1> DEFINE Depths == {n - rank[r] : r \in S}
<1>1. Depths \in SUBSET Nat /\ Depths # {}
  OBVIOUS
<1>2. PICK m \in Depths : \A k \in Depths : m <= k
  <2> HIDE DEF Depths
  <2> QED
    BY <1>1, Smallest
<1>3. PICK r \in S : m = n - rank[r]
  OBVIOUS
<1>4. ASSUME NEW s \in S
      PROVE  rank[s] <= rank[r]
  <2>1. n - rank[r] <= n - rank[s]
    BY <1>2, <1>3
  <2> QED
    BY <2>1
<1> QED
  BY <1>4

\* Ranked records: finitely many, no two of one rank.
IsRanking(S, rank, n) ==
    /\ IsFiniteSet(S)
    /\ n \in Nat
    /\ \A r \in S : rank[r] \in 0..n
    /\ \A r, s \in S : rank[r] = rank[s] => r = s

\* What is above a record of the best is among the best.
LEMMA BestIsClosed ==
    ASSUME NEW S, NEW rank, NEW n, IsRanking(S, rank, n), NEW k \in Nat,
           NEW r \in BestOf(k, S, rank), NEW s \in S, rank[s] < rank[r]
    PROVE  s \in BestOf(k, S, rank)
<1> DEFINE Above(x) == {y \in S : rank[y] < rank[x]}
<1>1. Above(s) \in SUBSET Above(r)
  BY DEF IsRanking, BestOf
<1>2. IsFiniteSet(Above(r)) /\ IsFiniteSet(Above(s))
  <2>1. IsFiniteSet(S) /\ Above(r) \in SUBSET S /\ Above(s) \in SUBSET S
    BY DEF IsRanking
  <2> QED
    BY <2>1, FS_Subset
<1>3. Cardinality(Above(s)) <= Cardinality(Above(r))
  BY <1>1, <1>2, FS_Subset
<1>4. Cardinality(Above(s)) \in Nat /\ Cardinality(Above(r)) \in Nat
  BY <1>2, FS_CardinalityType
<1>5. Cardinality(Above(r)) < k
  BY DEF BestOf
<1> QED
  BY <1>3, <1>4, <1>5 DEF BestOf

\* The best k are k records, or all there are.
LEMMA BestCount ==
    ASSUME NEW S, NEW rank, NEW n, IsRanking(S, rank, n), NEW k \in Nat
    PROVE  LET B == BestOf(k, S, rank)
           IN  /\ B \subseteq S
               /\ IsFiniteSet(B)
               /\ Cardinality(B) \in Nat
               /\ Cardinality(B) <= k
               /\ B # S => Cardinality(B) = k
<1> DEFINE B == BestOf(k, S, rank)
           Above(x) == {y \in S : rank[y] < rank[x]}
<1>1. B \in SUBSET S /\ IsFiniteSet(S)
  BY DEF BestOf, IsRanking
<1>2. IsFiniteSet(B)
  BY <1>1, FS_Subset
<1>3. Cardinality(B) \in Nat
  BY <1>2, FS_CardinalityType
<1>4. \A x \in S : Above(x) \in SUBSET S /\ IsFiniteSet(Above(x))
                        /\ Cardinality(Above(x)) \in Nat
  <2> TAKE x \in S
  <2>1. Above(x) \in SUBSET S
    OBVIOUS
  <2>2. IsFiniteSet(Above(x))
    BY <1>1, <2>1, FS_Subset
  <2>3. Cardinality(Above(x)) \in Nat
    BY <2>2, FS_CardinalityType
  <2> QED
    BY <2>1, <2>2, <2>3
<1>5. \A x \in S : x \in B <=> Cardinality(Above(x)) < k
  BY DEF BestOf
<1>6. Cardinality(B) <= k
  <2>1. CASE B = {}
    BY <2>1, FS_EmptySet
  <2>2. CASE B # {}
    <3>1. \A r \in B : rank[r] \in 0..n
      BY <1>1 DEF IsRanking
    <3>2. PICK r \in B : \A s \in B : rank[s] <= rank[r]
      <4> HIDE DEF B
      <4>1. n \in Nat
        BY DEF IsRanking
      <4> QED
        BY <2>2, <3>1, <4>1, WorstRanked
    <3>3. r \in S
      BY <1>1
    <3>4. \A s \in S : rank[s] < rank[r] => s \in B
      BY BestIsClosed
    <3>5. Above(r) = B \ {r}
      <4>1. \A s \in B : rank[s] \in Int /\ s \in S
        BY <1>1 DEF IsRanking
      <4>2. \A s \in B : s # r => rank[s] # rank[r]
        BY <1>1, <3>3 DEF IsRanking
      <4> HIDE DEF B
      <4> QED
        BY <3>2, <3>3, <3>4, <4>1, <4>2
    <3>6. Cardinality(B \ {r}) = Cardinality(B) - 1
      BY <1>2, FS_RemoveElement
    <3>7. Cardinality(Above(r)) < k
      BY <1>5, <3>3
    <3> HIDE DEF B, Above
    <3> QED
      BY <1>3, <3>5, <3>6, <3>7
  <2> QED
    BY <2>1, <2>2
<1>7. ASSUME B # S
      PROVE  Cardinality(B) >= k
  <2> DEFINE Rest == S \ B
  <2>1. Rest # {} /\ Rest \subseteq S
    BY <1>1, <1>7
  <2>2. PICK r \in Rest : \A s \in Rest : rank[r] <= rank[s]
    <3>1. \A s \in Rest : rank[s] \in Nat
      BY DEF IsRanking
    <3> HIDE DEF Rest
    <3> QED
      BY <2>1, <3>1, BestRanked
  <2>3. Above(r) \in SUBSET B
    <3>1. \A s \in S : rank[s] \in Int
      BY DEF IsRanking
    <3> HIDE DEF B
    <3> QED
      BY <2>2, <3>1
  <2>4. Cardinality(Above(r)) <= Cardinality(B)
    BY <1>2, <2>3, FS_Subset
  <2>5. ~(Cardinality(Above(r)) < k)
    BY <1>5
  <2>6. Cardinality(Above(r)) \in Nat
    BY <1>4
  <2> HIDE DEF B, Above
  <2> QED
    BY <1>3, <2>4, <2>5, <2>6
<1> HIDE DEF B
<1>8. /\ B \subseteq S
      /\ IsFiniteSet(B)
      /\ Cardinality(B) \in Nat
      /\ Cardinality(B) <= k
      /\ B # S => Cardinality(B) = k
  BY <1>1, <1>2, <1>3, <1>6, <1>7
<1> USE DEF B
<1> QED
  BY <1>8

\* The floor is at most what a retrieval shows.
LEMMA FloorFits == MinSuccess \in Nat /\ MinSuccess <= TopK
<1> DEFINE x == FloorNum * TopK + FloorDen - 1
<1>1. FloorNum \in Nat /\ FloorDen \in Nat /\ FloorDen > 0 /\ TopK \in Nat
      /\ FloorNum <= FloorDen
  BY RecapAssumption
<1>2. FloorNum * TopK <= FloorDen * TopK /\ FloorNum * TopK \in Nat
  BY <1>1
<1>3. x \in Nat /\ x < FloorDen * (TopK + 1)
  BY <1>1, <1>2
<1> HIDE DEF x
<1>4. x \div FloorDen \in Nat /\ FloorDen * (x \div FloorDen) <= x
  BY <1>1, <1>3
<1>5. ASSUME NEW q \in Nat, FloorDen * q <= x
      PROVE  q <= TopK
  <2>1. FloorDen * q < FloorDen * (TopK + 1)
    BY <1>1, <1>3, <1>5
  <2> QED
    BY <1>1, <2>1
<1>6. x \div FloorDen <= TopK
  BY <1>4, <1>5
<1> QED
  BY <1>4, <1>6 DEF x, MinSuccess

\* What a retrieval shows, for any ranking of a finite pool.
LEMMA ChosenCounts ==
    ASSUME NEW rank, NEW n, IsRanking(DOMAIN rank, rank, n)
    PROVE  LET pool == DOMAIN rank
               picks == BestOf(MinSuccess, Successes(pool), rank)
               size == Cardinality(Chosen(rank))
           IN  /\ Chosen(rank) \subseteq pool
               /\ IsFiniteSet(pool) /\ IsFiniteSet(Chosen(rank))
               /\ Successes(picks) = picks
               /\ picks \subseteq pool
               /\ IsFiniteSet(picks) /\ Cardinality(picks) \in Nat
               /\ Cardinality(picks) <= MinSuccess
               /\ picks # Successes(pool) => Cardinality(picks) = MinSuccess
               /\ size \in Nat /\ size <= TopK
               /\ Chosen(rank) # pool => size = TopK
<1> DEFINE pool == DOMAIN rank
           good == Successes(pool)
           picks == BestOf(MinSuccess, good, rank)
           rest == pool \ picks
           room == TopK - Cardinality(picks)
           fill == BestOf(room, rest, rank)
<1>1. MinSuccess \in Nat /\ TopK \in Nat /\ MinSuccess <= TopK
  BY FloorFits, RecapAssumption
<1>2. good \in SUBSET pool /\ rest \in SUBSET pool
  BY DEF Successes
<1>3. IsFiniteSet(pool)
  BY DEF IsRanking
<1>4. IsRanking(good, rank, n) /\ IsRanking(rest, rank, n)
  <2>1. IsFiniteSet(good) /\ IsFiniteSet(rest)
    BY <1>2, <1>3, FS_Subset
  <2> HIDE DEF good, rest
  <2> QED
    BY <1>2, <2>1 DEF IsRanking
<1>5. /\ picks \subseteq good
      /\ IsFiniteSet(picks)
      /\ Cardinality(picks) \in Nat
      /\ Cardinality(picks) <= MinSuccess
      /\ picks # good => Cardinality(picks) = MinSuccess
  <2> HIDE DEF good
  <2> QED
    BY <1>1, <1>4, BestCount
<1>6. room \in Nat
  <2> HIDE DEF picks
  <2> QED
    BY <1>1, <1>5
<1>7. /\ fill \subseteq rest
      /\ IsFiniteSet(fill)
      /\ Cardinality(fill) \in Nat
      /\ Cardinality(fill) <= room
      /\ fill # rest => Cardinality(fill) = room
  <2> HIDE DEF rest, room
  <2> QED
    BY <1>4, <1>6, BestCount
<1>8. Chosen(rank) = picks \cup fill
  BY DEF Chosen
<1>9. Successes(picks) = picks
  BY <1>5 DEF Successes
<1> HIDE DEF pool, good, picks, room, fill
<1>10. picks \cap fill = {}
  BY <1>7
<1>11. /\ IsFiniteSet(Chosen(rank))
       /\ Cardinality(Chosen(rank)) = Cardinality(picks) + Cardinality(fill)
  <2>1. IsFiniteSet(picks \cup fill)
        /\ Cardinality(picks \cup fill)
              = Cardinality(picks) + Cardinality(fill) - Cardinality(picks \cap fill)
    BY <1>5, <1>7, FS_Union
  <2>2. Cardinality(picks \cap fill) = 0
    BY <1>10, FS_EmptySet
  <2> QED
    BY <1>5, <1>7, <1>8, <2>1, <2>2
<1>12. Chosen(rank) # pool => fill # rest
  BY <1>2, <1>5, <1>8
<1>13. /\ Cardinality(Chosen(rank)) \in Nat
       /\ Cardinality(Chosen(rank)) <= TopK
       /\ Chosen(rank) # pool => Cardinality(Chosen(rank)) = TopK
  BY <1>1, <1>5, <1>7, <1>11, <1>12 DEF room
<1>14. Chosen(rank) \subseteq pool /\ picks \subseteq pool
  BY <1>2, <1>5, <1>7, <1>8
<1>15. picks # good => Cardinality(picks) = MinSuccess
  BY <1>5
<1>16. Cardinality(picks) <= MinSuccess
  BY <1>5
<1> USE DEF picks, good, pool
<1> QED
  BY <1>3, <1>5, <1>9, <1>11, <1>13, <1>14, <1>15, <1>16

-----------------------------------------------------------------------------
(* The last retrieval ranked recaps that exist, and shows the chosen ones.  *)

RetrievalInv ==
    /\ TypeInv
    /\ success \in [Ids -> BOOLEAN]
    /\ dim \in [Ids -> Dims \cup {Dim}]
    /\ records \subseteq Ids /\ placed \subseteq Ids /\ embedded \subseteq Ids
    /\ answer.status \in {"empty", "raised", "given"}
    /\ answer.status # "given" => answer.hits = {}
    /\ answer.status = "given" =>
           /\ DOMAIN answer.rank \subseteq Ids
           /\ answer.rank \in Injection(DOMAIN answer.rank,
                                        1..Cardinality(DOMAIN answer.rank))
           /\ answer.hits = Chosen(answer.rank)

LEMMA RetrievalInit == Init => RetrievalInv
<1> SUFFICES ASSUME Init PROVE RetrievalInv
  OBVIOUS
<1>1. TypeInv
  BY InitInv DEF IInv
<1> QED
  BY <1>1 DEF Init, Empty, RetrievalInv

\* The labels do not change, so the choice means the same in the next state.
LEMMA ChosenStays == UNCHANGED success => \A rank : Chosen(rank)' = Chosen(rank)
  BY DEF Chosen, Successes

LEMMA RetrievalStep == IInv /\ RetrievalInv /\ [Next]_recapVars => RetrievalInv'
<1> SUFFICES ASSUME IInv, RetrievalInv, [Next]_recapVars PROVE RetrievalInv'
  OBVIOUS
<1>1. TypeInv'
  BY StepInv DEF IInv
<1>2. UNCHANGED success /\ UNCHANGED dim
  BY DEF Next, recapVars, Load, Stop, BeginAdd, FinishAdd, FailAdd, Retrieve
<1>3. /\ records' \subseteq Ids
      /\ placed' \subseteq Ids
      /\ embedded' \subseteq Ids
  BY DEF RetrievalInv, TypeInv, Ids, Parsed, Next, recapVars, Load, Stop, BeginAdd,
         FinishAdd, FailAdd, Retrieve
<1>4. CASE UNCHANGED answer
  BY <1>1, <1>2, <1>3, <1>4 DEF RetrievalInv, Chosen, Successes
<1>5. CASE answer' = Empty
  BY <1>1, <1>2, <1>3, <1>5 DEF RetrievalInv, Empty
<1>6. CASE answer' = [Empty EXCEPT !.status = "raised"]
  BY <1>1, <1>2, <1>3, <1>6 DEF RetrievalInv, Empty
<1>7. ASSUME NEW keep \in SUBSET records,
             NEW rank \in Injection(keep, 1..Cardinality(keep)),
             NEW shown, NEW byImage,
             answer' = [status |-> "given", rank |-> rank, hits |-> Chosen(rank),
                        shown |-> shown, byImage |-> byImage]
      PROVE  RetrievalInv'
  <2>1. DOMAIN rank = keep
    BY DEF Injection
  <2>2. /\ answer'.status = "given"
        /\ answer'.rank = rank
        /\ answer'.hits = Chosen(rank)'
    BY <1>2, <1>7 DEF Chosen, Successes
  <2>3. DOMAIN answer'.rank \subseteq Ids
    BY <2>1, <2>2 DEF RetrievalInv
  <2>4. answer'.rank \in Injection(DOMAIN answer'.rank,
                                   1..Cardinality(DOMAIN answer'.rank))
    BY <2>1, <2>2
  <2>5. answer'.hits = Chosen(answer.rank)'
    BY <2>2 DEF Chosen, Successes
  <2> QED
    BY <1>1, <1>2, <1>3, <2>2, <2>3, <2>4, <2>5 DEF RetrievalInv
<1>8. CASE Retrieve
  <2>1. PICK only \in BOOLEAN :
            LET keep == {r \in records : only => success[r]}
            IN  \/ answer' = Empty
                \/ answer' = [Empty EXCEPT !.status = "raised"]
                \/ \E rank \in Injection(keep, 1..Cardinality(keep)) :
                     \E shown, byImage :
                        answer' = [status |-> "given", rank |-> rank,
                                   hits |-> Chosen(rank), shown |-> shown,
                                   byImage |-> byImage]
    BY <1>8 DEF Retrieve
  <2>2. {r \in records : only => success[r]} \in SUBSET records
    OBVIOUS
  <2> QED
    BY <1>5, <1>6, <1>7, <2>1, <2>2
<1> QED
  BY <1>4, <1>5, <1>8 DEF Next, recapVars, Load, Stop, BeginAdd, FinishAdd, FailAdd

LEMMA RetrievalInvariant == Spec => []RetrievalInv
  BY RetrievalInit, RetrievalStep, Invariant, PTL DEF Spec

\* The candidates are finitely many and no two share a rank.
LEMMA AnswerIsRanking ==
    RetrievalInv /\ answer.status = "given"
        => IsRanking(DOMAIN answer.rank, answer.rank, Cardinality(DOMAIN answer.rank))
<1> SUFFICES ASSUME RetrievalInv, answer.status = "given"
             PROVE  IsRanking(DOMAIN answer.rank, answer.rank,
                              Cardinality(DOMAIN answer.rank))
  OBVIOUS
<1> DEFINE pool == DOMAIN answer.rank
<1>1. pool \in SUBSET Ids /\ answer.rank \in Injection(pool, 1..Cardinality(pool))
  BY DEF RetrievalInv
<1>2. IsFiniteSet(pool)
  BY <1>1, RecapAssumption, FS_Subset
<1>3. Cardinality(pool) \in Nat
  BY <1>2, FS_CardinalityType
<1>4. \A r \in pool : answer.rank[r] \in 1..Cardinality(pool)
  BY <1>1 DEF Injection
<1>5. \A r, s \in pool : answer.rank[r] = answer.rank[s] => r = s
  BY <1>1 DEF Injection, IsInjective
<1> HIDE DEF pool
<1>6. IsRanking(pool, answer.rank, Cardinality(pool))
  BY <1>2, <1>3, <1>4, <1>5 DEF IsRanking
<1> QED
  BY <1>6 DEF pool

\* The memory and what is retrieved from it keep their types, and no retrieval
\* shows more than fine_k recaps (RecapBuffer.retrieve).
THEOREM TypeCorrect == Spec => []TypeOK
<1>1. RetrievalInv => TypeOK
  <2> SUFFICES ASSUME RetrievalInv PROVE TypeOK
    OBVIOUS
  <2>1. answer.hits \subseteq Ids /\ Cardinality(answer.hits) <= TopK
    <3>1. CASE answer.status = "given"
      <4>1. Chosen(answer.rank) \subseteq DOMAIN answer.rank
            /\ Cardinality(Chosen(answer.rank)) <= TopK
        BY <3>1, AnswerIsRanking, ChosenCounts
      <4> QED
        BY <3>1, <4>1 DEF RetrievalInv
    <3>2. CASE answer.status # "given"
      <4>1. answer.hits = {} /\ TopK \in Nat
        BY <3>2, RecapAssumption DEF RetrievalInv
      <4> QED
        BY <4>1, FS_EmptySet
    <3> QED
      BY <3>1, <3>2
  <2> QED
    BY <2>1 DEF RetrievalInv, TypeInv, TypeOK
<1> QED
  BY <1>1, RetrievalInvariant, PTL

\* Where a record is passed over for one that ranks below it, the choice kept the
\* floor: the lower one is a pick, the other a failure, and no success but the
\* picks is shown.
LEMMA PassedOverForTheFloor ==
    ASSUME NEW rank, NEW n, IsRanking(DOMAIN rank, rank, n),
           NEW left \in DOMAIN rank \ Chosen(rank), NEW taken \in Chosen(rank),
           rank[left] < rank[taken]
    PROVE  /\ success[taken] /\ ~success[left]
           /\ Successes(Chosen(rank)) = BestOf(MinSuccess, Successes(DOMAIN rank), rank)
<1> DEFINE pool == DOMAIN rank
           good == Successes(pool)
           picks == BestOf(MinSuccess, good, rank)
           rest == pool \ picks
           room == TopK - Cardinality(picks)
           fill == BestOf(room, rest, rank)
<1>1. /\ picks \subseteq pool /\ Successes(picks) = picks /\ Cardinality(picks) \in Nat
      /\ Cardinality(picks) <= MinSuccess
  BY ChosenCounts
<1>2. MinSuccess \in Nat /\ TopK \in Nat /\ MinSuccess <= TopK
  BY FloorFits, RecapAssumption
<1>3. room \in Nat
  <2> HIDE DEF picks
  <2> QED
    BY <1>1, <1>2
<1>4. good \in SUBSET pool /\ rest \in SUBSET pool /\ IsFiniteSet(pool)
  BY DEF Successes, IsRanking
<1>5. IsRanking(good, rank, n) /\ IsRanking(rest, rank, n)
  <2>1. IsFiniteSet(good) /\ IsFiniteSet(rest)
    BY <1>4, FS_Subset
  <2> HIDE DEF good, rest
  <2> QED
    BY <1>4, <2>1 DEF IsRanking
<1>6. Chosen(rank) = picks \cup fill /\ fill \subseteq rest
  BY DEF Chosen, BestOf
<1>7. \A r \in pool : r \in good <=> success[r]
  BY DEF Successes
<1>8. \A r \in picks, s \in good : rank[s] < rank[r] => s \in picks
  <2> HIDE DEF good
  <2> QED
    BY <1>2, <1>5, BestIsClosed
<1>9. \A r \in fill, s \in rest : rank[s] < rank[r] => s \in fill
  <2> HIDE DEF rest, room
  <2> QED
    BY <1>3, <1>5, BestIsClosed
<1>10. \A r \in pool : rank[r] \in Int
  BY DEF IsRanking
<1>11. \A r, s \in pool : rank[r] = rank[s] => r = s
  BY DEF IsRanking
<1>12. \A r \in picks : success[r]
  BY <1>1 DEF Successes
<1> HIDE DEF good, picks, room, fill
<1>13. left \in pool /\ left \in rest /\ left \notin picks /\ left \notin fill
  BY <1>6
<1>14. taken \in picks
  BY <1>6, <1>9, <1>13
<1>15. success[taken] /\ ~success[left]
  BY <1>7, <1>8, <1>12, <1>13, <1>14
<1>16. ASSUME NEW s \in fill
       PROVE  ~success[s]
  <2>1. s \in pool /\ s \in rest /\ s \notin picks
    BY <1>6
  <2>2. rank[s] \in Int /\ rank[left] \in Int /\ rank[taken] \in Int
    BY <1>1, <1>10, <1>13, <1>14, <2>1
  <2>3. ~(rank[left] < rank[s])
    BY <1>9, <1>13
  <2>4. rank[s] # rank[left]
    BY <1>11, <1>13, <2>1
  <2>5. rank[s] < rank[taken]
    BY <2>2, <2>3, <2>4
  <2>6. s \notin good
    BY <1>8, <1>14, <2>1, <2>5
  <2> QED
    BY <1>7, <2>1, <2>6
<1>17. Successes(Chosen(rank)) = picks
  BY <1>6, <1>12, <1>16 DEF Successes
<1> QED
  BY <1>15, <1>17 DEF picks, good

\* Every retrieval shows as many recaps as fit, with the floor of successes or all
\* there are, and passes none over but a failure that would push a success below
\* the floor (RecapBuffer.retrieve, F62).
THEOREM FloorCorrect == Spec => []FloorIsKept
<1>1. RetrievalInv => FloorIsKept
  <2> SUFFICES ASSUME RetrievalInv, answer.status = "given" PROVE FloorIsKept
    BY DEF FloorIsKept
  <2> DEFINE rank == answer.rank
             pool == DOMAIN rank
             hits == answer.hits
             picks == BestOf(MinSuccess, Successes(pool), rank)
  <2>1. IsRanking(pool, rank, Cardinality(pool))
    BY AnswerIsRanking
  <2>2. hits = Chosen(rank)
    BY DEF RetrievalInv
  <2> HIDE DEF rank, hits
  <2>3. /\ hits \subseteq pool
        /\ IsFiniteSet(pool) /\ IsFiniteSet(hits)
        /\ picks \subseteq pool /\ Successes(picks) = picks /\ IsFiniteSet(picks)
        /\ Cardinality(picks) \in Nat /\ Cardinality(picks) <= MinSuccess
        /\ picks # Successes(pool) => Cardinality(picks) = MinSuccess
        /\ Cardinality(hits) \in Nat /\ Cardinality(hits) <= TopK
        /\ hits # pool => Cardinality(hits) = TopK
    BY <2>1, <2>2, ChosenCounts
  <2>4. Cardinality(hits)
            = (IF TopK < Cardinality(pool) THEN TopK ELSE Cardinality(pool))
    <3>1. CASE hits = pool
      BY <2>3, <3>1, RecapAssumption
    <3>2. CASE hits # pool
      <4>1. Cardinality(hits) <= Cardinality(pool) /\ Cardinality(hits) # Cardinality(pool)
        BY <2>3, <3>2, FS_Subset
      <4>2. Cardinality(pool) \in Nat
        BY <2>3, FS_CardinalityType
      <4> QED
        BY <2>3, <3>2, <4>1, <4>2
    <3> QED
      BY <3>1, <3>2
  <2>5. picks \subseteq hits
    BY <2>2 DEF Chosen
  <2>6. \/ Cardinality(Successes(hits)) >= MinSuccess
        \/ Successes(hits) = Successes(pool)
    <3>1. CASE picks = Successes(pool)
      <4>1. Successes(pool) \subseteq hits
        BY <2>5, <3>1
      <4> QED
        BY <2>3, <4>1 DEF Successes
    <3>2. CASE picks # Successes(pool)
      <4>1. Successes(hits) \in SUBSET hits
        BY DEF Successes
      <4>2. IsFiniteSet(Successes(hits))
        BY <2>3, <4>1, FS_Subset
      <4>3. Successes(picks) \subseteq Successes(hits)
        BY <2>5 DEF Successes
      <4>4. picks \in SUBSET Successes(hits)
        BY <2>3, <4>3
      <4>5. Cardinality(picks) <= Cardinality(Successes(hits))
        BY <4>2, <4>4, FS_Subset
      <4> QED
        BY <2>3, <3>2, <4>5
    <3> QED
      BY <3>1, <3>2
  <2>7. ASSUME NEW left \in pool \ hits, NEW taken \in hits, rank[left] < rank[taken]
        PROVE  /\ success[taken] /\ ~success[left]
               /\ Cardinality(Successes(hits)) <= MinSuccess
    <3>1. /\ success[taken] /\ ~success[left]
          /\ Successes(hits) = picks
      BY <2>1, <2>2, <2>7, PassedOverForTheFloor
    <3> QED
      BY <2>3, <3>1
  <2> QED
    BY <2>4, <2>6, <2>7 DEF FloorIsKept, rank, hits
<1> QED
  BY <1>1, RetrievalInvariant, PTL

-----------------------------------------------------------------------------
(* Filter.                                                                  *)

\* What holds of the empty sequence and with each entry more holds of them all.
LEMMA EntryByEntry ==
    ASSUME NEW T, NEW Good, <<>> \in Good,
           \A s \in Seq(T), x \in T : s \in Good => Append(s, x) \in Good
    PROVE  Seq(T) \subseteq Good
<1> SUFFICES ASSUME NEW bad \in Seq(T), bad \notin Good
             PROVE  FALSE
  OBVIOUS
<1> DEFINE Lengths == {n \in Nat : \E s \in Seq(T) : Len(s) = n /\ s \notin Good}
<1>1. Lengths \in SUBSET Nat /\ Lengths # {}
  <2>1. Len(bad) \in Lengths
    BY LenProperties
  <2> QED
    BY <2>1
<1>2. PICK n \in Lengths : \A k \in Lengths : n <= k
  <2> HIDE DEF Lengths
  <2> QED
    BY <1>1, Smallest
<1>3. PICK s \in Seq(T) : Len(s) = n /\ s \notin Good
  OBVIOUS
<1>4. n \in Nat \ {0}
  <2>1. n = 0 => s = <<>>
    BY <1>3, EmptySeq
  <2> QED
    BY <1>3, <2>1
<1>5. PICK front \in Seq(T), x \in T : Len(front) = n - 1 /\ s = Append(front, x)
  <2> DEFINE front == [i \in 1..(n - 1) |-> s[i]]
  <2>1. s \in [1..n -> T]
    BY <1>3
  <2>2. front \in Seq(T) /\ Len(front) = n - 1 /\ s[n] \in T
    BY <1>4, <2>1
  <2>3. s = Append(front, s[n])
    BY <1>3, <1>4, <2>1, <2>2
  <2> QED
    BY <2>2, <2>3
<1>6. n - 1 \notin Lengths
  <2> HIDE DEF Lengths
  <2>1. n \in Nat
    BY <1>4
  <2> QED
    BY <1>2, <2>1
<1> QED
  BY <1>3, <1>4, <1>5, <1>6

\* What Filter looks up: the selection from the first i entries.
IsUpTo(f, seq, S) ==
    f = [i \in 0..Len(seq) |->
            IF i = 0 THEN <<>>
            ELSE IF seq[i] \in S THEN Append(f[i - 1], seq[i]) ELSE f[i - 1]]

\* Filter's recursion has a solution over every sequence.
LEMMA UpToExists ==
    \A T, A : \A s \in Seq(T) : \E f : IsUpTo(f, s, A)
<1> SUFFICES ASSUME NEW T, NEW A PROVE \A s \in Seq(T) : \E f : IsUpTo(f, s, A)
  OBVIOUS
<1> DEFINE Good == {s \in Seq(T) : \E f : IsUpTo(f, s, A)}
<1>1. <<>> \in Good
  <2> DEFINE f == [i \in 0..0 |-> <<>>]
  <2>1. IsUpTo(f, <<>>, A)
    BY DEF IsUpTo
  <2> QED
    BY <2>1
<1>2. ASSUME NEW s \in Seq(T), NEW x \in T, s \in Good
      PROVE  Append(s, x) \in Good
  <2>1. PICK f : IsUpTo(f, s, A)
    BY <1>2
  <2>2. PICK n \in Nat : n = Len(s)
    BY LenProperties
  <2> DEFINE g == [i \in 0..(n + 1) |->
                       IF i <= n THEN f[i]
                       ELSE IF x \in A THEN Append(f[n], x) ELSE f[n]]
  <2> DEFINE t == Append(s, x)
  <2>3. /\ t \in Seq(T) /\ Len(t) = n + 1 /\ t[n + 1] = x
        /\ \A i \in 1..n : t[i] = s[i]
    BY <2>2, AppendProperties
  <2> HIDE DEF t
  <2>4. g = [i \in 0..(n + 1) |->
                IF i = 0 THEN <<>>
                ELSE IF t[i] \in A THEN Append(g[i - 1], t[i]) ELSE g[i - 1]]
    <3>1. ASSUME NEW i \in 0..(n + 1)
          PROVE  g[i] = IF i = 0 THEN <<>>
                        ELSE IF t[i] \in A THEN Append(g[i - 1], t[i]) ELSE g[i - 1]
      <4>1. CASE i = 0
        BY <2>1, <2>2, <4>1 DEF IsUpTo
      <4>2. CASE i \in 1..n
        <5>1. t[i] = s[i] /\ i \in 0..Len(s)
          BY <2>2, <2>3, <4>2
        <5>2. i \in 0..(n + 1) /\ i <= n /\ i - 1 \in 0..(n + 1) /\ i - 1 <= n
          BY <4>2
        <5>3. g[i] = f[i] /\ g[i - 1] = f[i - 1]
          BY <5>2
        <5>4. \A j \in 0..n : f[j] = IF j = 0 THEN <<>>
                  ELSE IF s[j] \in A THEN Append(f[j - 1], s[j]) ELSE f[j - 1]
          BY <2>1, <2>2 DEF IsUpTo
        <5> HIDE DEF g
        <5> QED
          BY <4>2, <5>1, <5>3, <5>4
      <4>3. CASE i = n + 1
        BY <2>3, <4>3
      <4> QED
        BY <4>1, <4>2, <4>3
    <3> HIDE DEF g
    <3>2. g = [i \in 0..(n + 1) |-> g[i]]
      BY DEF g
    <3> QED
      BY <3>1, <3>2
  <2> HIDE DEF g
  <2>5. IsUpTo(g, t, A)
    BY <2>3, <2>4 DEF IsUpTo
  <2>6. t \in Good
    BY <2>3, <2>5
  <2> QED
    BY <2>6 DEF t
<1> HIDE DEF Good
<1>3. Seq(T) \subseteq Good
  BY <1>1, <1>2, EntryByEntry
<1> QED
  BY <1>3 DEF Good

\* Filter is the last value of its recursion.
LEMMA FilterUpTo ==
    ASSUME NEW T, NEW A, NEW s \in Seq(T)
    PROVE  \E f : IsUpTo(f, s, A) /\ Filter(s, A) = f[Len(s)]
<1> DEFINE f == CHOOSE g : IsUpTo(g, s, A)
<1>1. IsUpTo(f, s, A)
  BY UpToExists
<1>2. Filter(s, A) = f[Len(s)]
  BY DEF Filter, IsUpTo
<1> QED
  BY <1>1, <1>2

\* Nothing is found in nothing.
LEMMA FilterEmpty == \A A : Filter(<<>>, A) = <<>>
<1> SUFFICES ASSUME NEW A PROVE Filter(<<>>, A) = <<>>
  OBVIOUS
<1>1. <<>> \in Seq({})
  OBVIOUS
<1>2. PICK f : IsUpTo(f, <<>>, A) /\ Filter(<<>>, A) = f[Len(<<>>)]
  BY <1>1, FilterUpTo
<1> QED
  BY <1>2 DEF IsUpTo

\* One more entry is kept or not, and changes nothing before it.
LEMMA FilterAppend ==
    \A T, A : \A s \in Seq(T), x \in T :
        Filter(Append(s, x), A) =
            IF x \in A THEN Append(Filter(s, A), x) ELSE Filter(s, A)
<1> SUFFICES ASSUME NEW T, NEW A, NEW s \in Seq(T), NEW x \in T
             PROVE  Filter(Append(s, x), A) =
                        IF x \in A THEN Append(Filter(s, A), x) ELSE Filter(s, A)
  OBVIOUS
<1>1. PICK n \in Nat : n = Len(s)
  BY LenProperties
<1> DEFINE t == Append(s, x)
<1>2. /\ t \in Seq(T) /\ Len(t) = n + 1 /\ t[n + 1] = x
      /\ \A i \in 1..n : t[i] = s[i]
  BY <1>1, AppendProperties
<1> HIDE DEF t
<1>3. PICK f : IsUpTo(f, s, A) /\ Filter(s, A) = f[n]
  BY <1>1, FilterUpTo
<1>4. PICK g : IsUpTo(g, t, A) /\ Filter(t, A) = g[n + 1]
  BY <1>2, FilterUpTo
<1>5. \A i \in 0..n : f[i] = IF i = 0 THEN <<>>
                             ELSE IF s[i] \in A THEN Append(f[i - 1], s[i]) ELSE f[i - 1]
  BY <1>1, <1>3 DEF IsUpTo
<1>6. \A i \in 0..(n + 1) :
          g[i] = IF i = 0 THEN <<>>
                 ELSE IF t[i] \in A THEN Append(g[i - 1], t[i]) ELSE g[i - 1]
  BY <1>2, <1>4 DEF IsUpTo
<1>7. f[n] = g[n]
  <2> DEFINE Different == {i \in 0..n : f[i] # g[i]}
  <2>1. SUFFICES ASSUME Different # {} PROVE FALSE
    BY <1>1
  <2>2. PICK i \in Different : \A k \in Different : i <= k
    <3>1. Different \in SUBSET Nat
      BY <1>1
    <3> HIDE DEF Different
    <3> QED
      BY <2>1, <3>1, Smallest
  <2>3. i \in 0..n /\ f[i] # g[i]
    BY <2>2
  <2>4. i # 0
    BY <1>5, <1>6, <2>3
  <2>5. f[i - 1] = g[i - 1]
    BY <2>2, <2>3, <2>4
  <2>6. t[i] = s[i] /\ i \in 0..(n + 1)
    BY <1>2, <2>3, <2>4
  <2> QED
    BY <1>5, <1>6, <2>3, <2>4, <2>5, <2>6
<1>8. g[n + 1] = IF x \in A THEN Append(g[n], x) ELSE g[n]
  <2>1. n + 1 \in 0..(n + 1) /\ n + 1 # 0 /\ (n + 1) - 1 = n
    BY <1>1
  <2> QED
    BY <1>2, <1>6, <2>1
<1>9. Filter(t, A) = IF x \in A THEN Append(Filter(s, A), x) ELSE Filter(s, A)
  BY <1>3, <1>4, <1>7, <1>8
<1> QED
  BY <1>9 DEF t

\* What is kept is of the sequence and of the set.
LEMMA FilterType ==
    \A T, A : \A s \in Seq(T) : Filter(s, A) \in Seq(T \cap A)
<1> SUFFICES ASSUME NEW T, NEW A PROVE \A s \in Seq(T) : Filter(s, A) \in Seq(T \cap A)
  OBVIOUS
<1> DEFINE Good == {s \in Seq(T) : Filter(s, A) \in Seq(T \cap A)}
<1>1. <<>> \in Good
  <2>1. <<>> \in Seq(T) /\ <<>> \in Seq(T \cap A)
    BY EmptySeq
  <2> QED
    BY <2>1, FilterEmpty
<1>2. ASSUME NEW s \in Seq(T), NEW x \in T, s \in Good
      PROVE  Append(s, x) \in Good
  <2>1. Append(s, x) \in Seq(T)
    BY AppendProperties
  <2>2. PICK u : u = Filter(s, A) /\ u \in Seq(T \cap A)
    BY <1>2
  <2>3. x \in A => Append(u, x) \in Seq(T \cap A)
    BY <2>2, AppendProperties
  <2>4. Filter(Append(s, x), A) = IF x \in A THEN Append(u, x) ELSE u
    BY <2>2, FilterAppend
  <2> QED
    BY <2>1, <2>2, <2>3, <2>4
<1> HIDE DEF Good
<1>3. Seq(T) \subseteq Good
  BY <1>1, <1>2, EntryByEntry
<1> QED
  BY <1>3 DEF Good

\* Concatenation goes one entry at a time.
LEMMA ConcatAppend ==
    ASSUME NEW T, NEW s \in Seq(T), NEW t \in Seq(T), NEW x \in T
    PROVE  s \o Append(t, x) = Append(s \o t, x)
<1>1. <<x>> \in Seq(T) /\ s \o t \in Seq(T)
  BY ConcatProperties
<1>2. Append(t, x) = t \o <<x>> /\ Append(s \o t, x) = (s \o t) \o <<x>>
  BY <1>1, AppendIsConcat
<1>3. (s \o t) \o <<x>> = s \o (t \o <<x>>)
  BY <1>1, ConcatAssociative
<1> QED
  BY <1>2, <1>3

\* Two parts are filtered one by one.
LEMMA FilterConcat ==
    \A T, A : \A s, t \in Seq(T) :
        Filter(s \o t, A) = Filter(s, A) \o Filter(t, A)
<1> SUFFICES ASSUME NEW T, NEW A, NEW s \in Seq(T)
             PROVE  \A t \in Seq(T) : Filter(s \o t, A) = Filter(s, A) \o Filter(t, A)
  OBVIOUS
<1> DEFINE Good == {t \in Seq(T) : Filter(s \o t, A) = Filter(s, A) \o Filter(t, A)}
<1>1. PICK f : f = Filter(s, A) /\ f \in Seq(T)
  <2>1. Filter(s, A) \in Seq(T \cap A)
    BY FilterType
  <2> QED
    BY <2>1
<1>2. <<>> \in Good
  <2>1. s \o <<>> = s /\ f \o <<>> = f
    BY <1>1, ConcatEmptySeq
  <2> QED
    BY <1>1, <2>1, FilterEmpty
<1>3. ASSUME NEW t \in Seq(T), NEW x \in T, t \in Good
      PROVE  Append(t, x) \in Good
  <2>1. PICK g : g = Filter(t, A) /\ g \in Seq(T)
    <3>1. Filter(t, A) \in Seq(T \cap A)
      BY FilterType
    <3> QED
      BY <3>1
  <2>2. Append(t, x) \in Seq(T) /\ s \o t \in Seq(T)
    BY AppendProperties, ConcatProperties
  <2> DEFINE w == s \o t
             h == f \o g
  <2>3. s \o Append(t, x) = Append(w, x) /\ w \in Seq(T)
    BY <2>2, ConcatAppend
  <2>8. f \o Append(g, x) = Append(h, x)
    <3>1. f \in Seq(T) /\ g \in Seq(T)
      BY <1>1, <2>1
    <3> QED
      BY <3>1, ConcatAppend
  <2>4. Filter(w, A) = h
    BY <1>1, <1>3, <2>1
  <2> HIDE DEF w, h
  <2>5. Filter(Append(w, x), A) = IF x \in A THEN Append(h, x) ELSE h
    BY <2>3, <2>4, FilterAppend
  <2>6. Filter(Append(t, x), A) = IF x \in A THEN Append(g, x) ELSE g
    BY <2>1, FilterAppend
  <2>7. Filter(s \o Append(t, x), A) = f \o Filter(Append(t, x), A)
    <3>1. CASE x \in A
      BY <2>3, <2>5, <2>6, <2>8, <3>1
    <3>2. CASE x \notin A
      BY <2>3, <2>5, <2>6, <3>2 DEF h
    <3> QED
      BY <3>1, <3>2
  <2> QED
    BY <1>1, <2>2, <2>7
<1> HIDE DEF Good
<1>4. Seq(T) \subseteq Good
  BY <1>2, <1>3, EntryByEntry
<1> QED
  BY <1>4 DEF Good

\* Two filters in a row are one.
LEMMA FilterTwice ==
    \A T, A, B : \A s \in Seq(T) : Filter(Filter(s, A), B) = Filter(s, A \cap B)
<1> SUFFICES ASSUME NEW T, NEW A, NEW B
             PROVE  \A s \in Seq(T) : Filter(Filter(s, A), B) = Filter(s, A \cap B)
  OBVIOUS
<1> DEFINE Good == {s \in Seq(T) : Filter(Filter(s, A), B) = Filter(s, A \cap B)}
<1>1. <<>> \in Good
  BY FilterEmpty
<1>2. ASSUME NEW s \in Seq(T), NEW x \in T, s \in Good
      PROVE  Append(s, x) \in Good
  <2>1. Append(s, x) \in Seq(T)
    BY AppendProperties
  <2>2. PICK f : f = Filter(s, A) /\ f \in Seq(T)
    <3>1. Filter(s, A) \in Seq(T \cap A)
      BY FilterType
    <3> QED
      BY <3>1
  <2>3. Filter(f, B) = Filter(s, A \cap B)
    BY <1>2, <2>2
  <2>4. Filter(Append(s, x), A) = IF x \in A THEN Append(f, x) ELSE f
    BY <2>2, FilterAppend
  <2>5. Filter(Append(f, x), B) = IF x \in B THEN Append(Filter(f, B), x) ELSE Filter(f, B)
    BY <2>2, FilterAppend
  <2>6. Filter(Append(s, x), A \cap B) =
            IF x \in A \cap B THEN Append(Filter(s, A \cap B), x) ELSE Filter(s, A \cap B)
    BY FilterAppend
  <2>7. Filter(Filter(Append(s, x), A), B) = Filter(Append(s, x), A \cap B)
    <3>1. CASE x \in A
      <4>1. Filter(Append(s, x), A) = Append(f, x)
        BY <2>4, <3>1
      <4>2. x \in A \cap B <=> x \in B
        BY <3>1
      <4>3. Filter(Append(f, x), B) = Filter(Append(s, x), A \cap B)
        BY <2>3, <2>5, <2>6, <4>2, Zenon
      <4> QED
        BY <4>1, <4>3
    <3>2. CASE x \notin A
      BY <2>3, <2>4, <2>6, <3>2
    <3> QED
      BY <3>1, <3>2
  <2> QED
    BY <2>1, <2>7
<1> HIDE DEF Good
<1>3. Seq(T) \subseteq Good
  BY <1>1, <1>2, EntryByEntry
<1> QED
  BY <1>3 DEF Good

\* Only the entries that occur matter.
LEMMA FilterSame ==
    \A T, A, B : T \cap A = T \cap B => \A s \in Seq(T) : Filter(s, A) = Filter(s, B)
<1> SUFFICES ASSUME NEW T, NEW A, NEW B, T \cap A = T \cap B
             PROVE  \A s \in Seq(T) : Filter(s, A) = Filter(s, B)
  OBVIOUS
<1> DEFINE Good == {s \in Seq(T) : Filter(s, A) = Filter(s, B)}
<1>1. <<>> \in Good
  BY FilterEmpty
<1>2. ASSUME NEW s \in Seq(T), NEW x \in T, s \in Good
      PROVE  Append(s, x) \in Good
  <2>1. Append(s, x) \in Seq(T)
    BY AppendProperties
  <2>2. x \in A <=> x \in B
    OBVIOUS
  <2>3. Filter(Append(s, x), A) = Filter(Append(s, x), B)
    BY <1>2, <2>2, FilterAppend
  <2> QED
    BY <2>1, <2>3
<1> HIDE DEF Good
<1>3. Seq(T) \subseteq Good
  BY <1>1, <1>2, EntryByEntry
<1> QED
  BY <1>3 DEF Good

\* A filter that takes all leaves the sequence alone.
LEMMA FilterAll ==
    \A T, A : T \subseteq A => \A s \in Seq(T) : Filter(s, A) = s
<1> SUFFICES ASSUME NEW T, NEW A, T \subseteq A
             PROVE  \A s \in Seq(T) : Filter(s, A) = s
  OBVIOUS
<1> DEFINE Good == {s \in Seq(T) : Filter(s, A) = s}
<1>1. <<>> \in Good
  BY FilterEmpty
<1>2. ASSUME NEW s \in Seq(T), NEW x \in T, s \in Good
      PROVE  Append(s, x) \in Good
  <2>1. Append(s, x) \in Seq(T)
    BY AppendProperties
  <2>2. Filter(Append(s, x), A) = Append(s, x)
    BY <1>2, FilterAppend
  <2> QED
    BY <2>1, <2>2
<1> HIDE DEF Good
<1>3. Seq(T) \subseteq Good
  BY <1>1, <1>2, EntryByEntry
<1> QED
  BY <1>3 DEF Good

\* A filter that takes none leaves nothing.
LEMMA FilterNone ==
    \A T, A : T \cap A = {} => \A s \in Seq(T) : Filter(s, A) = <<>>
<1> SUFFICES ASSUME NEW T, NEW A, T \cap A = {}, NEW s \in Seq(T)
             PROVE  Filter(s, A) = <<>>
  OBVIOUS
<1>1. Filter(s, A) \in Seq({})
  BY FilterType
<1> QED
  BY <1>1

\* What is selected and there is found.
LEMMA FilterSome ==
    \A T, A : \A s \in Seq(T) :
        (\E i \in 1..Len(s) : s[i] \in A) => Len(Filter(s, A)) >= 1
<1> SUFFICES ASSUME NEW T, NEW A
             PROVE  \A s \in Seq(T) :
                        (\E i \in 1..Len(s) : s[i] \in A) => Len(Filter(s, A)) >= 1
  OBVIOUS
<1> DEFINE Good == {s \in Seq(T) :
                        (\E i \in 1..Len(s) : s[i] \in A) => Len(Filter(s, A)) >= 1}
<1>1. <<>> \in Good
  BY EmptySeq
<1>2. ASSUME NEW s \in Seq(T), NEW x \in T, s \in Good
      PROVE  Append(s, x) \in Good
  <2>1. PICK n \in Nat : n = Len(s)
    BY LenProperties
  <2>2. PICK l : l = Append(s, x)
    OBVIOUS
  <2>3. /\ l \in Seq(T) /\ Len(l) = n + 1 /\ l[n + 1] = x
        /\ \A i \in 1..n : l[i] = s[i]
    BY <2>1, <2>2, AppendProperties
  <2>4. PICK f : f = Filter(s, A) /\ f \in Seq(T \cap A)
    BY FilterType
  <2>5. Filter(l, A) = IF x \in A THEN Append(f, x) ELSE f
    BY <2>2, <2>4, FilterAppend
  <2>6. ASSUME NEW i \in 1..Len(l), l[i] \in A
        PROVE  Len(Filter(l, A)) >= 1
    <3>1. CASE x \in A
      <4>1. Len(Append(f, x)) = Len(f) + 1 /\ Len(f) \in Nat
        <5>1. x \in T \cap A
          BY <3>1
        <5> QED
          BY <2>4, <5>1, AppendProperties, LenProperties
      <4> QED
        BY <2>5, <3>1, <4>1
    <3>2. CASE x \notin A
      <4>1. i \in 1..n /\ s[i] \in A
        BY <2>1, <2>3, <2>6, <3>2
      <4> QED
        BY <1>2, <2>1, <2>4, <2>5, <3>2, <4>1
    <3> QED
      BY <3>1, <3>2
  <2> QED
    BY <2>2, <2>3, <2>6
<1> HIDE DEF Good
<1>3. Seq(T) \subseteq Good
  BY <1>1, <1>2, EntryByEntry
<1> QED
  BY <1>3 DEF Good

-----------------------------------------------------------------------------
(* The parts of the text.                                                   *)

IsFlat(f, seqs) ==
    f = [i \in 1..Len(seqs) |-> IF i = 1 THEN seqs[i] ELSE f[i - 1] \o seqs[i]]

\* FlattenSeq's recursion has a solution over every sequence of sequences.
LEMMA FlatExists ==
    \A T : \A s \in Seq(Seq(T)) : \E f : IsFlat(f, s) /\ f \in [1..Len(s) -> Seq(T)]
<1> SUFFICES ASSUME NEW T
             PROVE  \A s \in Seq(Seq(T)) : \E f : IsFlat(f, s) /\ f \in [1..Len(s) -> Seq(T)]
  OBVIOUS
<1> DEFINE Good == {s \in Seq(Seq(T)) : \E f : IsFlat(f, s) /\ f \in [1..Len(s) -> Seq(T)]}
<1>1. <<>> \in Good
  <2> DEFINE f == [i \in 1..0 |-> <<>>]
  <2>1. IsFlat(f, <<>>) /\ f \in [1..0 -> Seq(T)]
    BY DEF IsFlat
  <2>2. <<>> \in Seq(Seq(T)) /\ Len(<<>>) = 0
    BY EmptySeq
  <2> HIDE DEF f
  <2>3. \E g : IsFlat(g, <<>>) /\ g \in [1..Len(<<>>) -> Seq(T)]
    BY <2>1, <2>2
  <2> QED
    BY <2>2, <2>3
<1>2. ASSUME NEW s \in Seq(Seq(T)), NEW x \in Seq(T), s \in Good
      PROVE  Append(s, x) \in Good
  <2>1. PICK f : IsFlat(f, s) /\ f \in [1..Len(s) -> Seq(T)]
    BY <1>2
  <2>2. PICK n \in Nat : n = Len(s)
    BY LenProperties
  <2> DEFINE g == [i \in 1..(n + 1) |->
                       IF i <= n THEN f[i] ELSE IF i = 1 THEN x ELSE f[n] \o x]
  <2> DEFINE t == Append(s, x)
  <2>3. /\ t \in Seq(Seq(T)) /\ Len(t) = n + 1 /\ t[n + 1] = x
        /\ \A i \in 1..n : t[i] = s[i]
    BY <2>2, AppendProperties
  <2> HIDE DEF t
  <2>4. \A i \in 1..n : f[i] = IF i = 1 THEN s[i] ELSE f[i - 1] \o s[i]
    BY <2>1, <2>2 DEF IsFlat
  <2>5. \A i \in 1..n : f[i] \in Seq(T)
    BY <2>1, <2>2
  <2>6. ASSUME NEW i \in 1..(n + 1)
        PROVE  /\ g[i] = IF i = 1 THEN t[i] ELSE g[i - 1] \o t[i]
               /\ g[i] \in Seq(T)
    <3>1. CASE i \in 1..n
      <4>1. i <= n /\ (i # 1 => i - 1 \in 1..n /\ i - 1 <= n /\ i - 1 \in 1..(n + 1))
        BY <2>2, <3>1
      <4>2. g[i] = f[i] /\ (i # 1 => g[i - 1] = f[i - 1])
        BY <4>1
      <4>3. t[i] = s[i]
        BY <2>3, <3>1
      <4> HIDE DEF g
      <4> QED
        BY <2>4, <2>5, <3>1, <4>2, <4>3
    <3>2. CASE i = n + 1 /\ n = 0
      BY <2>3, <3>2
    <3>3. CASE i = n + 1 /\ n # 0
      <4>1. n \in 1..n /\ n \in 1..(n + 1) /\ i - 1 = n /\ ~(i <= n) /\ i # 1
        BY <2>2, <3>3
      <4>2. g[i] = f[n] \o x /\ g[n] = f[n]
        BY <4>1
      <4>3. f[n] \o x \in Seq(T)
        BY <2>5, <4>1, ConcatProperties
      <4>4. g[i - 1] = f[n] /\ t[i] = x
        BY <2>3, <3>3, <4>1, <4>2
      <4> HIDE DEF g
      <4> QED
        BY <4>1, <4>2, <4>3, <4>4
    <3> QED
      BY <2>2, <3>1, <3>2, <3>3
  <2>7. g = [i \in 1..(n + 1) |-> g[i]]
    OBVIOUS
  <2> HIDE DEF g
  <2>8. g = [i \in 1..(n + 1) |-> IF i = 1 THEN t[i] ELSE g[i - 1] \o t[i]]
    BY <2>6, <2>7
  <2>9. g \in [1..(n + 1) -> Seq(T)]
    BY <2>6, <2>7
  <2>10. IsFlat(g, t) /\ g \in [1..Len(t) -> Seq(T)]
    BY <2>3, <2>8, <2>9 DEF IsFlat
  <2>11. t \in Good
    BY <2>3, <2>10
  <2> QED
    BY <2>11 DEF t
<1> HIDE DEF Good
<1>3. Seq(Seq(T)) \subseteq Good
  BY <1>1, <1>2, EntryByEntry
<1> QED
  BY <1>3 DEF Good

\* FlattenSeq by its own recursion.
LEMMA FlattenUpTo ==
    ASSUME NEW T, NEW s \in Seq(Seq(T)), Len(s) # 0
    PROVE  \E f : IsFlat(f, s) /\ FlattenSeq(s) = f[Len(s)]
<1> DEFINE f == CHOOSE g : IsFlat(g, s)
<1>1. IsFlat(f, s)
  BY FlatExists
<1>2. FlattenSeq(s) = f[Len(s)]
  BY DEF FlattenSeq, IsFlat
<1> QED
  BY <1>1, <1>2

\* The prefixes of a sequence are flattened alike.
Begins(s, t) ==
    /\ Len(s) \in Nat /\ Len(t) \in Nat /\ Len(s) <= Len(t)
    /\ \A i \in 1..Len(s) : t[i] = s[i]

\* The flattening of a sequence begins as that of any beginning of it.
LEMMA FlatAgree ==
    \A s, t, f, g : IsFlat(f, s) /\ IsFlat(g, t) /\ Begins(s, t)
                        => \A i \in 1..Len(s) : f[i] = g[i]
<1> SUFFICES ASSUME NEW s, NEW t, NEW f, NEW g,
                    IsFlat(f, s), IsFlat(g, t), Begins(s, t)
             PROVE  \A i \in 1..Len(s) : f[i] = g[i]
  OBVIOUS
<1> DEFINE Different == {i \in 1..Len(s) : f[i] # g[i]}
<1>1. SUFFICES ASSUME Different # {} PROVE FALSE
  OBVIOUS
<1>2. PICK i \in Different : \A k \in Different : i <= k
  <2>1. Different \in SUBSET Nat
    BY DEF Begins
  <2> HIDE DEF Different
  <2> QED
    BY <1>1, <2>1, Smallest
<1>3. i \in 1..Len(s) /\ f[i] # g[i]
  BY <1>2
<1>4. \A j \in 1..Len(s) : f[j] = IF j = 1 THEN s[j] ELSE f[j - 1] \o s[j]
  BY DEF IsFlat
<1>5. \A j \in 1..Len(t) : g[j] = IF j = 1 THEN t[j] ELSE g[j - 1] \o t[j]
  BY DEF IsFlat
<1>6. i # 1 => f[i - 1] = g[i - 1]
  BY <1>2, <1>3 DEF Begins
<1>7. i \in 1..Len(t) /\ t[i] = s[i]
  BY <1>3 DEF Begins
<1> QED
  BY <1>3, <1>4, <1>5, <1>6, <1>7

\* One sequence more.
LEMMA FlattenMore ==
    \A T : \A s \in Seq(Seq(T)), x \in Seq(T) :
        /\ FlattenSeq(s) \in Seq(T)
        /\ FlattenSeq(Append(s, x)) = FlattenSeq(s) \o x
<1> SUFFICES ASSUME NEW T, NEW s \in Seq(Seq(T)), NEW x \in Seq(T)
             PROVE  /\ FlattenSeq(s) \in Seq(T)
                    /\ FlattenSeq(Append(s, x)) = FlattenSeq(s) \o x
  OBVIOUS
<1>1. PICK n \in Nat : n = Len(s)
  BY LenProperties
<1>7. PICK t : t = Append(s, x)
  OBVIOUS
<1>2. /\ t \in Seq(Seq(T)) /\ Len(t) = n + 1 /\ t[n + 1] = x
      /\ \A i \in 1..n : t[i] = s[i]
  BY <1>1, <1>7, AppendProperties
<1>3. PICK g : IsFlat(g, t) /\ FlattenSeq(t) = g[n + 1]
  <2>1. Len(t) # 0
    BY <1>1, <1>2
  <2> QED
    BY <1>2, <2>1, FlattenUpTo
<1>4. g[n + 1] = IF n = 0 THEN x ELSE g[n] \o x
  <2>1. \A j \in 1..(n + 1) : g[j] = IF j = 1 THEN t[j] ELSE g[j - 1] \o t[j]
    BY <1>2, <1>3 DEF IsFlat
  <2>2. n + 1 \in 1..(n + 1) /\ (n + 1) - 1 = n /\ (n + 1 = 1 <=> n = 0)
    BY <1>1
  <2> QED
    BY <1>2, <2>1, <2>2
<1>5. CASE n = 0
  <2>1. FlattenSeq(s) = s /\ s = <<>>
    BY <1>1, <1>5, EmptySeq DEF FlattenSeq
  <2>2. <<>> \o x = x
    BY ConcatEmptySeq
  <2>3. FlattenSeq(t) = FlattenSeq(s) \o x /\ FlattenSeq(s) \in Seq(T)
    BY <1>3, <1>4, <1>5, <2>1, <2>2, EmptySeq
  <2> QED
    BY <1>7, <2>3
<1>6. CASE n # 0
  <2>1. PICK f : IsFlat(f, s) /\ FlattenSeq(s) = f[n]
    BY <1>1, <1>6, FlattenUpTo
  <2>2. n \in 1..n
    BY <1>1, <1>6
  <2>3. f[n] = g[n]
    <3>1. Begins(s, t)
      BY <1>1, <1>2 DEF Begins
    <3>2. \A i \in 1..Len(s) : f[i] = g[i]
      BY <1>3, <2>1, <3>1, FlatAgree
    <3> QED
      BY <1>1, <2>2, <3>2
  <2>4. PICK e : IsFlat(e, s) /\ e \in [1..n -> Seq(T)]
    BY <1>1, FlatExists
  <2>5. f[n] = e[n]
    <3>1. Begins(s, s)
      BY <1>1 DEF Begins
    <3>2. \A i \in 1..Len(s) : f[i] = e[i]
      BY <2>1, <2>4, <3>1, FlatAgree
    <3> QED
      BY <1>1, <2>2, <3>2
  <2>6. e[n] \in Seq(T)
    BY <2>2, <2>4
  <2>7. FlattenSeq(t) = FlattenSeq(s) \o x /\ FlattenSeq(s) \in Seq(T)
    BY <1>3, <1>4, <1>6, <2>1, <2>3, <2>5, <2>6
  <2> QED
    BY <1>7, <2>7
<1> QED
  BY <1>5, <1>6

\* Short texts.
LEMMA FilterOne ==
    \A a, A : Filter(<<a>>, A) = IF a \in A THEN <<a>> ELSE <<>>
<1> SUFFICES ASSUME NEW a, NEW A
             PROVE  Filter(<<a>>, A) = IF a \in A THEN <<a>> ELSE <<>>
  OBVIOUS
<1>1. <<>> \in Seq({a}) /\ <<a>> = Append(<<>>, a)
  BY EmptySeq
<1>2. Filter(Append(<<>>, a), A) =
          IF a \in A THEN Append(Filter(<<>>, A), a) ELSE Filter(<<>>, A)
  BY <1>1, FilterAppend
<1> QED
  BY <1>1, <1>2, FilterEmpty

\* Two entries, by the second.
LEMMA FilterTwo ==
    \A a, b, A :
        Filter(<<a, b>>, A) =
            IF b \in A THEN Append(Filter(<<a>>, A), b) ELSE Filter(<<a>>, A)
<1> SUFFICES ASSUME NEW a, NEW b, NEW A
             PROVE  Filter(<<a, b>>, A) =
                        IF b \in A THEN Append(Filter(<<a>>, A), b)
                        ELSE Filter(<<a>>, A)
  OBVIOUS
<1>1. PICK T : a \in T /\ b \in T
  <2>1. a \in {a, b} /\ b \in {a, b}
    OBVIOUS
  <2> QED
    BY <2>1
<1>2. <<a>> \in Seq(T)
  BY <1>1
<1>3. PICK x : x = <<a>>
  OBVIOUS
<1>4. <<a, b>> = Append(x, b)
  BY <1>3
<1>5. Filter(Append(x, b), A) = IF b \in A THEN Append(Filter(x, A), b) ELSE Filter(x, A)
  <2>1. x \in Seq(T)
    BY <1>2, <1>3
  <2> HIDE <1>3
  <2> QED
    BY <1>1, <2>1, FilterAppend
<1> QED
  BY <1>3, <1>4, <1>5

\* Three entries, by the third.
LEMMA FilterThree ==
    \A a, b, c, A :
        Filter(<<a, b, c>>, A) =
            IF c \in A THEN Append(Filter(<<a, b>>, A), c) ELSE Filter(<<a, b>>, A)
<1> SUFFICES ASSUME NEW a, NEW b, NEW c, NEW A
             PROVE  Filter(<<a, b, c>>, A) =
                        IF c \in A THEN Append(Filter(<<a, b>>, A), c)
                        ELSE Filter(<<a, b>>, A)
  OBVIOUS
<1>1. PICK T : a \in T /\ b \in T /\ c \in T
  <2>1. a \in {a, b, c} /\ b \in {a, b, c} /\ c \in {a, b, c}
    OBVIOUS
  <2> QED
    BY <2>1
<1>2. <<a, b>> \in Seq(T)
  BY <1>1
<1>3. PICK x : x = <<a, b>>
  OBVIOUS
<1>4. <<a, b, c>> = Append(x, c)
  BY <1>3
<1>5. Filter(Append(x, c), A) = IF c \in A THEN Append(Filter(x, A), c) ELSE Filter(x, A)
  <2>1. x \in Seq(T)
    BY <1>2, <1>3
  <2> HIDE <1>3
  <2> QED
    BY <1>1, <2>1, FilterAppend
<1> QED
  BY <1>3, <1>4, <1>5

\* A sequence over a set is one over every larger set.
LEMMA SeqWider == \A A, B : A \subseteq B => Seq(A) \subseteq Seq(B)
  OBVIOUS

AllParts == Parts(Kinds)

Heading(k) == <<Part("image line", k), Part("state anchors", k), Part("lesson line", k)>>

\* A block is its three lines and the rest of its lesson.
LEMMA BlockIs ==
    \A r, k : EpisodeBlock(r, k) = Heading(k) \o LaterLines(r, k)
  BY DEF EpisodeBlock, Heading

\* The rest of a lesson belongs to its episode, and is of the kinds of its lines.
LEMMA LinesAre ==
    \A r \in Ids, k \in Nat :
        /\ ToSet(LessonOf[r]) \subseteq LessonKinds
        /\ \A K : ToSet(LessonOf[r]) \subseteq K
                      => LaterLines(r, k) \in Seq([kind : K, of : {k}])
        /\ \A kind \in ToSet(LessonOf[r]) :
               \E i \in 1..Len(LaterLines(r, k)) : LaterLines(r, k)[i] = Part(kind, k)
<1> SUFFICES ASSUME NEW r \in Ids, NEW k \in Nat
             PROVE  /\ ToSet(LessonOf[r]) \subseteq LessonKinds
                    /\ \A K : ToSet(LessonOf[r]) \subseteq K
                                  => LaterLines(r, k) \in Seq([kind : K, of : {k}])
                    /\ \A kind \in ToSet(LessonOf[r]) :
                           \E i \in 1..Len(LaterLines(r, k)) :
                               LaterLines(r, k)[i] = Part(kind, k)
  OBVIOUS
<1>1. PICK lesson \in Seq(LessonKinds) : lesson = LessonOf[r]
  BY LessonAssumption
<1>2. PICK n \in Nat : n = Len(lesson) /\ DOMAIN lesson = 1..n
  BY <1>1, LenProperties
<1>3. LaterLines(r, k) = [j \in 1..n |-> [kind |-> lesson[j], of |-> k]]
  BY <1>1, <1>2 DEF LaterLines, Part
<1>4. ToSet(lesson) = {lesson[j] : j \in 1..n}
  BY <1>2 DEF ToSet
<1>5. \A j \in 1..n : lesson[j] \in LessonKinds
  BY <1>1, <1>2, ElementOfSeq
<1>6. ASSUME NEW K, ToSet(LessonOf[r]) \subseteq K
      PROVE  LaterLines(r, k) \in Seq([kind : K, of : {k}])
  <2>1. \A j \in 1..n : lesson[j] \in K
    BY <1>1, <1>4, <1>6
  <2> QED
    BY <1>2, <1>3, <2>1
<1>7. ASSUME NEW kind \in ToSet(LessonOf[r])
      PROVE  \E i \in 1..Len(LaterLines(r, k)) : LaterLines(r, k)[i] = Part(kind, k)
  <2>1. PICK j \in 1..n : lesson[j] = kind
    BY <1>1, <1>4, <1>7
  <2>2. Len(LaterLines(r, k)) = n /\ LaterLines(r, k)[j] = Part(kind, k)
    BY <1>2, <1>3, <2>1 DEF Part
  <2> QED
    BY <2>2
<1>8. ToSet(LessonOf[r]) \subseteq LessonKinds
  BY <1>1, <1>4, <1>5
<1> QED
  BY <1>6, <1>7, <1>8

\* Every part of a block carries the number of its episode.
LEMMA BlockType ==
    \A r \in Ids, k \in Nat :
        /\ Heading(k) \in Seq([kind : Kinds, of : {k}])
        /\ LaterLines(r, k) \in Seq([kind : Kinds, of : {k}])
        /\ EpisodeBlock(r, k) \in Seq([kind : Kinds, of : {k}])
        /\ EpisodeBlock(r, k) \in Seq(AllParts)
<1> SUFFICES ASSUME NEW r \in Ids, NEW k \in Nat
             PROVE  /\ Heading(k) \in Seq([kind : Kinds, of : {k}])
                    /\ LaterLines(r, k) \in Seq([kind : Kinds, of : {k}])
                    /\ EpisodeBlock(r, k) \in Seq([kind : Kinds, of : {k}])
                    /\ EpisodeBlock(r, k) \in Seq(AllParts)
  OBVIOUS
<1> DEFINE Mine == [kind : Kinds, of : {k}]
<1>1. Heading(k) \in Seq(Mine)
  <2>1. Part("image line", k) \in Mine /\ Part("state anchors", k) \in Mine
        /\ Part("lesson line", k) \in Mine
    BY DEF Part, Kinds, LessonKinds
  <2>2. PICK p, q, l : /\ p = Part("image line", k) /\ q = Part("state anchors", k)
                       /\ l = Part("lesson line", k)
    OBVIOUS
  <2> HIDE DEF Mine
  <2>4. p \in Mine /\ q \in Mine /\ l \in Mine
    BY <2>1, <2>2
  <2> HIDE <2>2
  <2>3. <<p, q, l>> \in Seq(Mine)
    BY <2>4
  <2> QED
    BY <2>2, <2>3 DEF Heading
<1>2. LaterLines(r, k) \in Seq(Mine)
  <2>1. [kind : LessonKinds, of : {k}] \subseteq Mine
    BY DEF Kinds
  <2>2. LaterLines(r, k) \in Seq([kind : LessonKinds, of : {k}])
    <3>1. ToSet(LessonOf[r]) \subseteq LessonKinds
      BY LinesAre
    <3> QED
      BY <3>1, LinesAre
  <2> HIDE DEF Mine
  <2> QED
    BY <2>1, <2>2, SeqWider
<1>3. Heading(k) \o LaterLines(r, k) \in Seq(Mine)
  BY <1>1, <1>2, ConcatProperties
<1>4. Mine \subseteq AllParts
  BY DEF AllParts, Parts
<1> HIDE DEF Mine
<1>5. EpisodeBlock(r, k) \in Seq(Mine) /\ EpisodeBlock(r, k) \in Seq(AllParts)
  BY <1>3, <1>4, BlockIs, SeqWider
<1> QED
  BY <1>1, <1>2, <1>5 DEF Mine

\* A block is filtered by its two pieces.
LEMMA BlockFilter ==
    \A r \in Ids, k \in Nat : \A A :
        Filter(EpisodeBlock(r, k), A) =
            Filter(Heading(k), A) \o Filter(LaterLines(r, k), A)
<1> SUFFICES ASSUME NEW r \in Ids, NEW k \in Nat, NEW A
             PROVE  Filter(EpisodeBlock(r, k), A) =
                        Filter(Heading(k), A) \o Filter(LaterLines(r, k), A)
  OBVIOUS
<1>1. PICK h, l : h = Heading(k) /\ l = LaterLines(r, k)
  OBVIOUS
<1>2. PICK T : h \in Seq(T) /\ l \in Seq(T)
  BY <1>1, BlockType
<1>3. Filter(h \o l, A) = Filter(h, A) \o Filter(l, A)
  BY <1>2, FilterConcat
<1> QED
  BY <1>1, <1>3, BlockIs

Marked == {"image line", "state anchors", "lesson line"}

\* Each mark occurs once in the three lines.
LEMMA HeadingMarks ==
    \A kind \in Marked, k \in Nat :
        Filter(Heading(k), Parts({kind})) = <<Part(kind, k)>>
<1> SUFFICES ASSUME NEW kind \in Marked, NEW k \in Nat
             PROVE  Filter(Heading(k), Parts({kind})) = <<Part(kind, k)>>
  OBVIOUS
<1>1. \A other \in Marked : Part(other, k) \in Parts({kind}) <=> other = kind
  BY DEF Part, Parts
<1>2. PICK p, q, l : /\ p = Part("image line", k) /\ q = Part("state anchors", k)
                     /\ l = Part("lesson line", k)
  OBVIOUS
<1>3. PICK A : A = Parts({kind})
  OBVIOUS
<1>4. /\ p \in A <=> kind = "image line"
      /\ q \in A <=> kind = "state anchors"
      /\ l \in A <=> kind = "lesson line"
  BY <1>1, <1>2, <1>3 DEF Marked
<1>5. Filter(<<p>>, A) = IF p \in A THEN <<p>> ELSE <<>>
  BY FilterOne
<1>6. Filter(<<p, q>>, A) = IF q \in A THEN Append(Filter(<<p>>, A), q) ELSE Filter(<<p>>, A)
  BY FilterTwo
<1>7. Filter(<<p, q, l>>, A) =
          IF l \in A THEN Append(Filter(<<p, q>>, A), l) ELSE Filter(<<p, q>>, A)
  BY FilterThree
<1>8. CASE kind = "image line"
  <2>1. Filter(<<p, q, l>>, A) = <<p>>
    BY <1>4, <1>5, <1>6, <1>7, <1>8
  <2> QED
    BY <1>2, <1>3, <1>8, <2>1 DEF Heading
<1>9. CASE kind = "state anchors"
  <2>2. Append(<<>>, q) = <<q>>
    OBVIOUS
  <2>1. Filter(<<p, q, l>>, A) = <<q>>
    BY <1>4, <1>5, <1>6, <1>7, <1>9, <2>2
  <2> QED
    BY <1>2, <1>3, <1>9, <2>1 DEF Heading
<1>10. CASE kind = "lesson line"
  <2>2. Append(<<>>, l) = <<l>>
    OBVIOUS
  <2>1. Filter(<<p, q, l>>, A) = <<l>>
    BY <1>4, <1>5, <1>6, <1>7, <1>10, <2>2
  <2> QED
    BY <1>2, <1>3, <1>10, <2>1 DEF Heading
<1> QED
  BY <1>8, <1>9, <1>10 DEF Marked

\* Sequences of one or two entries, put together.
LEMMA Short == \A a, b : <<a>> \o <<>> = <<a>> /\ Append(<<a>>, b) = <<a, b>>
<1> SUFFICES ASSUME NEW a, NEW b
             PROVE  <<a>> \o <<>> = <<a>> /\ Append(<<a>>, b) = <<a, b>>
  OBVIOUS
<1>1. PICK T : a \in T /\ b \in T
  <2>1. a \in {a, b} /\ b \in {a, b}
    OBVIOUS
  <2> QED
    BY <2>1
<1>2. <<a>> \in Seq(T)
  BY <1>1
<1>3. PICK x : x = <<a>>
  OBVIOUS
<1>4. <<a, b>> = Append(x, b)
  BY <1>3
<1>5. x \o <<>> = x
  <2>1. x \in Seq(T)
    BY <1>2, <1>3
  <2> HIDE <1>3
  <2> QED
    BY <2>1, ConcatEmptySeq
<1> QED
  BY <1>3, <1>4, <1>5

Framing == {"image clause", "lesson clause", "tail lessons"}

\* The frame has no mark in the three lines.
LEMMA HeadingHasNoFrame ==
    \A kind \in Framing, k \in Nat : Filter(Heading(k), Parts({kind})) = <<>>
<1> SUFFICES ASSUME NEW kind \in Framing, NEW k \in Nat
             PROVE  Filter(Heading(k), Parts({kind})) = <<>>
  OBVIOUS
<1>1. PICK p, q, l : /\ p = Part("image line", k) /\ q = Part("state anchors", k)
                     /\ l = Part("lesson line", k)
  OBVIOUS
<1>2. PICK A : A = Parts({kind})
  OBVIOUS
<1>3. p \notin A /\ q \notin A /\ l \notin A
  BY <1>1, <1>2 DEF Part, Parts, Framing
<1>4. Filter(<<p>>, A) = <<>>
  BY <1>3, FilterOne
<1>5. Filter(<<p, q>>, A) = <<>>
  BY <1>3, <1>4, FilterTwo
<1>6. Filter(<<p, q, l>>, A) = <<>>
  BY <1>3, <1>5, FilterThree
<1> QED
  BY <1>1, <1>2, <1>6 DEF Heading

Imitates(r, kind) == kind \in ToSet(LessonOf[r])

\* In the rest of a lesson a kind is found if and only if the lesson imitates it.
LEMMA LinesImitate ==
    \A r \in Ids, k \in Nat : \A kind :
        /\ Filter(LaterLines(r, k), Parts({kind})) \in Seq(AllParts)
        /\ ~Imitates(r, kind) => Filter(LaterLines(r, k), Parts({kind})) = <<>>
        /\ Imitates(r, kind) => Len(Filter(LaterLines(r, k), Parts({kind}))) >= 1
<1> SUFFICES ASSUME NEW r \in Ids, NEW k \in Nat, NEW kind
             PROVE  /\ Filter(LaterLines(r, k), Parts({kind})) \in Seq(AllParts)
                    /\ ~Imitates(r, kind)
                           => Filter(LaterLines(r, k), Parts({kind})) = <<>>
                    /\ Imitates(r, kind)
                           => Len(Filter(LaterLines(r, k), Parts({kind}))) >= 1
  OBVIOUS
<1>1. PICK s : s = LaterLines(r, k)
  OBVIOUS
<1>2. PICK A : A = Parts({kind})
  OBVIOUS
<1>3. PICK T : s \in Seq(T) /\ T \subseteq AllParts
  <2>1. s \in Seq([kind : Kinds, of : {k}])
    BY <1>1, BlockType
  <2>2. [kind : Kinds, of : {k}] \subseteq AllParts
    BY DEF AllParts, Parts
  <2> QED
    BY <2>1, <2>2
<1>4. Filter(s, A) \in Seq(AllParts)
  <2>1. Filter(s, A) \in Seq(T \cap A)
    BY <1>3, FilterType
  <2>2. Seq(T \cap A) \subseteq Seq(AllParts)
    BY <1>3, SeqWider
  <2> QED
    BY <2>1, <2>2
<1>5. ASSUME ~Imitates(r, kind) PROVE Filter(s, A) = <<>>
  <2>1. s \in Seq([kind : ToSet(LessonOf[r]), of : {k}])
    BY <1>1, LinesAre
  <2>2. [kind : ToSet(LessonOf[r]), of : {k}] \cap A = {}
    BY <1>2, <1>5 DEF Parts, Imitates
  <2> QED
    BY <2>1, <2>2, FilterNone
<1>6. ASSUME Imitates(r, kind) PROVE Len(Filter(s, A)) >= 1
  <2>1. PICK i \in 1..Len(s) : s[i] = Part(kind, k)
    BY <1>1, <1>6, LinesAre DEF Imitates
  <2>2. s[i] \in A
    BY <1>2, <2>1 DEF Part, Parts
  <2> QED
    BY <1>3, <2>2, FilterSome
<1> QED
  BY <1>1, <1>2, <1>4, <1>5, <1>6

\* A mark is once in the block, unless its lesson imitates it.
LEMMA BlockMarks ==
    \A r \in Ids, k \in Nat, kind \in Marked :
        ~Imitates(r, kind)
            => Filter(EpisodeBlock(r, k), Parts({kind})) = <<Part(kind, k)>>
<1> SUFFICES ASSUME NEW r \in Ids, NEW k \in Nat, NEW kind \in Marked, ~Imitates(r, kind)
             PROVE  Filter(EpisodeBlock(r, k), Parts({kind})) = <<Part(kind, k)>>
  OBVIOUS
<1>1. Filter(LaterLines(r, k), Parts({kind})) = <<>>
  BY LinesImitate
<1>2. Filter(Heading(k), Parts({kind})) = <<Part(kind, k)>>
  BY HeadingMarks
<1>3. PICK mark : mark = Part(kind, k)
  OBVIOUS
<1>4. <<mark>> \o <<>> = <<mark>>
  BY Short
<1> QED
  BY <1>1, <1>2, <1>3, <1>4, BlockFilter

\* A block whose lesson does not imitate it has no part of the frame.
LEMMA BlockHasNoFrame ==
    \A r \in Ids, k \in Nat, kind \in Framing :
        ~Imitates(r, kind) => Filter(EpisodeBlock(r, k), Parts({kind})) = <<>>
<1> SUFFICES ASSUME NEW r \in Ids, NEW k \in Nat, NEW kind \in Framing, ~Imitates(r, kind)
             PROVE  Filter(EpisodeBlock(r, k), Parts({kind})) = <<>>
  OBVIOUS
<1>1. Filter(LaterLines(r, k), Parts({kind})) = <<>>
  BY LinesImitate
<1>2. Filter(Heading(k), Parts({kind})) = <<>>
  BY HeadingHasNoFrame
<1> QED
  BY <1>1, <1>2, BlockFilter

\* How often the preamble itself has a mark in n blocks.
Due(kind, n) == IF kind \in Marked THEN n ELSE 0

\* A block has what is due of a mark, and more where its lesson imitates it.
LEMMA BlockCounts ==
    \A r \in Ids, k \in Nat, kind \in Marked \cup Framing :
        /\ Filter(EpisodeBlock(r, k), Parts({kind})) \in Seq(AllParts)
        /\ Len(Filter(EpisodeBlock(r, k), Parts({kind}))) >= Due(kind, 1)
        /\ Imitates(r, kind) =>
               Len(Filter(EpisodeBlock(r, k), Parts({kind}))) > Due(kind, 1)
<1> SUFFICES ASSUME NEW r \in Ids, NEW k \in Nat, NEW kind \in Marked \cup Framing
             PROVE  /\ Filter(EpisodeBlock(r, k), Parts({kind})) \in Seq(AllParts)
                    /\ Len(Filter(EpisodeBlock(r, k), Parts({kind}))) >= Due(kind, 1)
                    /\ Imitates(r, kind) =>
                           Len(Filter(EpisodeBlock(r, k), Parts({kind}))) > Due(kind, 1)
  OBVIOUS
<1>1. PICK h, l : /\ h = Filter(Heading(k), Parts({kind}))
                  /\ l = Filter(LaterLines(r, k), Parts({kind}))
  OBVIOUS
<1>2. h \in Seq(AllParts) /\ Len(h) = Due(kind, 1)
  <2>1. CASE kind \in Marked
    <3>1. Part(kind, k) \in AllParts
      BY <2>1 DEF Part, AllParts, Parts, Marked, Kinds, LessonKinds
    <3>2. PICK mark : mark = Part(kind, k) /\ mark \in AllParts
      BY <3>1
    <3>3. h = <<mark>>
      BY <1>1, <2>1, <3>2, HeadingMarks
    <3>4. <<mark>> \in Seq(AllParts) /\ Len(<<mark>>) = 1
      <4>1. PICK T : T = AllParts
        OBVIOUS
      <4> QED
        BY <3>2, <4>1
    <3> QED
      BY <2>1, <3>3, <3>4 DEF Due
  <2>2. CASE kind \notin Marked
    <3>1. h = <<>>
      BY <1>1, <2>2, HeadingHasNoFrame
    <3> QED
      BY <2>2, <3>1, EmptySeq DEF Due
  <2> QED
    BY <2>1, <2>2
<1>3. /\ l \in Seq(AllParts) /\ Len(l) \in Nat
      /\ Imitates(r, kind) => Len(l) >= 1
  BY <1>1, LinesImitate, LenProperties
<1>4. h \o l \in Seq(AllParts) /\ Len(h \o l) = Due(kind, 1) + Len(l)
  BY <1>2, <1>3, ConcatProperties
<1>5. Filter(EpisodeBlock(r, k), Parts({kind})) = h \o l
  BY <1>1, BlockFilter
<1>6. Due(kind, 1) \in Nat
  BY DEF Due
<1>7. PICK f, d : f = h \o l /\ d = Due(kind, 1)
  OBVIOUS
<1>8. f \in Seq(AllParts) /\ Len(f) >= d /\ (Imitates(r, kind) => Len(f) > d)
  BY <1>3, <1>4, <1>6, <1>7
<1> QED
  BY <1>5, <1>7, <1>8

\* A block is about its own episode.
LEMMA BlockIsOwn ==
    \A r \in Ids, j, k \in Nat :
        Filter(EpisodeBlock(r, k), [kind : Kinds, of : {j}]) =
            IF j = k THEN EpisodeBlock(r, k) ELSE <<>>
<1> SUFFICES ASSUME NEW r \in Ids, NEW j \in Nat, NEW k \in Nat
             PROVE  Filter(EpisodeBlock(r, k), [kind : Kinds, of : {j}]) =
                        IF j = k THEN EpisodeBlock(r, k) ELSE <<>>
  OBVIOUS
<1>1. EpisodeBlock(r, k) \in Seq([kind : Kinds, of : {k}])
  BY BlockType
<1>2. CASE j = k
  BY <1>1, <1>2, FilterAll
<1>3. CASE j # k
  <2>1. [kind : Kinds, of : {k}] \cap [kind : Kinds, of : {j}] = {}
    BY <1>3
  <2> QED
    BY <1>1, <1>3, <2>1, FilterNone
<1> QED
  BY <1>2, <1>3

\* What each mode leaves.
Spared(mode) == Parts(Kinds \ LooksFor(mode))

HeadingLeft(mode, k) ==
    IF mode = "text_only" THEN <<Part("state anchors", k), Part("lesson line", k)>>
    ELSE <<Part("image line", k), Part("state anchors", k)>>

\* What each mode leaves of the three lines.
LEMMA HeadingSpared ==
    \A k \in Nat, mode \in Modes :
        Filter(Heading(k), Spared(mode)) = HeadingLeft(mode, k)
<1> SUFFICES ASSUME NEW k \in Nat, NEW mode \in Modes
             PROVE  Filter(Heading(k), Spared(mode)) = HeadingLeft(mode, k)
  OBVIOUS
<1>1. PICK p, q, l : /\ p = Part("image line", k) /\ q = Part("state anchors", k)
                     /\ l = Part("lesson line", k)
  OBVIOUS
<1>2. PICK A : A = Spared(mode)
  OBVIOUS
<1>3. /\ p \in A <=> mode # "text_only"
      /\ q \in A
      /\ l \in A <=> mode = "text_only"
  BY <1>1, <1>2 DEF Part, Parts, Spared, Kinds, LessonKinds, LooksFor
<1>4. /\ Filter(<<p>>, A) = IF p \in A THEN <<p>> ELSE <<>>
      /\ Filter(<<p, q>>, A) = Append(Filter(<<p>>, A), q)
      /\ Filter(<<p, q, l>>, A) =
             IF l \in A THEN Append(Filter(<<p, q>>, A), l) ELSE Filter(<<p, q>>, A)
  BY <1>3, FilterOne, FilterTwo, FilterThree
<1>5. Append(<<>>, q) = <<q>> /\ Append(<<q>>, l) = <<q, l>> /\ Append(<<p>>, q) = <<p, q>>
  <2>1. \A x : Append(<<>>, x) = <<x>>
    OBVIOUS
  <2> QED
    BY <2>1, Short
<1>6. CASE mode = "text_only"
  <2>1. Filter(<<p, q, l>>, A) = <<q, l>>
    BY <1>3, <1>4, <1>5, <1>6
  <2> QED
    BY <1>1, <1>2, <1>6, <2>1 DEF Heading, HeadingLeft
<1>7. CASE mode # "text_only"
  <2>1. Filter(<<p, q, l>>, A) = <<p, q>>
    BY <1>3, <1>4, <1>5, <1>7
  <2> QED
    BY <1>1, <1>2, <1>7, <2>1 DEF Heading, HeadingLeft
<1> QED
  BY <1>6, <1>7

\* What is left of a block whose lesson imitates nothing that the mode looks for.
LEMMA BlockSpared ==
    \A r \in Ids, k \in Nat, mode \in Modes :
        ToSet(LessonOf[r]) \cap LooksFor(mode) = {} =>
            Filter(EpisodeBlock(r, k), Spared(mode)) =
                HeadingLeft(mode, k) \o LaterLines(r, k)
<1> SUFFICES ASSUME NEW r \in Ids, NEW k \in Nat, NEW mode \in Modes,
                    ToSet(LessonOf[r]) \cap LooksFor(mode) = {}
             PROVE  Filter(EpisodeBlock(r, k), Spared(mode)) =
                        HeadingLeft(mode, k) \o LaterLines(r, k)
  OBVIOUS
<1>1. PICK K : K = ToSet(LessonOf[r])
  OBVIOUS
<1>2. LaterLines(r, k) \in Seq([kind : K, of : {k}])
  BY <1>1, LinesAre
<1>3. [kind : K, of : {k}] \subseteq Spared(mode)
  <2>1. K \subseteq LessonKinds
    BY <1>1, LinesAre
  <2> QED
    BY <1>1, <2>1 DEF Spared, Parts, Kinds
<1>4. Filter(LaterLines(r, k), Spared(mode)) = LaterLines(r, k)
  BY <1>2, <1>3, FilterAll
<1>5. Filter(Heading(k), Spared(mode)) = HeadingLeft(mode, k)
  BY HeadingSpared
<1>6. Filter(EpisodeBlock(r, k), Spared(mode)) =
          Filter(Heading(k), Spared(mode)) \o Filter(LaterLines(r, k), Spared(mode))
  BY BlockFilter
<1>7. PICK h, l : h = HeadingLeft(mode, k) /\ l = LaterLines(r, k)
  OBVIOUS
<1> QED
  BY <1>4, <1>5, <1>6, <1>7

\* A block is made of the parts of a text.
LEMMA BlockIsText == \A r \in Ids, k \in Nat : EpisodeBlock(r, k) \in Seq(AllParts)
  BY BlockType

-----------------------------------------------------------------------------
(* The blocks of all the kept records.                                      *)

Blocks(kept) == [k \in DOMAIN kept |-> EpisodeBlock(kept[k], k)]

Body(kept) == FlattenSeq(Blocks(kept))

\* One more record adds its block, under the next number.
LEMMA BodyMore ==
    \A kept \in Seq(Ids), r \in Ids :
        /\ Body(kept) \in Seq(AllParts)
        /\ Body(Append(kept, r)) = Body(kept) \o EpisodeBlock(r, Len(kept) + 1)
<1> SUFFICES ASSUME NEW kept \in Seq(Ids), NEW r \in Ids
             PROVE  /\ Body(kept) \in Seq(AllParts)
                    /\ Body(Append(kept, r)) = Body(kept) \o EpisodeBlock(r, Len(kept) + 1)
  OBVIOUS
<1>1. PICK n \in Nat : n = Len(kept) /\ DOMAIN kept = 1..n
  BY LenProperties
<1>2. \A k \in 1..n : kept[k] \in Ids
  BY <1>1, ElementOfSeq
<1>3. PICK b : b = Blocks(kept)
  OBVIOUS
<1>4. b = [k \in 1..n |-> EpisodeBlock(kept[k], k)]
  BY <1>1, <1>3 DEF Blocks
<1>5. b \in Seq(Seq(AllParts)) /\ Len(b) = n
  <2>1. \A k \in 1..n : EpisodeBlock(kept[k], k) \in Seq(AllParts)
    BY <1>1, <1>2, BlockIsText
  <2>2. b \in [1..n -> Seq(AllParts)]
    BY <1>4, <2>1
  <2> QED
    BY <1>1, <2>2
<1>6. PICK x : x = EpisodeBlock(r, n + 1)
  OBVIOUS
<1>7. x \in Seq(AllParts)
  BY <1>1, <1>6, BlockIsText
<1>8. PICK more : more = Append(kept, r)
  OBVIOUS
<1>9. /\ more \in Seq(Ids) /\ Len(more) = n + 1 /\ more[n + 1] = r
      /\ \A k \in 1..n : more[k] = kept[k]
  BY <1>1, <1>8, AppendProperties
<1>10. Blocks(more) = [k \in 1..(n + 1) |-> EpisodeBlock(more[k], k)]
  BY <1>1, <1>9 DEF Blocks
<1>11. Blocks(more) = Append(b, x)
  <2>1. PICK c : c = Append(b, x)
    OBVIOUS
  <2>2. /\ c \in Seq(Seq(AllParts)) /\ Len(c) = n + 1 /\ c[n + 1] = x
        /\ \A k \in 1..n : c[k] = b[k]
    BY <1>5, <1>7, <2>1, AppendProperties
  <2>3. c = [k \in 1..(n + 1) |-> c[k]]
    BY <1>1, <2>2
  <2>4. ASSUME NEW k \in 1..(n + 1)
        PROVE  c[k] = EpisodeBlock(more[k], k)
    <3>1. CASE k = n + 1
      BY <1>6, <1>9, <2>2, <3>1
    <3>2. CASE k \in 1..n
      BY <1>4, <1>9, <2>2, <3>2
    <3> QED
      BY <1>1, <3>1, <3>2
  <2>5. Blocks(more) = c
    BY <1>10, <2>3, <2>4
  <2> QED
    BY <2>1, <2>5
<1>12. FlattenSeq(b) \in Seq(AllParts) /\ FlattenSeq(Append(b, x)) = FlattenSeq(b) \o x
  BY <1>5, <1>7, FlattenMore
<1>13. Body(kept) \in Seq(AllParts) /\ Body(more) = Body(kept) \o x
  BY <1>3, <1>11, <1>12 DEF Body
<1> QED
  BY <1>1, <1>6, <1>8, <1>13

\* No records, no blocks.
LEMMA BodyEmpty == Body(<<>>) = <<>>
<1>1. Blocks(<<>>) = <<>>
  BY DEF Blocks
<1> QED
  BY <1>1 DEF Body, FlattenSeq

\* The blocks are filtered one by one.
LEMMA BodyFilter ==
    \A kept \in Seq(Ids), r \in Ids : \A A :
        Filter(Body(Append(kept, r)), A) =
            Filter(Body(kept), A) \o Filter(EpisodeBlock(r, Len(kept) + 1), A)
<1> SUFFICES ASSUME NEW kept \in Seq(Ids), NEW r \in Ids, NEW A
             PROVE  Filter(Body(Append(kept, r)), A) =
                        Filter(Body(kept), A)
                            \o Filter(EpisodeBlock(r, Len(kept) + 1), A)
  OBVIOUS
<1>1. PICK k \in Nat : k = Len(kept) + 1
  BY LenProperties
<1>2. PICK b, x : b = Body(kept) /\ x = EpisodeBlock(r, k)
  OBVIOUS
<1>3. b \in Seq(AllParts) /\ x \in Seq(AllParts)
  BY <1>1, <1>2, BodyMore, BlockIsText
<1>4. Filter(b \o x, A) = Filter(b, A) \o Filter(x, A)
  BY <1>3, FilterConcat
<1>5. Body(Append(kept, r)) = b \o x
  BY <1>1, <1>2, BodyMore
<1> QED
  BY <1>1, <1>2, <1>4, <1>5

\* One mark of each block, in their order.
Marks(kind, n) == [j \in 1..n |-> Part(kind, j)]

\* The marks of one more episode.
LEMMA MarksMore ==
    \A kind : \A n \in Nat :
        /\ Marks(kind, n) \in Seq({Part(kind, j) : j \in Nat})
        /\ Len(Marks(kind, n)) = n
        /\ Marks(kind, n) \o <<Part(kind, n + 1)>> = Marks(kind, n + 1)
<1> SUFFICES ASSUME NEW kind, NEW n \in Nat
             PROVE  /\ Marks(kind, n) \in Seq({Part(kind, j) : j \in Nat})
                    /\ Len(Marks(kind, n)) = n
                    /\ Marks(kind, n) \o <<Part(kind, n + 1)>> = Marks(kind, n + 1)
  OBVIOUS
<1>1. PICK T : T = {Part(kind, j) : j \in Nat}
  OBVIOUS
<1>2. PICK m : m = Marks(kind, n)
  OBVIOUS
<1>3. PICK x : x = Part(kind, n + 1) /\ x \in T
  BY <1>1
<1>4. m \in [1..n -> T] /\ \A j \in 1..n : m[j] = Part(kind, j)
  BY <1>1, <1>2 DEF Marks
<1>5. m \in Seq(T) /\ Len(m) = n
  BY <1>4
<1>6. PICK l : l = m \o <<x>>
  OBVIOUS
<1>7. l = Append(m, x)
  BY <1>3, <1>5, <1>6, AppendIsConcat
<1>8. /\ l \in Seq(T) /\ Len(l) = n + 1 /\ l[n + 1] = x
      /\ \A j \in 1..n : l[j] = m[j]
  BY <1>3, <1>5, <1>7, AppendProperties
<1>9. \A j \in 1..(n + 1) : l[j] = Part(kind, j)
  BY <1>3, <1>4, <1>8
<1>10. l = [j \in 1..(n + 1) |-> l[j]]
  BY <1>8
<1>11. l = Marks(kind, n + 1)
  BY <1>9, <1>10 DEF Marks
<1> QED
  BY <1>1, <1>2, <1>3, <1>5, <1>6, <1>11

\* No line of these lessons can be taken for this mark.
Unmistakable(kind, R) == R \subseteq Ids /\ \A r \in R : ~Imitates(r, kind)

\* The blocks have each mark once per episode, in the order of their numbers.
LEMMA BodyMarks ==
    \A kind \in Marked : \A R :
        Unmistakable(kind, R) =>
            \A kept \in Seq(R) :
                Filter(Body(kept), Parts({kind})) = Marks(kind, Len(kept))
<1> SUFFICES ASSUME NEW kind \in Marked, NEW R, Unmistakable(kind, R)
             PROVE  \A kept \in Seq(R) :
                        Filter(Body(kept), Parts({kind})) = Marks(kind, Len(kept))
  OBVIOUS
<1> DEFINE Good == {kept \in Seq(R) :
                        Filter(Body(kept), Parts({kind})) = Marks(kind, Len(kept))}
<1>1. <<>> \in Good
  <2>1. Marks(kind, 0) = <<>>
    <3>1. PICK T, m : m = Marks(kind, 0) /\ m \in Seq(T) /\ Len(m) = 0
      BY MarksMore
    <3>2. m = <<>>
      BY <3>1, EmptySeq
    <3> QED
      BY <3>1, <3>2
  <2>2. Filter(Body(<<>>), Parts({kind})) = Marks(kind, Len(<<>>))
    BY <2>1, BodyEmpty, FilterEmpty
  <2> QED
    BY <2>2, EmptySeq
<1>2. ASSUME NEW kept \in Seq(R), NEW r \in R, kept \in Good
      PROVE  Append(kept, r) \in Good
  <2>1. kept \in Seq(Ids) /\ r \in Ids
    BY SeqWider DEF Unmistakable
  <2>2. PICK n \in Nat : n = Len(kept)
    BY LenProperties
  <2>3. Append(kept, r) \in Seq(R) /\ Len(Append(kept, r)) = n + 1
    BY <2>2, AppendProperties
  <2>4. Filter(Body(kept), Parts({kind})) = Marks(kind, n)
    BY <1>2, <2>2
  <2>5. Filter(EpisodeBlock(r, n + 1), Parts({kind})) = <<Part(kind, n + 1)>>
    <3>1. n + 1 \in Nat
      BY <2>2
    <3> QED
      BY <2>1, <3>1, BlockMarks DEF Unmistakable
  <2>6. Filter(Body(Append(kept, r)), Parts({kind})) =
            Marks(kind, n) \o <<Part(kind, n + 1)>>
    BY <2>1, <2>2, <2>4, <2>5, BodyFilter
  <2>7. Filter(Body(Append(kept, r)), Parts({kind})) = Marks(kind, n + 1)
    BY <2>2, <2>6, MarksMore
  <2> QED
    BY <2>3, <2>7
<1> HIDE DEF Good
<1>3. Seq(R) \subseteq Good
  BY <1>1, <1>2, EntryByEntry
<1> QED
  BY <1>3 DEF Good

\* Blocks whose lessons do not imitate it have no part of the frame.
LEMMA BodyHasNoFrame ==
    \A kind \in Framing : \A R :
        Unmistakable(kind, R) =>
            \A kept \in Seq(R) : Filter(Body(kept), Parts({kind})) = <<>>
<1> SUFFICES ASSUME NEW kind \in Framing, NEW R, Unmistakable(kind, R)
             PROVE  \A kept \in Seq(R) : Filter(Body(kept), Parts({kind})) = <<>>
  OBVIOUS
<1> DEFINE Good == {kept \in Seq(R) : Filter(Body(kept), Parts({kind})) = <<>>}
<1>1. <<>> \in Good
  BY BodyEmpty, FilterEmpty, EmptySeq
<1>2. ASSUME NEW kept \in Seq(R), NEW r \in R, kept \in Good
      PROVE  Append(kept, r) \in Good
  <2>1. kept \in Seq(Ids) /\ r \in Ids
    BY SeqWider DEF Unmistakable
  <2>2. PICK k \in Nat : k = Len(kept) + 1
    BY LenProperties
  <2>3. Append(kept, r) \in Seq(R)
    BY AppendProperties
  <2>4. Filter(EpisodeBlock(r, k), Parts({kind})) = <<>>
    BY <2>1, BlockHasNoFrame DEF Unmistakable
  <2>5. Filter(Body(Append(kept, r)), Parts({kind})) = <<>> \o <<>>
    BY <1>2, <2>1, <2>2, <2>4, BodyFilter
  <2> QED
    BY <2>3, <2>5
<1> HIDE DEF Good
<1>3. Seq(R) \subseteq Good
  BY <1>1, <1>2, EntryByEntry
<1> QED
  BY <1>3 DEF Good

\* The blocks have what is due of a mark, and more where a lesson imitates it.
LEMMA BodyCounts ==
    \A kind \in Marked \cup Framing : \A kept \in Seq(Ids) :
        /\ Filter(Body(kept), Parts({kind})) \in Seq(AllParts)
        /\ Len(Filter(Body(kept), Parts({kind}))) >= Due(kind, Len(kept))
        /\ (\E i \in 1..Len(kept) : Imitates(kept[i], kind)) =>
               Len(Filter(Body(kept), Parts({kind}))) > Due(kind, Len(kept))
<1> SUFFICES ASSUME NEW kind \in Marked \cup Framing
             PROVE  \A kept \in Seq(Ids) :
                        /\ Filter(Body(kept), Parts({kind})) \in Seq(AllParts)
                        /\ Len(Filter(Body(kept), Parts({kind}))) >= Due(kind, Len(kept))
                        /\ (\E i \in 1..Len(kept) : Imitates(kept[i], kind)) =>
                               Len(Filter(Body(kept), Parts({kind}))) > Due(kind, Len(kept))
  OBVIOUS
<1> DEFINE Count(kept) == Len(Filter(Body(kept), Parts({kind})))
           Good == {kept \in Seq(Ids) :
                        /\ Filter(Body(kept), Parts({kind})) \in Seq(AllParts)
                        /\ Count(kept) >= Due(kind, Len(kept))
                        /\ (\E i \in 1..Len(kept) : Imitates(kept[i], kind)) =>
                               Count(kept) > Due(kind, Len(kept))}
<1>1. <<>> \in Good
  <2>1. Filter(Body(<<>>), Parts({kind})) = <<>>
    BY BodyEmpty, FilterEmpty
  <2>2. <<>> \in Seq(Ids) /\ <<>> \in Seq(AllParts) /\ Len(<<>>) = 0
    BY EmptySeq
  <2>3. Due(kind, 0) = 0
    BY DEF Due
  <2>4. Count(<<>>) >= Due(kind, Len(<<>>)) /\ 1..Len(<<>>) = {}
    BY <2>1, <2>2, <2>3
  <2> HIDE DEF Count
  <2> QED
    BY <2>1, <2>2, <2>4
<1>2. ASSUME NEW kept \in Seq(Ids), NEW r \in Ids, kept \in Good
      PROVE  Append(kept, r) \in Good
  <2>1. PICK n \in Nat : n = Len(kept)
    BY LenProperties
  <2>2. PICK more : more = Append(kept, r)
    OBVIOUS
  <2>3. /\ more \in Seq(Ids) /\ Len(more) = n + 1 /\ more[n + 1] = r
        /\ \A i \in 1..n : more[i] = kept[i]
    BY <2>1, <2>2, AppendProperties
  <2>4. PICK b, x : /\ b = Filter(Body(kept), Parts({kind}))
                    /\ x = Filter(EpisodeBlock(r, n + 1), Parts({kind}))
    OBVIOUS
  <2>5. /\ b \in Seq(AllParts) /\ Len(b) >= Due(kind, n)
        /\ (\E i \in 1..n : Imitates(kept[i], kind)) => Len(b) > Due(kind, n)
    BY <1>2, <2>1, <2>4
  <2>6. /\ x \in Seq(AllParts) /\ Len(x) >= Due(kind, 1)
        /\ Imitates(r, kind) => Len(x) > Due(kind, 1)
    <3>1. n + 1 \in Nat
      BY <2>1
    <3> QED
      BY <2>4, <3>1, BlockCounts
  <2>7. Filter(Body(more), Parts({kind})) = b \o x
    BY <2>1, <2>2, <2>4, BodyFilter
  <2>8. b \o x \in Seq(AllParts) /\ Len(b \o x) = Len(b) + Len(x)
    BY <2>5, <2>6, ConcatProperties
  <2>9. /\ Due(kind, n + 1) = Due(kind, n) + Due(kind, 1)
        /\ Due(kind, n) \in Nat /\ Due(kind, 1) \in Nat
        /\ Len(b) \in Nat /\ Len(x) \in Nat
    BY <2>1, <2>5, <2>6, LenProperties DEF Due
  <2>10. ASSUME NEW i \in 1..(n + 1), Imitates(more[i], kind)
         PROVE  Len(b \o x) > Due(kind, n + 1)
    <3>1. CASE i = n + 1
      BY <2>3, <2>5, <2>6, <2>8, <2>9, <2>10, <3>1
    <3>2. CASE i \in 1..n
      BY <2>3, <2>5, <2>6, <2>8, <2>9, <2>10, <3>2
    <3> QED
      BY <2>1, <3>1, <3>2
  <2>11. Len(b \o x) >= Due(kind, n + 1)
    BY <2>5, <2>6, <2>8, <2>9
  <2> QED
    BY <2>2, <2>3, <2>7, <2>8, <2>10, <2>11
<1> HIDE DEF Good
<1>3. Seq(Ids) \subseteq Good
  BY <1>1, <1>2, EntryByEntry
<1> QED
  BY <1>3 DEF Good

\* What stands under number k in the blocks is the k-th of them, under 0 nothing.
LEMMA BodyOf ==
    \A k \in Nat : \A kept \in Seq(Ids) :
        Filter(Body(kept), [kind : Kinds, of : {k}]) =
            IF k \in 1..Len(kept) THEN EpisodeBlock(kept[k], k) ELSE <<>>
<1> SUFFICES ASSUME NEW k \in Nat
             PROVE  \A kept \in Seq(Ids) :
                        Filter(Body(kept), [kind : Kinds, of : {k}]) =
                            IF k \in 1..Len(kept) THEN EpisodeBlock(kept[k], k) ELSE <<>>
  OBVIOUS
<1>1. PICK A : A = [kind : Kinds, of : {k}]
  OBVIOUS
<1> DEFINE Good == {kept \in Seq(Ids) :
                        Filter(Body(kept), A) =
                            IF k \in 1..Len(kept) THEN EpisodeBlock(kept[k], k) ELSE <<>>}
<1>2. <<>> \in Good
  BY BodyEmpty, FilterEmpty, EmptySeq
<1>3. ASSUME NEW kept \in Seq(Ids), NEW r \in Ids, kept \in Good
      PROVE  Append(kept, r) \in Good
  <2>1. PICK n \in Nat : n = Len(kept)
    BY LenProperties
  <2>2. PICK more : more = Append(kept, r)
    OBVIOUS
  <2>3. /\ more \in Seq(Ids) /\ Len(more) = n + 1 /\ more[n + 1] = r
        /\ \A i \in 1..n : more[i] = kept[i]
    BY <2>1, <2>2, AppendProperties
  <2>4. PICK m \in Nat : m = n + 1
    BY <2>1
  <2>5. Filter(EpisodeBlock(r, m), A) = IF k = m THEN EpisodeBlock(r, m) ELSE <<>>
    BY <1>1, BlockIsOwn
  <2>6. Filter(Body(more), A) = Filter(Body(kept), A) \o Filter(EpisodeBlock(r, m), A)
    BY <2>1, <2>2, <2>4, BodyFilter
  <2>7. Filter(Body(kept), A) = IF k \in 1..n THEN EpisodeBlock(kept[k], k) ELSE <<>>
    BY <1>3, <2>1
  <2>8. Filter(Body(more), A) = IF k \in 1..m THEN EpisodeBlock(more[k], k) ELSE <<>>
    <3>1. CASE k \in 1..n
      <4>1. PICK x : x = EpisodeBlock(kept[k], k) /\ x \in Seq(AllParts)
        <5>1. kept[k] \in Ids
          BY <2>1, <3>1, ElementOfSeq
        <5> QED
          BY <5>1, BlockIsText
      <4>2. k # m /\ k \in 1..m /\ more[k] = kept[k]
        BY <2>1, <2>3, <2>4, <3>1
      <4>3. x \o <<>> = x
        BY <4>1, ConcatEmptySeq
      <4>4. Filter(Body(more), A) = x \o <<>>
        BY <2>5, <2>6, <2>7, <3>1, <4>1, <4>2
      <4> QED
        BY <4>1, <4>2, <4>3, <4>4
    <3>2. CASE k = m
      <4>1. PICK x : x = EpisodeBlock(r, m) /\ x \in Seq(AllParts)
        BY BlockIsText
      <4>2. k \notin 1..n /\ k \in 1..m /\ more[k] = r
        BY <2>1, <2>3, <2>4, <3>2
      <4>3. <<>> \o x = x
        BY <4>1, ConcatEmptySeq
      <4>4. Filter(Body(more), A) = <<>> \o x
        BY <2>5, <2>6, <2>7, <3>2, <4>1, <4>2
      <4> QED
        BY <3>2, <4>1, <4>2, <4>3, <4>4
    <3>3. CASE k = 0 \/ k > m
      <4>1. k \notin 1..n /\ k \notin 1..m /\ k # m
        BY <2>1, <2>4, <3>3
      <4>2. Filter(Body(more), A) = <<>> \o <<>>
        BY <2>5, <2>6, <2>7, <4>1
      <4> QED
        BY <4>1, <4>2
    <3> QED
      BY <2>1, <2>4, <3>1, <3>2, <3>3
  <2>9. more \in Good
    BY <2>3, <2>4, <2>8
  <2> QED
    BY <2>2, <2>9
<1> HIDE DEF Good
<1>4. Seq(Ids) \subseteq Good
  BY <1>2, <1>3, EntryByEntry
<1> QED
  BY <1>1, <1>4 DEF Good

-----------------------------------------------------------------------------
(* The text as a whole.                                                     *)

\* The blocks are made of the parts of a text.
LEMMA BodyType == \A kept \in Seq(Ids) : Body(kept) \in Seq(AllParts)
<1>1. CASE Ids = {}
  BY <1>1, BodyEmpty, EmptySeq
<1>2. CASE Ids # {}
  BY <1>2, BodyMore
<1> QED
  BY <1>1, <1>2

\* The selection from each of the three pieces of the text.
Piecewise(kept, A) ==
    (Filter(<<Part("image clause", 0), Part("lesson clause", 0)>>, A)
        \o Filter(Body(kept), A))
        \o Filter(<<Part("tail lessons", 0)>>, A)

\* A text is filtered by its pieces: frame, blocks, tail.
LEMMA TextFilter ==
    \A kept \in Seq(Ids) :
        /\ Text(kept) \in Seq(AllParts)
        /\ \A A : Filter(Text(kept), A) = Piecewise(kept, A)
<1> SUFFICES ASSUME NEW kept \in Seq(Ids)
             PROVE  /\ Text(kept) \in Seq(AllParts)
                    /\ \A A : Filter(Text(kept), A) = Piecewise(kept, A)
  OBVIOUS
<1>1. PICK p, q, l : /\ p = Part("image clause", 0) /\ q = Part("lesson clause", 0)
                     /\ l = Part("tail lessons", 0)
  OBVIOUS
<1>2. p \in AllParts /\ q \in AllParts /\ l \in AllParts
  BY <1>1 DEF Part, AllParts, Parts, Kinds, LessonKinds
<1>3. PICK T : T = AllParts
  OBVIOUS
<1>4. <<p, q>> \in Seq(T) /\ <<l>> \in Seq(T)
  <2>1. p \in T /\ q \in T /\ l \in T
    BY <1>2, <1>3
  <2> QED
    BY <2>1
<1>5. PICK front, tail : front = <<p, q>> /\ tail = <<l>>
  OBVIOUS
<1>6. front \in Seq(T) /\ tail \in Seq(T)
  BY <1>4, <1>5
<1>7. PICK b : b = Body(kept) /\ b \in Seq(T)
  BY <1>3, BodyType
<1>8. Text(kept) = (front \o b) \o tail
  BY <1>1, <1>5, <1>7 DEF Text, Body, Blocks
<1>9. front \o b \in Seq(T) /\ (front \o b) \o tail \in Seq(T)
  BY <1>6, <1>7, ConcatProperties
<1>10. ASSUME NEW A
       PROVE  Filter(Text(kept), A) = Piecewise(kept, A)
  <2>1. PICK fb : fb = front \o b /\ fb \in Seq(T)
    BY <1>9
  <2>2. Filter(fb \o tail, A) = Filter(fb, A) \o Filter(tail, A)
    BY <1>6, <2>1, FilterConcat
  <2>3. Filter(front \o b, A) = Filter(front, A) \o Filter(b, A)
    BY <1>6, <1>7, FilterConcat
  <2>4. Filter(Text(kept), A) = (Filter(front, A) \o Filter(b, A)) \o Filter(tail, A)
    BY <1>8, <2>1, <2>2, <2>3
  <2> QED
    BY <1>1, <1>5, <1>7, <2>4 DEF Piecewise
<1> QED
  BY <1>3, <1>8, <1>9, <1>10

\* A filter that takes nothing of the frame sees the blocks only.
LEMMA FrameFilter ==
    \A A :
        {Part("image clause", 0), Part("lesson clause", 0), Part("tail lessons", 0)}
            \cap A = {}
        => \A kept \in Seq(Ids) : Filter(Text(kept), A) = Filter(Body(kept), A)
<1> SUFFICES ASSUME NEW A,
                    {Part("image clause", 0), Part("lesson clause", 0),
                     Part("tail lessons", 0)} \cap A = {},
                    NEW kept \in Seq(Ids)
             PROVE  Filter(Text(kept), A) = Filter(Body(kept), A)
  OBVIOUS
<1>1. PICK p, q, l : /\ p = Part("image clause", 0) /\ q = Part("lesson clause", 0)
                     /\ l = Part("tail lessons", 0)
  OBVIOUS
<1>7. p \notin A /\ q \notin A /\ l \notin A
  BY <1>1
<1>2. Filter(<<p>>, A) = <<>> /\ Filter(<<l>>, A) = <<>>
  BY <1>7, FilterOne
<1>3. Filter(<<p, q>>, A) = <<>>
  <2>1. Filter(<<p, q>>, A) = IF q \in A THEN Append(Filter(<<p>>, A), q)
                              ELSE Filter(<<p>>, A)
    BY FilterTwo
  <2>2. q \notin A
    BY <1>7
  <2> QED
    BY <1>2, <2>1, <2>2
<1>4. PICK f, T : f = Filter(Body(kept), A) /\ f \in Seq(T)
  BY BodyType, FilterType
<1>5. (<<>> \o f) \o <<>> = f
  BY <1>4, ConcatEmptySeq
<1>6. Filter(Text(kept), A) = (<<>> \o f) \o <<>>
  BY <1>1, <1>2, <1>3, <1>4, TextFilter DEF Piecewise
<1> QED
  BY <1>4, <1>5, <1>6

\* The text has each mark once per episode, in the order of their numbers.
LEMMA TextMarks ==
    \A kind \in Marked : \A R :
        Unmistakable(kind, R) =>
            \A kept \in Seq(R) :
                Filter(Text(kept), Parts({kind})) = Marks(kind, Len(kept))
<1> SUFFICES ASSUME NEW kind \in Marked, NEW R, Unmistakable(kind, R),
                    NEW kept \in Seq(R)
             PROVE  Filter(Text(kept), Parts({kind})) = Marks(kind, Len(kept))
  OBVIOUS
<1>1. /\ Part("image clause", 0) \notin Parts({kind})
      /\ Part("lesson clause", 0) \notin Parts({kind})
      /\ Part("tail lessons", 0) \notin Parts({kind})
  BY DEF Part, Parts, Marked
<1>2. kept \in Seq(Ids)
  BY SeqWider DEF Unmistakable
<1>3. Filter(Text(kept), Parts({kind})) = Filter(Body(kept), Parts({kind}))
  BY <1>1, <1>2, FrameFilter
<1> QED
  BY <1>3, BodyMarks

\* What stands under number k in the text is the k-th block.
LEMMA TextOf ==
    \A kept \in Seq(Ids) : \A k \in 1..Len(kept) :
        Filter(Text(kept), [kind : Kinds, of : {k}]) = EpisodeBlock(kept[k], k)
<1> SUFFICES ASSUME NEW kept \in Seq(Ids), NEW k \in 1..Len(kept)
             PROVE  Filter(Text(kept), [kind : Kinds, of : {k}]) =
                        EpisodeBlock(kept[k], k)
  OBVIOUS
<1>0. k \in Nat /\ k # 0
  BY LenProperties
<1>1. PICK A : A = [kind : Kinds, of : {k}]
  OBVIOUS
<1>2. /\ Part("image clause", 0) \notin A
      /\ Part("lesson clause", 0) \notin A
      /\ Part("tail lessons", 0) \notin A
  BY <1>0, <1>1 DEF Part
<1>3. Filter(Text(kept), A) = Filter(Body(kept), A)
  BY <1>2, FrameFilter
<1> QED
  BY <1>0, <1>1, <1>3, BodyOf

\* Each part of the frame is in the text once.
LEMMA TextFrame ==
    \A kind \in Framing : \A R :
        Unmistakable(kind, R) =>
            \A kept \in Seq(R) : Filter(Text(kept), Parts({kind})) = <<Part(kind, 0)>>
<1> SUFFICES ASSUME NEW kind \in Framing, NEW R, Unmistakable(kind, R), NEW kept \in Seq(R)
             PROVE  Filter(Text(kept), Parts({kind})) = <<Part(kind, 0)>>
  OBVIOUS
<1>1. PICK p, q, l : /\ p = Part("image clause", 0) /\ q = Part("lesson clause", 0)
                     /\ l = Part("tail lessons", 0)
  OBVIOUS
<1>2. PICK A : A = Parts({kind})
  OBVIOUS
<1>3. /\ p \in A <=> kind = "image clause"
      /\ q \in A <=> kind = "lesson clause"
      /\ l \in A <=> kind = "tail lessons"
  BY <1>1, <1>2 DEF Part, Parts
<1>4. kept \in Seq(Ids)
  BY SeqWider DEF Unmistakable
<1>5. Filter(Body(kept), A) = <<>>
  BY <1>2, BodyHasNoFrame
<1>6. Filter(Text(kept), A) = (Filter(<<p, q>>, A) \o <<>>) \o Filter(<<l>>, A)
  BY <1>1, <1>4, <1>5, TextFilter DEF Piecewise
<1>7. Filter(<<p>>, A) = IF p \in A THEN <<p>> ELSE <<>>
  BY FilterOne
<1>8. Filter(<<p, q>>, A) = IF q \in A THEN Append(Filter(<<p>>, A), q) ELSE Filter(<<p>>, A)
  BY FilterTwo
<1>9. Filter(<<l>>, A) = IF l \in A THEN <<l>> ELSE <<>>
  BY FilterOne
<1>10. \A x : <<x>> \o <<>> = <<x>> /\ <<>> \o <<x>> = <<x>> /\ Append(<<>>, x) = <<x>>
  BY Short
<1>11. CASE kind = "image clause"
  <2>1. Filter(Text(kept), A) = (<<p>> \o <<>>) \o <<>>
    BY <1>3, <1>6, <1>7, <1>8, <1>9, <1>11
  <2> QED
    BY <1>1, <1>2, <1>10, <1>11, <2>1
<1>12. CASE kind = "lesson clause"
  <2>1. Filter(Text(kept), A) = (Append(<<>>, q) \o <<>>) \o <<>>
    BY <1>3, <1>6, <1>7, <1>8, <1>9, <1>12
  <2> QED
    BY <1>1, <1>2, <1>10, <1>12, <2>1
<1>13. CASE kind = "tail lessons"
  <2>1. Filter(Text(kept), A) = (<<>> \o <<>>) \o <<l>>
    BY <1>3, <1>6, <1>7, <1>8, <1>9, <1>13
  <2>2. <<>> \o <<>> = <<>>
    BY EmptySeq, ConcatEmptySeq
  <2> QED
    BY <1>1, <1>2, <1>10, <1>13, <2>1, <2>2
<1> QED
  BY <1>11, <1>12, <1>13 DEF Framing

\* A text has what is due of a mark, and of the frame one, and more where a lesson
\* imitates it.
LEMMA TextCounts ==
    \A kept \in Seq(Ids) :
        /\ \A kind \in Marked :
              (\E i \in 1..Len(kept) : Imitates(kept[i], kind)) =>
                  Len(Filter(Text(kept), Parts({kind}))) > Len(kept)
        /\ \A kind \in Framing :
              (\E i \in 1..Len(kept) : Imitates(kept[i], kind)) =>
                  Len(Filter(Text(kept), Parts({kind}))) > 1
<1> SUFFICES ASSUME NEW kept \in Seq(Ids), NEW kind \in Marked \cup Framing,
                    \E i \in 1..Len(kept) : Imitates(kept[i], kind)
             PROVE  /\ kind \in Marked =>
                           Len(Filter(Text(kept), Parts({kind}))) > Len(kept)
                    /\ kind \in Framing =>
                           Len(Filter(Text(kept), Parts({kind}))) > 1
  BY DEF Marked, Framing
<1>1. PICK A : A = Parts({kind})
  OBVIOUS
<1>2. PICK b : b = Filter(Body(kept), A)
  OBVIOUS
<1>3. b \in Seq(AllParts) /\ Len(b) \in Nat /\ Len(b) > Due(kind, Len(kept))
  BY <1>1, <1>2, BodyCounts, LenProperties
<1>4. PICK p, q, l : /\ p = Part("image clause", 0) /\ q = Part("lesson clause", 0)
                     /\ l = Part("tail lessons", 0)
  OBVIOUS
<1>5. /\ p \in A <=> kind = "image clause"
      /\ q \in A <=> kind = "lesson clause"
      /\ l \in A <=> kind = "tail lessons"
  BY <1>1, <1>4 DEF Part, Parts
<1>6. CASE kind \in Marked
  <2>1. p \notin A /\ q \notin A /\ l \notin A
    BY <1>5, <1>6 DEF Marked
  <2>2. Filter(Text(kept), A) = b
    BY <1>2, <1>4, <2>1, FrameFilter
  <2>3. kind \notin Framing
    BY <1>6 DEF Marked, Framing
  <2> QED
    BY <1>1, <1>3, <1>6, <2>2, <2>3 DEF Due
<1>7. CASE kind \in Framing
  <2>1. PICK f, g : f = Filter(<<p, q>>, A) /\ g = Filter(<<l>>, A)
    OBVIOUS
  <2>2. PICK T : T = {p, q, l} \cup AllParts
    OBVIOUS
  <2>3. <<p, q>> \in Seq(T) /\ <<l>> \in Seq(T)
    <3>1. p \in T /\ q \in T /\ l \in T
      BY <2>2
    <3> QED
      BY <3>1
  <2>4. f \in Seq(T) /\ g \in Seq(T) /\ b \in Seq(T)
    <3>1. f \in Seq(T \cap A) /\ g \in Seq(T \cap A)
      BY <2>1, <2>3, FilterType
    <3>2. Seq(T \cap A) \subseteq Seq(T) /\ Seq(AllParts) \subseteq Seq(T)
      BY <2>2, SeqWider
    <3> QED
      BY <1>3, <3>1, <3>2
  <2>5. Len(f) + Len(g) >= 1 /\ Len(f) \in Nat /\ Len(g) \in Nat
    <3>1. Filter(<<p>>, A) = IF p \in A THEN <<p>> ELSE <<>>
      BY FilterOne
    <3>2. f = IF q \in A THEN Append(Filter(<<p>>, A), q) ELSE Filter(<<p>>, A)
      BY <2>1, FilterTwo
    <3>3. g = IF l \in A THEN <<l>> ELSE <<>>
      BY <2>1, FilterOne
    <3>4. /\ Len(<<p>>) = 1 /\ Len(<<l>>) = 1 /\ Len(<<>>) = 0
          /\ Len(Append(<<>>, q)) = 1
      OBVIOUS
    <3>5. Len(f) \in Nat /\ Len(g) \in Nat
      BY <2>4, LenProperties
    <3>6. CASE kind = "image clause"
      <4>1. f = <<p>>
        BY <1>5, <3>1, <3>2, <3>6
      <4> QED
        BY <3>4, <3>5, <4>1
    <3>7. CASE kind = "lesson clause"
      <4>1. f = Append(<<>>, q)
        BY <1>5, <3>1, <3>2, <3>7
      <4> QED
        BY <3>4, <3>5, <4>1
    <3>8. CASE kind = "tail lessons"
      <4>1. g = <<l>>
        BY <1>5, <3>3, <3>8
      <4> QED
        BY <3>4, <3>5, <4>1
    <3> QED
      BY <1>7, <3>6, <3>7, <3>8 DEF Framing
  <2>6. Filter(Text(kept), A) = (f \o b) \o g
    BY <1>2, <1>4, <2>1, TextFilter DEF Piecewise
  <2>7. f \o b \in Seq(T) /\ Len(f \o b) = Len(f) + Len(b)
    BY <2>4, ConcatProperties
  <2>8. Len((f \o b) \o g) = Len(f \o b) + Len(g)
    BY <2>4, <2>7, ConcatProperties
  <2>9. kind \notin Marked
    BY <1>7 DEF Marked, Framing
  <2>10. Len(b) > 0
    BY <1>3, <2>9 DEF Due
  <2> QED
    BY <1>1, <1>3, <2>5, <2>6, <2>7, <2>8, <2>9, <2>10
<1> QED
  BY <1>6, <1>7

\* What stands outside of the episodes is the frame.
LEMMA TextOutside ==
    \A kept \in Seq(Ids) :
        Filter(Text(kept), [kind : Kinds, of : {0}]) =
            <<Part("image clause", 0), Part("lesson clause", 0), Part("tail lessons", 0)>>
<1> SUFFICES ASSUME NEW kept \in Seq(Ids)
             PROVE  Filter(Text(kept), [kind : Kinds, of : {0}]) =
                        <<Part("image clause", 0), Part("lesson clause", 0),
                          Part("tail lessons", 0)>>
  OBVIOUS
<1>1. PICK p, q, l : /\ p = Part("image clause", 0) /\ q = Part("lesson clause", 0)
                     /\ l = Part("tail lessons", 0)
  OBVIOUS
<1>2. PICK A : A = [kind : Kinds, of : {0}]
  OBVIOUS
<1>3. p \in A /\ q \in A /\ l \in A
  BY <1>1, <1>2 DEF Part, Kinds, LessonKinds
<1>4. Filter(Body(kept), A) = <<>>
  BY <1>2, BodyOf
<1>5. Filter(Text(kept), A) = (Filter(<<p, q>>, A) \o <<>>) \o Filter(<<l>>, A)
  BY <1>1, <1>4, TextFilter DEF Piecewise
<1>6. Filter(<<p>>, A) = <<p>> /\ Filter(<<l>>, A) = <<l>>
  BY <1>3, FilterOne
<1>7. Filter(<<p, q>>, A) = Append(<<p>>, q)
  BY <1>3, <1>6, FilterTwo
<1>8. (Append(<<p>>, q) \o <<>>) \o <<l>> = <<p, q, l>>
  <2>1. Append(<<p>>, q) = <<p, q>>
    BY Short
  <2>2. <<p, q>> \o <<>> = <<p, q>>
    OBVIOUS
  <2>3. <<p, q>> \o <<l>> = <<p, q, l>>
    <3>1. PICK T : p \in T /\ q \in T /\ l \in T
      <4>1. p \in A /\ q \in A /\ l \in A
        BY <1>3
      <4> QED
        BY <4>1
    <3>2. PICK x : x = <<p, q>>
      OBVIOUS
    <3>3. x \in Seq(T)
      BY <3>1, <3>2
    <3>4. <<p, q, l>> = Append(x, l)
      BY <3>2
    <3> HIDE <3>2
    <3>5. x \o <<l>> = Append(x, l)
      BY <3>1, <3>3, AppendIsConcat
    <3> QED
      BY <3>2, <3>4, <3>5
  <2> QED
    BY <2>1, <2>2, <2>3
<1> QED
  BY <1>1, <1>2, <1>5, <1>6, <1>7, <1>8

-----------------------------------------------------------------------------
(* The ablation of a preamble about some records.                           *)

Pre(kept) == [records |-> kept, images |-> kept, text |-> Text(kept)]

\* Two filters of a text are one.
LEMMA TextTwice ==
    \A kept \in Seq(Ids) : \A A, B :
        Filter(Filter(Text(kept), A), B) = Filter(Text(kept), A \cap B)
  BY TextFilter, FilterTwice

\* Only the parts of a text matter to a filter of it.
LEMMA TextSame ==
    \A kept \in Seq(Ids) : \A A, B :
        AllParts \cap A = AllParts \cap B => Filter(Text(kept), A) = Filter(Text(kept), B)
  BY TextFilter, FilterSame

\* A mark counts the records, and a clause is there once, if and only if no lesson
\* imitates it.
LEMMA Recognised ==
    \A kept \in Seq(Ids) :
        /\ \A kind \in Marked :
              /\ ~Imitated(Pre(kept), {kind}) =>
                     Filter(Text(kept), Parts({kind})) = Marks(kind, Len(kept))
              /\ Occurrences(kind, Text(kept)) = Len(kept) <=> ~Imitated(Pre(kept), {kind})
        /\ \A kind \in Framing :
              Occurrences(kind, Text(kept)) = 1 <=> ~Imitated(Pre(kept), {kind})
<1> SUFFICES ASSUME NEW kept \in Seq(Ids), NEW kind \in Marked \cup Framing
             PROVE  /\ kind \in Marked =>
                          /\ ~Imitated(Pre(kept), {kind}) =>
                                 Filter(Text(kept), Parts({kind})) = Marks(kind, Len(kept))
                          /\ Occurrences(kind, Text(kept)) = Len(kept)
                                 <=> ~Imitated(Pre(kept), {kind})
                    /\ kind \in Framing =>
                          (Occurrences(kind, Text(kept)) = 1
                               <=> ~Imitated(Pre(kept), {kind}))
  OBVIOUS
<1>1. PICK n \in Nat : n = Len(kept) /\ DOMAIN kept = 1..n
  BY LenProperties
<1>2. Imitated(Pre(kept), {kind}) <=> \E i \in 1..n : Imitates(kept[i], kind)
  <2>1. Pre(kept).records = kept
    BY DEF Pre
  <2>2. ToSet(kept) = {kept[i] : i \in 1..n}
    BY <1>1 DEF ToSet
  <2> QED
    BY <2>1, <2>2 DEF Imitated, Imitates
<1>3. CASE Imitated(Pre(kept), {kind})
  <2>1. /\ kind \in Marked => Occurrences(kind, Text(kept)) > n
        /\ kind \in Framing => Occurrences(kind, Text(kept)) > 1
    BY <1>1, <1>2, <1>3, TextCounts DEF Occurrences
  <2> QED
    BY <1>1, <1>3, <2>1
<1>4. CASE ~Imitated(Pre(kept), {kind})
  <2> DEFINE R == {r \in Ids : ~Imitates(r, kind)}
  <2>1. Unmistakable(kind, R)
    BY DEF Unmistakable
  <2>2. kept \in Seq(R)
    <3>1. \A k \in 1..n : kept[k] \in R
      BY <1>1, <1>2, <1>4, ElementOfSeq
    <3>2. kept \in [1..n -> Ids]
      BY <1>1
    <3> HIDE DEF R
    <3>3. kept \in [1..n -> R]
      BY <3>1, <3>2
    <3> QED
      BY <3>3
  <2> HIDE DEF R
  <2>3. CASE kind \in Marked
    <3>1. Filter(Text(kept), Parts({kind})) = Marks(kind, n)
      BY <1>1, <2>1, <2>2, <2>3, TextMarks
    <3>2. Len(Marks(kind, n)) = n
      BY MarksMore
    <3>3. kind \notin Framing
      BY <2>3 DEF Marked, Framing
    <3> QED
      BY <1>1, <1>4, <3>1, <3>2, <3>3 DEF Occurrences
  <2>4. CASE kind \in Framing
    <3>1. Filter(Text(kept), Parts({kind})) = <<Part(kind, 0)>>
      BY <2>1, <2>2, <2>4, TextFrame
    <3>2. Len(<<Part(kind, 0)>>) = 1
      OBVIOUS
    <3>3. kind \notin Marked
      BY <2>4 DEF Marked, Framing
    <3> QED
      BY <1>4, <3>1, <3>2, <3>3 DEF Occurrences
  <2> QED
    BY <2>3, <2>4
<1> QED
  BY <1>3, <1>4

\* What each mode leaves of the frame, before it adds its own tail.
FrameLeft(mode) ==
    IF mode = "text_only" THEN <<Part("lesson clause", 0), Part("tail lessons", 0)>>
    ELSE <<Part("image clause", 0)>>

\* What is left under each number.
LEMMA TextLeft ==
    \A kept \in Seq(Ids), mode \in Modes :
        /\ Filter(Filter(Text(kept), Spared(mode)), [kind : Kinds, of : {0}]) =
               FrameLeft(mode)
        /\ ~Imitated(Pre(kept), LooksFor(mode)) =>
               \A k \in 1..Len(kept) :
                  Filter(Filter(Text(kept), Spared(mode)), [kind : Kinds, of : {k}]) =
                      HeadingLeft(mode, k) \o LaterLines(kept[k], k)
<1> SUFFICES ASSUME NEW kept \in Seq(Ids), NEW mode \in Modes
             PROVE  /\ Filter(Filter(Text(kept), Spared(mode)), [kind : Kinds, of : {0}]) =
                           FrameLeft(mode)
                    /\ ~Imitated(Pre(kept), LooksFor(mode)) =>
                           \A k \in 1..Len(kept) :
                              Filter(Filter(Text(kept), Spared(mode)),
                                     [kind : Kinds, of : {k}]) =
                                  HeadingLeft(mode, k) \o LaterLines(kept[k], k)
  OBVIOUS
<1>1. PICK S : S = Spared(mode)
  OBVIOUS
<1>2. \A C : Filter(Filter(Text(kept), S), C) = Filter(Filter(Text(kept), C), S)
  <2>1. ASSUME NEW C
        PROVE  Filter(Filter(Text(kept), S), C) = Filter(Filter(Text(kept), C), S)
    <3>1. /\ Filter(Filter(Text(kept), S), C) = Filter(Text(kept), S \cap C)
          /\ Filter(Filter(Text(kept), C), S) = Filter(Text(kept), C \cap S)
      BY TextTwice
    <3>2. S \cap C = C \cap S
      OBVIOUS
    <3> QED
      BY <3>1, <3>2
  <2> QED
    BY <2>1
<1>3. PICK p, q, l : /\ p = Part("image clause", 0) /\ q = Part("lesson clause", 0)
                     /\ l = Part("tail lessons", 0)
  OBVIOUS
<1>4. Filter(<<p, q, l>>, S) = FrameLeft(mode)
  <2>1. /\ p \in S <=> mode # "text_only"
        /\ q \in S <=> mode = "text_only"
        /\ l \in S <=> mode = "text_only"
    BY <1>1, <1>3 DEF Part, Parts, Spared, Kinds, LessonKinds, LooksFor
  <2>2. /\ Filter(<<p>>, S) = IF p \in S THEN <<p>> ELSE <<>>
        /\ Filter(<<p, q>>, S) =
               IF q \in S THEN Append(Filter(<<p>>, S), q) ELSE Filter(<<p>>, S)
        /\ Filter(<<p, q, l>>, S) =
               IF l \in S THEN Append(Filter(<<p, q>>, S), l) ELSE Filter(<<p, q>>, S)
    BY FilterOne, FilterTwo, FilterThree
  <2>3. Append(<<>>, q) = <<q>> /\ Append(<<q>>, l) = <<q, l>>
    <3>1. Append(<<>>, q) = <<q>>
      OBVIOUS
    <3> QED
      BY <3>1, Short
  <2>4. CASE mode = "text_only"
    BY <1>3, <2>1, <2>2, <2>3, <2>4 DEF FrameLeft
  <2>5. CASE mode # "text_only"
    BY <1>3, <2>1, <2>2, <2>5 DEF FrameLeft
  <2> QED
    BY <2>4, <2>5
<1>5. Filter(Filter(Text(kept), S), [kind : Kinds, of : {0}]) = FrameLeft(mode)
  <2>1. Filter(Text(kept), [kind : Kinds, of : {0}]) = <<p, q, l>>
    BY <1>3, TextOutside
  <2> QED
    BY <1>2, <1>4, <2>1
<1>6. ASSUME ~Imitated(Pre(kept), LooksFor(mode)), NEW k \in 1..Len(kept)
      PROVE  Filter(Filter(Text(kept), S), [kind : Kinds, of : {k}]) =
                 HeadingLeft(mode, k) \o LaterLines(kept[k], k)
  <2>1. Filter(Text(kept), [kind : Kinds, of : {k}]) = EpisodeBlock(kept[k], k)
    BY TextOf
  <2>2. kept[k] \in Ids /\ kept[k] \in ToSet(kept) /\ k \in Nat
    BY LenProperties, ElementOfSeq DEF ToSet
  <2>3. ToSet(LessonOf[kept[k]]) \cap LooksFor(mode) = {}
    BY <1>6, <2>2 DEF Imitated, Pre
  <2>4. Filter(EpisodeBlock(kept[k], k), S) = HeadingLeft(mode, k) \o LaterLines(kept[k], k)
    BY <1>1, <2>2, <2>3, BlockSpared
  <2> QED
    BY <1>2, <2>1, <2>4
<1> QED
  BY <1>1, <1>5, <1>6

\* Two selections in a row, and what they amount to on a text.
LEMMA TextTaken ==
    \A kept \in Seq(Ids) : \A A, B, S :
        AllParts \cap (A \cap B) = AllParts \cap S =>
            Filter(Filter(Text(kept), A), B) = Filter(Text(kept), S)
<1> SUFFICES ASSUME NEW kept \in Seq(Ids), NEW A, NEW B, NEW S,
                    AllParts \cap (A \cap B) = AllParts \cap S
             PROVE  Filter(Filter(Text(kept), A), B) = Filter(Text(kept), S)
  OBVIOUS
<1>1. Filter(Filter(Text(kept), A), B) = Filter(Text(kept), A \cap B)
  BY TextTwice
<1>2. Filter(Text(kept), A \cap B) = Filter(Text(kept), S)
  BY TextSame
<1> QED
  BY <1>1, <1>2

\* Several kinds are imitated where one of them is.
LEMMA ImitatedParts ==
    \A pre : \A K, L : Imitated(pre, K \cup L) <=> Imitated(pre, K) \/ Imitated(pre, L)
  BY DEF Imitated

\* What text_only returns.
LEMMA TextOnlyIs ==
    \A kept \in Seq(Ids) : kept # <<>> =>
        Ablate(Pre(kept), "text_only") =
            IF Imitated(Pre(kept), LooksFor("text_only")) THEN Raised
            ELSE [status |-> "given", text |-> Filter(Text(kept), Spared("text_only")),
                  images |-> <<>>]
<1> SUFFICES ASSUME NEW kept \in Seq(Ids), kept # <<>>
             PROVE  Ablate(Pre(kept), "text_only") =
                        IF Imitated(Pre(kept), LooksFor("text_only")) THEN Raised
                        ELSE [status |-> "given",
                              text |-> Filter(Text(kept), Spared("text_only")),
                              images |-> <<>>]
  OBVIOUS
<1>1. PICK t : t = Text(kept)
  OBVIOUS
<1>2. PICK A : A = Parts(Kinds \ {"image line"})
  OBVIOUS
<1>3. PICK B : B = Parts(Kinds \ {"image clause"})
  OBVIOUS
<1>4. Ablate(Pre(kept), "text_only") =
          IF \/ Occurrences("image line", t) # Len(kept)
             \/ Occurrences("image clause", Filter(t, A)) # 1
          THEN Raised
          ELSE [status |-> "given", text |-> Filter(Filter(t, A), B), images |-> <<>>]
  BY <1>1, <1>2, <1>3 DEF Ablate, TextOnly, Pre, Without
<1>5. Filter(Filter(t, A), B) = Filter(t, Spared("text_only"))
  <2>1. AllParts \cap (A \cap B) = AllParts \cap Spared("text_only")
    BY <1>2, <1>3 DEF AllParts, Parts, Spared, LooksFor
  <2> QED
    BY <1>1, <2>1, TextTaken
<1>6. Occurrences("image clause", Filter(t, A)) = Occurrences("image clause", t)
  <2>1. PICK C : C = Parts({"image clause"})
    OBVIOUS
  <2>2. AllParts \cap (A \cap C) = AllParts \cap C
    BY <1>2, <2>1 DEF AllParts, Parts, Kinds, LessonKinds
  <2>3. Filter(Filter(Text(kept), A), C) = Filter(Text(kept), C)
    BY <2>2, TextTaken
  <2> QED
    BY <1>1, <2>1, <2>3 DEF Occurrences
<1>7. Imitated(Pre(kept), LooksFor("text_only")) <=>
          \/ Occurrences("image line", t) # Len(kept)
          \/ Occurrences("image clause", t) # 1
  <2>1. LooksFor("text_only") = {"image line"} \cup {"image clause"}
    BY DEF LooksFor
  <2>2. "image line" \in Marked /\ "image clause" \in Framing
    BY DEF Marked, Framing
  <2> QED
    BY <1>1, <2>1, <2>2, ImitatedParts, Recognised
<1> QED
  BY <1>1, <1>4, <1>5, <1>6, <1>7

\* Without images: the lessons are whole, no image is announced and all the rest
\* stays, unless a lesson imitates what is looked for.
LEMMA TextOnlyIsExact ==
    \A kept \in Seq(Ids) : kept # <<>> => TakesAwayOne(Pre(kept), "text_only")
<1> SUFFICES ASSUME NEW kept \in Seq(Ids), kept # <<>>
             PROVE  TakesAwayOne(Pre(kept), "text_only")
  OBVIOUS
<1>1. PICK n \in Nat : n = Len(kept)
  BY LenProperties
<1>2. PICK w : w = Filter(Text(kept), Spared("text_only"))
  OBVIOUS
<1>3. PICK out : out = Ablate(Pre(kept), "text_only")
  OBVIOUS
<1>4. out = IF Imitated(Pre(kept), LooksFor("text_only")) THEN Raised
            ELSE [status |-> "given", text |-> w, images |-> <<>>]
  BY <1>2, <1>3, TextOnlyIs
<1>5. /\ out.status = "raised" <=> Imitated(Pre(kept), LooksFor("text_only"))
      /\ out.status = "given" =>
             /\ ~Imitated(Pre(kept), LooksFor("text_only"))
             /\ out.text = w /\ out.images = <<>>
  <2>1. CASE Imitated(Pre(kept), LooksFor("text_only"))
    BY <1>4, <2>1 DEF Raised
  <2>2. CASE ~Imitated(Pre(kept), LooksFor("text_only"))
    <3>1. out = [status |-> "given", text |-> w, images |-> <<>>]
      BY <1>4, <2>2
    <3> QED
      BY <2>2, <3>1
  <2> QED
    BY <2>1, <2>2
<1>6. Announced(w) = <<>>
  <2>1. PICK C : C = Parts({"image line"})
    OBVIOUS
  <2>2. w \in Seq(AllParts \cap Spared("text_only"))
    BY <1>2, TextFilter, FilterType
  <2>3. (AllParts \cap Spared("text_only")) \cap C = {}
    BY <2>1 DEF Spared, Parts, LooksFor
  <2>4. Filter(w, C) = <<>>
    BY <2>2, <2>3, FilterNone
  <2>5. [j \in DOMAIN <<>> |-> <<>>[j].of] = <<>>
    OBVIOUS
  <2> QED
    BY <2>1, <2>4, <2>5 DEF Announced
<1>7. Filter(w, [kind : Kinds, of : {0}]) =
          <<Part("lesson clause", 0), Part("tail lessons", 0)>>
  BY <1>2, TextLeft DEF FrameLeft, Modes
<1>8. ASSUME ~Imitated(Pre(kept), LooksFor("text_only")), NEW k \in 1..n
      PROVE  Filter(w, [kind : Kinds, of : {k}]) =
                 <<Part("state anchors", k), Part("lesson line", k)>>
                     \o LaterLines(kept[k], k)
  BY <1>1, <1>2, <1>8, TextLeft DEF HeadingLeft, Modes
<1>9. Len(Pre(kept).records) = n /\ Pre(kept).records = kept
  BY <1>1 DEF Pre
<1>10. out.status = "given" =>
           /\ out.images = <<>> /\ Announced(out.text) = <<>>
           /\ Filter(out.text, [kind : Kinds, of : {0}]) =
                  <<Part("lesson clause", 0), Part("tail lessons", 0)>>
           /\ \A k \in 1..n : Filter(out.text, [kind : Kinds, of : {k}]) =
                  <<Part("state anchors", k), Part("lesson line", k)>>
                      \o LaterLines(kept[k], k)
  BY <1>5, <1>6, <1>7, <1>8
<1> QED
  BY <1>3, <1>5, <1>9, <1>10 DEF TakesAwayOne

\* The lines of the lessons are gone, so none of them is found again.
LEMMA NoLessonSurvives ==
    \A kept \in Seq(Ids) : \A k :
        ~LessonSurvives(Pre(kept), k, Filter(Text(kept), Parts(Kinds \ {"lesson line"})))
<1> SUFFICES ASSUME NEW kept \in Seq(Ids), NEW k
             PROVE  ~LessonSurvives(Pre(kept), k,
                                    Filter(Text(kept), Parts(Kinds \ {"lesson line"})))
  OBVIOUS
<1>1. PICK A : A = Parts(Kinds \ {"lesson line"})
  OBVIOUS
<1>2. PICK u : u = Filter(Text(kept), A)
  OBVIOUS
<1>3. u \in Seq(AllParts \cap A)
  BY <1>2, TextFilter, FilterType
<1>4. Part("lesson line", k) \notin AllParts \cap A
  BY <1>1 DEF Part, Parts
<1>5. Part("lesson line", k) \notin ToSet(u)
  <2>1. \A i \in 1..Len(u) : u[i] \in AllParts \cap A
    BY <1>3, ElementOfSeq
  <2>2. DOMAIN u = 1..Len(u)
    BY <1>3
  <2> QED
    BY <1>4, <2>1, <2>2 DEF ToSet
<1>6. ~LessonSurvives(Pre(kept), k, u)
  BY <1>5 DEF LessonSurvives
<1> QED
  BY <1>1, <1>2, <1>6

\* The marks carry the numbers from 1.
LEMMA MarksNumbered ==
    \A n \in Nat :
        [j \in DOMAIN Marks("image line", n) |-> Marks("image line", n)[j].of] =
            [j \in 1..n |-> j]
  BY DEF Marks, Part

\* What image_only returns.
LEMMA ImageOnlyIs ==
    \A kept \in Seq(Ids) : kept # <<>> =>
        Ablate(Pre(kept), "image_only") =
            IF Imitated(Pre(kept), LooksFor("image_only")) THEN Raised
            ELSE [status |-> "given", images |-> kept,
                  text |-> Filter(Text(kept), Spared("image_only"))
                               \o <<Part("tail episodes", 0)>>]
<1> SUFFICES ASSUME NEW kept \in Seq(Ids), kept # <<>>
             PROVE  Ablate(Pre(kept), "image_only") =
                        IF Imitated(Pre(kept), LooksFor("image_only")) THEN Raised
                        ELSE [status |-> "given", images |-> kept,
                              text |-> Filter(Text(kept), Spared("image_only"))
                                           \o <<Part("tail episodes", 0)>>]
  OBVIOUS
<1>1. PICK t : t = Text(kept)
  OBVIOUS
<1>2. PICK A1, A2, A3 : /\ A1 = Parts(Kinds \ {"lesson line"})
                        /\ A2 = Parts(Kinds \ {"lesson clause"})
                        /\ A3 = Parts(Kinds \ {"tail lessons"})
  OBVIOUS
<1>3. PICK u : u = Filter(t, A1)
  OBVIOUS
<1>4. PICK x : x = Filter(Filter(u, A2), A3)
  OBVIOUS
<1>5. Ablate(Pre(kept), "image_only") =
          IF \/ Occurrences("lesson line", t) # Len(kept)
             \/ \E k \in DOMAIN kept : LessonSurvives(Pre(kept), k, u)
             \/ Occurrences("lesson clause", u) # 1
             \/ Occurrences("tail lessons", u) # 1
          THEN Raised
          ELSE [status |-> "given", images |-> kept,
                text |-> x \o <<Part("tail episodes", 0)>>]
  BY <1>1, <1>2, <1>3, <1>4 DEF Ablate, ImageOnly, Pre, Without
<1>6. \A k : ~LessonSurvives(Pre(kept), k, u)
  BY <1>1, <1>2, <1>3, NoLessonSurvives
<1>7. x = Filter(t, Spared("image_only"))
  <2>1. Filter(u, A2) = Filter(t, A1 \cap A2)
    BY <1>1, <1>3, TextTwice
  <2>2. AllParts \cap ((A1 \cap A2) \cap A3) = AllParts \cap Spared("image_only")
    BY <1>2 DEF AllParts, Parts, Spared, LooksFor
  <2>3. Filter(Filter(t, A1 \cap A2), A3) = Filter(t, Spared("image_only"))
    BY <1>1, <2>2, TextTaken
  <2> QED
    BY <1>4, <2>1, <2>3
<1>8. ASSUME NEW C PROVE Filter(u, C) = Filter(t, A1 \cap C)
  BY <1>1, <1>3, TextTwice
<1>9. ASSUME NEW kind \in {"lesson clause", "tail lessons"}
      PROVE  Occurrences(kind, u) = Occurrences(kind, t)
  <2>1. PICK C : C = Parts({kind})
    OBVIOUS
  <2>2. AllParts \cap (A1 \cap C) = AllParts \cap C
    BY <1>2, <1>9, <2>1 DEF AllParts, Parts, Kinds, LessonKinds
  <2>3. Filter(t, A1 \cap C) = Filter(t, C)
    BY <1>1, <2>2, TextSame
  <2>4. Filter(u, C) = Filter(t, C)
    BY <1>8, <2>3
  <2> QED
    BY <2>1, <2>4 DEF Occurrences
<1>10. Imitated(Pre(kept), LooksFor("image_only")) <=>
          \/ Occurrences("lesson line", t) # Len(kept)
          \/ Occurrences("lesson clause", t) # 1
          \/ Occurrences("tail lessons", t) # 1
  <2>1. LooksFor("image_only") =
            {"lesson line"} \cup ({"lesson clause"} \cup {"tail lessons"})
    BY DEF LooksFor
  <2>2. "lesson line" \in Marked /\ "lesson clause" \in Framing /\ "tail lessons" \in Framing
    BY DEF Marked, Framing
  <2>3. /\ Occurrences("lesson line", t) # Len(kept)
               <=> Imitated(Pre(kept), {"lesson line"})
        /\ Occurrences("lesson clause", t) # 1 <=> Imitated(Pre(kept), {"lesson clause"})
        /\ Occurrences("tail lessons", t) # 1 <=> Imitated(Pre(kept), {"tail lessons"})
    BY <1>1, <2>2, Recognised
  <2>4. Imitated(Pre(kept), LooksFor("image_only")) <=>
            \/ Imitated(Pre(kept), {"lesson line"})
            \/ Imitated(Pre(kept), {"lesson clause"} \cup {"tail lessons"})
    BY <2>1, ImitatedParts
  <2>5. Imitated(Pre(kept), {"lesson clause"} \cup {"tail lessons"}) <=>
            \/ Imitated(Pre(kept), {"lesson clause"})
            \/ Imitated(Pre(kept), {"tail lessons"})
    BY ImitatedParts
  <2> QED
    BY <2>3, <2>4, <2>5
<1>11. PICK p1, p2, p3, p4 :
          /\ p1 = Occurrences("lesson line", t) /\ p2 = Occurrences("lesson clause", u)
          /\ p3 = Occurrences("tail lessons", u) /\ p4 = [status |-> "given",
                images |-> kept, text |-> x \o <<Part("tail episodes", 0)>>]
  OBVIOUS
<1>12. Ablate(Pre(kept), "image_only") =
          IF p1 # Len(kept) \/ p2 # 1 \/ p3 # 1 THEN Raised ELSE p4
  BY <1>5, <1>6, <1>11
<1>13. Imitated(Pre(kept), LooksFor("image_only")) <=>
          p1 # Len(kept) \/ p2 # 1 \/ p3 # 1
  BY <1>9, <1>10, <1>11
<1> QED
  BY <1>1, <1>7, <1>11, <1>12, <1>13

\* Without lesson lines: all the rest stays, and what is announced as image i is the
\* i-th image sent unless a line left of a lesson announces another.
LEMMA ImageOnlyIsExact ==
    \A kept \in Seq(Ids) : kept # <<>> => TakesAwayOne(Pre(kept), "image_only")
<1> SUFFICES ASSUME NEW kept \in Seq(Ids), kept # <<>>
             PROVE  TakesAwayOne(Pre(kept), "image_only")
  OBVIOUS
<1>1. PICK n \in Nat : n = Len(kept) /\ DOMAIN kept = 1..n
  BY LenProperties
<1>2. PICK t : t = Text(kept)
  OBVIOUS
<1>3. PICK S : S = Spared("image_only")
  OBVIOUS
<1>4. PICK x : x = Filter(t, S)
  OBVIOUS
<1>5. PICK te : te = Part("tail episodes", 0)
  OBVIOUS
<1>6. PICK out : out = Ablate(Pre(kept), "image_only")
  OBVIOUS
<1>7. out = IF Imitated(Pre(kept), LooksFor("image_only")) THEN Raised
            ELSE [status |-> "given", images |-> kept, text |-> x \o <<te>>]
  BY <1>2, <1>3, <1>4, <1>5, <1>6, ImageOnlyIs
<1>8. /\ out.status = "raised" <=> Imitated(Pre(kept), LooksFor("image_only"))
      /\ out.status = "given" =>
             /\ ~Imitated(Pre(kept), LooksFor("image_only"))
             /\ out.text = x \o <<te>> /\ out.images = kept
  <2>1. CASE Imitated(Pre(kept), LooksFor("image_only"))
    BY <1>7, <2>1 DEF Raised
  <2>2. CASE ~Imitated(Pre(kept), LooksFor("image_only"))
    <3>1. out = [status |-> "given", images |-> kept, text |-> x \o <<te>>]
      BY <1>7, <2>2
    <3> QED
      BY <2>2, <3>1
  <2> QED
    BY <2>1, <2>2
<1>9. x \in Seq(AllParts)
  <2>1. x \in Seq(AllParts \cap S)
    BY <1>2, <1>4, TextFilter, FilterType
  <2>2. Seq(AllParts \cap S) \subseteq Seq(AllParts)
    BY SeqWider
  <2> QED
    BY <2>1, <2>2
<1>10. ASSUME NEW C
       PROVE  Filter(x \o <<te>>, C) = IF te \in C THEN Filter(x, C) \o <<te>> ELSE Filter(x, C)
  <2>1. te \in AllParts
    BY <1>5 DEF Part, AllParts, Parts, Kinds
  <2>2. PICK l : l = <<te>>
    OBVIOUS
  <2>3. l \in Seq(AllParts)
    <3>1. PICK T : T = AllParts
      OBVIOUS
    <3> QED
      BY <2>1, <2>2, <3>1
  <2>4. Filter(x \o l, C) = Filter(x, C) \o Filter(l, C)
    BY <1>9, <2>3, FilterConcat
  <2>5. Filter(l, C) = IF te \in C THEN l ELSE <<>>
    BY <2>2, FilterOne
  <2>6. Filter(x, C) \in Seq(AllParts \cap C)
    BY <1>9, FilterType
  <2>7. Filter(x, C) \o <<>> = Filter(x, C)
    BY <2>6, ConcatEmptySeq
  <2> QED
    BY <2>2, <2>4, <2>5, <2>7
<1>11. Announced(x \o <<te>>) = [j \in 1..n |-> j] <=> ~Imitated(Pre(kept), {"image line"})
  <2>1. PICK C : C = Parts({"image line"})
    OBVIOUS
  <2>2. te \notin C
    BY <1>5, <2>1 DEF Part, Parts
  <2>3. AllParts \cap (S \cap C) = AllParts \cap C
    BY <1>3, <2>1 DEF AllParts, Parts, Spared, LooksFor, Kinds, LessonKinds
  <2>4. Filter(x \o <<te>>, C) = Filter(t, C)
    BY <1>2, <1>4, <1>10, <2>2, <2>3, TextTaken
  <2>5. PICK f : f = Filter(t, C)
    OBVIOUS
  <2>6. Announced(x \o <<te>>) = [j \in DOMAIN f |-> f[j].of]
    BY <2>1, <2>4, <2>5 DEF Announced
  <2>7. "image line" \in Marked
    BY DEF Marked
  <2>8. CASE Imitated(Pre(kept), {"image line"})
    <3>1. Len(f) # n
      BY <1>1, <1>2, <2>1, <2>5, <2>7, <2>8, Recognised DEF Occurrences
    <3>2. f \in Seq(AllParts \cap C)
      BY <1>2, <2>5, TextFilter, FilterType
    <3>3. DOMAIN f = 1..Len(f) /\ Len(f) \in Nat
      BY <3>2, LenProperties
    <3>4. DOMAIN f # 1..n
      <4>1. PICK m \in Nat : m = Len(f)
        BY <3>3
      <4>2. m \in 1..m \/ m = 0
        OBVIOUS
      <4>3. n \in 1..n \/ n = 0
        OBVIOUS
      <4>4. 1..m # 1..n
        <5>1. CASE m < n
          <6>1. n \in 1..n /\ n \notin 1..m
            BY <5>1
          <6> QED  BY <6>1
        <5>2. CASE n < m
          <6>1. m \in 1..m /\ m \notin 1..n
            BY <5>2
          <6> QED  BY <6>1
        <5> QED  BY <3>1, <4>1, <5>1, <5>2
      <4> QED
        BY <3>3, <4>1, <4>4
    <3> QED
      BY <2>6, <2>8, <3>4
  <2>9. CASE ~Imitated(Pre(kept), {"image line"})
    <3>1. f = Marks("image line", n)
      BY <1>1, <1>2, <2>1, <2>5, <2>7, <2>9, Recognised
    <3> QED
      BY <2>6, <2>9, <3>1, MarksNumbered
  <2> QED
    BY <2>8, <2>9
<1>12. Filter(x \o <<te>>, [kind : Kinds, of : {0}]) = <<Part("image clause", 0), te>>
  <2>1. te \in [kind : Kinds, of : {0}]
    BY <1>5 DEF Part, Kinds
  <2>2. Filter(x, [kind : Kinds, of : {0}]) = <<Part("image clause", 0)>>
    BY <1>2, <1>3, <1>4, TextLeft DEF FrameLeft, Modes
  <2>3. PICK p : p = Part("image clause", 0)
    OBVIOUS
  <2>4. <<p>> \o <<te>> = <<p, te>>
    <3>1. PICK T : p \in T /\ te \in T
      <4>1. p \in {p, te} /\ te \in {p, te}
        OBVIOUS
      <4> QED
        BY <4>1
    <3>2. PICK y : y = <<p>>
      OBVIOUS
    <3>3. y \in Seq(T)
      BY <3>1, <3>2
    <3>4. Append(y, te) = <<p, te>>
      BY <3>2, Short
    <3> HIDE <3>2
    <3>5. y \o <<te>> = Append(y, te)
      BY <3>1, <3>3, AppendIsConcat
    <3> QED
      BY <3>2, <3>4, <3>5
  <2> QED
    BY <1>10, <2>1, <2>2, <2>3, <2>4
<1>13. ASSUME ~Imitated(Pre(kept), LooksFor("image_only")), NEW k \in 1..n
       PROVE  Filter(x \o <<te>>, [kind : Kinds, of : {k}]) =
                  <<Part("image line", k), Part("state anchors", k)>>
                      \o LaterLines(kept[k], k)
  <2>1. te \notin [kind : Kinds, of : {k}]
    <3>1. te.of = 0
      BY <1>5 DEF Part
    <3>2. k # 0
      BY <1>1
    <3>3. \A y \in [kind : Kinds, of : {k}] : y.of = k
      OBVIOUS
    <3> QED
      BY <3>1, <3>2, <3>3
  <2>2. Filter(x, [kind : Kinds, of : {k}]) =
            <<Part("image line", k), Part("state anchors", k)>> \o LaterLines(kept[k], k)
    BY <1>1, <1>2, <1>3, <1>4, <1>13, TextLeft DEF HeadingLeft, Modes
  <2> QED
    BY <1>10, <2>1, <2>2
<1>14. Len(Pre(kept).records) = n /\ Pre(kept).records = kept
  BY <1>1 DEF Pre
<1>15. out.status = "given" =>
           /\ out.images = kept
           /\ Announced(out.text) = [j \in 1..n |-> j]
                  <=> ~Imitated(Pre(kept), {"image line"})
           /\ Filter(out.text, [kind : Kinds, of : {0}]) =
                  <<Part("image clause", 0), Part("tail episodes", 0)>>
           /\ \A k \in 1..n : Filter(out.text, [kind : Kinds, of : {k}]) =
                  <<Part("image line", k), Part("state anchors", k)>>
                      \o LaterLines(kept[k], k)
  BY <1>5, <1>8, <1>11, <1>12, <1>13
<1> QED
  BY <1>6, <1>8, <1>14, <1>15 DEF TakesAwayOne

\* Every place in the order of a retrieval is somebody's.
LEMMA RanksAreTaken ==
    ASSUME NEW pool, IsFiniteSet(pool), NEW rank \in Injection(pool, 1..Cardinality(pool))
    PROVE  \A k \in 1..Cardinality(pool) : \E r \in pool : rank[r] = k
<1> SUFFICES ASSUME NEW k \in 1..Cardinality(pool), \A r \in pool : rank[r] # k
             PROVE  FALSE
  OBVIOUS
<1>1. PICK n \in Nat : n = Cardinality(pool)
  BY FS_CardinalityType
<1>2. PICK places : places = 1..n
  OBVIOUS
<1>3. IsFiniteSet(places) /\ Cardinality(places) = n
  BY <1>2, FS_Interval
<1>4. PICK others : others = places \ {k}
  OBVIOUS
<1>5. IsFiniteSet(others) /\ Cardinality(others) = n - 1
  BY <1>1, <1>2, <1>3, <1>4, FS_RemoveElement
<1>6. Cardinality(others) < Cardinality(pool)
  BY <1>1, <1>5
<1>7. rank \in [pool -> others]
  BY <1>1, <1>2, <1>4 DEF Injection
<1>8. \E x, y \in pool : x # y /\ rank[x] = rank[y]
  BY <1>5, <1>6, <1>7, FS_PigeonHole
<1> QED
  BY <1>8 DEF Injection, IsInjective

\* A retrieval is a sequence of recaps, best first.
LEMMA RankedType ==
    ASSUME NEW rank, DOMAIN rank \subseteq Ids, NEW hits,
           rank \in Injection(DOMAIN rank, 1..Cardinality(DOMAIN rank))
    PROVE  Ranked(hits, rank) \in Seq(Ids)
<1>1. PICK pool : pool = DOMAIN rank
  OBVIOUS
<1>2. IsFiniteSet(pool)
  BY <1>1, RecapAssumption, FS_Subset
<1>3. PICK n \in Nat : n = Cardinality(pool)
  BY <1>2, FS_CardinalityType
<1>4. \A k \in 1..n : \E r \in pool : rank[r] = k
  BY <1>1, <1>2, <1>3, RanksAreTaken
<1>5. PICK best : best = [k \in 1..n |-> CHOOSE r \in pool : rank[r] = k]
  OBVIOUS
<1>6. \A k \in 1..n : best[k] \in Ids
  BY <1>1, <1>4, <1>5
<1>7. best \in [1..n -> Ids]
  BY <1>5, <1>6
<1>8. best \in Seq(Ids)
  BY <1>7, SeqDef
<1>9. Ranked(hits, rank) = Filter(best, hits)
  BY <1>1, <1>3, <1>5 DEF Ranked
<1>10. Filter(best, hits) \in Seq(Ids \cap hits)
  BY <1>8, FilterType
<1>11. Seq(Ids \cap hits) \subseteq Seq(Ids)
  BY SeqWider
<1> QED
  BY <1>9, <1>10, <1>11

\* The preamble of any sequence of recaps is ablated exactly.
LEMMA PreambleIsExact ==
    ASSUME NEW hits \in Seq(Ids), NEW shown, NEW mode \in Modes
    PROVE  TakesAwayOne(Preamble(hits, shown), mode)
<1>1. PICK kept : kept = Filter(hits, shown)
  OBVIOUS
<1>2. kept \in Seq(Ids)
  <2>1. Filter(hits, shown) \in Seq(Ids \cap shown)
    BY FilterType
  <2>2. Seq(Ids \cap shown) \subseteq Seq(Ids)
    BY SeqWider
  <2> QED
    BY <1>1, <2>1, <2>2
<1>3. CASE kept # <<>>
  <2>1. Preamble(hits, shown) = Pre(kept)
    BY <1>1, <1>3 DEF Preamble, Pre
  <2>2. TakesAwayOne(Pre(kept), "text_only") /\ TakesAwayOne(Pre(kept), "image_only")
    BY <1>2, <1>3, TextOnlyIsExact, ImageOnlyIsExact
  <2> QED
    BY <2>1, <2>2 DEF Modes
<1>4. CASE kept = <<>>
  <2>1. PICK pre : pre = Preamble(hits, shown)
    OBVIOUS
  <2>2. pre.records = <<>> /\ Len(pre.records) = 0 /\ ToSet(pre.records) = {}
    <3>1. pre.records = <<>>
      BY <1>1, <1>4, <2>1 DEF Preamble
    <3>2. Len(<<>>) = 0 /\ ToSet(<<>>) = {}
      BY EmptySeq DEF ToSet
    <3> QED
      BY <3>1, <3>2
  <2>3. Ablate(pre, mode).status = "given"
    BY <2>2 DEF Ablate
  <2>4. ~Imitated(pre, LooksFor(mode))
    BY <2>2 DEF Imitated
  <2>5. TakesAwayOne(pre, mode)
    BY <2>2, <2>3, <2>4 DEF TakesAwayOne
  <2> QED
    BY <2>1, <2>5
<1> QED
  BY <1>3, <1>4

\* From whatever retrieval, with whichever images lost and whatever lines in the
\* lessons, the ablation removes the lines and clauses that it looks for and leaves
\* every other part, the later lines of a lesson included; it gives up if and only if a
\* lesson imitates what is looked for (a17_ablation.ablate over retrieve_for_episode).
THEOREM AblationCorrect == Spec => []AblationIsExact
<1>1. RetrievalInv => AblationIsExact
  <2> SUFFICES ASSUME RetrievalInv, answer.status = "given", NEW mode \in Modes
               PROVE  TakesAwayOne(Preamble(Ranked(answer.hits, answer.rank),
                                            answer.shown), mode)
    BY DEF AblationIsExact
  <2>1. Ranked(answer.hits, answer.rank) \in Seq(Ids)
    BY RankedType DEF RetrievalInv
  <2> QED
    BY <2>1, PreambleIsExact
<1> QED
  BY <1>1, RetrievalInvariant, PTL

\* What image_only leaves of the k-th episode is its two lines alone if and only if its
\* lesson has one line.
LEMMA TwoLinesAlone ==
    \A r \in Ids, k \in Nat :
        <<Part("image line", k), Part("state anchors", k)>> \o LaterLines(r, k) =
            <<Part("image line", k), Part("state anchors", k)>>
        <=> LessonOf[r] = <<>>
<1> SUFFICES ASSUME NEW r \in Ids, NEW k \in Nat
             PROVE  <<Part("image line", k), Part("state anchors", k)>>
                            \o LaterLines(r, k) =
                        <<Part("image line", k), Part("state anchors", k)>>
                    <=> LessonOf[r] = <<>>
  OBVIOUS
<1>1. PICK two : two = <<Part("image line", k), Part("state anchors", k)>>
  OBVIOUS
<1>2. two \in Seq(AllParts) /\ Len(two) = 2
  <2>1. PICK p, q : p = Part("image line", k) /\ q = Part("state anchors", k)
    OBVIOUS
  <2>2. p \in AllParts /\ q \in AllParts
    BY <2>1 DEF Part, AllParts, Parts, Kinds, LessonKinds
  <2>3. PICK T : T = AllParts
    OBVIOUS
  <2>4. <<p, q>> \in Seq(T) /\ Len(<<p, q>>) = 2
    BY <2>2, <2>3
  <2> QED
    BY <1>1, <2>1, <2>3, <2>4
<1>3. PICK lesson \in Seq(LessonKinds) : lesson = LessonOf[r]
  BY LessonAssumption
<1>4. PICK n \in Nat : n = Len(lesson) /\ DOMAIN lesson = 1..n
  BY <1>3, LenProperties
<1>5. PICK later : later = LaterLines(r, k)
  OBVIOUS
<1>6. later \in Seq(AllParts) /\ Len(later) = n
  <2>1. later = [j \in 1..n |-> Part(lesson[j], k)]
    BY <1>3, <1>4, <1>5 DEF LaterLines
  <2>2. \A j \in 1..n : Part(lesson[j], k) \in AllParts
    <3>1. \A j \in 1..n : lesson[j] \in LessonKinds
      BY <1>3, <1>4, ElementOfSeq
    <3> QED
      BY <3>1 DEF Part, AllParts, Parts, Kinds
  <2>3. later \in [1..n -> AllParts]
    BY <2>1, <2>2
  <2> QED
    BY <1>4, <2>3
<1>7. two \o later = two <=> n = 0
  <2>1. Len(two \o later) = 2 + n
    <3>1. Len(two \o later) = Len(two) + Len(later)
      BY <1>2, <1>6, ConcatProperties
    <3> QED
      BY <1>2, <1>6, <3>1
  <2>2. n # 0 => two \o later # two
    BY <1>2, <1>4, <2>1
  <2>3. n = 0 => later = <<>>
    BY <1>6, EmptySeq
  <2>4. two \o <<>> = two
    BY <1>2, ConcatEmptySeq
  <2> QED
    BY <2>2, <2>3, <2>4
<1>8. lesson = <<>> <=> n = 0
  BY <1>3, <1>4, EmptySeq
<1> QED
  BY <1>1, <1>3, <1>5, <1>7, <1>8

\* Where image_only returns a preamble, nothing is left of the lessons if and only if
\* every one of them has a single line: LessonIsRemoved holds of such lessons, and of
\* no other ones (a17_ablation.ablate).
THEOREM OneLineIsRemoved ==
    Spec => [](answer.status = "given" =>
                   LET pre == Preamble(Ranked(answer.hits, answer.rank), answer.shown)
                       out == Ablate(pre, "image_only")
                   IN  out.status = "given" =>
                           (LessonsGone(pre, out)
                                <=> \A r \in ToSet(pre.records) : LessonOf[r] = <<>>))
<1>1. RetrievalInv =>
          (answer.status = "given" =>
               LET pre == Preamble(Ranked(answer.hits, answer.rank), answer.shown)
                   out == Ablate(pre, "image_only")
               IN  out.status = "given" =>
                       (LessonsGone(pre, out)
                            <=> \A r \in ToSet(pre.records) : LessonOf[r] = <<>>))
  <2> SUFFICES ASSUME RetrievalInv, answer.status = "given",
                      NEW pre, pre = Preamble(Ranked(answer.hits, answer.rank), answer.shown),
                      NEW out, out = Ablate(pre, "image_only"), out.status = "given"
               PROVE  LessonsGone(pre, out)
                          <=> \A r \in ToSet(pre.records) : LessonOf[r] = <<>>
    OBVIOUS
  <2>1. PICK hits : hits = Ranked(answer.hits, answer.rank) /\ hits \in Seq(Ids)
    BY RankedType DEF RetrievalInv
  <2>2. PICK kept : kept = pre.records /\ kept \in Seq(Ids)
    <3>1. Filter(hits, answer.shown) \in Seq(Ids \cap answer.shown)
      BY <2>1, FilterType
    <3>2. Seq(Ids \cap answer.shown) \subseteq Seq(Ids)
      BY SeqWider
    <3>3. pre.records = Filter(hits, answer.shown)
      BY <2>1 DEF Preamble
    <3> QED
      BY <3>1, <3>2, <3>3
  <2>3. PICK n \in Nat : n = Len(kept) /\ DOMAIN kept = 1..n
    BY <2>2, LenProperties
  <2>4. TakesAwayOne(pre, "image_only")
    BY <2>1, PreambleIsExact DEF Modes
  <2>5. ASSUME NEW k \in 1..n
        PROVE  Filter(out.text, [kind : Kinds, of : {k}]) =
                   <<Part("image line", k), Part("state anchors", k)>>
                       \o LaterLines(kept[k], k)
    <3>1. n > 0 /\ "image_only" # "text_only"
      BY <2>3
    <3> QED
      BY <2>2, <2>3, <2>4, <3>1 DEF TakesAwayOne
  <2>6. LessonsGone(pre, out) <=> \A k \in 1..n : LessonOf[kept[k]] = <<>>
    <3>1. \A k \in 1..n : kept[k] \in Ids /\ k \in Nat
      BY <2>2, <2>3, ElementOfSeq
    <3>2. \A k \in 1..n :
              Filter(out.text, [kind : Kinds, of : {k}]) =
                  <<Part("image line", k), Part("state anchors", k)>>
              <=> LessonOf[kept[k]] = <<>>
      BY <2>5, <3>1, TwoLinesAlone
    <3> QED
      BY <2>2, <2>3, <3>2 DEF LessonsGone
  <2>7. ToSet(pre.records) = {kept[k] : k \in 1..n}
    BY <2>2, <2>3 DEF ToSet
  <2> QED
    BY <2>6, <2>7
<1> QED
  BY <1>1, RetrievalInvariant, PTL
=============================================================================
