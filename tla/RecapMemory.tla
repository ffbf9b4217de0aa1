----------------------------- MODULE RecapMemory -----------------------------
(***************************************************************************)
(* The recap memory across the processes that share its directory:         *)
(* RecapBuffer (aiongenos/memory/recap_buffer.py) with the retriever over  *)
(* it (retriever.py).  A process loads the directory, retrieves before an  *)
(* episode and adds one recap after it; it may die at any point, and the   *)
(* next one finds what is on disk.                                         *)
(*                                                                         *)
(* A recap is named by its episode.  The combined score of a retrieval is  *)
(* abstracted to the rank that it gives each of the candidates.            *)
(***************************************************************************)
EXTENDS Integers, FiniteSets, Functions

CONSTANTS
    OldIds,   \* episodes of earlier processes whose recaps may be on disk
    NewIds,   \* episodes still to come
    Dims,     \* embedding dimensions that earlier processes may have used
    Dim,      \* the embedder's dimension, _DINOV2_DIM
    TopK,     \* fine_k
    FloorNum, \* success_floor_frac = FloorNum / FloorDen
    FloorDen

Ids == OldIds \cup NewIds

ASSUME RecapAssumption ==
    /\ IsFiniteSet(Ids)
    /\ OldIds \cap NewIds = {}
    /\ TopK \in Nat \ {0}
    /\ FloorNum \in Nat
    /\ FloorDen \in Nat \ {0}
    /\ FloorNum <= FloorDen

VARIABLES
    file,      \* {run_id}/{ep_id}.json: "absent", "half" written or "whole"
    success,   \* is_success of each recap
    dim,       \* the dimension of its image_embedding
    pc,        \* "down", "up", "adding" or "refused" (load raised)
    records,   \* _records
    placed,    \* the records that _init_pos has a row for
    embedded,  \* the records that _embeddings has a row for
    adding,    \* the recaps being written: none or one
    answer     \* the last retrieval

recapVars == <<file, success, dim, pc, records, placed, embedded, adding, answer>>

Empty == [status |-> "empty", rank |-> <<>>, hits |-> {}, shown |-> {},
          byImage |-> FALSE]

Mixed(S) == \E a, b \in S : dim[a] # dim[b]

-----------------------------------------------------------------------------
(* The choice of the records, from the rank of each candidate by its score. *)

\* ceil(success_floor_frac * fine_k)
MinSuccess == (FloorNum * TopK + FloorDen - 1) \div FloorDen

\* The first n of S in the order of their scores.
BestOf(n, S, rank) == {r \in S : Cardinality({s \in S : rank[s] < rank[r]}) < n}

Successes(S) == {r \in S : success[r]}

\* Mutant of Chosen: the fill does not stop at fine_k.
ChosenWithoutEnd(rank) == DOMAIN rank

\* Mutant of Chosen: the fill takes failures only.
ChosenFromFailures(rank) ==
    LET pool == DOMAIN rank
        picks == BestOf(MinSuccess, Successes(pool), rank)
    IN  picks \cup BestOf(TopK - Cardinality(picks), pool \ Successes(pool), rank)

\* The best successes up to the floor, then the best of the rest.
Chosen(rank) ==
    LET pool == DOMAIN rank
        picks == BestOf(MinSuccess, Successes(pool), rank)
    IN  picks \cup BestOf(TopK - Cardinality(picks), pool \ picks, rank)

-----------------------------------------------------------------------------
Init ==
    /\ file \in [Ids -> {"absent", "half", "whole"}]
    /\ \A i \in NewIds : file[i] = "absent"
    /\ success \in [Ids -> BOOLEAN]
    /\ dim \in [Ids -> Dims \cup {Dim}]
    /\ \A i \in NewIds : dim[i] = Dim
    /\ pc = "down"
    /\ records = {}
    /\ placed = {}
    /\ embedded = {}
    /\ adding = {}
    /\ answer = Empty

\* Mutant of Parsed: a truncated file is not recognised as malformed.
ParsedAnyFile == {i \in Ids : file[i] # "absent"}

\* The files that parse; load skips the others with a warning.
Parsed == {i \in Ids : file[i] = "whole"}

\* RecapBuffer(root) and load: embeddings of two dimensions make no array, and
\* nothing catches that.
Load ==
    /\ pc = "down"
    /\ records' = Parsed
    /\ placed' = records'
    /\ IF Mixed(records')
       THEN pc' = "refused" /\ UNCHANGED embedded
       ELSE pc' = "up" /\ embedded' = records'
    /\ UNCHANGED <<file, success, dim, adding, answer>>

\* The process ends, or is killed at whatever it does.
Stop ==
    /\ pc # "down"
    /\ pc' = "down"
    /\ records' = {}
    /\ placed' = {}
    /\ embedded' = {}
    /\ adding' = {}
    /\ answer' = Empty
    /\ UNCHANGED <<file, success, dim>>

\* write_text has created the file and not yet written it all.
BeginAdd ==
    /\ pc = "up"
    /\ \E i \in NewIds :
        /\ file[i] = "absent"
        /\ file' = [file EXCEPT ![i] = "half"]
        /\ adding' = {i}
    /\ pc' = "adding"
    /\ UNCHANGED <<success, dim, records, placed, embedded, answer>>

\* Mutant of FinishAdd: the index is rebuilt before the record is appended.
FinishAddIndexFirst ==
    /\ pc = "adding"
    /\ file' = [i \in Ids |-> IF i \in adding THEN "whole" ELSE file[i]]
    /\ records' = records \cup adding
    /\ placed' = records
    /\ embedded' = IF Mixed(records) THEN embedded ELSE records
    /\ adding' = {}
    /\ pc' = "up"
    /\ UNCHANGED <<success, dim, answer>>

\* The file is whole, the record appended and the index rebuilt; where that
\* raises, _init_pos is new and _embeddings is not, and the loop goes on.
FinishAdd ==
    /\ pc = "adding"
    /\ file' = [i \in Ids |-> IF i \in adding THEN "whole" ELSE file[i]]
    /\ records' = records \cup adding
    /\ placed' = records'
    /\ embedded' = IF Mixed(records') THEN embedded ELSE records'
    /\ adding' = {}
    /\ pc' = "up"
    /\ UNCHANGED <<success, dim, answer>>

\* The write raises (no space): the loop goes on without the record.
FailAdd ==
    /\ pc = "adding"
    /\ adding' = {}
    /\ pc' = "up"
    /\ UNCHANGED <<file, success, dim, records, placed, embedded, answer>>

\* retrieve_for_episode: "only" is success_only, by option or by the flag file;
\* records whose first image is missing are not shown.
Retrieve ==
    /\ pc = "up"
    /\ \E only \in BOOLEAN :
        LET keep == {r \in records : only => success[r]}
        IN  \/ keep = {} /\ answer' = Empty
            \/ /\ ~(keep \subseteq placed \cap embedded)
               /\ answer' = [Empty EXCEPT !.status = "raised"]
            \/ /\ keep # {} /\ keep \subseteq placed \cap embedded
               /\ \E rank \in Injection(keep, 1..Cardinality(keep)) :
                    \E shown \in SUBSET Chosen(rank) :
                        answer' = [status |-> "given", rank |-> rank,
                                   hits |-> Chosen(rank), shown |-> shown,
                                   byImage |-> \A r \in embedded : dim[r] = Dim]
    /\ UNCHANGED <<file, success, dim, pc, records, placed, embedded, adding>>

Next == Load \/ Stop \/ BeginAdd \/ FinishAdd \/ FailAdd \/ Retrieve

Spec == Init /\ [][Next]_recapVars

-----------------------------------------------------------------------------
(* Properties.                                                             *)

TypeOK ==
    /\ file \in [Ids -> {"absent", "half", "whole"}]
    /\ success \in [Ids -> BOOLEAN]
    /\ dim \in [Ids -> Dims \cup {Dim}]
    /\ pc \in {"down", "up", "adding", "refused"}
    /\ records \subseteq Ids /\ placed \subseteq Ids /\ embedded \subseteq Ids
    /\ adding \subseteq NewIds
    /\ answer.status \in {"empty", "raised", "given"}
    /\ answer.hits \subseteq Ids /\ Cardinality(answer.hits) <= TopK

Whole == {i \in Ids : file[i] = "whole"}

\* Memory survives its processes: a running one knows exactly the recaps that
\* are whole on disk, whichever process was killed or failed in the middle of a
\* write, and although an add that raises has already written its file.
MemoryIsDurable == pc = "up" => records = Whole

\* The success floor of a retrieval (F62), against its definition: as many
\* records as fit, at least the floor of successes or all there are, and no
\* passed-over record that ranks above a chosen one, unless it is a failure that
\* would push a success below the floor.
FloorIsKept ==
    LET pool == DOMAIN answer.rank
        hits == answer.hits
    IN  answer.status = "given" =>
            /\ Cardinality(hits) =
                   (IF TopK < Cardinality(pool) THEN TopK ELSE Cardinality(pool))
            /\ \/ Cardinality(Successes(hits)) >= MinSuccess
               \/ Successes(hits) = Successes(pool)
            /\ \A left \in pool \ hits, taken \in hits :
                   answer.rank[left] < answer.rank[taken] =>
                       /\ success[taken] /\ ~success[left]
                       /\ Cardinality(Successes(hits)) <= MinSuccess

\* A retrieval fails, or a process refuses to start, only where recaps of two
\* dimensions have met in the directory: no failed or killed write can do it.
FailsOnlyWhenMixed ==
    pc = "refused" \/ answer.status = "raised" => Mixed(Whole)

\* "Defensive: if dim mismatch (e.g. mixed old/new buffers), drop image term":
\* a buffer with old and new embeddings is still ranked, by state alone.
MixedStillRanks == answer.status # "raised"
=============================================================================
