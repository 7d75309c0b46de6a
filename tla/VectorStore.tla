---------------------------- MODULE VectorStore ----------------------------
(***************************************************************************)
(* What VectorStorePort promises the tasks and the retriever: a vector is  *)
(* found by searches of its tenant only, vectors and marks accumulate, and *)
(* an erasure takes one tenant's data and nobody else's.                   *)
(***************************************************************************)
CONSTANTS Tenants, Assets, Owner, Chunks, AssetOf

VARIABLES vectors,  \* vectors[t]: the chunks a search of tenant t can find
          marked    \* the assets recorded as embedded

vars == <<vectors, marked>>

Init == vectors = [t \in Tenants |-> {}] /\ marked = {}

Upsert(c) ==
  /\ vectors' = [vectors EXCEPT ![Owner[AssetOf[c]]] = @ \cup {c}]
  /\ UNCHANGED marked

Save(a) == marked' = marked \cup {a} /\ UNCHANGED vectors

EraseVectors(t) == vectors' = [vectors EXCEPT ![t] = {}] /\ UNCHANGED marked

EraseMarks(t) == marked' = {a \in marked : Owner[a] # t} /\ UNCHANGED vectors

Next ==
  \/ \E c \in Chunks : Upsert(c)
  \/ \E a \in Assets : Save(a)
  \/ \E t \in Tenants : EraseVectors(t) \/ EraseMarks(t)

Spec == Init /\ [][Next]_vars
=============================================================================
