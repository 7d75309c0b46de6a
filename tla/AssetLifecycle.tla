--------------------------- MODULE AssetLifecycle ---------------------------
(***************************************************************************)
(* What the document pipeline promises of one accepted upload, without     *)
(* brokers, workers, retries or stores: it is worked on until it is        *)
(* settled, which happens once and for good; what retrieval can find of it *)
(* appears only after it was ingested, while it is worked on, and is never *)
(* taken away.                                                             *)
(***************************************************************************)
CONSTANT Assets

VARIABLES
  stage,     \* "absent", "working" or "settled"
  ingested,  \* the assets whose ingestion has completed
  visible    \* visible[a]: the pieces of a that retrieval can find

vars == <<stage, ingested, visible>>

Init ==
  /\ stage = [a \in Assets |-> "absent"]
  /\ ingested = {}
  /\ visible = [a \in Assets |-> {}]

Accept(a) ==
  /\ stage[a] = "absent"
  /\ stage' = [stage EXCEPT ![a] = "working"]
  /\ UNCHANGED <<ingested, visible>>

Ingest(a) ==
  /\ stage[a] = "working"
  /\ ingested' = ingested \cup {a}
  /\ UNCHANGED <<stage, visible>>

Show(a) ==
  /\ stage[a] = "working"
  /\ a \in ingested
  /\ visible[a] \subseteq visible'[a]
  /\ visible' = [visible EXCEPT ![a] = visible'[a]]
  /\ UNCHANGED <<stage, ingested>>

Settle(a) ==
  /\ stage[a] = "working"
  /\ stage' = [stage EXCEPT ![a] = "settled"]
  /\ UNCHANGED <<ingested, visible>>

Next == \E a \in Assets : Accept(a) \/ Ingest(a) \/ Show(a) \/ Settle(a)

Spec == Init /\ [][Next]_vars

FairSpec == Spec /\ \A a \in Assets : WF_vars(Settle(a))
=============================================================================
