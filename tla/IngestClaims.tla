---------------------------- MODULE IngestClaims ----------------------------
(***************************************************************************)
(* Sentences the repository states of its document pipeline and that the   *)
(* code does not keep, each with the run that shows how.                   *)
(***************************************************************************)
EXTENDS IngestInvariants

\* ingest_task.py:94 "On success this dispatches embed_asset for the same
\* asset", and the failure to do so is "visible rather than silent" (line 239):
\* an accepted upload nobody works on is searchable or its failure was reported.
EveryIngestIsEmbedded ==
  \A a \in Assets : upload[a] = "accepted" /\ Quiet(a) => recorded[a] > 0 \/ Reported(a)

\* ingest_task.py:103 "On final failure a FailedTaskEntry is written to the
\* dead-letter repository and the task state is set to FAILURE": a task in state
\* FAILURE has a dead letter, or the log says that it could not be saved.
FailureHasDeadLetter == failure \subseteq failed_tasks \cup error_log

\* tenant_collection_vector_store.py:125 "re-running an embed converges on the
\* same records instead of accumulating a duplicate of every chunk": no two
\* vectors of an asset are for the same place in the document.
NoDuplicateVectors ==
  \A a \in Assets : \A c, d \in vectors[a] : c[2] = d[2] => c = d
=============================================================================
