-------------------------- MODULE IngestInvariants --------------------------
(***************************************************************************)
(* The inductive invariant behind the safety properties of IngestPipeline, *)
(* in named parts.  TLC checks the parts on small instances and            *)
(* IngestPipelineProofs proves them inductive.                             *)
(***************************************************************************)
EXTENDS IngestPipeline

\* A worker runs a job exactly when it is not idle, and is inside the use case
\* its job calls for.
JobsMatch ==
  \A w \in Workers :
    /\ pc[w] = "idle" <=> job[w] = NoJob
    /\ pc[w] \in IngestPCs => job[w].task = "ingest"
    /\ pc[w] \in EmbedPCs => job[w].task = "embed"

\* Only accepted uploads have jobs.
AcceptedInv ==
  /\ \A m \in Message : queue[m] > 0 => upload[m.asset] = "accepted"
  /\ \A w \in Workers : job[w] # NoJob => upload[job[w].asset] = "accepted"

\* Embedding comes after the mark: a queued or running embed job, a vector and
\* a worker about to hand over all speak of a processed asset.
OrderInv ==
  /\ \A m \in Message : queue[m] > 0 /\ m.task = "embed" => m.asset \in processed
  /\ \A w \in Workers :
       pc[w] # "idle" /\ (job[w].task = "embed" \/ pc[w] = "dispatch_embed")
         => job[w].asset \in processed
  /\ \A a \in Assets : vectors[a] # {} \/ recorded[a] > 0 => a \in processed

\* What an embed job has crossed off is in the vector store, and a count was
\* recorded for chunks that all were.
StoredInv ==
  /\ \A a \in Assets : IsFiniteSet(chunks[a]) /\ IsFiniteSet(vectors[a])
  /\ \A w \in Workers :
       /\ IsFiniteSet(loaded[w])
       /\ pc[w] = "upsert" => loaded[w] \ todo[w] \subseteq vectors[job[w].asset]
  /\ FinishedMeansStored

\* Without an overlap one job at most writes the chunks of an asset, none once
\* it is processed, and the chunks are what that job has written so far.
WritersInv ==
  \A a \in Assets \ overlapped :
    /\ \A v, w \in Writing(a) : v = w
    /\ a \in processed => Writing(a) = {}
    /\ \A w \in Writing(a) :
         /\ pc[w] \in {"delete_many", "insert_many"} =>
              \E g \in 0..next_gen[a] - 1 : loaded[w] = Generation(g)
         /\ pc[w] = "insert_many" => chunks[a] = loaded[w] \ todo[w]

TodoInv ==
  \A w \in Workers :
    /\ todo[w] \subseteq loaded[w]
    /\ pc[w] = "delete_many" => todo[w] = loaded[w]

\* Without an overlap an embed job works on the chunks the store still has.
ReadersInv ==
  \A w \in Workers :
    pc[w] = "upsert" /\ job[w].asset \notin overlapped => loaded[w] = chunks[job[w].asset]

ConvergeInv == WritersInv /\ TodoInv /\ ReadersInv /\ ReplayConverges

\* A job whose outcome is still open: queued, or running and not yet ended.
Open(t, a) ==
  \/ \E m \in Message : m.task = t /\ m.asset = a /\ queue[m] > 0
  \/ \E w \in Workers : Running(w, t, a) /\ pc[w] # "ack"

Reported(a) == \E t \in {"ingest", "embed"} : <<t, a>> \in failure \cup error_log

\* A processed asset's embedding is open, about to be queued, done, reported as
\* failed, or one of the two exceptions of NothingLostSilently.
Handled(a) ==
  \/ Open("embed", a)
  \/ \E w \in Workers : pc[w] = "dispatch_embed" /\ job[w].asset = a
  \/ recorded[a] > 0
  \/ Reported(a)
  \/ a \in torn \cup overlapped

\* Before the mark an ingest job is open or its failure reported.
AccountInv ==
  \A a \in Assets :
    /\ upload[a] = "accepted" /\ a \notin processed => Open("ingest", a) \/ Reported(a)
    /\ a \in processed => Handled(a)

IInv ==
  /\ TypeOK /\ JobsMatch /\ AcceptedInv /\ OrderInv /\ StoredInv /\ ConvergeInv /\ AccountInv
=============================================================================
