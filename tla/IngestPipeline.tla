--------------------------- MODULE IngestPipeline ---------------------------
(***************************************************************************)
(* The document pipeline: upload, ingest task, embed task.                 *)
(*                                                                         *)
(* The API process saves the uploaded bytes and queues an ingest job.  A   *)
(* pool of Celery worker processes (acks_late, so a message is removed     *)
(* from the broker only when its task has ended) runs two kinds of job:    *)
(*   ingest  chunk the bytes, replace the asset's chunks, mark the asset   *)
(*           processed, queue the embed job;                               *)
(*   embed   load the chunks, upsert one vector for each, record the       *)
(*           vector count, which is what "embedded" means from then on.    *)
(* Every call that leaves the worker process is a step of its own, since   *)
(* another worker, a failure or a crash can come between any two of them.  *)
(***************************************************************************)
EXTENDS Integers, FiniteSets

CONSTANTS Assets,      \* asset ids (uuid4, one per upload)
          Workers,     \* worker processes of the pool
          NumChunks,   \* chunks the chunker makes of one asset
          MaxRetries,  \* MAX_RETRIES of both tasks
          MaxCrashes,  \* bound on worker losses in a behaviour
          NoJob        \* what an idle worker runs

ASSUME ChunksAssumption  == NumChunks \in Nat \ {0}
ASSUME RetriesAssumption == MaxRetries \in Nat
ASSUME CrashAssumption   == MaxCrashes \in Nat

Message == [task : {"ingest", "embed"}, asset : Assets, retries : 0..MaxRetries]

ASSUME NoJobAssumption == NoJob \notin Message

\* A chunk is its chunk_id: a fresh uuid on every chunking, so the chunking
\* that made it and the position in the document.
Chunk == Nat \X (1..NumChunks)

\* Mutant: positions counted from zero.
GenerationFromZero(g) == {g} \X (0..NumChunks - 1)

Generation(g) == {g} \X (1..NumChunks)

VARIABLES
  upload,        \* upload[a]: how far the upload request has come
  queue,         \* queue[m]: copies of m the broker holds and nobody runs
  job,           \* job[w]: the unacknowledged message w runs
  pc,            \* pc[w]: the call w makes next
  container,     \* container[w]: w has built its DI container
  loaded,        \* loaded[w]: local variable "chunks" of either use case
  todo,          \* todo[w]: members of loaded[w] not yet written
  next_gen,      \* next_gen[a]: chunkings of a so far
  processed,     \* processed_assets collection (idempotency store)
  chunks,        \* chunks collection
  vectors,       \* the tenant's chunk collection of the vector store
  recorded,      \* vector_count of the tenant's _state collection, 0 if none
  failed_tasks,  \* dead letters: pairs <<task, asset>>
  failure,       \* results the backend shows as FAILURE
  error_log,     \* work given up with an error in the log and nothing else
  overlapped,    \* history: two ingests of the asset were writing at once
  torn,          \* history: marked processed by a job that did not hand over
  crashes        \* worker losses so far

apiVars   == <<upload>>
taskVars  == <<job, pc, container>>
localVars == <<loaded, todo, next_gen>>
chunkVars == <<processed, chunks>>
embedVars == <<vectors, recorded>>
faultVars == <<failed_tasks, failure, error_log>>
histVars  == <<overlapped, torn, crashes>>
vars == <<apiVars, queue, taskVars, localVars, chunkVars, embedVars, faultVars, histVars>>

IngestPCs == {"is_processed", "read_bytes", "delete_many", "insert_many", "dispatch_embed"}
EmbedPCs  == {"has_vectors", "find_by_asset", "upsert"}
\* Inside ingest_asset or embed_asset; the task has returned or raised after it.
TaskPCs   == {"start", "handle"} \cup IngestPCs \cup EmbedPCs
PCs       == {"idle", "raise", "ack"} \cup TaskPCs

TypeOK ==
  /\ upload \in [Assets -> {"new", "saved", "accepted", "failed"}]
  /\ queue \in [Message -> Nat]
  /\ job \in [Workers -> Message \cup {NoJob}]
  /\ pc \in [Workers -> PCs]
  /\ container \in [Workers -> BOOLEAN]
  /\ loaded \in [Workers -> SUBSET Chunk]
  /\ todo \in [Workers -> SUBSET Chunk]
  /\ next_gen \in [Assets -> Nat]
  /\ processed \in SUBSET Assets
  /\ chunks \in [Assets -> SUBSET Chunk]
  /\ vectors \in [Assets -> SUBSET Chunk]
  /\ recorded \in [Assets -> Nat]
  /\ failed_tasks \in SUBSET ({"ingest", "embed"} \X Assets)
  /\ failure \in SUBSET ({"ingest", "embed"} \X Assets)
  /\ error_log \in SUBSET ({"ingest", "embed"} \X Assets)
  /\ overlapped \in SUBSET Assets
  /\ torn \in SUBSET Assets
  /\ crashes \in 0..MaxCrashes

Init ==
  /\ upload = [a \in Assets |-> "new"]
  /\ queue = [m \in Message |-> 0]
  /\ job = [w \in Workers |-> NoJob]
  /\ pc = [w \in Workers |-> "idle"]
  /\ container = [w \in Workers |-> FALSE]
  /\ loaded = [w \in Workers |-> {}]
  /\ todo = [w \in Workers |-> {}]
  /\ next_gen = [a \in Assets |-> 0]
  /\ processed = {}
  /\ chunks = [a \in Assets |-> {}]
  /\ vectors = [a \in Assets |-> {}]
  /\ recorded = [a \in Assets |-> 0]
  /\ failed_tasks = {}
  /\ failure = {}
  /\ error_log = {}
  /\ overlapped = {}
  /\ torn = {}
  /\ crashes = 0

------------------------------------------------------------------------------
\* The upload request, in the API process.

First(t, a) == [task |-> t, asset |-> a, retries |-> 0]

Publish(m) == queue' = [queue EXCEPT ![m] = @ + 1]

\* save_bytes; a failure answers HTTP 500.
SaveBytes(a) ==
  /\ upload[a] = "new"
  /\ \E result \in {"saved", "failed"} : upload' = [upload EXCEPT ![a] = result]
  /\ UNCHANGED <<queue, taskVars, localVars, chunkVars, embedVars, faultVars, histVars>>

\* dispatch_ingest; a broker failure answers HTTP 500 and leaves the bytes.
DispatchIngest(a) ==
  /\ upload[a] = "saved"
  /\ \/ /\ upload' = [upload EXCEPT ![a] = "accepted"]
        /\ Publish(First("ingest", a))
     \/ /\ upload' = [upload EXCEPT ![a] = "failed"]
        /\ UNCHANGED queue
  /\ UNCHANGED <<taskVars, localVars, chunkVars, embedVars, faultVars, histVars>>

------------------------------------------------------------------------------
\* A worker process.

Goto(w, label) == pc' = [pc EXCEPT ![w] = label]

\* The broker hands a message to an idle worker (prefetch multiplier 1).
Take(w) ==
  /\ pc[w] = "idle"
  /\ \E m \in Message :
       /\ queue[m] > 0
       /\ queue' = [queue EXCEPT ![m] = @ - 1]
       /\ job' = [job EXCEPT ![w] = m]
  /\ Goto(w, "start")
  /\ UNCHANGED <<apiVars, container, localVars, chunkVars, embedVars, faultVars, histVars>>

\* get_worker_container is called before the try block: when the stores do not
\* answer the first task of a process, the exception leaves the task.
GetContainer(w) ==
  /\ pc[w] = "start"
  /\ \/ /\ container' = [container EXCEPT ![w] = TRUE]
        /\ Goto(w, IF job[w].task = "ingest" THEN "is_processed" ELSE "has_vectors")
     \/ /\ ~container[w]
        /\ Goto(w, "raise")
        /\ UNCHANGED container
  /\ UNCHANGED <<apiVars, queue, job, localVars, chunkVars, embedVars, faultVars, histVars>>

\* Workers between the idempotency check and the mark, for asset a.
Writing(a) ==
  {w \in Workers : pc[w] \in {"read_bytes", "delete_many", "insert_many"} /\ job[w].asset = a}

\* Mutant: the idempotency store is not consulted.
IsProcessedIgnored(w) ==
  /\ pc[w] = "is_processed"
  /\ Goto(w, "read_bytes")
  /\ overlapped' = overlapped \cup (IF Writing(job[w].asset) = {} THEN {} ELSE {job[w].asset})
  /\ UNCHANGED <<apiVars, queue, job, container, localVars, chunkVars, embedVars, faultVars,
                 torn, crashes>>

IsProcessed(w) ==
  LET a == job[w].asset IN
  /\ pc[w] = "is_processed"
  /\ IF a \in processed
       THEN Goto(w, "ack") /\ UNCHANGED overlapped
       ELSE /\ Goto(w, "read_bytes")
            /\ overlapped' = overlapped \cup (IF Writing(a) = {} THEN {} ELSE {a})
  /\ UNCHANGED <<apiVars, queue, job, container, localVars, chunkVars, embedVars, faultVars,
                 torn, crashes>>

\* read_bytes and the chunker, which names every chunk afresh.
ReadAndChunk(w) ==
  LET a == job[w].asset IN
  /\ pc[w] = "read_bytes"
  /\ next_gen' = [next_gen EXCEPT ![a] = @ + 1]
  /\ loaded' = [loaded EXCEPT ![w] = Generation(next_gen[a])]
  /\ todo' = [todo EXCEPT ![w] = Generation(next_gen[a])]
  /\ Goto(w, "delete_many")
  /\ UNCHANGED <<apiVars, queue, job, container, chunkVars, embedVars, faultVars, histVars>>

\* Mutant: save_chunks adds to what an earlier attempt left.
DeleteNothing(w) ==
  /\ pc[w] = "delete_many"
  /\ Goto(w, "insert_many")
  /\ UNCHANGED <<apiVars, queue, job, container, localVars, chunkVars, embedVars, faultVars,
                 histVars>>

DeleteMany(w) ==
  /\ pc[w] = "delete_many"
  /\ chunks' = [chunks EXCEPT ![job[w].asset] = {}]
  /\ Goto(w, "insert_many")
  /\ UNCHANGED <<apiVars, queue, job, container, localVars, processed, embedVars, faultVars,
                 histVars>>

\* The documents of one insert_many, or the iterations of the embed loop, are
\* taken in the order of the document.
IsNext(c, w) == c \in todo[w] /\ \A d \in todo[w] : c[2] <= d[2]

InsertOne(w) ==
  LET a == job[w].asset IN
  /\ pc[w] = "insert_many"
  /\ \E c \in todo[w] :
       /\ IsNext(c, w)
       /\ chunks' = [chunks EXCEPT ![a] = @ \cup {c}]
       /\ todo' = [todo EXCEPT ![w] = @ \ {c}]
  /\ UNCHANGED <<apiVars, queue, taskVars, loaded, next_gen, processed, embedVars, faultVars,
                 histVars>>

\* Mutant: the embed job is queued without the asset being marked.
HandOverUnmarked(w) ==
  /\ pc[w] = "insert_many"
  /\ todo[w] = {}
  /\ Goto(w, "dispatch_embed")
  /\ UNCHANGED <<apiVars, queue, job, container, localVars, chunkVars, embedVars, faultVars,
                 histVars>>

\* The upsert of the success record may take effect and still raise.
MarkProcessed(w) ==
  LET a == job[w].asset IN
  /\ pc[w] = "insert_many"
  /\ todo[w] = {}
  /\ processed' = processed \cup {a}
  /\ \/ Goto(w, "dispatch_embed") /\ UNCHANGED torn
     \/ Goto(w, "handle") /\ torn' = torn \cup {a}
  /\ UNCHANGED <<apiVars, queue, job, container, localVars, chunks, embedVars, faultVars,
                 overlapped, crashes>>

\* Mutant: the failure to queue the embed job is not logged.
DispatchEmbedSilently(w) ==
  LET a == job[w].asset IN
  /\ pc[w] = "dispatch_embed"
  /\ Publish(First("embed", a)) \/ UNCHANGED queue
  /\ Goto(w, "ack")
  /\ UNCHANGED <<apiVars, job, container, localVars, chunkVars, embedVars, faultVars, histVars>>

\* _dispatch_embed swallows every failure: the task still returns success.
DispatchEmbed(w) ==
  LET a == job[w].asset IN
  /\ pc[w] = "dispatch_embed"
  /\ \/ Publish(First("embed", a)) /\ UNCHANGED error_log
     \/ error_log' = error_log \cup {<<"embed", a>>} /\ UNCHANGED queue
  /\ Goto(w, "ack")
  /\ UNCHANGED <<apiVars, job, container, localVars, chunkVars, embedVars, failed_tasks, failure,
                 histVars>>

HasVectors(w) ==
  /\ pc[w] = "has_vectors"
  /\ Goto(w, IF recorded[job[w].asset] > 0 THEN "ack" ELSE "find_by_asset")
  /\ UNCHANGED <<apiVars, queue, job, container, localVars, chunkVars, embedVars, faultVars,
                 histVars>>

FindByAsset(w) ==
  LET a == job[w].asset IN
  /\ pc[w] = "find_by_asset"
  /\ loaded' = [loaded EXCEPT ![w] = chunks[a]]
  /\ todo' = [todo EXCEPT ![w] = chunks[a]]
  /\ Goto(w, "upsert")
  /\ UNCHANGED <<apiVars, queue, job, container, next_gen, chunkVars, embedVars, faultVars,
                 histVars>>

\* One iteration: embed the chunk's text and upsert its vector by chunk_id.
UpsertOne(w) ==
  LET a == job[w].asset IN
  /\ pc[w] = "upsert"
  /\ \E c \in todo[w] :
       /\ IsNext(c, w)
       /\ vectors' = [vectors EXCEPT ![a] = @ \cup {c}]
       /\ todo' = [todo EXCEPT ![w] = @ \ {c}]
  /\ UNCHANGED <<apiVars, queue, taskVars, loaded, next_gen, chunkVars, recorded, faultVars,
                 histVars>>

\* Mutant: the count is recorded while chunks are still to be embedded.
SaveVectorsEarly(w) ==
  /\ pc[w] = "upsert"
  /\ recorded' = [recorded EXCEPT ![job[w].asset] = Cardinality(loaded[w])]
  /\ \E label \in {"ack", "handle"} : Goto(w, label)
  /\ UNCHANGED <<apiVars, queue, job, container, localVars, chunkVars, vectors, faultVars,
                 histVars>>

SaveVectors(w) ==
  /\ pc[w] = "upsert"
  /\ todo[w] = {}
  /\ recorded' = [recorded EXCEPT ![job[w].asset] = Cardinality(loaded[w])]
  /\ \E label \in {"ack", "handle"} : Goto(w, label)
  /\ UNCHANGED <<apiVars, queue, job, container, localVars, chunkVars, vectors, faultVars,
                 histVars>>

------------------------------------------------------------------------------
\* What ends a job: an exception, its retry or dead letter, the time limit, the
\* acknowledgement, the loss of the process.

\* A call of the use case raises without effect.
Raise(w) ==
  /\ pc[w] \in (IngestPCs \ {"dispatch_embed"}) \cup EmbedPCs
  /\ Goto(w, "handle")
  /\ UNCHANGED <<apiVars, queue, job, container, localVars, chunkVars, embedVars, faultVars,
                 histVars>>

\* Mutant: the next attempt does not count its predecessors.
RetryForever(w) ==
  /\ pc[w] = "handle"
  /\ job[w].retries < MaxRetries
  /\ Publish(job[w])
  /\ Goto(w, "ack")
  /\ UNCHANGED <<apiVars, job, container, localVars, chunkVars, embedVars, faultVars, histVars>>

\* self.retry publishes the next attempt; when that fails too, Celery rejects
\* the message without requeueing it.
Retry(w) ==
  LET m == job[w] IN
  /\ pc[w] = "handle"
  /\ m.retries < MaxRetries
  /\ \/ Publish([m EXCEPT !.retries = @ + 1]) /\ UNCHANGED error_log
     \/ error_log' = error_log \cup {<<m.task, m.asset>>} /\ UNCHANGED queue
  /\ Goto(w, "ack")
  /\ UNCHANGED <<apiVars, job, container, localVars, chunkVars, embedVars, failed_tasks, failure,
                 histVars>>

\* _write_dead_letter: the Mongo repository logs a failed save and goes on.
DeadLetter(w) ==
  LET m == job[w] IN
  /\ pc[w] = "handle"
  /\ m.retries >= MaxRetries
  /\ \/ failed_tasks' = failed_tasks \cup {<<m.task, m.asset>>} /\ UNCHANGED error_log
     \/ error_log' = error_log \cup {<<m.task, m.asset>>} /\ UNCHANGED failed_tasks
  /\ Goto(w, "raise")
  /\ UNCHANGED <<apiVars, queue, job, container, localVars, chunkVars, embedVars, failure,
                 histVars>>

\* The asset w has marked processed and not yet handed over, if there is one.
Unhanded(w) == IF pc[w] = "dispatch_embed" THEN {job[w].asset} ELSE {}

\* The soft limit raises RuntimeError out of the task, the hard limit kills the
\* process (and its container with it); Celery records FAILURE for both.
TimeLimit(w) ==
  /\ pc[w] \in TaskPCs
  /\ Goto(w, "raise")
  /\ \E alive \in {container[w], FALSE} : container' = [container EXCEPT ![w] = alive]
  /\ torn' = torn \cup Unhanded(w)
  /\ UNCHANGED <<apiVars, queue, job, localVars, chunkVars, embedVars, faultVars, overlapped,
                 crashes>>

\* Celery stores FAILURE for the exception that left the task.
MarkFailure(w) ==
  /\ pc[w] = "raise"
  /\ failure' = failure \cup {<<job[w].task, job[w].asset>>}
  /\ Goto(w, "ack")
  /\ UNCHANGED <<apiVars, queue, job, container, localVars, chunkVars, embedVars, failed_tasks,
                 error_log, histVars>>

Ack(w) ==
  /\ pc[w] = "ack"
  /\ job' = [job EXCEPT ![w] = NoJob]
  /\ Goto(w, "idle")
  /\ loaded' = [loaded EXCEPT ![w] = {}]
  /\ todo' = [todo EXCEPT ![w] = {}]
  /\ UNCHANGED <<apiVars, queue, container, next_gen, chunkVars, embedVars, faultVars, histVars>>

\* The process dies and the broker redelivers its unacknowledged message.
Crash(w) ==
  /\ pc[w] # "idle"
  /\ crashes < MaxCrashes
  /\ crashes' = crashes + 1
  /\ Publish(job[w])
  /\ job' = [job EXCEPT ![w] = NoJob]
  /\ Goto(w, "idle")
  /\ container' = [container EXCEPT ![w] = FALSE]
  /\ loaded' = [loaded EXCEPT ![w] = {}]
  /\ todo' = [todo EXCEPT ![w] = {}]
  /\ torn' = torn \cup Unhanded(w)
  /\ UNCHANGED <<apiVars, next_gen, chunkVars, embedVars, faultVars, overlapped>>

------------------------------------------------------------------------------

IngestStep(w) ==
  \/ IsProcessed(w) \/ ReadAndChunk(w) \/ DeleteMany(w) \/ InsertOne(w)
  \/ MarkProcessed(w) \/ DispatchEmbed(w)

EmbedStep(w) == HasVectors(w) \/ FindByAsset(w) \/ UpsertOne(w) \/ SaveVectors(w)

\* What the process does by itself.
WorkerStep(w) ==
  \/ Take(w) \/ GetContainer(w) \/ IngestStep(w) \/ EmbedStep(w)
  \/ Raise(w) \/ Retry(w) \/ DeadLetter(w) \/ MarkFailure(w) \/ Ack(w)

Next ==
  \/ \E a \in Assets : SaveBytes(a) \/ DispatchIngest(a)
  \/ \E w \in Workers : WorkerStep(w) \/ TimeLimit(w) \/ Crash(w)

Spec == Init /\ [][Next]_vars

\* time_limit=300 ends every call that hangs, so a busy worker always takes a
\* next step; an idle worker takes a message when the broker holds one.
FairSpec == Spec /\ \A w \in Workers : WF_vars(WorkerStep(w) \/ TimeLimit(w))

------------------------------------------------------------------------------
\* Properties.

Running(w, t, a) == job[w] # NoJob /\ job[w].task = t /\ job[w].asset = a

\* The broker or a worker holds a job of kind t for asset a.
InFlight(t, a) ==
  \/ \E m \in Message : m.task = t /\ m.asset = a /\ queue[m] > 0
  \/ \E w \in Workers : Running(w, t, a)

Quiet(a) == ~InFlight("ingest", a) /\ ~InFlight("embed", a)

\* An asset has embed jobs, vectors or a vector count only once its ingest has
\* marked it processed: the order of the two halves (ingest_task.py).
EmbedOnlyAfterProcessed ==
  \A a \in Assets :
    InFlight("embed", a) \/ vectors[a] # {} \/ recorded[a] > 0 => a \in processed

\* The recorded vector count never exceeds what the vector store holds: it is
\* written "only after the last chunk lands" (save_vectors), whichever jobs,
\* retries and redeliveries of the asset run at the same time.
FinishedMeansStored ==
  \A a \in Assets : recorded[a] <= Cardinality(vectors[a])

\* Retries, redeliveries and duplicate embeds converge: unless two ingests of
\* the asset were writing at once, a processed asset has exactly the chunks of
\* one chunking, its vectors are of those chunks only, and a recorded count
\* means that every chunk has its vector.
ReplayConverges ==
  \A a \in processed \ overlapped :
    /\ \E g \in 0..next_gen[a] - 1 : chunks[a] = Generation(g)
    /\ vectors[a] \subseteq chunks[a]
    /\ recorded[a] > 0 => vectors[a] = chunks[a] /\ recorded[a] = Cardinality(chunks[a])

\* An accepted upload that nobody works on any more is searchable, or FAILURE
\* or an error in the log says why not. The exceptions are an asset marked
\* processed by a job that did not live to hand it over, and overlapping ingests.
NothingLostSilently ==
  \A a \in Assets :
    upload[a] = "accepted" /\ Quiet(a) =>
      \/ recorded[a] > 0
      \/ \E t \in {"ingest", "embed"} : <<t, a>> \in failure \cup error_log
      \/ a \in torn \cup overlapped

\* Chunks an embed job may be reading are not rewritten: once an asset is
\* processed its chunks stay as they are, unless two ingests overlap.
ChunksStayOnceProcessed ==
  [][\A a \in processed \ overlapped : a \in processed' /\ (a \notin overlapped' => chunks'[a] = chunks[a])]_vars

\* Every accepted upload comes to rest: retries, redeliveries and duplicates of
\* its jobs come to an end.
EveryUploadSettles == \A a \in Assets : upload[a] = "accepted" ~> Quiet(a)

\* The pipeline implements AssetLifecycle: an accepted asset is worked on while
\* a job of it is in flight, and its visible pieces are its vectors.
Stage(a) ==
  IF upload[a] # "accepted" THEN "absent" ELSE IF Quiet(a) THEN "settled" ELSE "working"

Lifecycle == INSTANCE AssetLifecycle
  WITH ingested <- processed, visible <- vectors,
       stage <- [a \in Assets |-> Stage(a)]

\* Every step of broker, workers and stores is a step of the lifecycle or
\* invisible to it: work on a settled asset never resumes, no vector appears
\* before the mark and none goes away.
ImplementsLifecycle == Lifecycle!Spec
==============================================================================
