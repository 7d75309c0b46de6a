------------------------ MODULE IngestPipelineProofs ------------------------
(***************************************************************************)
(* The invariant of IngestInvariants is inductive, for every set of assets *)
(* and workers, every number of chunks and every retry budget, so the      *)
(* safety properties of IngestPipeline hold of every behaviour.            *)
(***************************************************************************)
EXTENDS IngestInvariants, FiniteSetTheorems, TLAPS

USE DEF apiVars, taskVars, localVars, chunkVars, embedVars, faultVars, histVars

LEMMA MessageFields ==
  ASSUME NEW m \in Message
  PROVE  /\ m.task \in {"ingest", "embed"}
         /\ m.asset \in Assets
         /\ m.retries \in 0..MaxRetries
BY DEF Message

LEMMA FirstIsMessage ==
  ASSUME NEW t \in {"ingest", "embed"}, NEW a \in Assets
  PROVE  /\ First(t, a) \in Message
         /\ First(t, a).task = t
         /\ First(t, a).asset = a
BY RetriesAssumption DEF First, Message

LEMMA NextAttemptIsMessage ==
  ASSUME NEW m \in Message, m.retries < MaxRetries
  PROVE  /\ [m EXCEPT !.retries = @ + 1] \in Message
         /\ [m EXCEPT !.retries = @ + 1].task = m.task
         /\ [m EXCEPT !.retries = @ + 1].asset = m.asset
BY RetriesAssumption DEF Message

LEMMA BusyRunsMessage ==
  ASSUME TypeOK, JobsMatch, NEW w \in Workers, pc[w] # "idle"
  PROVE  job[w] \in Message
BY DEF TypeOK, JobsMatch

LEMMA GenerationIsChunks ==
  ASSUME NEW g \in Nat
  PROVE  Generation(g) \subseteq Chunk
BY DEF Generation, Chunk

LEMMA PublishType ==
  ASSUME queue \in [Message -> Nat], NEW m \in Message, Publish(m)
  PROVE  queue' \in [Message -> Nat]
BY DEF Publish

\* Every variable keeps its type.
LEMMA TypeInductive ==
  TypeOK /\ JobsMatch /\ StoredInv /\ [Next]_vars => TypeOK'
<1> SUFFICES ASSUME TypeOK, JobsMatch, StoredInv, [Next]_vars PROVE TypeOK'
  OBVIOUS
<1> USE RetriesAssumption, ChunksAssumption, CrashAssumption
<1>1. ASSUME NEW a \in Assets, SaveBytes(a) PROVE TypeOK'
  BY <1>1 DEF TypeOK, SaveBytes
<1>2. ASSUME NEW a \in Assets, DispatchIngest(a) PROVE TypeOK'
  <2>1. queue' \in [Message -> Nat]
    BY <1>2, FirstIsMessage, PublishType DEF TypeOK, DispatchIngest
  <2> QED
    BY <1>2, <2>1 DEF TypeOK, DispatchIngest
<1>3. ASSUME NEW w \in Workers, Take(w) PROVE TypeOK'
  <2>1. PICK m \in Message : /\ queue[m] > 0
                             /\ queue' = [queue EXCEPT ![m] = @ - 1]
                             /\ job' = [job EXCEPT ![w] = m]
    BY <1>3 DEF Take
  <2>2. queue' \in [Message -> Nat] /\ job' \in [Workers -> Message \cup {NoJob}]
    BY <2>1 DEF TypeOK
  <2> QED
    BY <1>3, <2>2 DEF TypeOK, Take, Goto, PCs, TaskPCs
<1>4. ASSUME NEW w \in Workers, GetContainer(w) PROVE TypeOK'
  BY <1>4 DEF TypeOK, GetContainer, Goto, PCs, TaskPCs, IngestPCs, EmbedPCs
<1>5. ASSUME NEW w \in Workers, IsProcessed(w) PROVE TypeOK'
  <2>1. job[w].asset \in Assets
    BY <1>5, BusyRunsMessage, MessageFields DEF IsProcessed
  <2> QED
    BY <1>5, <2>1 DEF TypeOK, IsProcessed, Goto, PCs, TaskPCs, IngestPCs
<1>6. ASSUME NEW w \in Workers, ReadAndChunk(w) PROVE TypeOK'
  <2>1. job[w].asset \in Assets
    BY <1>6, BusyRunsMessage, MessageFields DEF ReadAndChunk
  <2>2. Generation(next_gen[job[w].asset]) \subseteq Chunk
    BY <2>1, GenerationIsChunks DEF TypeOK
  <2> QED
    BY <1>6, <2>1, <2>2 DEF TypeOK, ReadAndChunk, Goto, PCs, TaskPCs, IngestPCs
<1>7. ASSUME NEW w \in Workers, DeleteMany(w) PROVE TypeOK'
  BY <1>7 DEF TypeOK, DeleteMany, Goto, PCs, TaskPCs, IngestPCs
<1>8. ASSUME NEW w \in Workers, InsertOne(w) PROVE TypeOK'
  <2>1. PICK c \in todo[w] : /\ chunks' = [chunks EXCEPT ![job[w].asset] = @ \cup {c}]
                             /\ todo' = [todo EXCEPT ![w] = @ \ {c}]
    BY <1>8 DEF InsertOne
  <2>2. c \in Chunk
    BY <2>1 DEF TypeOK
  <2>3. chunks' \in [Assets -> SUBSET Chunk] /\ todo' \in [Workers -> SUBSET Chunk]
    BY <2>1, <2>2 DEF TypeOK
  <2>4. UNCHANGED <<apiVars, queue, taskVars, loaded, next_gen, processed, embedVars, faultVars, histVars>>
    BY <1>8 DEF InsertOne
  <2> QED
    BY <2>3, <2>4 DEF TypeOK, apiVars, taskVars, embedVars, faultVars, histVars
<1>9. ASSUME NEW w \in Workers, MarkProcessed(w) PROVE TypeOK'
  <2>1. job[w].asset \in Assets
    BY <1>9, BusyRunsMessage, MessageFields DEF MarkProcessed
  <2> QED
    BY <1>9, <2>1 DEF TypeOK, MarkProcessed, Goto, PCs, TaskPCs, IngestPCs
<1>10. ASSUME NEW w \in Workers, DispatchEmbed(w) PROVE TypeOK'
  <2>1. job[w].asset \in Assets
    BY <1>10, BusyRunsMessage, MessageFields DEF DispatchEmbed
  <2>2. queue' \in [Message -> Nat]
    BY <1>10, <2>1, FirstIsMessage, PublishType DEF TypeOK, DispatchEmbed
  <2> QED
    BY <1>10, <2>1, <2>2 DEF TypeOK, DispatchEmbed, Goto, PCs, TaskPCs
<1>11. ASSUME NEW w \in Workers, HasVectors(w) PROVE TypeOK'
  BY <1>11 DEF TypeOK, HasVectors, Goto, PCs, TaskPCs, EmbedPCs
<1>12. ASSUME NEW w \in Workers, FindByAsset(w) PROVE TypeOK'
  <2>1. job[w].asset \in Assets
    BY <1>12, BusyRunsMessage, MessageFields DEF FindByAsset
  <2> QED
    BY <1>12, <2>1 DEF TypeOK, FindByAsset, Goto, PCs, TaskPCs, EmbedPCs
<1>13. ASSUME NEW w \in Workers, UpsertOne(w) PROVE TypeOK'
  <2>1. PICK c \in todo[w] : /\ vectors' = [vectors EXCEPT ![job[w].asset] = @ \cup {c}]
                             /\ todo' = [todo EXCEPT ![w] = @ \ {c}]
    BY <1>13 DEF UpsertOne
  <2>2. c \in Chunk
    BY <2>1 DEF TypeOK
  <2>3. vectors' \in [Assets -> SUBSET Chunk] /\ todo' \in [Workers -> SUBSET Chunk]
    BY <2>1, <2>2 DEF TypeOK
  <2>4. UNCHANGED <<apiVars, queue, taskVars, loaded, next_gen, chunkVars, recorded, faultVars, histVars>>
    BY <1>13 DEF UpsertOne
  <2> QED
    BY <2>3, <2>4 DEF TypeOK, apiVars, taskVars, chunkVars, faultVars, histVars
<1>14. ASSUME NEW w \in Workers, SaveVectors(w) PROVE TypeOK'
  <2>1. Cardinality(loaded[w]) \in Nat
    BY FS_CardinalityType DEF StoredInv
  <2> QED
    BY <1>14, <2>1 DEF TypeOK, SaveVectors, Goto, PCs, TaskPCs
<1>15. ASSUME NEW w \in Workers, Raise(w) PROVE TypeOK'
  BY <1>15 DEF TypeOK, Raise, Goto, PCs, TaskPCs
<1>16. ASSUME NEW w \in Workers, Retry(w) PROVE TypeOK'
  <2>1. job[w] \in Message /\ job[w].asset \in Assets /\ job[w].task \in {"ingest", "embed"}
    BY <1>16, BusyRunsMessage, MessageFields DEF Retry
  <2>2. queue' \in [Message -> Nat]
    BY <1>16, <2>1, NextAttemptIsMessage, PublishType DEF TypeOK, Retry
  <2> QED
    BY <1>16, <2>1, <2>2 DEF TypeOK, Retry, Goto, PCs
<1>17. ASSUME NEW w \in Workers, DeadLetter(w) PROVE TypeOK'
  <2>1. job[w].asset \in Assets /\ job[w].task \in {"ingest", "embed"}
    BY <1>17, BusyRunsMessage, MessageFields DEF DeadLetter
  <2> QED
    BY <1>17, <2>1 DEF TypeOK, DeadLetter, Goto, PCs
<1>18. ASSUME NEW w \in Workers, TimeLimit(w) PROVE TypeOK'
  <2>1. job[w].asset \in Assets
    BY <1>18, BusyRunsMessage, MessageFields DEF TimeLimit, TaskPCs, IngestPCs, EmbedPCs
  <2> QED
    BY <1>18, <2>1 DEF TypeOK, TimeLimit, Unhanded, Goto, PCs
<1>19. ASSUME NEW w \in Workers, MarkFailure(w) PROVE TypeOK'
  <2>1. job[w].asset \in Assets /\ job[w].task \in {"ingest", "embed"}
    BY <1>19, BusyRunsMessage, MessageFields DEF MarkFailure
  <2> QED
    BY <1>19, <2>1 DEF TypeOK, MarkFailure, Goto, PCs
<1>20. ASSUME NEW w \in Workers, Ack(w) PROVE TypeOK'
  BY <1>20 DEF TypeOK, Ack, Goto, PCs
<1>21. ASSUME NEW w \in Workers, Crash(w) PROVE TypeOK'
  <2>1. job[w] \in Message /\ job[w].asset \in Assets
    BY <1>21, BusyRunsMessage, MessageFields DEF Crash
  <2>2. queue' \in [Message -> Nat]
    BY <1>21, <2>1, PublishType DEF TypeOK, Crash
  <2> QED
    BY <1>21, <2>1, <2>2 DEF TypeOK, Crash, Unhanded, Goto, PCs
<1>22. CASE UNCHANGED vars
  BY <1>22 DEF TypeOK, vars
<1> QED
  BY <1>1, <1>2, <1>3, <1>4, <1>5, <1>6, <1>7, <1>8, <1>9, <1>10, <1>11, <1>12, <1>13,
     <1>14, <1>15, <1>16, <1>17, <1>18, <1>19, <1>20, <1>21, <1>22
     DEF Next, WorkerStep, IngestStep, EmbedStep


\* Jobs and program counters stay matched.
LEMMA JobsMatchInductive ==
  TypeOK /\ JobsMatch /\ [Next]_vars => JobsMatch'
<1> SUFFICES ASSUME TypeOK, JobsMatch, [Next]_vars PROVE JobsMatch'
  OBVIOUS
<1>1. ASSUME NEW a \in Assets, SaveBytes(a) PROVE JobsMatch'
  BY <1>1 DEF TypeOK, JobsMatch, IngestPCs, EmbedPCs, SaveBytes
<1>2. ASSUME NEW a \in Assets, DispatchIngest(a) PROVE JobsMatch'
  BY <1>2 DEF TypeOK, JobsMatch, IngestPCs, EmbedPCs, DispatchIngest
<1>3. ASSUME NEW w \in Workers, Take(w) PROVE JobsMatch'
  <2>1. PICK m \in Message : job' = [job EXCEPT ![w] = m]
    BY <1>3 DEF Take
  <2> QED
    BY <1>3, <2>1, NoJobAssumption DEF TypeOK, JobsMatch, IngestPCs, EmbedPCs, Take, Goto
<1>4. ASSUME NEW w \in Workers, GetContainer(w) PROVE JobsMatch'
  <2>1. job[w] \in Message /\ job[w].task \in {"ingest", "embed"}
    BY <1>4, BusyRunsMessage, MessageFields DEF GetContainer
  <2> QED
    BY <1>4, <2>1 DEF TypeOK, JobsMatch, IngestPCs, EmbedPCs, GetContainer, Goto
<1>5. ASSUME NEW w \in Workers, IsProcessed(w) PROVE JobsMatch'
  BY <1>5 DEF TypeOK, JobsMatch, IngestPCs, EmbedPCs, IsProcessed, Goto
<1>6. ASSUME NEW w \in Workers, ReadAndChunk(w) PROVE JobsMatch'
  BY <1>6 DEF TypeOK, JobsMatch, IngestPCs, EmbedPCs, ReadAndChunk, Goto
<1>7. ASSUME NEW w \in Workers, DeleteMany(w) PROVE JobsMatch'
  BY <1>7 DEF TypeOK, JobsMatch, IngestPCs, EmbedPCs, DeleteMany, Goto
<1>8. ASSUME NEW w \in Workers, InsertOne(w) PROVE JobsMatch'
  BY <1>8 DEF TypeOK, JobsMatch, IngestPCs, EmbedPCs, InsertOne, Goto
<1>9. ASSUME NEW w \in Workers, MarkProcessed(w) PROVE JobsMatch'
  BY <1>9 DEF TypeOK, JobsMatch, IngestPCs, EmbedPCs, MarkProcessed, Goto
<1>10. ASSUME NEW w \in Workers, DispatchEmbed(w) PROVE JobsMatch'
  BY <1>10 DEF TypeOK, JobsMatch, IngestPCs, EmbedPCs, DispatchEmbed, Goto
<1>11. ASSUME NEW w \in Workers, HasVectors(w) PROVE JobsMatch'
  BY <1>11 DEF TypeOK, JobsMatch, IngestPCs, EmbedPCs, HasVectors, Goto
<1>12. ASSUME NEW w \in Workers, FindByAsset(w) PROVE JobsMatch'
  BY <1>12 DEF TypeOK, JobsMatch, IngestPCs, EmbedPCs, FindByAsset, Goto
<1>13. ASSUME NEW w \in Workers, UpsertOne(w) PROVE JobsMatch'
  BY <1>13 DEF TypeOK, JobsMatch, IngestPCs, EmbedPCs, UpsertOne, Goto
<1>14. ASSUME NEW w \in Workers, SaveVectors(w) PROVE JobsMatch'
  BY <1>14 DEF TypeOK, JobsMatch, IngestPCs, EmbedPCs, SaveVectors, Goto
<1>15. ASSUME NEW w \in Workers, Raise(w) PROVE JobsMatch'
  BY <1>15 DEF TypeOK, JobsMatch, IngestPCs, EmbedPCs, Raise, Goto
<1>16. ASSUME NEW w \in Workers, Retry(w) PROVE JobsMatch'
  BY <1>16 DEF TypeOK, JobsMatch, IngestPCs, EmbedPCs, Retry, Goto
<1>17. ASSUME NEW w \in Workers, DeadLetter(w) PROVE JobsMatch'
  BY <1>17 DEF TypeOK, JobsMatch, IngestPCs, EmbedPCs, DeadLetter, Goto
<1>18. ASSUME NEW w \in Workers, TimeLimit(w) PROVE JobsMatch'
  BY <1>18 DEF TypeOK, JobsMatch, IngestPCs, EmbedPCs, TaskPCs, TimeLimit, Goto
<1>19. ASSUME NEW w \in Workers, MarkFailure(w) PROVE JobsMatch'
  BY <1>19 DEF TypeOK, JobsMatch, IngestPCs, EmbedPCs, MarkFailure, Goto
<1>20. ASSUME NEW w \in Workers, Ack(w) PROVE JobsMatch'
  BY <1>20 DEF TypeOK, JobsMatch, IngestPCs, EmbedPCs, Ack, Goto
<1>21. ASSUME NEW w \in Workers, Crash(w) PROVE JobsMatch'
  BY <1>21 DEF TypeOK, JobsMatch, IngestPCs, EmbedPCs, Crash, Goto
<1>22. CASE UNCHANGED vars
  BY <1>22 DEF TypeOK, JobsMatch, IngestPCs, EmbedPCs, vars
<1> QED
  BY <1>1, <1>2, <1>3, <1>4, <1>5, <1>6, <1>7, <1>8, <1>9, <1>10, <1>11, <1>12, <1>13,
     <1>14, <1>15, <1>16, <1>17, <1>18, <1>19, <1>20, <1>21, <1>22
     DEF Next, WorkerStep, IngestStep, EmbedStep


\* No embed job, vector or vector count without the mark.
LEMMA OrderInductive ==
  TypeOK /\ JobsMatch /\ OrderInv /\ [Next]_vars => OrderInv'
<1> SUFFICES ASSUME TypeOK, JobsMatch, OrderInv, [Next]_vars PROVE OrderInv'
  OBVIOUS
<1>1. ASSUME NEW a \in Assets, SaveBytes(a) PROVE OrderInv'
  BY <1>1 DEF TypeOK, JobsMatch, OrderInv, IngestPCs, EmbedPCs, SaveBytes
<1>2. ASSUME NEW a \in Assets, DispatchIngest(a) PROVE OrderInv'
  <2>1. First("ingest", a) \in Message /\ First("ingest", a).task = "ingest"
    BY FirstIsMessage
  <2> QED
    BY <1>2, <2>1 DEF TypeOK, OrderInv, DispatchIngest, Publish
<1>3. ASSUME NEW w \in Workers, Take(w) PROVE OrderInv'
  <2>1. PICK m \in Message : /\ queue[m] > 0
                             /\ queue' = [queue EXCEPT ![m] = @ - 1]
                             /\ job' = [job EXCEPT ![w] = m]
    BY <1>3 DEF Take
  <2>2. \A n \in Message : queue'[n] > 0 => queue[n] > 0
    BY <2>1 DEF TypeOK
  <2> QED
    BY <1>3, <2>1, <2>2 DEF TypeOK, OrderInv, Take, Goto
<1>4. ASSUME NEW w \in Workers, GetContainer(w) PROVE OrderInv'
  BY <1>4 DEF TypeOK, JobsMatch, OrderInv, IngestPCs, EmbedPCs, GetContainer, Goto
<1>5. ASSUME NEW w \in Workers, IsProcessed(w) PROVE OrderInv'
  BY <1>5 DEF TypeOK, JobsMatch, OrderInv, IngestPCs, EmbedPCs, IsProcessed, Goto
<1>6. ASSUME NEW w \in Workers, ReadAndChunk(w) PROVE OrderInv'
  BY <1>6 DEF TypeOK, JobsMatch, OrderInv, IngestPCs, EmbedPCs, ReadAndChunk, Goto
<1>7. ASSUME NEW w \in Workers, DeleteMany(w) PROVE OrderInv'
  BY <1>7 DEF TypeOK, JobsMatch, OrderInv, IngestPCs, EmbedPCs, DeleteMany, Goto
<1>8. ASSUME NEW w \in Workers, InsertOne(w) PROVE OrderInv'
  BY <1>8 DEF TypeOK, JobsMatch, OrderInv, IngestPCs, EmbedPCs, InsertOne, Goto
<1>9. ASSUME NEW w \in Workers, MarkProcessed(w) PROVE OrderInv'
  BY <1>9 DEF TypeOK, JobsMatch, OrderInv, IngestPCs, EmbedPCs, MarkProcessed, Goto
<1>10. ASSUME NEW w \in Workers, DispatchEmbed(w) PROVE OrderInv'
  <2>1. job[w].asset \in Assets /\ job[w].asset \in processed
    BY <1>10, BusyRunsMessage, MessageFields DEF OrderInv, DispatchEmbed
  <2>2. First("embed", job[w].asset) \in Message /\ First("embed", job[w].asset).asset = job[w].asset
    BY <2>1, FirstIsMessage
  <2> QED
    BY <1>10, <2>1, <2>2 DEF TypeOK, OrderInv, DispatchEmbed, Publish, Goto
<1>11. ASSUME NEW w \in Workers, HasVectors(w) PROVE OrderInv'
  BY <1>11 DEF TypeOK, JobsMatch, OrderInv, IngestPCs, EmbedPCs, HasVectors, Goto
<1>12. ASSUME NEW w \in Workers, FindByAsset(w) PROVE OrderInv'
  BY <1>12 DEF TypeOK, JobsMatch, OrderInv, IngestPCs, EmbedPCs, FindByAsset, Goto
<1>13. ASSUME NEW w \in Workers, UpsertOne(w) PROVE OrderInv'
  BY <1>13 DEF TypeOK, JobsMatch, OrderInv, IngestPCs, EmbedPCs, UpsertOne, Goto
<1>14. ASSUME NEW w \in Workers, SaveVectors(w) PROVE OrderInv'
  BY <1>14 DEF TypeOK, JobsMatch, OrderInv, IngestPCs, EmbedPCs, SaveVectors, Goto
<1>15. ASSUME NEW w \in Workers, Raise(w) PROVE OrderInv'
  BY <1>15 DEF TypeOK, JobsMatch, OrderInv, IngestPCs, EmbedPCs, Raise, Goto
<1>16. ASSUME NEW w \in Workers, Retry(w) PROVE OrderInv'
  <2>1. job[w] \in Message
    BY <1>16, BusyRunsMessage DEF Retry
  <2> DEFINE n == [job[w] EXCEPT !.retries = @ + 1]
  <2>2. n \in Message /\ n.task = job[w].task /\ n.asset = job[w].asset
    BY <1>16, <2>1, NextAttemptIsMessage DEF Retry
  <2>3. queue' = queue \/ queue' = [queue EXCEPT ![n] = @ + 1]
    BY <1>16 DEF Retry, Publish
  <2>4. /\ pc[w] = "handle" /\ pc' = [pc EXCEPT ![w] = "ack"]
        /\ UNCHANGED <<job, processed, vectors, recorded>>
    BY <1>16 DEF Retry, Goto
  <2> HIDE DEF n
  <2> QED
    BY <2>1, <2>2, <2>3, <2>4 DEF TypeOK, OrderInv
<1>17. ASSUME NEW w \in Workers, DeadLetter(w) PROVE OrderInv'
  BY <1>17 DEF TypeOK, JobsMatch, OrderInv, IngestPCs, EmbedPCs, DeadLetter, Goto
<1>18. ASSUME NEW w \in Workers, TimeLimit(w) PROVE OrderInv'
  BY <1>18 DEF TypeOK, JobsMatch, OrderInv, IngestPCs, EmbedPCs, TaskPCs, TimeLimit, Goto
<1>19. ASSUME NEW w \in Workers, MarkFailure(w) PROVE OrderInv'
  BY <1>19 DEF TypeOK, JobsMatch, OrderInv, IngestPCs, EmbedPCs, MarkFailure, Goto
<1>20. ASSUME NEW w \in Workers, Ack(w) PROVE OrderInv'
  BY <1>20 DEF TypeOK, JobsMatch, OrderInv, IngestPCs, EmbedPCs, Ack, Goto
<1>21. ASSUME NEW w \in Workers, Crash(w) PROVE OrderInv'
  <2>1. job[w] \in Message
    BY <1>21, BusyRunsMessage DEF Crash
  <2> QED
    BY <1>21, <2>1 DEF TypeOK, OrderInv, Crash, Publish, Goto
<1>22. CASE UNCHANGED vars
  BY <1>22 DEF TypeOK, JobsMatch, OrderInv, IngestPCs, EmbedPCs, vars
<1> QED
  BY <1>1, <1>2, <1>3, <1>4, <1>5, <1>6, <1>7, <1>8, <1>9, <1>10, <1>11, <1>12, <1>13,
     <1>14, <1>15, <1>16, <1>17, <1>18, <1>19, <1>20, <1>21, <1>22
     DEF Next, WorkerStep, IngestStep, EmbedStep


LEMMA GenerationIsFinite ==
  ASSUME NEW g \in Nat
  PROVE  IsFiniteSet(Generation(g))
<1>1. IsFiniteSet({g})
  BY FS_Singleton
<1>2. IsFiniteSet(1..NumChunks)
  BY ChunksAssumption, FS_Interval
<1> QED
  BY <1>1, <1>2, FS_Product DEF Generation

\* A vector count was recorded only for chunks that are in the vector store.
LEMMA StoredInductive ==
  TypeOK /\ JobsMatch /\ StoredInv /\ [Next]_vars => StoredInv'
<1> SUFFICES ASSUME TypeOK, JobsMatch, StoredInv, [Next]_vars PROVE StoredInv'
  OBVIOUS
<1>1. ASSUME NEW a \in Assets, SaveBytes(a) PROVE StoredInv'
  BY <1>1 DEF TypeOK, JobsMatch, StoredInv, FinishedMeansStored, IngestPCs, EmbedPCs, SaveBytes
<1>2. ASSUME NEW a \in Assets, DispatchIngest(a) PROVE StoredInv'
  BY <1>2 DEF TypeOK, JobsMatch, StoredInv, FinishedMeansStored, IngestPCs, EmbedPCs, DispatchIngest
<1>3. ASSUME NEW w \in Workers, Take(w) PROVE StoredInv'
  BY <1>3 DEF TypeOK, JobsMatch, StoredInv, FinishedMeansStored, IngestPCs, EmbedPCs, Take, Goto
<1>4. ASSUME NEW w \in Workers, GetContainer(w) PROVE StoredInv'
  BY <1>4 DEF TypeOK, JobsMatch, StoredInv, FinishedMeansStored, IngestPCs, EmbedPCs, GetContainer, Goto
<1>5. ASSUME NEW w \in Workers, IsProcessed(w) PROVE StoredInv'
  BY <1>5 DEF TypeOK, JobsMatch, StoredInv, FinishedMeansStored, IngestPCs, EmbedPCs, IsProcessed, Goto
<1>6. ASSUME NEW w \in Workers, ReadAndChunk(w) PROVE StoredInv'
  <2>1. IsFiniteSet(Generation(next_gen[job[w].asset]))
    BY <1>6, BusyRunsMessage, MessageFields, GenerationIsFinite DEF TypeOK, ReadAndChunk
  <2> QED
    BY <1>6, <2>1 DEF TypeOK, JobsMatch, StoredInv, FinishedMeansStored, ReadAndChunk, Goto
<1>7. ASSUME NEW w \in Workers, DeleteMany(w) PROVE StoredInv'
  <2>1. IsFiniteSet({})
    BY FS_EmptySet
  <2> QED
    BY <1>7, <2>1 DEF TypeOK, JobsMatch, StoredInv, FinishedMeansStored, DeleteMany, Goto
<1>8. ASSUME NEW w \in Workers, InsertOne(w) PROVE StoredInv'
  <2>1. PICK c \in todo[w] : chunks' = [chunks EXCEPT ![job[w].asset] = @ \cup {c}]
    BY <1>8 DEF InsertOne
  <2>2. job[w].asset \in Assets
    BY <1>8, BusyRunsMessage, MessageFields DEF InsertOne
  <2>3. IsFiniteSet(chunks[job[w].asset] \cup {c})
    BY <2>2, FS_AddElement DEF StoredInv
  <2>4. \A v \in Workers : pc[v] = "upsert" => loaded'[v] \ todo'[v] = loaded[v] \ todo[v]
    BY <1>8 DEF TypeOK, InsertOne
  <2> QED
    BY <1>8, <2>1, <2>3, <2>4 DEF TypeOK, StoredInv, FinishedMeansStored, InsertOne
<1>9. ASSUME NEW w \in Workers, MarkProcessed(w) PROVE StoredInv'
  BY <1>9 DEF TypeOK, JobsMatch, StoredInv, FinishedMeansStored, IngestPCs, EmbedPCs, MarkProcessed, Goto
<1>10. ASSUME NEW w \in Workers, DispatchEmbed(w) PROVE StoredInv'
  BY <1>10 DEF TypeOK, JobsMatch, StoredInv, FinishedMeansStored, IngestPCs, EmbedPCs, DispatchEmbed, Goto
<1>11. ASSUME NEW w \in Workers, HasVectors(w) PROVE StoredInv'
  BY <1>11 DEF TypeOK, JobsMatch, StoredInv, FinishedMeansStored, IngestPCs, EmbedPCs, HasVectors, Goto
<1>12. ASSUME NEW w \in Workers, FindByAsset(w) PROVE StoredInv'
  <2>1. IsFiniteSet(chunks[job[w].asset])
    BY <1>12, BusyRunsMessage, MessageFields DEF StoredInv, FindByAsset
  <2> QED
    BY <1>12, <2>1 DEF TypeOK, StoredInv, FinishedMeansStored, FindByAsset, Goto
<1>13. ASSUME NEW w \in Workers, UpsertOne(w) PROVE StoredInv'
  <2> DEFINE a == job[w].asset
  <2>1. PICK c \in todo[w] : /\ vectors' = [vectors EXCEPT ![a] = @ \cup {c}]
                             /\ todo' = [todo EXCEPT ![w] = @ \ {c}]
    BY <1>13 DEF UpsertOne
  <2>2. a \in Assets
    BY <1>13, BusyRunsMessage, MessageFields DEF UpsertOne
  <2>3. IsFiniteSet(vectors[a] \cup {c}) /\ Cardinality(vectors[a]) <= Cardinality(vectors[a] \cup {c})
    BY <2>2, FS_AddElement, FS_Subset DEF StoredInv
  <2>4. Cardinality(vectors[a]) \in Nat /\ Cardinality(vectors[a] \cup {c}) \in Nat
    BY <2>2, <2>3, FS_CardinalityType DEF StoredInv
  <2>5. UNCHANGED <<pc, job, loaded, chunks, recorded>> /\ pc[w] = "upsert"
    BY <1>13 DEF UpsertOne
  <2> HIDE DEF a
  <2>6. \A b \in Assets : IsFiniteSet(chunks'[b]) /\ IsFiniteSet(vectors'[b])
    BY <2>1, <2>2, <2>3, <2>5 DEF TypeOK, StoredInv
  <2>7. ASSUME NEW v \in Workers
        PROVE  /\ IsFiniteSet(loaded'[v])
               /\ pc'[v] = "upsert" => loaded'[v] \ todo'[v] \subseteq vectors'[job'[v].asset]
    <3>1. \A b : vectors[b] \subseteq vectors'[b] \/ b \notin Assets
      BY <2>1 DEF TypeOK
    <3>2. pc[v] = "upsert" => job[v].asset \in Assets
      BY BusyRunsMessage, MessageFields
    <3>3. CASE v = w
      BY <2>1, <2>2, <2>5, <3>3 DEF TypeOK, StoredInv, a
    <3>4. CASE v # w
      BY <2>1, <2>5, <3>1, <3>2, <3>4 DEF TypeOK, StoredInv
    <3> QED
      BY <3>3, <3>4
  <2>8. \A b \in Assets : recorded'[b] <= Cardinality(vectors'[b])
    BY <2>1, <2>2, <2>3, <2>4, <2>5 DEF TypeOK, StoredInv, FinishedMeansStored
  <2> QED
    BY <2>6, <2>7, <2>8 DEF StoredInv, FinishedMeansStored
<1>14. ASSUME NEW w \in Workers, SaveVectors(w) PROVE StoredInv'
  <2> DEFINE a == job[w].asset
  <2>1. a \in Assets
    BY <1>14, BusyRunsMessage, MessageFields DEF SaveVectors
  <2>2. loaded[w] \subseteq vectors[a]
    BY <1>14 DEF StoredInv, SaveVectors
  <2>3. Cardinality(loaded[w]) <= Cardinality(vectors[a])
    BY <2>1, <2>2, FS_Subset DEF StoredInv
  <2> QED
    BY <1>14, <2>1, <2>3 DEF TypeOK, StoredInv, FinishedMeansStored, SaveVectors, Goto
<1>15. ASSUME NEW w \in Workers, Raise(w) PROVE StoredInv'
  BY <1>15 DEF TypeOK, JobsMatch, StoredInv, FinishedMeansStored, IngestPCs, EmbedPCs, Raise, Goto
<1>16. ASSUME NEW w \in Workers, Retry(w) PROVE StoredInv'
  BY <1>16 DEF TypeOK, JobsMatch, StoredInv, FinishedMeansStored, IngestPCs, EmbedPCs, Retry, Goto
<1>17. ASSUME NEW w \in Workers, DeadLetter(w) PROVE StoredInv'
  BY <1>17 DEF TypeOK, JobsMatch, StoredInv, FinishedMeansStored, IngestPCs, EmbedPCs, DeadLetter, Goto
<1>18. ASSUME NEW w \in Workers, TimeLimit(w) PROVE StoredInv'
  BY <1>18 DEF TypeOK, JobsMatch, StoredInv, FinishedMeansStored, IngestPCs, EmbedPCs, TimeLimit, Goto
<1>19. ASSUME NEW w \in Workers, MarkFailure(w) PROVE StoredInv'
  BY <1>19 DEF TypeOK, JobsMatch, StoredInv, FinishedMeansStored, IngestPCs, EmbedPCs, MarkFailure, Goto
<1>20. ASSUME NEW w \in Workers, Ack(w) PROVE StoredInv'
  <2>1. IsFiniteSet({})
    BY FS_EmptySet
  <2> QED
    BY <1>20, <2>1 DEF TypeOK, JobsMatch, StoredInv, FinishedMeansStored, Ack, Goto
<1>21. ASSUME NEW w \in Workers, Crash(w) PROVE StoredInv'
  <2>1. IsFiniteSet({})
    BY FS_EmptySet
  <2> QED
    BY <1>21, <2>1 DEF TypeOK, JobsMatch, StoredInv, FinishedMeansStored, Crash, Goto
<1>22. CASE UNCHANGED vars
  BY <1>22 DEF TypeOK, JobsMatch, StoredInv, FinishedMeansStored, IngestPCs, EmbedPCs, vars
<1> QED
  BY <1>1, <1>2, <1>3, <1>4, <1>5, <1>6, <1>7, <1>8, <1>9, <1>10, <1>11, <1>12, <1>13,
     <1>14, <1>15, <1>16, <1>17, <1>18, <1>19, <1>20, <1>21, <1>22
     DEF Next, WorkerStep, IngestStep, EmbedStep

\* What is left to write is part of what was loaded.
LEMMA TodoInductive ==
  TypeOK /\ TodoInv /\ [Next]_vars => TodoInv'
<1> SUFFICES ASSUME TypeOK, TodoInv, [Next]_vars PROVE TodoInv'
  OBVIOUS
<1>1. ASSUME NEW a \in Assets, SaveBytes(a) PROVE TodoInv'
  BY <1>1 DEF TypeOK, TodoInv, SaveBytes
<1>2. ASSUME NEW a \in Assets, DispatchIngest(a) PROVE TodoInv'
  BY <1>2 DEF TypeOK, TodoInv, DispatchIngest
<1>3. ASSUME NEW w \in Workers, Take(w) PROVE TodoInv'
  BY <1>3 DEF TypeOK, TodoInv, Take, Goto
<1>4. ASSUME NEW w \in Workers, GetContainer(w) PROVE TodoInv'
  BY <1>4 DEF TypeOK, TodoInv, GetContainer, Goto
<1>5. ASSUME NEW w \in Workers, IsProcessed(w) PROVE TodoInv'
  BY <1>5 DEF TypeOK, TodoInv, IsProcessed, Goto
<1>6. ASSUME NEW w \in Workers, ReadAndChunk(w) PROVE TodoInv'
  BY <1>6 DEF TypeOK, TodoInv, ReadAndChunk, Goto
<1>7. ASSUME NEW w \in Workers, DeleteMany(w) PROVE TodoInv'
  BY <1>7 DEF TypeOK, TodoInv, DeleteMany, Goto
<1>8. ASSUME NEW w \in Workers, InsertOne(w) PROVE TodoInv'
  BY <1>8 DEF TypeOK, TodoInv, InsertOne, Goto
<1>9. ASSUME NEW w \in Workers, MarkProcessed(w) PROVE TodoInv'
  BY <1>9 DEF TypeOK, TodoInv, MarkProcessed, Goto
<1>10. ASSUME NEW w \in Workers, DispatchEmbed(w) PROVE TodoInv'
  BY <1>10 DEF TypeOK, TodoInv, DispatchEmbed, Goto
<1>11. ASSUME NEW w \in Workers, HasVectors(w) PROVE TodoInv'
  BY <1>11 DEF TypeOK, TodoInv, HasVectors, Goto
<1>12. ASSUME NEW w \in Workers, FindByAsset(w) PROVE TodoInv'
  BY <1>12 DEF TypeOK, TodoInv, FindByAsset, Goto
<1>13. ASSUME NEW w \in Workers, UpsertOne(w) PROVE TodoInv'
  BY <1>13 DEF TypeOK, TodoInv, UpsertOne, Goto
<1>14. ASSUME NEW w \in Workers, SaveVectors(w) PROVE TodoInv'
  BY <1>14 DEF TypeOK, TodoInv, SaveVectors, Goto
<1>15. ASSUME NEW w \in Workers, Raise(w) PROVE TodoInv'
  BY <1>15 DEF TypeOK, TodoInv, Raise, Goto
<1>16. ASSUME NEW w \in Workers, Retry(w) PROVE TodoInv'
  BY <1>16 DEF TypeOK, TodoInv, Retry, Goto
<1>17. ASSUME NEW w \in Workers, DeadLetter(w) PROVE TodoInv'
  BY <1>17 DEF TypeOK, TodoInv, DeadLetter, Goto
<1>18. ASSUME NEW w \in Workers, TimeLimit(w) PROVE TodoInv'
  BY <1>18 DEF TypeOK, TodoInv, TimeLimit, Goto
<1>19. ASSUME NEW w \in Workers, MarkFailure(w) PROVE TodoInv'
  BY <1>19 DEF TypeOK, TodoInv, MarkFailure, Goto
<1>20. ASSUME NEW w \in Workers, Ack(w) PROVE TodoInv'
  BY <1>20 DEF TypeOK, TodoInv, Ack, Goto
<1>21. ASSUME NEW w \in Workers, Crash(w) PROVE TodoInv'
  BY <1>21 DEF TypeOK, TodoInv, Crash, Goto
<1>22. CASE UNCHANGED vars
  BY <1>22 DEF TypeOK, TodoInv, vars
<1> QED
  BY <1>1, <1>2, <1>3, <1>4, <1>5, <1>6, <1>7, <1>8, <1>9, <1>10, <1>11, <1>12, <1>13,
     <1>14, <1>15, <1>16, <1>17, <1>18, <1>19, <1>20, <1>21, <1>22
     DEF Next, WorkerStep, IngestStep, EmbedStep

\* Steps that make no worker a writer and change no chunks keep WritersInv.
LEMMA WritersFrame ==
  ASSUME WritersInv, UNCHANGED <<processed, chunks, next_gen, overlapped>>,
         \A v \in Workers :
           pc'[v] \in {"read_bytes", "delete_many", "insert_many"} =>
             pc'[v] = pc[v] /\ job'[v] = job[v] /\ loaded'[v] = loaded[v] /\ todo'[v] = todo[v]
  PROVE  WritersInv'
BY DEF WritersInv, Writing

\* Without an overlap an asset has one writer at most, and none once processed.
LEMMA WritersInductive ==
  TypeOK /\ JobsMatch /\ TodoInv /\ WritersInv /\ [Next]_vars => WritersInv'
<1> SUFFICES ASSUME TypeOK, JobsMatch, TodoInv, WritersInv, [Next]_vars PROVE WritersInv'
  OBVIOUS
<1>1. ASSUME NEW a \in Assets, SaveBytes(a) PROVE WritersInv'
  BY <1>1, WritersFrame DEF SaveBytes
<1>2. ASSUME NEW a \in Assets, DispatchIngest(a) PROVE WritersInv'
  BY <1>2, WritersFrame DEF DispatchIngest
<1>3. ASSUME NEW w \in Workers, Take(w) PROVE WritersInv'
  BY <1>3, WritersFrame DEF TypeOK, Take, Goto
<1>4. ASSUME NEW w \in Workers, GetContainer(w) PROVE WritersInv'
  BY <1>4, WritersFrame DEF TypeOK, GetContainer, Goto
<1>5. ASSUME NEW w \in Workers, IsProcessed(w) PROVE WritersInv'
  <2>1. CASE job[w].asset \in processed
    BY <1>5, <2>1, WritersFrame DEF TypeOK, IsProcessed, Goto
  <2>2. CASE job[w].asset \notin processed
    BY <1>5, <2>2 DEF TypeOK, WritersInv, Writing, IsProcessed, Goto
  <2> QED
    BY <2>1, <2>2
<1>6. ASSUME NEW w \in Workers, ReadAndChunk(w) PROVE WritersInv'
  <2> DEFINE a == job[w].asset
  <2>1. a \in Assets /\ next_gen[a] \in Nat
    BY <1>6, BusyRunsMessage, MessageFields DEF TypeOK, ReadAndChunk
  <2>2. /\ pc[w] = "read_bytes" /\ pc' = [pc EXCEPT ![w] = "delete_many"]
        /\ next_gen' = [next_gen EXCEPT ![a] = @ + 1]
        /\ loaded' = [loaded EXCEPT ![w] = Generation(next_gen[a])]
        /\ todo' = [todo EXCEPT ![w] = Generation(next_gen[a])]
        /\ UNCHANGED <<job, processed, chunks, overlapped>>
    BY <1>6 DEF ReadAndChunk, Goto
  <2>3. \A b \in Assets : Writing(b)' = Writing(b)
    BY <2>2 DEF TypeOK, Writing
  <2>4. \A b \in Assets : next_gen[b] \in Nat /\ next_gen'[b] \in Nat /\ next_gen[b] <= next_gen'[b]
    BY <2>1, <2>2 DEF TypeOK
  <2> SUFFICES ASSUME NEW b \in Assets \ overlapped, NEW v \in Writing(b)
               PROVE  /\ pc'[v] \in {"delete_many", "insert_many"} =>
                            \E g \in 0..next_gen'[b] - 1 : loaded'[v] = Generation(g)
                      /\ pc'[v] = "insert_many" => chunks'[b] = loaded'[v] \ todo'[v]
    BY <2>2, <2>3 DEF WritersInv
  <2>5. CASE v = w
    <3>1. b = a
      BY <2>5 DEF Writing
    <3>2. next_gen[a] \in 0..next_gen'[b] - 1
      BY <2>1, <2>2, <3>1 DEF TypeOK
    <3> QED
      BY <2>2, <2>5, <3>2 DEF TypeOK
  <2>6. CASE v # w
    <3>1. pc'[v] = pc[v] /\ loaded'[v] = loaded[v] /\ todo'[v] = todo[v]
      BY <2>2, <2>6 DEF TypeOK
    <3> QED
      BY <2>2, <2>4, <3>1 DEF WritersInv
  <2> QED
    BY <2>5, <2>6
<1>7. ASSUME NEW w \in Workers, DeleteMany(w) PROVE WritersInv'
  <2> DEFINE a == job[w].asset
  <2>1. a \in Assets
    BY <1>7, BusyRunsMessage, MessageFields DEF DeleteMany
  <2>2. /\ pc[w] = "delete_many" /\ pc' = [pc EXCEPT ![w] = "insert_many"]
        /\ chunks' = [chunks EXCEPT ![a] = {}]
        /\ UNCHANGED <<job, processed, loaded, todo, next_gen, overlapped>>
    BY <1>7 DEF DeleteMany, Goto
  <2>3. \A b \in Assets : Writing(b)' = Writing(b)
    BY <2>2 DEF TypeOK, Writing
  <2>4. w \in Writing(a)
    BY <2>2 DEF Writing
  <2> QED
    BY <2>1, <2>2, <2>3, <2>4 DEF TypeOK, WritersInv, TodoInv, Writing
<1>8. ASSUME NEW w \in Workers, InsertOne(w) PROVE WritersInv'
  <2> DEFINE a == job[w].asset
  <2>1. a \in Assets
    BY <1>8, BusyRunsMessage, MessageFields DEF InsertOne
  <2>2. PICK c \in todo[w] : /\ chunks' = [chunks EXCEPT ![a] = @ \cup {c}]
                             /\ todo' = [todo EXCEPT ![w] = @ \ {c}]
    BY <1>8 DEF InsertOne
  <2>3. pc[w] = "insert_many" /\ UNCHANGED <<pc, job, processed, loaded, next_gen, overlapped>>
    BY <1>8 DEF InsertOne
  <2>4. \A b \in Assets : Writing(b)' = Writing(b)
    BY <2>3 DEF Writing
  <2>5. w \in Writing(a)
    BY <2>3 DEF Writing
  <2>6. a \notin overlapped => chunks'[a] = loaded'[w] \ todo'[w]
    BY <2>1, <2>2, <2>3, <2>5 DEF TypeOK, WritersInv, TodoInv
  <2>7. \A v \in Workers : v # w => todo'[v] = todo[v]
    BY <2>2 DEF TypeOK
  <2>8. \A b \in Assets : b # a => chunks'[b] = chunks[b]
    BY <2>2 DEF TypeOK
  <2>9. \A b \in Assets : \A v \in Writing(b) : v \in Workers /\ job[v].asset = b
    BY DEF Writing
  <2> QED
    BY <2>1, <2>3, <2>4, <2>5, <2>6, <2>7, <2>8, <2>9 DEF WritersInv
<1>9. ASSUME NEW w \in Workers, MarkProcessed(w) PROVE WritersInv'
  <2> DEFINE a == job[w].asset
  <2>1. a \in Assets
    BY <1>9, BusyRunsMessage, MessageFields DEF MarkProcessed
  <2>2. /\ pc[w] = "insert_many" /\ pc'[w] \in {"dispatch_embed", "handle"}
        /\ \A v \in Workers : v # w => pc'[v] = pc[v]
        /\ processed' = processed \cup {a}
        /\ UNCHANGED <<job, loaded, todo, next_gen, chunks, overlapped>>
    BY <1>9 DEF TypeOK, MarkProcessed, Goto
  <2>3. \A b \in Assets : Writing(b)' = Writing(b) \ {w}
    BY <2>2 DEF Writing
  <2>4. w \in Writing(a)
    BY <2>2 DEF Writing
  <2>5. \A b \in Assets : \A v \in Writing(b) : v \in Workers
    BY DEF Writing
  <2> QED
    BY <2>1, <2>2, <2>3, <2>4, <2>5 DEF WritersInv
<1>10. ASSUME NEW w \in Workers, DispatchEmbed(w) PROVE WritersInv'
  BY <1>10, WritersFrame DEF TypeOK, DispatchEmbed, Goto
<1>11. ASSUME NEW w \in Workers, HasVectors(w) PROVE WritersInv'
  BY <1>11, WritersFrame DEF TypeOK, HasVectors, Goto
<1>12. ASSUME NEW w \in Workers, FindByAsset(w) PROVE WritersInv'
  BY <1>12, WritersFrame DEF TypeOK, FindByAsset, Goto
<1>13. ASSUME NEW w \in Workers, UpsertOne(w) PROVE WritersInv'
  BY <1>13, WritersFrame DEF TypeOK, UpsertOne, Goto
<1>14. ASSUME NEW w \in Workers, SaveVectors(w) PROVE WritersInv'
  BY <1>14, WritersFrame DEF TypeOK, SaveVectors, Goto
<1>15. ASSUME NEW w \in Workers, Raise(w) PROVE WritersInv'
  BY <1>15, WritersFrame DEF TypeOK, Raise, Goto
<1>16. ASSUME NEW w \in Workers, Retry(w) PROVE WritersInv'
  BY <1>16, WritersFrame DEF TypeOK, Retry, Goto
<1>17. ASSUME NEW w \in Workers, DeadLetter(w) PROVE WritersInv'
  BY <1>17, WritersFrame DEF TypeOK, DeadLetter, Goto
<1>18. ASSUME NEW w \in Workers, TimeLimit(w) PROVE WritersInv'
  BY <1>18, WritersFrame DEF TypeOK, TimeLimit, Unhanded, Goto
<1>19. ASSUME NEW w \in Workers, MarkFailure(w) PROVE WritersInv'
  BY <1>19, WritersFrame DEF TypeOK, MarkFailure, Goto
<1>20. ASSUME NEW w \in Workers, Ack(w) PROVE WritersInv'
  BY <1>20, WritersFrame DEF TypeOK, Ack, Goto
<1>21. ASSUME NEW w \in Workers, Crash(w) PROVE WritersInv'
  BY <1>21, WritersFrame DEF TypeOK, Crash, Goto
<1>22. CASE UNCHANGED vars
  BY <1>22, WritersFrame DEF vars
<1> QED
  BY <1>1, <1>2, <1>3, <1>4, <1>5, <1>6, <1>7, <1>8, <1>9, <1>10, <1>11, <1>12, <1>13,
     <1>14, <1>15, <1>16, <1>17, <1>18, <1>19, <1>20, <1>21, <1>22
     DEF Next, WorkerStep, IngestStep, EmbedStep

\* What no step does: rewrite the chunks of a processed asset without an overlap.
KeepsChunks ==
  /\ processed \subseteq processed'
  /\ overlapped \subseteq overlapped'
  /\ \A b \in processed \ overlapped : chunks'[b] = chunks[b]

LEMMA ChunksKept ==
  TypeOK /\ JobsMatch /\ WritersInv /\ [Next]_vars => KeepsChunks
<1> SUFFICES ASSUME TypeOK, JobsMatch, WritersInv, [Next]_vars PROVE KeepsChunks
  OBVIOUS
<1>1. ASSUME NEW a \in Assets, SaveBytes(a) PROVE KeepsChunks
  BY <1>1 DEF KeepsChunks, SaveBytes
<1>2. ASSUME NEW a \in Assets, DispatchIngest(a) PROVE KeepsChunks
  BY <1>2 DEF KeepsChunks, DispatchIngest
<1>3. ASSUME NEW w \in Workers, Take(w) PROVE KeepsChunks
  BY <1>3 DEF KeepsChunks, Take, Goto
<1>4. ASSUME NEW w \in Workers, GetContainer(w) PROVE KeepsChunks
  BY <1>4 DEF KeepsChunks, GetContainer, Goto
<1>5. ASSUME NEW w \in Workers, IsProcessed(w) PROVE KeepsChunks
  BY <1>5 DEF KeepsChunks, IsProcessed, Goto
<1>6. ASSUME NEW w \in Workers, ReadAndChunk(w) PROVE KeepsChunks
  BY <1>6 DEF KeepsChunks, ReadAndChunk, Goto
<1>7. ASSUME NEW w \in Workers, DeleteMany(w) PROVE KeepsChunks
  <2>1. job[w].asset \in Assets /\ w \in Writing(job[w].asset)
    BY <1>7, BusyRunsMessage, MessageFields DEF Writing, DeleteMany
  <2> QED
    BY <1>7, <2>1 DEF TypeOK, WritersInv, KeepsChunks, DeleteMany
<1>8. ASSUME NEW w \in Workers, InsertOne(w) PROVE KeepsChunks
  <2>1. job[w].asset \in Assets /\ w \in Writing(job[w].asset)
    BY <1>8, BusyRunsMessage, MessageFields DEF Writing, InsertOne
  <2> QED
    BY <1>8, <2>1 DEF TypeOK, WritersInv, KeepsChunks, InsertOne
<1>9. ASSUME NEW w \in Workers, MarkProcessed(w) PROVE KeepsChunks
  BY <1>9 DEF KeepsChunks, MarkProcessed, Goto
<1>10. ASSUME NEW w \in Workers, DispatchEmbed(w) PROVE KeepsChunks
  BY <1>10 DEF KeepsChunks, DispatchEmbed, Goto
<1>11. ASSUME NEW w \in Workers, HasVectors(w) PROVE KeepsChunks
  BY <1>11 DEF KeepsChunks, HasVectors, Goto
<1>12. ASSUME NEW w \in Workers, FindByAsset(w) PROVE KeepsChunks
  BY <1>12 DEF KeepsChunks, FindByAsset, Goto
<1>13. ASSUME NEW w \in Workers, UpsertOne(w) PROVE KeepsChunks
  BY <1>13 DEF KeepsChunks, UpsertOne, Goto
<1>14. ASSUME NEW w \in Workers, SaveVectors(w) PROVE KeepsChunks
  BY <1>14 DEF KeepsChunks, SaveVectors, Goto
<1>15. ASSUME NEW w \in Workers, Raise(w) PROVE KeepsChunks
  BY <1>15 DEF KeepsChunks, Raise, Goto
<1>16. ASSUME NEW w \in Workers, Retry(w) PROVE KeepsChunks
  BY <1>16 DEF KeepsChunks, Retry, Goto
<1>17. ASSUME NEW w \in Workers, DeadLetter(w) PROVE KeepsChunks
  BY <1>17 DEF KeepsChunks, DeadLetter, Goto
<1>18. ASSUME NEW w \in Workers, TimeLimit(w) PROVE KeepsChunks
  BY <1>18 DEF KeepsChunks, TimeLimit, Goto
<1>19. ASSUME NEW w \in Workers, MarkFailure(w) PROVE KeepsChunks
  BY <1>19 DEF KeepsChunks, MarkFailure, Goto
<1>20. ASSUME NEW w \in Workers, Ack(w) PROVE KeepsChunks
  BY <1>20 DEF KeepsChunks, Ack, Goto
<1>21. ASSUME NEW w \in Workers, Crash(w) PROVE KeepsChunks
  BY <1>21 DEF KeepsChunks, Crash, Goto
<1>22. CASE UNCHANGED vars
  BY <1>22 DEF KeepsChunks, vars
<1> QED
  BY <1>1, <1>2, <1>3, <1>4, <1>5, <1>6, <1>7, <1>8, <1>9, <1>10, <1>11, <1>12, <1>13,
     <1>14, <1>15, <1>16, <1>17, <1>18, <1>19, <1>20, <1>21, <1>22
     DEF Next, WorkerStep, IngestStep, EmbedStep

\* Steps after which only workers that were upserting still are keep ReadersInv.
LEMMA ReadersFrame ==
  ASSUME TypeOK, JobsMatch, OrderInv, ReadersInv, KeepsChunks,
         \A v \in Workers :
           pc'[v] = "upsert" =>
             pc[v] = "upsert" /\ job'[v] = job[v] /\ loaded'[v] = loaded[v]
  PROVE  ReadersInv'
<1> SUFFICES ASSUME NEW v \in Workers, pc'[v] = "upsert", job'[v].asset \notin overlapped'
             PROVE  loaded'[v] = chunks'[job'[v].asset]
  BY DEF ReadersInv
<1>1. job[v].asset \in processed
  BY DEF JobsMatch, OrderInv, EmbedPCs
<1>2. job[v].asset \notin overlapped
  BY DEF KeepsChunks
<1>3. loaded[v] = chunks[job[v].asset]
  BY <1>2 DEF ReadersInv
<1> QED
  BY <1>1, <1>2, <1>3 DEF KeepsChunks

\* Without an overlap an embed job works on the chunks the store still has.
LEMMA ReadersInductive ==
  TypeOK /\ JobsMatch /\ OrderInv /\ WritersInv /\ ReadersInv /\ [Next]_vars => ReadersInv'
<1> SUFFICES ASSUME TypeOK, JobsMatch, OrderInv, WritersInv, ReadersInv, [Next]_vars PROVE ReadersInv'
  OBVIOUS
<1>a. KeepsChunks
  BY ChunksKept
<1>1. ASSUME NEW a \in Assets, SaveBytes(a) PROVE ReadersInv'
  BY <1>1, <1>a, ReadersFrame DEF SaveBytes
<1>2. ASSUME NEW a \in Assets, DispatchIngest(a) PROVE ReadersInv'
  BY <1>2, <1>a, ReadersFrame DEF DispatchIngest
<1>3. ASSUME NEW w \in Workers, Take(w) PROVE ReadersInv'
  BY <1>3, <1>a, ReadersFrame DEF TypeOK, Take, Goto
<1>4. ASSUME NEW w \in Workers, GetContainer(w) PROVE ReadersInv'
  BY <1>4, <1>a, ReadersFrame DEF TypeOK, GetContainer, Goto
<1>5. ASSUME NEW w \in Workers, IsProcessed(w) PROVE ReadersInv'
  BY <1>5, <1>a, ReadersFrame DEF TypeOK, IsProcessed, Goto
<1>6. ASSUME NEW w \in Workers, ReadAndChunk(w) PROVE ReadersInv'
  BY <1>6, <1>a, ReadersFrame DEF TypeOK, ReadAndChunk, Goto
<1>7. ASSUME NEW w \in Workers, DeleteMany(w) PROVE ReadersInv'
  BY <1>7, <1>a, ReadersFrame DEF TypeOK, DeleteMany, Goto
<1>8. ASSUME NEW w \in Workers, InsertOne(w) PROVE ReadersInv'
  BY <1>8, <1>a, ReadersFrame DEF TypeOK, InsertOne, Goto
<1>9. ASSUME NEW w \in Workers, MarkProcessed(w) PROVE ReadersInv'
  BY <1>9, <1>a, ReadersFrame DEF TypeOK, MarkProcessed, Goto
<1>10. ASSUME NEW w \in Workers, DispatchEmbed(w) PROVE ReadersInv'
  BY <1>10, <1>a, ReadersFrame DEF TypeOK, DispatchEmbed, Goto
<1>11. ASSUME NEW w \in Workers, HasVectors(w) PROVE ReadersInv'
  BY <1>11, <1>a, ReadersFrame DEF TypeOK, HasVectors, Goto
<1>12. ASSUME NEW w \in Workers, FindByAsset(w) PROVE ReadersInv'
  <2>1. /\ loaded' = [loaded EXCEPT ![w] = chunks[job[w].asset]]
        /\ UNCHANGED <<job, chunks, overlapped>>
        /\ \A v \in Workers : v # w => pc'[v] = pc[v]
    BY <1>12 DEF TypeOK, FindByAsset, Goto
  <2> QED
    BY <2>1 DEF TypeOK, ReadersInv
<1>13. ASSUME NEW w \in Workers, UpsertOne(w) PROVE ReadersInv'
  BY <1>13, <1>a, ReadersFrame DEF TypeOK, UpsertOne, Goto
<1>14. ASSUME NEW w \in Workers, SaveVectors(w) PROVE ReadersInv'
  BY <1>14, <1>a, ReadersFrame DEF TypeOK, SaveVectors, Goto
<1>15. ASSUME NEW w \in Workers, Raise(w) PROVE ReadersInv'
  BY <1>15, <1>a, ReadersFrame DEF TypeOK, Raise, Goto
<1>16. ASSUME NEW w \in Workers, Retry(w) PROVE ReadersInv'
  BY <1>16, <1>a, ReadersFrame DEF TypeOK, Retry, Goto
<1>17. ASSUME NEW w \in Workers, DeadLetter(w) PROVE ReadersInv'
  BY <1>17, <1>a, ReadersFrame DEF TypeOK, DeadLetter, Goto
<1>18. ASSUME NEW w \in Workers, TimeLimit(w) PROVE ReadersInv'
  BY <1>18, <1>a, ReadersFrame DEF TypeOK, TimeLimit, Goto
<1>19. ASSUME NEW w \in Workers, MarkFailure(w) PROVE ReadersInv'
  BY <1>19, <1>a, ReadersFrame DEF TypeOK, MarkFailure, Goto
<1>20. ASSUME NEW w \in Workers, Ack(w) PROVE ReadersInv'
  BY <1>20, <1>a, ReadersFrame DEF TypeOK, Ack, Goto
<1>21. ASSUME NEW w \in Workers, Crash(w) PROVE ReadersInv'
  BY <1>21, <1>a, ReadersFrame DEF TypeOK, Crash, Goto
<1>22. CASE UNCHANGED vars
  BY <1>22, <1>a, ReadersFrame DEF vars
<1> QED
  BY <1>1, <1>2, <1>3, <1>4, <1>5, <1>6, <1>7, <1>8, <1>9, <1>10, <1>11, <1>12, <1>13,
     <1>14, <1>15, <1>16, <1>17, <1>18, <1>19, <1>20, <1>21, <1>22
     DEF Next, WorkerStep, IngestStep, EmbedStep

\* Steps that touch neither mark nor vectors keep ReplayConverges.
LEMMA ReplayFrame ==
  ASSUME TypeOK, ReplayConverges, KeepsChunks, UNCHANGED <<processed, vectors, recorded>>,
         \A b \in Assets : next_gen'[b] = next_gen[b] \/ next_gen'[b] = next_gen[b] + 1
  PROVE  ReplayConverges'
<1> SUFFICES ASSUME NEW b \in processed' \ overlapped'
             PROVE  /\ \E g \in 0..next_gen'[b] - 1 : chunks'[b] = Generation(g)
                    /\ vectors'[b] \subseteq chunks'[b]
                    /\ recorded'[b] > 0 => vectors'[b] = chunks'[b] /\ recorded'[b] = Cardinality(chunks'[b])
  BY DEF ReplayConverges
<1>1. b \in processed \ overlapped /\ b \in Assets
  BY DEF KeepsChunks, TypeOK
<1>2. chunks'[b] = chunks[b]
  BY <1>1 DEF KeepsChunks
<1>3. PICK g \in 0..next_gen[b] - 1 : chunks[b] = Generation(g)
  BY <1>1 DEF ReplayConverges
<1>4. g \in 0..next_gen'[b] - 1
  BY <1>1, <1>3 DEF TypeOK
<1> QED
  BY <1>1, <1>2, <1>3, <1>4 DEF ReplayConverges

\* Retries and redeliveries converge on the chunks and vectors of one chunking.
LEMMA ReplayInductive ==
  TypeOK /\ JobsMatch /\ OrderInv /\ StoredInv /\ ConvergeInv /\ [Next]_vars => ReplayConverges'
<1> SUFFICES ASSUME TypeOK, JobsMatch, OrderInv, StoredInv, ConvergeInv, [Next]_vars PROVE ReplayConverges'
  OBVIOUS
<1> USE DEF ConvergeInv
<1>a. KeepsChunks
  BY ChunksKept
<1>1. ASSUME NEW a \in Assets, SaveBytes(a) PROVE ReplayConverges'
  BY <1>1, <1>a, ReplayFrame DEF SaveBytes
<1>2. ASSUME NEW a \in Assets, DispatchIngest(a) PROVE ReplayConverges'
  BY <1>2, <1>a, ReplayFrame DEF DispatchIngest
<1>3. ASSUME NEW w \in Workers, Take(w) PROVE ReplayConverges'
  BY <1>3, <1>a, ReplayFrame DEF Take
<1>4. ASSUME NEW w \in Workers, GetContainer(w) PROVE ReplayConverges'
  BY <1>4, <1>a, ReplayFrame DEF GetContainer
<1>5. ASSUME NEW w \in Workers, IsProcessed(w) PROVE ReplayConverges'
  BY <1>5, <1>a, ReplayFrame DEF IsProcessed
<1>6. ASSUME NEW w \in Workers, ReadAndChunk(w) PROVE ReplayConverges'
  <2>1. \A b \in Assets : next_gen'[b] = next_gen[b] \/ next_gen'[b] = next_gen[b] + 1
    BY <1>6 DEF TypeOK, ReadAndChunk
  <2> QED
    BY <1>6, <2>1, <1>a, ReplayFrame DEF ReadAndChunk
<1>7. ASSUME NEW w \in Workers, DeleteMany(w) PROVE ReplayConverges'
  BY <1>7, <1>a, ReplayFrame DEF DeleteMany
<1>8. ASSUME NEW w \in Workers, InsertOne(w) PROVE ReplayConverges'
  BY <1>8, <1>a, ReplayFrame DEF InsertOne
<1>9. ASSUME NEW w \in Workers, MarkProcessed(w) PROVE ReplayConverges'
  <2> DEFINE a == job[w].asset
  <2>1. a \in Assets /\ w \in Writing(a) /\ pc[w] = "insert_many" /\ todo[w] = {}
    BY <1>9, BusyRunsMessage, MessageFields DEF MarkProcessed, Writing
  <2>2. processed' = processed \cup {a} /\ UNCHANGED <<chunks, vectors, recorded, next_gen, overlapped>>
    BY <1>9 DEF MarkProcessed
  <2>3. CASE a \in overlapped
    BY <2>2, <2>3 DEF ReplayConverges
  <2>4. CASE a \notin overlapped
    <3>1. a \notin processed
      BY <2>1, <2>4 DEF WritersInv
    <3>2. vectors[a] = {} /\ ~(recorded[a] > 0)
      BY <2>1, <3>1 DEF OrderInv
    <3>3. chunks[a] = loaded[w]
      <4>1. chunks[a] = loaded[w] \ todo[w]
        BY <2>1, <2>4 DEF WritersInv
      <4> QED
        BY <2>1, <4>1
    <3>4. \E g \in 0..next_gen[a] - 1 : chunks[a] = Generation(g)
      BY <2>1, <2>4, <3>3 DEF WritersInv
    <3> QED
      BY <2>2, <3>2, <3>4 DEF ReplayConverges
  <2> QED
    BY <2>3, <2>4
<1>10. ASSUME NEW w \in Workers, DispatchEmbed(w) PROVE ReplayConverges'
  BY <1>10, <1>a, ReplayFrame DEF DispatchEmbed
<1>11. ASSUME NEW w \in Workers, HasVectors(w) PROVE ReplayConverges'
  BY <1>11, <1>a, ReplayFrame DEF HasVectors
<1>12. ASSUME NEW w \in Workers, FindByAsset(w) PROVE ReplayConverges'
  BY <1>12, <1>a, ReplayFrame DEF FindByAsset
<1>13. ASSUME NEW w \in Workers, UpsertOne(w) PROVE ReplayConverges'
  <2> DEFINE a == job[w].asset
  <2>1. PICK c \in todo[w] : vectors' = [vectors EXCEPT ![a] = @ \cup {c}]
    BY <1>13 DEF UpsertOne
  <2>2. pc[w] = "upsert" /\ UNCHANGED <<processed, chunks, recorded, next_gen, overlapped>>
    BY <1>13 DEF UpsertOne
  <2>3. a \notin overlapped => c \in chunks[a]
    BY <2>1, <2>2 DEF TodoInv, ReadersInv
  <2>4. \A b \in Assets : vectors'[b] = IF b = a THEN vectors[b] \cup {c} ELSE vectors[b]
    BY <2>1 DEF TypeOK
  <2>5. \A b \in processed : b \in Assets
    BY DEF TypeOK
  <2>6. ASSUME NEW b \in processed \ overlapped
        PROVE  /\ \E g \in 0..next_gen[b] - 1 : chunks[b] = Generation(g)
               /\ vectors'[b] \subseteq chunks[b]
               /\ recorded[b] > 0 => vectors'[b] = chunks[b] /\ recorded[b] = Cardinality(chunks[b])
    <3>1. CASE b = a
      <4>1. c \in chunks[b] /\ vectors[b] \subseteq chunks[b]
        BY <2>3, <3>1 DEF ReplayConverges
      <4>2. vectors'[b] = vectors[b] \cup {c}
        BY <2>4, <2>5, <3>1
      <4>3. recorded[b] > 0 => vectors[b] = chunks[b]
        BY DEF ReplayConverges
      <4>4. vectors'[b] \subseteq chunks[b] /\ (recorded[b] > 0 => vectors'[b] = chunks[b])
        BY <4>1, <4>2, <4>3
      <4> QED
        BY <4>4 DEF ReplayConverges
    <3>2. CASE b # a
      BY <2>4, <2>5, <3>2 DEF ReplayConverges
    <3> QED
      BY <3>1, <3>2
  <2> QED
    BY <2>2, <2>6 DEF ReplayConverges
<1>14. ASSUME NEW w \in Workers, SaveVectors(w) PROVE ReplayConverges'
  <2> DEFINE a == job[w].asset
  <2>1. /\ pc[w] = "upsert" /\ todo[w] = {}
        /\ recorded' = [recorded EXCEPT ![a] = Cardinality(loaded[w])]
        /\ UNCHANGED <<processed, chunks, vectors, next_gen, overlapped>>
    BY <1>14 DEF SaveVectors
  <2>2. loaded[w] \subseteq vectors[a]
    BY <2>1 DEF StoredInv
  <2>3. a \notin overlapped => loaded[w] = chunks[a]
    BY <2>1 DEF ReadersInv
  <2>4. \A b \in Assets : recorded'[b] = IF b = a THEN Cardinality(loaded[w]) ELSE recorded[b]
    BY <2>1 DEF TypeOK
  <2>5. \A b \in processed : b \in Assets
    BY DEF TypeOK
  <2>6. ASSUME NEW b \in processed \ overlapped
        PROVE  /\ \E g \in 0..next_gen[b] - 1 : chunks[b] = Generation(g)
               /\ vectors[b] \subseteq chunks[b]
               /\ recorded'[b] > 0 => vectors[b] = chunks[b] /\ recorded'[b] = Cardinality(chunks[b])
    <3>1. CASE b = a
      BY <2>2, <2>3, <2>4, <2>5, <3>1 DEF ReplayConverges
    <3>2. CASE b # a
      BY <2>4, <2>5, <3>2 DEF ReplayConverges
    <3> QED
      BY <3>1, <3>2
  <2> QED
    BY <2>1, <2>6 DEF ReplayConverges
<1>15. ASSUME NEW w \in Workers, Raise(w) PROVE ReplayConverges'
  BY <1>15, <1>a, ReplayFrame DEF Raise
<1>16. ASSUME NEW w \in Workers, Retry(w) PROVE ReplayConverges'
  BY <1>16, <1>a, ReplayFrame DEF Retry
<1>17. ASSUME NEW w \in Workers, DeadLetter(w) PROVE ReplayConverges'
  BY <1>17, <1>a, ReplayFrame DEF DeadLetter
<1>18. ASSUME NEW w \in Workers, TimeLimit(w) PROVE ReplayConverges'
  BY <1>18, <1>a, ReplayFrame DEF TimeLimit
<1>19. ASSUME NEW w \in Workers, MarkFailure(w) PROVE ReplayConverges'
  BY <1>19, <1>a, ReplayFrame DEF MarkFailure
<1>20. ASSUME NEW w \in Workers, Ack(w) PROVE ReplayConverges'
  BY <1>20, <1>a, ReplayFrame DEF Ack
<1>21. ASSUME NEW w \in Workers, Crash(w) PROVE ReplayConverges'
  BY <1>21, <1>a, ReplayFrame DEF Crash
<1>22. CASE UNCHANGED vars
  BY <1>22, <1>a, ReplayFrame DEF vars
<1> QED
  BY <1>1, <1>2, <1>3, <1>4, <1>5, <1>6, <1>7, <1>8, <1>9, <1>10, <1>11, <1>12, <1>13,
     <1>14, <1>15, <1>16, <1>17, <1>18, <1>19, <1>20, <1>21, <1>22
     DEF Next, WorkerStep, IngestStep, EmbedStep

LEMMA GenerationCardinality ==
  ASSUME NEW g \in Nat
  PROVE  Cardinality(Generation(g)) = NumChunks
<1>1. IsFiniteSet({g}) /\ Cardinality({g}) = 1
  BY FS_Singleton
<1>2. IsFiniteSet(1..NumChunks) /\ Cardinality(1..NumChunks) = NumChunks
  BY ChunksAssumption, FS_Interval
<1>3. Cardinality(Generation(g)) = 1 * NumChunks
  <2>1. Cardinality({g} \X (1..NumChunks)) = Cardinality({g}) * Cardinality(1..NumChunks)
    BY <1>1, <1>2, FS_Product
  <2> QED
    BY <1>1, <1>2, <2>1 DEF Generation
<1>4. 1 * NumChunks = NumChunks
  BY ChunksAssumption
<1> QED
  BY <1>3, <1>4

\* Steps that take no open job away and undo nothing keep AccountInv.
LEMMA AccountFrame ==
  ASSUME AccountInv, UNCHANGED <<processed, recorded>>,
         \A a \in Assets : upload'[a] = "accepted" => upload[a] = "accepted",
         failure \subseteq failure', error_log \subseteq error_log',
         torn \subseteq torn', overlapped \subseteq overlapped',
         \A m \in Message : queue[m] > 0 => queue'[m] > 0,
         \A v \in Workers : job[v] # NoJob /\ pc[v] # "ack" => job'[v] = job[v] /\ pc'[v] # "ack",
         \A v \in Workers : pc[v] = "dispatch_embed" =>
           pc'[v] = "dispatch_embed" /\ job'[v] = job[v]
  PROVE  AccountInv'
<1>1. ASSUME NEW t, NEW a, Open(t, a) PROVE Open(t, a)'
  BY <1>1 DEF Open, Running
<1>2. ASSUME NEW a, Reported(a) PROVE Reported(a)'
  BY <1>2 DEF Reported
<1>3. ASSUME NEW a \in Assets, Handled(a) PROVE Handled(a)'
  BY <1>1, <1>2, <1>3 DEF Handled
<1> QED
  BY <1>1, <1>2, <1>3 DEF AccountInv

\* Nothing is lost silently except by the two exceptions.
LEMMA AccountInductive ==
  TypeOK /\ JobsMatch /\ OrderInv /\ ConvergeInv /\ AccountInv /\ [Next]_vars => AccountInv'
<1> SUFFICES ASSUME TypeOK, JobsMatch, OrderInv, ConvergeInv, AccountInv, [Next]_vars PROVE AccountInv'
  OBVIOUS
<1> USE DEF ConvergeInv
<1>1. ASSUME NEW a \in Assets, SaveBytes(a) PROVE AccountInv'
  BY <1>1, AccountFrame DEF TypeOK, SaveBytes
<1>2. ASSUME NEW a \in Assets, DispatchIngest(a) PROVE AccountInv'
  <2>1. First("ingest", a) \in Message /\ First("ingest", a).task = "ingest" /\ First("ingest", a).asset = a
    BY FirstIsMessage
  <2>2. UNCHANGED <<job, pc, processed, recorded, failure, error_log, torn, overlapped>>
    BY <1>2 DEF DispatchIngest
  <2>3. /\ queue' = queue \/ queue' = [queue EXCEPT ![First("ingest", a)] = @ + 1]
        /\ upload'[a] = "accepted" => queue' = [queue EXCEPT ![First("ingest", a)] = @ + 1]
        /\ \A b \in Assets : b # a => upload'[b] = upload[b]
    BY <1>2 DEF TypeOK, DispatchIngest, Publish
  <2>4. \A m \in Message : queue[m] > 0 => queue'[m] > 0
    BY <2>1, <2>3 DEF TypeOK
  <2>5. upload'[a] = "accepted" => queue'[First("ingest", a)] > 0
    BY <2>1, <2>3 DEF TypeOK
  <2>6. upload'[a] = "accepted" => Open("ingest", a)'
    BY <2>1, <2>5 DEF Open
  <2>7. \A t, b : Open(t, b) => Open(t, b)'
    BY <2>2, <2>4 DEF Open, Running
  <2>8. \A b : Reported(b)' <=> Reported(b)
    BY <2>2 DEF Reported
  <2>9. \A b \in Assets : Handled(b) => Handled(b)'
    BY <2>2, <2>7, <2>8 DEF Handled
  <2> QED
    BY <2>2, <2>3, <2>6, <2>7, <2>8, <2>9 DEF AccountInv
<1>3. ASSUME NEW w \in Workers, Take(w) PROVE AccountInv'
  <2>1. PICK m \in Message : /\ queue[m] > 0
                             /\ queue' = [queue EXCEPT ![m] = @ - 1]
                             /\ job' = [job EXCEPT ![w] = m]
    BY <1>3 DEF Take
  <2>2. /\ pc[w] = "idle" /\ job[w] = NoJob /\ pc' = [pc EXCEPT ![w] = "start"]
        /\ UNCHANGED <<upload, processed, recorded, failure, error_log, torn, overlapped>>
    BY <1>3 DEF JobsMatch, Take, Goto
  <2>3. ASSUME NEW t, NEW b, Open(t, b) PROVE Open(t, b)'
    <3>1. job'[w] = m /\ pc'[w] = "start" /\ m # NoJob
      BY <2>1, <2>2, NoJobAssumption DEF TypeOK
    <3>2. \A v \in Workers : v # w => job'[v] = job[v] /\ pc'[v] = pc[v]
      BY <2>1, <2>2 DEF TypeOK
    <3>3. \A n \in Message : n # m => queue'[n] = queue[n]
      BY <2>1 DEF TypeOK
    <3> QED
      BY <2>2, <2>3, <3>1, <3>2, <3>3 DEF Open, Running
  <2>4. \A b : Reported(b)' <=> Reported(b)
    BY <2>2 DEF Reported
  <2>5. \A v \in Workers : pc[v] = "dispatch_embed" => pc'[v] = "dispatch_embed" /\ job'[v] = job[v]
    BY <2>1, <2>2 DEF TypeOK
  <2>6. ASSUME NEW b \in Assets, Handled(b) PROVE Handled(b)'
    BY <2>2, <2>3, <2>4, <2>5, <2>6 DEF Handled
  <2> QED
    BY <2>2, <2>3, <2>4, <2>6 DEF AccountInv
<1>4. ASSUME NEW w \in Workers, GetContainer(w) PROVE AccountInv'
  BY <1>4, AccountFrame DEF TypeOK, JobsMatch, GetContainer, Goto
<1>5. ASSUME NEW w \in Workers, IsProcessed(w) PROVE AccountInv'
  <2> DEFINE a == job[w].asset
  <2>1. job[w] \in Message /\ a \in Assets
    BY <1>5, BusyRunsMessage, MessageFields DEF IsProcessed
  <2>2. /\ pc[w] = "is_processed" /\ job[w].task = "ingest"
        /\ a \notin processed => pc'[w] = "read_bytes"
        /\ \A v \in Workers : v # w => pc'[v] = pc[v]
        /\ overlapped \subseteq overlapped'
        /\ UNCHANGED <<upload, queue, job, processed, recorded, failure, error_log, torn>>
    BY <1>5 DEF TypeOK, JobsMatch, IngestPCs, IsProcessed, Goto
  <2>3. \A b : Reported(b)' <=> Reported(b)
    BY <2>2 DEF Reported
  <2>4. \A b : Open("embed", b) => Open("embed", b)'
    BY <2>2 DEF Open, Running
  <2>a. ASSUME NEW b \in Assets, upload'[b] = "accepted", b \notin processed'
        PROVE  Open("ingest", b)' \/ Reported(b)'
    <3>1. Open("ingest", b) => Open("ingest", b)'
      BY <2>2, <2>a DEF Open, Running
    <3> QED
      BY <2>2, <2>3, <2>a, <3>1 DEF AccountInv
  <2>b. ASSUME NEW b \in Assets, b \in processed'
        PROVE  Handled(b)'
    <3>1. Handled(b)
      BY <2>2, <2>b DEF AccountInv
    <3> QED
      BY <2>2, <2>3, <2>4, <3>1 DEF Handled
  <2> QED
    BY <2>a, <2>b DEF AccountInv
<1>6. ASSUME NEW w \in Workers, ReadAndChunk(w) PROVE AccountInv'
  BY <1>6, AccountFrame DEF TypeOK, JobsMatch, ReadAndChunk, Goto
<1>7. ASSUME NEW w \in Workers, DeleteMany(w) PROVE AccountInv'
  BY <1>7, AccountFrame DEF TypeOK, JobsMatch, DeleteMany, Goto
<1>8. ASSUME NEW w \in Workers, InsertOne(w) PROVE AccountInv'
  BY <1>8, AccountFrame DEF TypeOK, JobsMatch, InsertOne, Goto
<1>9. ASSUME NEW w \in Workers, MarkProcessed(w) PROVE AccountInv'
  <2> DEFINE a == job[w].asset
  <2>1. job[w] \in Message /\ a \in Assets
    BY <1>9, BusyRunsMessage, MessageFields DEF MarkProcessed
  <2>2. /\ pc[w] = "insert_many" /\ processed' = processed \cup {a}
        /\ \A v \in Workers : v # w => pc'[v] = pc[v]
        /\ UNCHANGED <<upload, queue, job, recorded, failure, error_log, overlapped>>
        /\ torn \subseteq torn'
        /\ pc'[w] \in {"dispatch_embed", "handle"}
        /\ pc'[w] = "dispatch_embed" \/ a \in torn'
    BY <1>9 DEF TypeOK, MarkProcessed, Goto
  <2>3. \A b : Reported(b)' <=> Reported(b)
    BY <2>2 DEF Reported
  <2>4. \A t, b : Open(t, b) => Open(t, b)'
    BY <2>2 DEF Open, Running
  <2>a. ASSUME NEW b \in Assets, upload'[b] = "accepted", b \notin processed'
        PROVE  Open("ingest", b)' \/ Reported(b)'
    BY <2>2, <2>3, <2>4, <2>a DEF AccountInv
  <2>b. ASSUME NEW b \in Assets, b \in processed'
        PROVE  Handled(b)'
    <3>1. CASE b = a
      BY <2>2, <3>1 DEF Handled
    <3>2. CASE b # a
      BY <2>2, <2>3, <2>4, <2>b, <3>2 DEF AccountInv, Handled
    <3> QED
      BY <3>1, <3>2
  <2> QED
    BY <2>a, <2>b DEF AccountInv
<1>10. ASSUME NEW w \in Workers, DispatchEmbed(w) PROVE AccountInv'
  <2>1. PICK a \in Assets : a = job[w].asset
    BY <1>10, BusyRunsMessage, MessageFields DEF DispatchEmbed
  <2>2. PICK n \in Message : n = First("embed", a) /\ n.task = "embed" /\ n.asset = a
    BY FirstIsMessage
  <2>3. /\ pc[w] = "dispatch_embed" /\ a \in processed /\ job[w].task = "ingest"
        /\ \A v \in Workers : v # w => pc'[v] = pc[v]
        /\ UNCHANGED <<upload, job, processed, recorded, failure, torn, overlapped>>
        /\ error_log \subseteq error_log'
    BY <1>10, <2>1 DEF TypeOK, JobsMatch, OrderInv, IngestPCs, DispatchEmbed, Goto
  <2>4. \/ queue' = [queue EXCEPT ![n] = @ + 1]
        \/ queue' = queue /\ <<"embed", a>> \in error_log'
    BY <1>10, <2>1, <2>2 DEF DispatchEmbed, Publish
  <2>5. \A m \in Message : queue[m] > 0 => queue'[m] > 0
    BY <2>2, <2>4 DEF TypeOK
  <2>6. queue'[n] > 0 \/ <<"embed", a>> \in error_log'
    BY <2>2, <2>4 DEF TypeOK
  <2>7. Open("embed", a)' \/ Reported(a)'
    BY <2>2, <2>6 DEF Open, Reported
  <2>8. \A b : Reported(b) => Reported(b)'
    BY <2>3 DEF Reported
  <2>a. ASSUME NEW b \in Assets, upload'[b] = "accepted", b \notin processed'
        PROVE  Open("ingest", b)' \/ Reported(b)'
    <3>1. Open("ingest", b) => Open("ingest", b)'
      BY <2>1, <2>3, <2>5, <2>a DEF Open, Running
    <3> QED
      BY <2>3, <2>8, <2>a, <3>1 DEF AccountInv
  <2>b. ASSUME NEW b \in Assets, b \in processed'
        PROVE  Handled(b)'
    <3>1. CASE b = a
      BY <2>7, <3>1 DEF Handled
    <3>2. CASE b # a
      <4>1. Open("embed", b) => Open("embed", b)'
        BY <2>3, <2>5 DEF Open, Running
      <4>2. Handled(b)
        BY <2>3, <2>b DEF AccountInv
      <4> QED
        BY <2>3, <2>8, <3>2, <2>1, <4>1, <4>2 DEF Handled
    <3> QED
      BY <3>1, <3>2
  <2> QED
    BY <2>a, <2>b DEF AccountInv
<1>11. ASSUME NEW w \in Workers, HasVectors(w) PROVE AccountInv'
  <2> DEFINE a == job[w].asset
  <2>1. job[w] \in Message /\ a \in Assets
    BY <1>11, BusyRunsMessage, MessageFields DEF HasVectors
  <2>2. /\ pc[w] = "has_vectors" /\ job[w].task = "embed"
        /\ recorded[a] > 0 \/ pc'[w] = "find_by_asset"
        /\ \A v \in Workers : v # w => pc'[v] = pc[v]
        /\ UNCHANGED <<upload, queue, job, processed, recorded, failure, error_log, torn, overlapped>>
    BY <1>11 DEF TypeOK, JobsMatch, EmbedPCs, HasVectors, Goto
  <2>3. \A b : Reported(b)' <=> Reported(b)
    BY <2>2 DEF Reported
  <2>a. ASSUME NEW b \in Assets, upload'[b] = "accepted", b \notin processed'
        PROVE  Open("ingest", b)' \/ Reported(b)'
    <3>1. Open("ingest", b) => Open("ingest", b)'
      BY <2>2 DEF Open, Running
    <3> QED
      BY <2>2, <2>3, <2>a, <3>1 DEF AccountInv
  <2>b. ASSUME NEW b \in Assets, b \in processed'
        PROVE  Handled(b)'
    <3>1. Open("embed", b) => Open("embed", b)' \/ recorded[b] > 0
      BY <2>2 DEF Open, Running
    <3>2. Handled(b)
      BY <2>2, <2>b DEF AccountInv
    <3> QED
      BY <2>2, <2>3, <3>1, <3>2 DEF Handled
  <2> QED
    BY <2>a, <2>b DEF AccountInv
<1>12. ASSUME NEW w \in Workers, FindByAsset(w) PROVE AccountInv'
  BY <1>12, AccountFrame DEF TypeOK, JobsMatch, FindByAsset, Goto
<1>13. ASSUME NEW w \in Workers, UpsertOne(w) PROVE AccountInv'
  BY <1>13, AccountFrame DEF TypeOK, JobsMatch, UpsertOne, Goto
<1>14. ASSUME NEW w \in Workers, SaveVectors(w) PROVE AccountInv'
  <2> DEFINE a == job[w].asset
  <2>1. job[w] \in Message /\ a \in Assets
    BY <1>14, BusyRunsMessage, MessageFields DEF SaveVectors
  <2>2. /\ pc[w] = "upsert" /\ job[w].task = "embed"
        /\ \A v \in Workers : v # w => pc'[v] = pc[v]
        /\ recorded' = [recorded EXCEPT ![a] = Cardinality(loaded[w])]
        /\ UNCHANGED <<upload, queue, job, processed, failure, error_log, torn, overlapped>>
    BY <1>14 DEF TypeOK, JobsMatch, EmbedPCs, SaveVectors, Goto
  <2>3. \A b : Reported(b)' <=> Reported(b)
    BY <2>2 DEF Reported
  <2>4. a \in processed
    BY <2>2 DEF OrderInv
  <2>5. a \in overlapped \/ recorded'[a] > 0
    <3>1. SUFFICES ASSUME a \notin overlapped PROVE recorded'[a] > 0
      OBVIOUS
    <3>2. loaded[w] = chunks[a]
      BY <2>2, <3>1 DEF ReadersInv
    <3>3. PICK g \in 0..next_gen[a] - 1 : chunks[a] = Generation(g)
      BY <2>4, <3>1 DEF ReplayConverges
    <3>4. g \in Nat
      BY <2>1, <3>3 DEF TypeOK
    <3>5. Cardinality(loaded[w]) = NumChunks
      BY <3>2, <3>3, <3>4, GenerationCardinality
    <3> QED
      BY <2>1, <2>2, <3>5, ChunksAssumption DEF TypeOK
  <2>a. ASSUME NEW b \in Assets, upload'[b] = "accepted", b \notin processed'
        PROVE  Open("ingest", b)' \/ Reported(b)'
    <3>1. Open("ingest", b) => Open("ingest", b)'
      BY <2>2 DEF Open, Running
    <3> QED
      BY <2>2, <2>3, <2>a, <3>1 DEF AccountInv
  <2>b. ASSUME NEW b \in Assets, b \in processed'
        PROVE  Handled(b)'
    <3>1. CASE b = a
      BY <2>2, <2>5, <3>1 DEF Handled
    <3>2. CASE b # a
      <4>1. Open("embed", b) => Open("embed", b)'
        BY <2>2, <3>2 DEF Open, Running
      <4>2. Handled(b) /\ recorded'[b] = recorded[b]
        BY <2>2, <2>b, <3>2 DEF AccountInv, TypeOK
      <4> QED
        BY <2>2, <2>3, <4>1, <4>2 DEF Handled
    <3> QED
      BY <3>1, <3>2
  <2> QED
    BY <2>a, <2>b DEF AccountInv
<1>15. ASSUME NEW w \in Workers, Raise(w) PROVE AccountInv'
  BY <1>15, AccountFrame DEF TypeOK, JobsMatch, IngestPCs, EmbedPCs, Raise, Goto
<1>16. ASSUME NEW w \in Workers, Retry(w) PROVE AccountInv'
  <2>1. PICK a \in Assets, t \in {"ingest", "embed"} : a = job[w].asset /\ t = job[w].task
    BY <1>16, BusyRunsMessage, MessageFields DEF Retry
  <2>2. PICK n \in Message : n = [job[w] EXCEPT !.retries = @ + 1] /\ n.task = t /\ n.asset = a
    BY <1>16, <2>1, BusyRunsMessage, NextAttemptIsMessage DEF Retry
  <2>3. /\ pc[w] = "handle"
        /\ \A v \in Workers : v # w => pc'[v] = pc[v]
        /\ UNCHANGED <<upload, job, processed, recorded, failure, torn, overlapped>>
        /\ error_log \subseteq error_log'
    BY <1>16 DEF TypeOK, Retry, Goto
  <2>4. \/ queue' = [queue EXCEPT ![n] = @ + 1]
        \/ queue' = queue /\ <<t, a>> \in error_log'
    BY <1>16, <2>1, <2>2 DEF Retry, Publish
  <2>5. \A m \in Message : queue[m] > 0 => queue'[m] > 0
    BY <2>2, <2>4 DEF TypeOK
  <2>6. queue'[n] > 0 \/ <<t, a>> \in error_log'
    BY <2>2, <2>4 DEF TypeOK
  <2>7. Open(t, a)' \/ Reported(a)'
    BY <2>1, <2>2, <2>6 DEF Open, Reported
  <2>8. \A u, b : Open(u, b) => Open(u, b)' \/ (u = t /\ b = a)
    BY <2>1, <2>3, <2>5 DEF Open, Running
  <2>9. \A b : Reported(b) => Reported(b)'
    BY <2>3 DEF Reported
  <2>10. \A v \in Workers : pc[v] = "dispatch_embed" => pc'[v] = "dispatch_embed" /\ job'[v] = job[v]
    BY <2>3
  <2>11. t = "embed" => a \in processed
    BY <2>1, <2>3 DEF OrderInv
  <2>12. t = "ingest" \/ t = "embed"
    BY <2>1
  <2>a. ASSUME NEW b \in Assets, upload'[b] = "accepted", b \notin processed'
        PROVE  Open("ingest", b)' \/ Reported(b)'
    <3>1. Open("ingest", b) \/ Reported(b)
      BY <2>3, <2>a DEF AccountInv
    <3>2. CASE Reported(b)
      BY <2>9, <3>2
    <3>3. CASE Open("ingest", b)
      BY <2>7, <2>8, <3>3
    <3> QED
      BY <3>1, <3>2, <3>3
  <2>b. ASSUME NEW b \in Assets, b \in processed'
        PROVE  Handled(b)'
    <3>1. Handled(b)
      BY <2>3, <2>b DEF AccountInv
    <3>2. Open("embed", b) => Open("embed", b)' \/ Reported(b)'
      BY <2>7, <2>8
    <3> QED
      BY <2>3, <2>9, <2>10, <3>1, <3>2 DEF Handled
  <2> QED
    BY <2>a, <2>b DEF AccountInv
<1>17. ASSUME NEW w \in Workers, DeadLetter(w) PROVE AccountInv'
  BY <1>17, AccountFrame DEF TypeOK, JobsMatch, DeadLetter, Goto
<1>18. ASSUME NEW w \in Workers, TimeLimit(w) PROVE AccountInv'
  <2>1. /\ pc[w] # "dispatch_embed" => torn' = torn
        /\ pc[w] = "dispatch_embed" => torn' = torn \cup {job[w].asset}
        /\ pc' = [pc EXCEPT ![w] = "raise"]
        /\ UNCHANGED <<upload, queue, job, processed, recorded, failure, error_log, overlapped>>
    BY <1>18 DEF TimeLimit, Unhanded, Goto
  <2>2. \A t, b : Open(t, b) => Open(t, b)'
    BY <2>1 DEF TypeOK, Open, Running
  <2>3. \A b : Reported(b)' <=> Reported(b)
    BY <2>1 DEF Reported
  <2>4. \A v \in Workers : v # w => pc'[v] = pc[v]
    BY <2>1 DEF TypeOK
  <2>5. ASSUME NEW b \in Assets, Handled(b) PROVE Handled(b)'
    BY <2>1, <2>2, <2>3, <2>4, <2>5 DEF Handled
  <2> QED
    BY <2>1, <2>2, <2>3, <2>5 DEF AccountInv
<1>19. ASSUME NEW w \in Workers, MarkFailure(w) PROVE AccountInv'
  <2>1. PICK a \in Assets, t \in {"ingest", "embed"} : a = job[w].asset /\ t = job[w].task
    BY <1>19, BusyRunsMessage, MessageFields DEF MarkFailure
  <2>2. /\ pc[w] = "raise"
        /\ \A v \in Workers : v # w => pc'[v] = pc[v]
        /\ UNCHANGED <<upload, queue, job, processed, recorded, error_log, torn, overlapped>>
        /\ failure' = failure \cup {<<t, a>>}
    BY <1>19, <2>1 DEF TypeOK, MarkFailure, Goto
  <2>3. Reported(a)' /\ \A b : Reported(b) => Reported(b)'
    BY <2>1, <2>2 DEF Reported
  <2>4. \A u, b : Open(u, b) => Open(u, b)' \/ b = a
    BY <2>1, <2>2 DEF Open, Running
  <2>5. \A v \in Workers : pc[v] = "dispatch_embed" => pc'[v] = "dispatch_embed" /\ job'[v] = job[v]
    BY <2>2
  <2>a. ASSUME NEW b \in Assets, upload'[b] = "accepted", b \notin processed'
        PROVE  Open("ingest", b)' \/ Reported(b)'
    BY <2>2, <2>3, <2>4, <2>a DEF AccountInv
  <2>b. ASSUME NEW b \in Assets, b \in processed'
        PROVE  Handled(b)'
    <3>1. CASE b = a
      BY <2>3, <3>1 DEF Handled
    <3>2. CASE b # a
      <4>1. Handled(b) /\ (Open("embed", b) => Open("embed", b)')
        BY <2>2, <2>4, <2>b, <3>2 DEF AccountInv
      <4> QED
        BY <2>2, <2>3, <2>5, <4>1 DEF Handled
    <3> QED
      BY <3>1, <3>2
  <2> QED
    BY <2>a, <2>b DEF AccountInv
<1>20. ASSUME NEW w \in Workers, Ack(w) PROVE AccountInv'
  BY <1>20, AccountFrame DEF TypeOK, JobsMatch, Ack, Goto
<1>21. ASSUME NEW w \in Workers, Crash(w) PROVE AccountInv'
  <2>1. job[w] \in Message
    BY <1>21, BusyRunsMessage DEF Crash
  <2>2. /\ pc[w] # "dispatch_embed" => torn' = torn
        /\ pc[w] = "dispatch_embed" => torn' = torn \cup {job[w].asset}
        /\ \A v \in Workers : v # w => pc'[v] = pc[v] /\ job'[v] = job[v]
        /\ UNCHANGED <<upload, processed, recorded, failure, error_log, overlapped>>
        /\ queue' = [queue EXCEPT ![job[w]] = @ + 1]
    BY <1>21 DEF TypeOK, Crash, Unhanded, Goto, Publish
  <2>3. queue'[job[w]] > 0 /\ \A m \in Message : queue[m] > 0 => queue'[m] > 0
    BY <2>1, <2>2 DEF TypeOK
  <2>4. \A t, b : Open(t, b) => Open(t, b)'
    BY <2>1, <2>2, <2>3 DEF Open, Running
  <2>5. \A b : Reported(b)' <=> Reported(b)
    BY <2>2 DEF Reported
  <2>6. ASSUME NEW b \in Assets, Handled(b) PROVE Handled(b)'
    BY <2>2, <2>4, <2>5, <2>6 DEF Handled
  <2> QED
    BY <2>2, <2>4, <2>5, <2>6 DEF AccountInv
<1>22. CASE UNCHANGED vars
  BY <1>22, AccountFrame DEF vars
<1> QED
  BY <1>1, <1>2, <1>3, <1>4, <1>5, <1>6, <1>7, <1>8, <1>9, <1>10, <1>11, <1>12, <1>13,
     <1>14, <1>15, <1>16, <1>17, <1>18, <1>19, <1>20, <1>21, <1>22
     DEF Next, WorkerStep, IngestStep, EmbedStep

\* Steps that queue nothing and start nothing keep AcceptedInv.
LEMMA AcceptedFrame ==
  ASSUME AcceptedInv, UNCHANGED <<upload, queue, job>>
  PROVE  AcceptedInv'
BY DEF AcceptedInv

\* Jobs come from accepted uploads, and from jobs.
LEMMA AcceptedInductive ==
  TypeOK /\ JobsMatch /\ AcceptedInv /\ [Next]_vars => AcceptedInv'
<1> SUFFICES ASSUME TypeOK, JobsMatch, AcceptedInv, [Next]_vars PROVE AcceptedInv'
  OBVIOUS
<1>1. ASSUME NEW a \in Assets, SaveBytes(a) PROVE AcceptedInv'
  <2>1. \A b : upload[b] = "accepted" => b # a
    BY <1>1 DEF SaveBytes
  <2>2. /\ UNCHANGED <<queue, job>>
        /\ \A b \in Assets : b # a => upload'[b] = upload[b]
    BY <1>1 DEF TypeOK, SaveBytes
  <2>3. \A m \in Message : m.asset \in Assets
    BY MessageFields
  <2> QED
    BY <2>1, <2>2, <2>3 DEF AcceptedInv, TypeOK
<1>2. ASSUME NEW a \in Assets, DispatchIngest(a) PROVE AcceptedInv'
  <2>1. PICK n \in Message : n = First("ingest", a) /\ n.asset = a
    BY FirstIsMessage
  <2>2. /\ upload[a] = "saved" /\ job' = job
        /\ \A b \in Assets : b # a => upload'[b] = upload[b]
        /\ \/ upload'[a] = "accepted" /\ queue' = [queue EXCEPT ![n] = @ + 1]
           \/ queue' = queue
    BY <1>2, <2>1 DEF TypeOK, DispatchIngest, Publish
  <2>3. \A m \in Message : m.asset \in Assets
    BY MessageFields
  <2>4. \A m \in Message : queue'[m] > 0 => queue[m] > 0 \/ (m = n /\ upload'[a] = "accepted")
    BY <2>2 DEF TypeOK
  <2> QED
    BY <2>1, <2>2, <2>3, <2>4 DEF AcceptedInv, TypeOK
<1>3. ASSUME NEW w \in Workers, Take(w) PROVE AcceptedInv'
  <2>1. PICK m \in Message : /\ queue[m] > 0
                             /\ queue' = [queue EXCEPT ![m] = @ - 1]
                             /\ job' = [job EXCEPT ![w] = m]
    BY <1>3 DEF Take
  <2>2. upload' = upload /\ \A n \in Message : queue'[n] > 0 => queue[n] > 0
    BY <1>3, <2>1 DEF Take, TypeOK
  <2> QED
    BY <2>1, <2>2 DEF AcceptedInv, TypeOK
<1>4. ASSUME NEW w \in Workers, GetContainer(w) PROVE AcceptedInv'
  BY <1>4, AcceptedFrame DEF GetContainer
<1>5. ASSUME NEW w \in Workers, IsProcessed(w) PROVE AcceptedInv'
  BY <1>5, AcceptedFrame DEF IsProcessed
<1>6. ASSUME NEW w \in Workers, ReadAndChunk(w) PROVE AcceptedInv'
  BY <1>6, AcceptedFrame DEF ReadAndChunk
<1>7. ASSUME NEW w \in Workers, DeleteMany(w) PROVE AcceptedInv'
  BY <1>7, AcceptedFrame DEF DeleteMany
<1>8. ASSUME NEW w \in Workers, InsertOne(w) PROVE AcceptedInv'
  BY <1>8, AcceptedFrame DEF InsertOne
<1>9. ASSUME NEW w \in Workers, MarkProcessed(w) PROVE AcceptedInv'
  BY <1>9, AcceptedFrame DEF MarkProcessed
<1>10. ASSUME NEW w \in Workers, DispatchEmbed(w) PROVE AcceptedInv'
  <2>1. job[w] \in Message /\ job[w].asset \in Assets
    BY <1>10, BusyRunsMessage, MessageFields DEF DispatchEmbed
  <2>2. PICK n \in Message : n = First("embed", job[w].asset) /\ n.asset = job[w].asset
    BY <1>10, <2>1, FirstIsMessage DEF DispatchEmbed
  <2>3. /\ UNCHANGED <<upload, job>>
        /\ queue' = queue \/ queue' = [queue EXCEPT ![n] = @ + 1]
    BY <1>10, <2>2 DEF DispatchEmbed, Publish
  <2>4. \A m \in Message : queue'[m] > 0 => queue[m] > 0 \/ m = n
    BY <2>3 DEF TypeOK
  <2>5. upload[n.asset] = "accepted"
    BY <2>1, <2>2, NoJobAssumption DEF AcceptedInv
  <2> QED
    BY <2>3, <2>4, <2>5 DEF AcceptedInv
<1>11. ASSUME NEW w \in Workers, HasVectors(w) PROVE AcceptedInv'
  BY <1>11, AcceptedFrame DEF HasVectors
<1>12. ASSUME NEW w \in Workers, FindByAsset(w) PROVE AcceptedInv'
  BY <1>12, AcceptedFrame DEF FindByAsset
<1>13. ASSUME NEW w \in Workers, UpsertOne(w) PROVE AcceptedInv'
  BY <1>13, AcceptedFrame DEF UpsertOne
<1>14. ASSUME NEW w \in Workers, SaveVectors(w) PROVE AcceptedInv'
  BY <1>14, AcceptedFrame DEF SaveVectors
<1>15. ASSUME NEW w \in Workers, Raise(w) PROVE AcceptedInv'
  BY <1>15, AcceptedFrame DEF Raise
<1>16. ASSUME NEW w \in Workers, Retry(w) PROVE AcceptedInv'
  <2>1. job[w] \in Message /\ job[w].asset \in Assets
    BY <1>16, BusyRunsMessage, MessageFields DEF Retry
  <2>2. PICK n \in Message : n = [job[w] EXCEPT !.retries = @ + 1] /\ n.asset = job[w].asset
    BY <1>16, <2>1, NextAttemptIsMessage DEF Retry
  <2>3. /\ UNCHANGED <<upload, job>>
        /\ queue' = queue \/ queue' = [queue EXCEPT ![n] = @ + 1]
    BY <1>16, <2>2 DEF Retry, Publish
  <2>4. \A m \in Message : queue'[m] > 0 => queue[m] > 0 \/ m = n
    BY <2>3 DEF TypeOK
  <2>5. upload[n.asset] = "accepted"
    BY <2>1, <2>2, NoJobAssumption DEF AcceptedInv
  <2> QED
    BY <2>3, <2>4, <2>5 DEF AcceptedInv
<1>17. ASSUME NEW w \in Workers, DeadLetter(w) PROVE AcceptedInv'
  BY <1>17, AcceptedFrame DEF DeadLetter
<1>18. ASSUME NEW w \in Workers, TimeLimit(w) PROVE AcceptedInv'
  BY <1>18, AcceptedFrame DEF TimeLimit
<1>19. ASSUME NEW w \in Workers, MarkFailure(w) PROVE AcceptedInv'
  BY <1>19, AcceptedFrame DEF MarkFailure
<1>20. ASSUME NEW w \in Workers, Ack(w) PROVE AcceptedInv'
  BY <1>20 DEF AcceptedInv, TypeOK, Ack
<1>21. ASSUME NEW w \in Workers, Crash(w) PROVE AcceptedInv'
  <2>1. PICK n \in Message : n = job[w]
    BY <1>21, BusyRunsMessage DEF Crash
  <2>2. /\ upload' = upload /\ job' = [job EXCEPT ![w] = NoJob]
        /\ queue' = [queue EXCEPT ![n] = @ + 1]
    BY <1>21, <2>1 DEF Crash, Publish
  <2>3. \A m \in Message : queue'[m] > 0 => queue[m] > 0 \/ m = n
    BY <2>2 DEF TypeOK
  <2>4. upload[n.asset] = "accepted"
    BY <2>1, NoJobAssumption DEF AcceptedInv
  <2> QED
    BY <2>2, <2>3, <2>4 DEF AcceptedInv, TypeOK
<1>22. CASE UNCHANGED vars
  BY <1>22, AcceptedFrame DEF vars
<1> QED
  BY <1>1, <1>2, <1>3, <1>4, <1>5, <1>6, <1>7, <1>8, <1>9, <1>10, <1>11, <1>12, <1>13,
     <1>14, <1>15, <1>16, <1>17, <1>18, <1>19, <1>20, <1>21, <1>22
     DEF Next, WorkerStep, IngestStep, EmbedStep

------------------------------------------------------------------------------
\* The invariant holds and the properties follow.

LEMMA InitEstablishes == Init => IInv
<1> SUFFICES ASSUME Init PROVE IInv
  OBVIOUS
<1>1. TypeOK
  BY NoJobAssumption, CrashAssumption DEF Init, TypeOK, PCs
<1>2. JobsMatch /\ AcceptedInv /\ OrderInv
  BY DEF Init, JobsMatch, AcceptedInv, OrderInv, IngestPCs, EmbedPCs
<1>3. StoredInv
  <2>1. IsFiniteSet({}) /\ Cardinality({}) = 0
    BY FS_EmptySet
  <2> QED
    BY <2>1 DEF Init, StoredInv, FinishedMeansStored
<1>4. ConvergeInv
  BY DEF Init, ConvergeInv, WritersInv, Writing, TodoInv, ReadersInv, ReplayConverges
<1>5. AccountInv
  BY DEF Init, AccountInv
<1> QED
  BY <1>1, <1>2, <1>3, <1>4, <1>5 DEF IInv

LEMMA StepPreserves == IInv /\ [Next]_vars => IInv'
BY TypeInductive, JobsMatchInductive, AcceptedInductive, OrderInductive, StoredInductive,
   WritersInductive, TodoInductive, ReadersInductive, ReplayInductive, AccountInductive
   DEF IInv, ConvergeInv

\* The inductive invariant of the pipeline holds in every reachable state.
THEOREM Invariance == Spec => []IInv
BY InitEstablishes, StepPreserves, PTL DEF Spec

\* Every variable of the pipeline keeps its type.
THEOREM TypeCorrectness == Spec => []TypeOK
<1>1. IInv => TypeOK
  BY DEF IInv
<1> QED
  BY <1>1, Invariance, PTL

\* Embed jobs, vectors and vector counts exist only for assets whose ingest
\* wrote its mark, however jobs are retried, redelivered and overlapped.
THEOREM EmbeddingFollowsIngest == Spec => []EmbedOnlyAfterProcessed
<1>1. IInv => EmbedOnlyAfterProcessed
  <2> SUFFICES ASSUME IInv, NEW a \in Assets,
                      InFlight("embed", a) \/ vectors[a] # {} \/ recorded[a] > 0
               PROVE  a \in processed
    BY DEF EmbedOnlyAfterProcessed
  <2>1. CASE InFlight("embed", a)
    BY <2>1 DEF IInv, InFlight, Running, JobsMatch, OrderInv
  <2>2. CASE vectors[a] # {} \/ recorded[a] > 0
    BY <2>2 DEF IInv, OrderInv
  <2> QED
    BY <2>1, <2>2
<1> QED
  BY <1>1, Invariance, PTL

\* The vector count that makes later embed jobs skip an asset is never larger
\* than the number of vectors stored, even when ingests overlap.
THEOREM CountIsHonest == Spec => []FinishedMeansStored
<1>1. IInv => FinishedMeansStored
  BY DEF IInv, StoredInv
<1> QED
  BY <1>1, Invariance, PTL

\* Retries, redeliveries and duplicate embeds converge on one chunking.
THEOREM Convergence == Spec => []ReplayConverges
<1>1. IInv => ReplayConverges
  BY DEF IInv, ConvergeInv
<1> QED
  BY <1>1, Invariance, PTL

\* No two vectors of an asset stand for the same place in its document.
OneVectorPerPlace(a) == \A c, d \in vectors[a] : c[2] = d[2] => c = d

\* The comment in upsert_chunks that IngestClaims shows to be wrong in general is
\* right as long as no two ingests of the asset write at once: that overlap is the
\* only way to duplicate vectors, not a retry, a redelivery or a crash.
THEOREM DuplicatesNeedOverlap == Spec => [](\A a \in Assets \ overlapped : OneVectorPerPlace(a))
<1>1. IInv => \A a \in Assets \ overlapped : OneVectorPerPlace(a)
  <2> SUFFICES ASSUME IInv, NEW a \in Assets \ overlapped,
                      NEW c \in vectors[a], NEW d \in vectors[a], c[2] = d[2]
               PROVE  c = d
    BY DEF OneVectorPerPlace
  <2>1. a \in processed
    BY DEF IInv, OrderInv
  <2>2. PICK g \in 0..next_gen[a] - 1 : chunks[a] = Generation(g) /\ vectors[a] \subseteq chunks[a]
    BY <2>1 DEF IInv, ConvergeInv, ReplayConverges
  <2>3. c \in Generation(g) /\ d \in Generation(g)
    BY <2>2
  <2> QED
    BY <2>3 DEF Generation
<1> QED
  BY <1>1, Invariance, PTL

\* An accepted upload nobody works on is searchable or reported, except for a
\* torn hand-over and overlapping ingests.
THEOREM NothingSilentlyLost == Spec => []NothingLostSilently
<1>1. IInv => NothingLostSilently
  <2> SUFFICES ASSUME IInv, NEW a \in Assets, upload[a] = "accepted", Quiet(a),
                      recorded[a] <= 0, ~Reported(a), a \notin torn \cup overlapped
               PROVE  FALSE
    BY DEF NothingLostSilently, Reported, IInv, TypeOK
  <2>1. ~Open("ingest", a) /\ ~Open("embed", a)
    BY DEF Quiet, InFlight, Open
  <2>2. a \in processed
    BY <2>1 DEF IInv, AccountInv
  <2>3. PICK w \in Workers : pc[w] = "dispatch_embed" /\ job[w].asset = a
    BY <2>1, <2>2 DEF IInv, TypeOK, AccountInv, Handled
  <2>4. Running(w, "ingest", a)
    BY <2>3 DEF IInv, JobsMatch, IngestPCs, Running
  <2> QED
    BY <2>4 DEF Quiet, InFlight
<1> QED
  BY <1>1, Invariance, PTL

\* No step rewrites the chunks of a processed asset, unless ingests overlap.
THEOREM ChunksStay == Spec => ChunksStayOnceProcessed
<1>1. IInv /\ [Next]_vars =>
        [\A a \in processed \ overlapped :
           a \in processed' /\ (a \notin overlapped' => chunks'[a] = chunks[a])]_vars
  BY ChunksKept DEF IInv, ConvergeInv, KeepsChunks
<1> QED
  BY <1>1, Invariance, PTL DEF Spec, ChunksStayOnceProcessed

------------------------------------------------------------------------------
\* Every step is a step of AssetLifecycle or invisible to it.

\* The broker or a worker holds some job of asset a.
Held(a) ==
  \/ \E m \in Message : m.asset = a /\ queue[m] > 0
  \/ \E w \in Workers : job[w] # NoJob /\ job[w].asset = a

LEMMA HeldIsWork == TypeOK => \A a : Quiet(a) <=> ~Held(a)
<1> SUFFICES ASSUME TypeOK, NEW a PROVE Quiet(a) <=> ~Held(a)
  OBVIOUS
<1>1. \A m \in Message : m.task = "ingest" \/ m.task = "embed"
  BY MessageFields
<1>2. \A w \in Workers : job[w] # NoJob => job[w] \in Message
  BY DEF TypeOK
<1> QED
  BY <1>1, <1>2 DEF Held, Quiet, InFlight, Running

LEMMA HeldIsWorkNext == TypeOK' => (\A a : Quiet(a) <=> ~Held(a))'
BY HeldIsWork, PTL

\* The state function that the refinement substitutes for "stage".
Stages == [a \in Assets |-> Stage(a)]

\* A step that changes no upload and whose jobs keep every asset held that was,
\* and hold none that was not, changes no stage.
LEMMA StagesFrame ==
  ASSUME TypeOK, TypeOK', upload' = upload, \A a \in Assets : Held(a)' <=> Held(a)
  PROVE  Stages' = Stages
<1>1. \A a \in Assets : Quiet(a)' <=> Quiet(a)
  BY HeldIsWork, HeldIsWorkNext
<1> QED
  BY <1>1 DEF Stages, Stage

LEMMA Unheld ==
  ASSUME UNCHANGED <<upload, queue, job>>, TypeOK, TypeOK'
  PROVE  Stages' = Stages
<1>1. \A a \in Assets : Held(a)' <=> Held(a)
  BY DEF Held
<1> QED
  BY <1>1, StagesFrame

\* What a step looks like in the abstract state.
Invisible == UNCHANGED <<Stages, processed, vectors>>

Simulated == Invisible \/ Lifecycle!Next

LEMMA StepSimulation == IInv /\ IInv' /\ [Next]_vars => Simulated
<1> SUFFICES ASSUME IInv, IInv', [Next]_vars PROVE Simulated
  OBVIOUS
<1>t. TypeOK /\ TypeOK' /\ JobsMatch
  BY DEF IInv
<1>h. \A w \in Workers : pc[w] # "idle" => job[w] # NoJob /\ job[w] \in Message /\ job[w].asset \in Assets
  BY <1>t, BusyRunsMessage, MessageFields, NoJobAssumption
<1>s. \A a \in Assets : Held(a) /\ upload[a] = "accepted" => Stages[a] = "working"
  BY <1>t, HeldIsWork DEF Stages, Stage
<1>w. \A w \in Workers : pc[w] # "idle" => Stages[job[w].asset] = "working" /\ Held(job[w].asset)
  <2> SUFFICES ASSUME NEW w \in Workers, pc[w] # "idle"
               PROVE  Stages[job[w].asset] = "working" /\ Held(job[w].asset)
    OBVIOUS
  <2>1. Held(job[w].asset)
    BY <1>h DEF Held
  <2>2. upload[job[w].asset] = "accepted"
    BY <1>h DEF IInv, AcceptedInv
  <2> QED
    BY <1>h, <1>s, <2>1, <2>2
<1>1. ASSUME NEW a \in Assets, SaveBytes(a) PROVE Simulated
  <2>1. /\ UNCHANGED <<queue, job, processed, vectors>>
        /\ upload[a] # "accepted" /\ upload'[a] # "accepted"
        /\ \A b \in Assets : b # a => upload'[b] = upload[b]
    BY <1>t, <1>1 DEF SaveBytes, TypeOK
  <2>2. \A b : Quiet(b)' <=> Quiet(b)
    BY <2>1 DEF Quiet, InFlight, Running
  <2>3. Stages' = Stages
    BY <2>1, <2>2 DEF Stages, Stage
  <2> QED
    BY <2>1, <2>3 DEF Simulated, Invisible
<1>2. ASSUME NEW a \in Assets, DispatchIngest(a) PROVE Simulated
  <2>1. PICK n \in Message : n = First("ingest", a) /\ n.asset = a /\ n.task = "ingest"
    BY FirstIsMessage
  <2>2. /\ upload[a] = "saved" /\ UNCHANGED <<job, processed, vectors>>
        /\ \A b \in Assets : b # a => upload'[b] = upload[b]
        /\ \/ upload'[a] = "accepted" /\ queue' = [queue EXCEPT ![n] = @ + 1]
           \/ upload'[a] = "failed" /\ queue' = queue
    BY <1>2, <1>t, <2>1 DEF TypeOK, DispatchIngest, Publish
  <2>3. \A b \in Assets : b # a => (Quiet(b)' <=> Quiet(b))
    <3>1. \A m \in Message : m # n => queue'[m] = queue[m]
      BY <1>t, <2>2 DEF TypeOK
    <3> QED
      BY <2>1, <2>2, <3>1 DEF Quiet, InFlight, Running
  <2>4. \A b \in Assets : b # a => Stage(b)' = Stage(b)
    BY <2>2, <2>3 DEF Stage
  <2>5. Stage(a) = "absent"
    BY <2>2 DEF Stage
  <2>6. CASE upload'[a] = "accepted"
    <3>1. queue'[n] > 0
      BY <1>t, <2>2, <2>6 DEF TypeOK
    <3>2. ~Quiet(a)'
      BY <2>1, <3>1 DEF Quiet, InFlight
    <3>3. Stage(a)' = "working"
      BY <2>6, <3>2 DEF Stage
    <3>4. Lifecycle!Accept(a)
      BY <2>2, <2>4, <2>5, <3>3 DEF Lifecycle!Accept
    <3> QED
      BY <3>4 DEF Simulated, Lifecycle!Next
  <2>7. CASE upload'[a] = "failed"
    <3>1. Stage(a)' = "absent"
      BY <2>7 DEF Stage
    <3> QED
      BY <2>2, <2>4, <2>5, <3>1 DEF Simulated, Invisible, Stages
  <2> QED
    BY <2>2, <2>6, <2>7
<1>3. ASSUME NEW w \in Workers, Take(w) PROVE Simulated
  <2>1. PICK m \in Message : /\ queue[m] > 0
                             /\ queue' = [queue EXCEPT ![m] = @ - 1]
                             /\ job' = [job EXCEPT ![w] = m]
    BY <1>3 DEF Take
  <2>2. job[w] = NoJob /\ m # NoJob /\ UNCHANGED <<upload, processed, vectors>>
    BY <1>3, <1>t, NoJobAssumption DEF Take, JobsMatch
  <2>3. /\ \A n \in Message : n # m => queue'[n] = queue[n]
        /\ queue'[m] > 0 => queue[m] > 0
        /\ job'[w] = m /\ \A v \in Workers : v # w => job'[v] = job[v]
    BY <1>t, <2>1 DEF TypeOK
  <2>4. \A a \in Assets : Held(a)' <=> Held(a)
    BY <2>1, <2>2, <2>3 DEF Held
  <2> QED
    BY <1>t, <2>2, <2>4, StagesFrame DEF Simulated, Invisible
<1>4. ASSUME NEW w \in Workers, GetContainer(w) PROVE Simulated
  BY <1>4, <1>t, Unheld DEF GetContainer, Simulated, Invisible
<1>5. ASSUME NEW w \in Workers, IsProcessed(w) PROVE Simulated
  BY <1>5, <1>t, Unheld DEF IsProcessed, Simulated, Invisible
<1>6. ASSUME NEW w \in Workers, ReadAndChunk(w) PROVE Simulated
  BY <1>6, <1>t, Unheld DEF ReadAndChunk, Simulated, Invisible
<1>7. ASSUME NEW w \in Workers, DeleteMany(w) PROVE Simulated
  BY <1>7, <1>t, Unheld DEF DeleteMany, Simulated, Invisible
<1>8. ASSUME NEW w \in Workers, InsertOne(w) PROVE Simulated
  BY <1>8, <1>t, Unheld DEF InsertOne, Simulated, Invisible
<1>9. ASSUME NEW w \in Workers, MarkProcessed(w) PROVE Simulated
  <2>1. PICK b \in Assets : b = job[w].asset /\ Held(b)
    BY <1>9, <1>h, <1>w DEF MarkProcessed
  <2>2. UNCHANGED <<upload, queue, job, vectors>> /\ processed' = processed \cup {b}
    BY <1>9, <2>1 DEF MarkProcessed
  <2>3. Stages' = Stages /\ Stages[b] = "working"
    BY <1>9, <1>t, <1>w, <2>1, <2>2, Unheld DEF MarkProcessed
  <2>4. Lifecycle!Ingest(b)
    BY <2>2, <2>3 DEF Lifecycle!Ingest, Stages
  <2> QED
    BY <2>4 DEF Simulated, Lifecycle!Next
<1>10. ASSUME NEW w \in Workers, DispatchEmbed(w) PROVE Simulated
  <2>1. PICK b \in Assets : b = job[w].asset /\ Held(b)
    BY <1>10, <1>h, <1>w DEF DispatchEmbed
  <2>2. PICK n \in Message : n = First("embed", b) /\ n.asset = b
    BY <1>10, <1>h, <2>1, FirstIsMessage DEF DispatchEmbed
  <2>3. /\ UNCHANGED <<upload, job, processed, vectors>>
        /\ queue' = queue \/ queue' = [queue EXCEPT ![n] = @ + 1]
    BY <1>10, <2>1, <2>2 DEF DispatchEmbed, Publish
  <2>4. /\ \A m \in Message : m # n => queue'[m] = queue[m]
        /\ queue[n] > 0 => queue'[n] > 0
    BY <1>t, <2>3 DEF TypeOK
  <2>5. Held(b)'
    BY <1>10, <1>h, <2>1, <2>3 DEF DispatchEmbed, Held
  <2>6. \A c \in Assets : Held(c)' <=> Held(c)
    BY <2>1, <2>2, <2>3, <2>4, <2>5 DEF Held
  <2> QED
    BY <1>t, <2>3, <2>6, StagesFrame DEF Simulated, Invisible
<1>11. ASSUME NEW w \in Workers, HasVectors(w) PROVE Simulated
  BY <1>11, <1>t, Unheld DEF HasVectors, Simulated, Invisible
<1>12. ASSUME NEW w \in Workers, FindByAsset(w) PROVE Simulated
  BY <1>12, <1>t, Unheld DEF FindByAsset, Simulated, Invisible
<1>13. ASSUME NEW w \in Workers, UpsertOne(w) PROVE Simulated
  <2>1. PICK b \in Assets : b = job[w].asset /\ Held(b)
    BY <1>13, <1>h, <1>w DEF UpsertOne
  <2>2. UNCHANGED <<upload, queue, job, processed>>
    BY <1>13 DEF UpsertOne
  <2>3. PICK c : vectors' = [vectors EXCEPT ![b] = @ \cup {c}]
    BY <1>13, <2>1 DEF UpsertOne
  <2>4. vectors' = [vectors EXCEPT ![b] = vectors'[b]] /\ vectors[b] \subseteq vectors'[b]
    BY <1>t, <2>3 DEF TypeOK
  <2>5. Stages' = Stages /\ Stages[b] = "working"
    BY <1>13, <1>t, <1>w, <2>1, <2>2, Unheld DEF UpsertOne
  <2>6. b \in processed
    BY <1>13, <2>1 DEF IInv, OrderInv, JobsMatch, EmbedPCs, UpsertOne
  <2>7. Lifecycle!Show(b)
    BY <2>2, <2>4, <2>5, <2>6 DEF Lifecycle!Show, Stages
  <2> QED
    BY <2>7 DEF Simulated, Lifecycle!Next
<1>14. ASSUME NEW w \in Workers, SaveVectors(w) PROVE Simulated
  BY <1>14, <1>t, Unheld DEF SaveVectors, Simulated, Invisible
<1>15. ASSUME NEW w \in Workers, Raise(w) PROVE Simulated
  BY <1>15, <1>t, Unheld DEF Raise, Simulated, Invisible
<1>16. ASSUME NEW w \in Workers, Retry(w) PROVE Simulated
  <2>1. PICK b \in Assets : b = job[w].asset /\ Held(b)
    BY <1>16, <1>h, <1>w DEF Retry
  <2>2. PICK n \in Message : n = [job[w] EXCEPT !.retries = @ + 1] /\ n.asset = b
    BY <1>16, <1>h, <2>1, NextAttemptIsMessage DEF Retry
  <2>3. /\ UNCHANGED <<upload, job, processed, vectors>>
        /\ queue' = queue \/ queue' = [queue EXCEPT ![n] = @ + 1]
    BY <1>16, <2>1, <2>2 DEF Retry, Publish
  <2>4. /\ \A m \in Message : m # n => queue'[m] = queue[m]
        /\ queue[n] > 0 => queue'[n] > 0
    BY <1>t, <2>3 DEF TypeOK
  <2>5. Held(b)'
    BY <1>16, <1>h, <2>1, <2>3 DEF Retry, Held
  <2>6. \A c \in Assets : Held(c)' <=> Held(c)
    <3>1. \A c \in Assets : c # b => (Held(c)' <=> Held(c))
      <4> SUFFICES ASSUME NEW c \in Assets, c # b PROVE Held(c)' <=> Held(c)
        OBVIOUS
      <4>1. \A m \in Message : m.asset = c => queue'[m] = queue[m]
        BY <2>2, <2>4
      <4>2. job' = job
        BY <2>3
      <4> QED
        BY <4>1, <4>2 DEF Held
    <3> QED
      BY <2>1, <2>5, <3>1
  <2> QED
    BY <1>t, <2>3, <2>6, StagesFrame DEF Simulated, Invisible
<1>17. ASSUME NEW w \in Workers, DeadLetter(w) PROVE Simulated
  BY <1>17, <1>t, Unheld DEF DeadLetter, Simulated, Invisible
<1>18. ASSUME NEW w \in Workers, TimeLimit(w) PROVE Simulated
  BY <1>18, <1>t, Unheld DEF TimeLimit, Simulated, Invisible
<1>19. ASSUME NEW w \in Workers, MarkFailure(w) PROVE Simulated
  BY <1>19, <1>t, Unheld DEF MarkFailure, Simulated, Invisible
<1>20. ASSUME NEW w \in Workers, Ack(w) PROVE Simulated
  <2>1. PICK b \in Assets : b = job[w].asset /\ Held(b)
    BY <1>20, <1>h, <1>w DEF Ack
  <2>2. UNCHANGED <<upload, queue, processed, vectors>> /\ job' = [job EXCEPT ![w] = NoJob]
    BY <1>20 DEF Ack
  <2>3. \A c \in Assets : c # b => (Held(c)' <=> Held(c))
    <3>1. job'[w] = NoJob /\ \A v \in Workers : v # w => job'[v] = job[v]
      BY <1>t, <2>2 DEF TypeOK
    <3> QED
      BY <2>1, <2>2, <3>1 DEF Held
  <2>4. CASE Held(b)'
    BY <1>t, <2>1, <2>2, <2>3, <2>4, StagesFrame DEF Simulated, Invisible
  <2>5. CASE ~Held(b)'
    <3>1. /\ \A c : Quiet(c) <=> ~Held(c)
          /\ \A c : Quiet(c)' <=> ~Held(c)'
      BY <1>t, HeldIsWork, HeldIsWorkNext
    <3>2. upload[b] = "accepted" /\ Stage(b) = "working"
      BY <1>20, <1>h, <2>1, <3>1 DEF Ack, IInv, AcceptedInv, Stage
    <3>3. Stage(b)' = "settled"
      BY <2>2, <2>5, <3>1, <3>2 DEF Stage
    <3>4. \A c \in Assets : c # b => Stage(c)' = Stage(c)
      BY <2>2, <2>3, <3>1 DEF Stage
    <3>5. Lifecycle!Settle(b)
      BY <2>2, <3>2, <3>3, <3>4 DEF Lifecycle!Settle
    <3> QED
      BY <3>5 DEF Simulated, Lifecycle!Next
  <2> QED
    BY <2>4, <2>5
<1>21. ASSUME NEW w \in Workers, Crash(w) PROVE Simulated
  <2>1. PICK b \in Assets : b = job[w].asset /\ Held(b)
    BY <1>21, <1>h, <1>w DEF Crash
  <2>2. PICK m \in Message : m = job[w] /\ m.asset = b
    BY <1>21, <1>h, <2>1 DEF Crash
  <2>3. /\ UNCHANGED <<upload, processed, vectors>>
        /\ job' = [job EXCEPT ![w] = NoJob] /\ queue' = [queue EXCEPT ![m] = @ + 1]
    BY <1>21, <2>2 DEF Crash, Publish
  <2>4. /\ \A n \in Message : n # m => queue'[n] = queue[n]
        /\ queue'[m] > 0
        /\ job'[w] = NoJob /\ \A v \in Workers : v # w => job'[v] = job[v]
    BY <1>t, <2>3 DEF TypeOK
  <2>5. Held(b)'
    BY <2>2, <2>4 DEF Held
  <2>6. \A c \in Assets : Held(c)' <=> Held(c)
    BY <2>1, <2>2, <2>4, <2>5 DEF Held
  <2> QED
    BY <1>t, <2>3, <2>6, StagesFrame DEF Simulated, Invisible
<1>22. CASE UNCHANGED vars
  BY <1>22, <1>t, Unheld DEF vars, Simulated, Invisible
<1> QED
  BY <1>1, <1>2, <1>3, <1>4, <1>5, <1>6, <1>7, <1>8, <1>9, <1>10, <1>11, <1>12, <1>13,
     <1>14, <1>15, <1>16, <1>17, <1>18, <1>19, <1>20, <1>21, <1>22
     DEF Next, WorkerStep, IngestStep, EmbedStep

\* The pipeline with its broker, workers, retries and stores implements the
\* lifecycle of an upload: worked on, then settled for good, its vectors
\* appearing only after the mark and while it is worked on.
THEOREM Refinement == Spec => ImplementsLifecycle
<1>1. Init => Lifecycle!Init
  BY DEF Init, Lifecycle!Init, Stage
<1>2. IInv /\ IInv' /\ [Next]_vars => [Lifecycle!Next]_(Lifecycle!vars)
  BY StepSimulation DEF Simulated, Invisible, Stages, Lifecycle!vars
<1> QED
  BY <1>1, <1>2, Invariance, PTL DEF Spec, ImplementsLifecycle, Lifecycle!Spec
=============================================================================
