------------------------ MODULE IngestProgressProofs ------------------------
(***************************************************************************)
(* The work of an upload runs out, for every set of assets and workers,    *)
(* every retry budget and every number of worker losses: the safety part   *)
(* of EveryUploadSettles.  Every step is one of five kinds as far as the   *)
(* count of runs goes; each kind is followed through the two sets counted. *)
(***************************************************************************)
EXTENDS IngestProgress, IngestPipelineProofs

USE DEF apiVars, taskVars, localVars, chunkVars, embedVars, faultVars, histVars

\* The weights of messages: one run at least, and what a job can lead to weighs
\* less than the job.
LEMMA RunsRange ==
  ASSUME NEW m \in Message
  PROVE  Runs(m) \in 1..MaxRuns /\ MaxRuns \in Nat
<1>1. m.task \in {"ingest", "embed"} /\ m.retries \in 0..MaxRetries
  BY MessageFields
<1> QED
  BY <1>1, RetriesAssumption DEF Runs, Attempts, MaxRuns

LEMMA RetryWeighsLess ==
  ASSUME NEW m \in Message, m.retries < MaxRetries
  PROVE  Runs([m EXCEPT !.retries = @ + 1]) = Runs(m) - 1
<1>1. m.task \in {"ingest", "embed"} /\ m.retries \in 0..MaxRetries
  BY MessageFields
<1>2. /\ [m EXCEPT !.retries = @ + 1].task = m.task
      /\ [m EXCEPT !.retries = @ + 1].retries = m.retries + 1
  BY DEF Message
<1> QED
  BY <1>1, <1>2, RetriesAssumption DEF Runs, Attempts

LEMMA EmbedWeighsLess ==
  ASSUME NEW m \in Message, m.task = "ingest", NEW a \in Assets
  PROVE  Runs(First("embed", a)) <= Runs(m) - 1
<1>1. m.retries \in 0..MaxRetries
  BY MessageFields
<1>2. First("embed", a).task = "embed" /\ First("embed", a).retries = 0
  BY DEF First
<1> QED
  BY <1>1, <1>2, RetriesAssumption DEF Runs, Attempts

LEMMA FirstWeighsAll ==
  ASSUME NEW a \in Assets
  PROVE  Runs(First("ingest", a)) = MaxRuns
<1>1. First("ingest", a).task = "ingest" /\ First("ingest", a).retries = 0
  BY DEF First
<1> QED
  BY <1>1, RetriesAssumption DEF Runs, Attempts, MaxRuns

------------------------------------------------------------------------------
\* The two sets as operators of what they depend on, so that one lemma serves a
\* step in either direction.
QueuedIn(q, a) == UNION {{m} \X CopiesOf(m, q[m]) : m \in JobsOf(a)}

SpawnedIn(W, j) == UNION {{w} \X (1..Runs(j[w]) - 1) : w \in W}

LEMMA RowCounts ==
  ASSUME NEW x, NEW n \in Nat
  PROVE  IsFiniteSet({x} \X (1..n)) /\ Cardinality({x} \X (1..n)) = n
<1>1. IsFiniteSet({x}) /\ Cardinality({x}) = 1
  BY FS_Singleton
<1>2. IsFiniteSet(1..n) /\ Cardinality(1..n) = n
  BY FS_Interval
<1>3. IsFiniteSet({x} \X (1..n)) /\ Cardinality({x} \X (1..n)) = Cardinality({x}) * Cardinality(1..n)
  BY <1>1, <1>2, FS_Product
<1> QED
  BY <1>1, <1>2, <1>3

\* The runs of the k-th copy of m.
CopyOf(m, k) == {k} \X (1..Runs(m))

LEMMA ColumnCounts ==
  ASSUME NEW m \in Message, NEW k
  PROVE  IsFiniteSet({m} \X CopyOf(m, k)) /\ Cardinality({m} \X CopyOf(m, k)) = Runs(m)
<1>1. IsFiniteSet({m}) /\ Cardinality({m}) = 1
  BY FS_Singleton
<1>2. Runs(m) \in Nat
  BY RunsRange
<1>3. IsFiniteSet(CopyOf(m, k)) /\ Cardinality(CopyOf(m, k)) = Runs(m)
  BY <1>2, RowCounts DEF CopyOf
<1>4. /\ IsFiniteSet({m} \X CopyOf(m, k))
      /\ Cardinality({m} \X CopyOf(m, k)) = Cardinality({m}) * Cardinality(CopyOf(m, k))
  BY <1>1, <1>3, FS_Product
<1> QED
  BY <1>1, <1>2, <1>3, <1>4

LEMMA DisjointUnionCounts ==
  ASSUME NEW S, NEW T, IsFiniteSet(S), IsFiniteSet(T), S \cap T = {}
  PROVE  IsFiniteSet(S \cup T) /\ Cardinality(S \cup T) = Cardinality(S) + Cardinality(T)
<1>1. Cardinality(S \cap T) = 0
  BY FS_EmptySet
<1>2. Cardinality(S) \in Nat /\ Cardinality(T) \in Nat
  BY FS_CardinalityType
<1>3. /\ IsFiniteSet(S \cup T)
      /\ Cardinality(S \cup T) = Cardinality(S) + Cardinality(T) - Cardinality(S \cap T)
  BY FS_Union
<1> QED
  BY <1>1, <1>2, <1>3

\* One copy more of a message of the asset adds its weight.
LEMMA CopyCounts ==
  ASSUME NEW q \in [Message -> Nat], NEW p \in [Message -> Nat], NEW m \in Message,
         p[m] = q[m] + 1, \A n \in Message \ {m} : p[n] = q[n],
         IsFiniteSet(QueuedIn(q, m.asset))
  PROVE  /\ IsFiniteSet(QueuedIn(p, m.asset))
         /\ Cardinality(QueuedIn(p, m.asset)) = Cardinality(QueuedIn(q, m.asset)) + Runs(m)
<1>0. PICK k : k = q[m] + 1
  OBVIOUS
<1> DEFINE column == {m} \X CopyOf(m, k)
<1>1. m \in JobsOf(m.asset)
  BY DEF JobsOf
<1>2. \A n \in Message : p[n] = IF n = m THEN q[n] + 1 ELSE q[n]
  OBVIOUS
<1>3. 1..(q[m] + 1) = (1..q[m]) \cup {k}
  BY <1>0
<1>4. {m} \X CopiesOf(m, p[m]) = ({m} \X CopiesOf(m, q[m])) \cup column
  <2>1. CopiesOf(m, p[m]) = CopiesOf(m, q[m]) \cup CopyOf(m, k)
    BY <1>2, <1>3 DEF CopiesOf, CopyOf
  <2> QED
    BY <2>1
<1>5. QueuedIn(p, m.asset) = QueuedIn(q, m.asset) \cup column
  <2>1. ASSUME NEW x \in QueuedIn(p, m.asset) PROVE x \in QueuedIn(q, m.asset) \cup column
    <3>1. PICK n \in JobsOf(m.asset) : x \in {n} \X CopiesOf(n, p[n])
      BY <2>1 DEF QueuedIn
    <3>2. CASE n = m
      <4>1. x \in ({m} \X CopiesOf(m, q[m])) \cup column
        BY <3>1, <3>2, <1>4
      <4> HIDE DEF column
      <4> QED
        BY <4>1, <1>1 DEF QueuedIn
    <3>3. CASE n # m
      <4>1. x \in {n} \X CopiesOf(n, q[n])
        BY <3>1, <3>3, <1>2 DEF JobsOf
      <4> QED
        BY <4>1 DEF QueuedIn
    <3> QED
      BY <3>2, <3>3
  <2>2. ASSUME NEW x \in QueuedIn(q, m.asset) PROVE x \in QueuedIn(p, m.asset)
    <3>1. PICK n \in JobsOf(m.asset) : x \in {n} \X CopiesOf(n, q[n])
      BY <2>2 DEF QueuedIn
    <3>2. 1..q[n] \subseteq 1..p[n]
      BY <1>2 DEF JobsOf
    <3>3. CopiesOf(n, q[n]) \subseteq CopiesOf(n, p[n])
      BY <3>2 DEF CopiesOf
    <3>4. x \in {n} \X CopiesOf(n, p[n])
      BY <3>1, <3>3
    <3> QED
      BY <3>4 DEF QueuedIn
  <2>3. column \subseteq QueuedIn(p, m.asset)
    <3>1. column \subseteq {m} \X CopiesOf(m, p[m])
      BY <1>4
    <3> HIDE DEF column
    <3> QED
      BY <3>1, <1>1 DEF QueuedIn
  <2> HIDE DEF column
  <2> QED
    BY <2>1, <2>2, <2>3
<1>6. QueuedIn(q, m.asset) \cap column = {}
  <2> SUFFICES ASSUME NEW x \in QueuedIn(q, m.asset), x \in column PROVE FALSE
    OBVIOUS
  <2>1. PICK n \in JobsOf(m.asset) : x \in {n} \X CopiesOf(n, q[n])
    BY DEF QueuedIn
  <2>2. x[1] = n /\ x[2][1] \in 1..q[n]
    BY <2>1 DEF CopiesOf
  <2>3. x[1] = m /\ x[2][1] = q[m] + 1
    BY <1>0 DEF CopyOf
  <2>4. q[m] \in Nat
    OBVIOUS
  <2> QED
    BY <2>2, <2>3, <2>4
<1>7. IsFiniteSet(column) /\ Cardinality(column) = Runs(m)
  BY ColumnCounts
<1> HIDE DEF column
<1> QED
  BY <1>5, <1>6, <1>7, DisjointUnionCounts

LEMMA OtherCopies ==
  ASSUME NEW q, NEW p, NEW m, NEW a, m.asset # a, \A n \in Message \ {m} : p[n] = q[n]
  PROVE  QueuedIn(p, a) = QueuedIn(q, a)
<1>1. \A n \in JobsOf(a) : p[n] = q[n]
  BY DEF JobsOf
<1> QED
  BY <1>1 DEF QueuedIn

\* One worker more inside a task adds what its job may lead to.
LEMMA WorkerCounts ==
  ASSUME NEW W, NEW j, NEW v, v \notin W, j[v] \in Message, IsFiniteSet(SpawnedIn(W, j))
  PROVE  /\ IsFiniteSet(SpawnedIn(W \cup {v}, j))
         /\ Cardinality(SpawnedIn(W \cup {v}, j)) = Cardinality(SpawnedIn(W, j)) + Runs(j[v]) - 1
<1> DEFINE row == {v} \X (1..Runs(j[v]) - 1)
<1>1. SpawnedIn(W \cup {v}, j) = SpawnedIn(W, j) \cup row
  BY DEF SpawnedIn
<1>2. SpawnedIn(W, j) \cap row = {}
  <2> SUFFICES ASSUME NEW x \in SpawnedIn(W, j), x \in row PROVE FALSE
    OBVIOUS
  <2>1. PICK w \in W : x \in {w} \X (1..Runs(j[w]) - 1)
    BY DEF SpawnedIn
  <2>2. x[1] = w /\ x[1] = v
    BY <2>1
  <2> QED
    BY <2>2
<1>3. Runs(j[v]) - 1 \in Nat /\ Runs(j[v]) \in Nat
  BY RunsRange
<1>4. IsFiniteSet(row) /\ Cardinality(row) = Runs(j[v]) - 1
  BY <1>3, RowCounts
<1>5. Cardinality(SpawnedIn(W, j)) \in Nat
  BY FS_CardinalityType
<1>6. /\ IsFiniteSet(SpawnedIn(W, j) \cup row)
      /\ Cardinality(SpawnedIn(W, j) \cup row) = Cardinality(SpawnedIn(W, j)) + Cardinality(row)
  BY <1>2, <1>4, DisjointUnionCounts
<1> HIDE DEF row
<1> QED
  BY <1>1, <1>3, <1>4, <1>5, <1>6

LEMMA SpawnedAgree ==
  ASSUME NEW W, NEW i, NEW j, \A w \in W : i[w] = j[w]
  PROVE  SpawnedIn(W, i) = SpawnedIn(W, j)
BY DEF SpawnedIn

LEMMA FewerSpawned ==
  ASSUME NEW V, NEW W, NEW j, V \subseteq W, IsFiniteSet(SpawnedIn(W, j))
  PROVE  /\ IsFiniteSet(SpawnedIn(V, j))
         /\ Cardinality(SpawnedIn(V, j)) <= Cardinality(SpawnedIn(W, j))
<1>1. SpawnedIn(V, j) \in SUBSET SpawnedIn(W, j)
  BY DEF SpawnedIn
<1> QED
  BY <1>1, FS_Subset

------------------------------------------------------------------------------
\* The five kinds of steps.

Fresh(a) == upload[a] \in {"new", "saved"}

\* Nothing is queued, taken or put back; workers may leave their tasks.
Calm ==
  /\ UNCHANGED <<queue, crashes>>
  /\ \A a \in Assets : Fresh(a)' => Fresh(a)
  /\ \A w \in Workers : pc'[w] \in TaskPCs => pc[w] \in TaskPCs /\ job'[w] = job[w]

Uploaded(a) ==
  /\ Fresh(a) /\ ~Fresh(a)'
  /\ \A b \in Assets \ {a} : upload'[b] = upload[b]
  /\ Publish(First("ingest", a))
  /\ UNCHANGED <<pc, job, crashes>>

\* A worker leaves its task and a message that weighs less takes its place.
Published(w, n) ==
  /\ pc[w] \in TaskPCs /\ pc'[w] = "ack"
  /\ n.asset = job[w].asset /\ Runs(n) <= Runs(job[w]) - 1
  /\ Publish(n)
  /\ \A v \in Workers \ {w} : pc'[v] = pc[v]
  /\ UNCHANGED <<upload, job, crashes>>

Taken(w, m) ==
  /\ pc[w] = "idle" /\ pc'[w] = "start"
  /\ queue[m] > 0 /\ queue' = [queue EXCEPT ![m] = @ - 1]
  /\ job'[w] = m
  /\ \A v \in Workers \ {w} : pc'[v] = pc[v] /\ job'[v] = job[v]
  /\ UNCHANGED <<upload, crashes>>

Lost(w) ==
  /\ pc[w] # "idle" /\ pc'[w] = "idle"
  /\ crashes < MaxCrashes /\ crashes' = crashes + 1
  /\ Publish(job[w])
  /\ \A v \in Workers \ {w} : pc'[v] = pc[v] /\ job'[v] = job[v]
  /\ UNCHANGED upload

LEMMA CalmWorker ==
  ASSUME TypeOK, NEW w \in Workers, NEW label, pc' = [pc EXCEPT ![w] = label],
         pc[w] \in TaskPCs \/ label \notin TaskPCs, UNCHANGED <<upload, queue, job, crashes>>
  PROVE  Calm
BY DEF Calm, Fresh, TypeOK

LEMMA StepKinds ==
  ASSUME TypeOK, JobsMatch, [Next]_vars
  PROVE  \/ Calm
         \/ \E a \in Assets : Uploaded(a)
         \/ \E w \in Workers, n \in Message : Published(w, n)
         \/ \E w \in Workers, m \in Message : Taken(w, m)
         \/ \E w \in Workers : job[w] \in Message /\ Lost(w)
<1> USE DEF TaskPCs, IngestPCs, EmbedPCs, Goto
<1>1. ASSUME NEW a \in Assets, SaveBytes(a) PROVE Calm
  BY <1>1 DEF TypeOK, SaveBytes, Calm, Fresh
<1>2. ASSUME NEW a \in Assets, DispatchIngest(a) PROVE Calm \/ Uploaded(a)
  <2>1. CASE upload' = [upload EXCEPT ![a] = "accepted"] /\ Publish(First("ingest", a))
    BY <1>2, <2>1 DEF TypeOK, DispatchIngest, Uploaded, Fresh
  <2>2. CASE upload' = [upload EXCEPT ![a] = "failed"] /\ UNCHANGED queue
    BY <1>2, <2>2 DEF TypeOK, DispatchIngest, Calm, Fresh
  <2> QED
    BY <1>2, <2>1, <2>2 DEF DispatchIngest
<1>3. ASSUME NEW w \in Workers, Take(w) PROVE \E m \in Message : Taken(w, m)
  <2>1. PICK m \in Message : /\ queue[m] > 0
                             /\ queue' = [queue EXCEPT ![m] = @ - 1]
                             /\ job' = [job EXCEPT ![w] = m]
    BY <1>3 DEF Take
  <2>2. /\ pc[w] = "idle" /\ pc' = [pc EXCEPT ![w] = "start"]
        /\ UNCHANGED <<upload, crashes>>
    BY <1>3 DEF Take
  <2>3. Taken(w, m)
    BY <2>1, <2>2 DEF TypeOK, Taken
  <2> QED
    BY <2>3
<1>4. ASSUME NEW w \in Workers, GetContainer(w) PROVE Calm
  <2>1. UNCHANGED <<upload, queue, job, crashes>> /\ pc[w] \in TaskPCs
    BY <1>4 DEF GetContainer
  <2>2. \E label \in PCs : pc' = [pc EXCEPT ![w] = label]
    BY <1>4 DEF GetContainer, PCs
  <2> QED
    BY <2>1, <2>2, CalmWorker
<1>5. ASSUME NEW w \in Workers, IsProcessed(w) PROVE Calm
  <2>1. UNCHANGED <<upload, queue, job, crashes>> /\ pc[w] \in TaskPCs
    BY <1>5 DEF IsProcessed
  <2>2. \E label \in PCs : pc' = [pc EXCEPT ![w] = label]
    BY <1>5 DEF IsProcessed, PCs
  <2> QED
    BY <2>1, <2>2, CalmWorker
<1>6. ASSUME NEW w \in Workers, ReadAndChunk(w) PROVE Calm
  BY <1>6, CalmWorker DEF ReadAndChunk
<1>7. ASSUME NEW w \in Workers, DeleteMany(w) PROVE Calm
  BY <1>7, CalmWorker DEF DeleteMany
<1>8. ASSUME NEW w \in Workers, InsertOne(w) PROVE Calm
  BY <1>8 DEF InsertOne, Calm, Fresh
<1>9. ASSUME NEW w \in Workers, MarkProcessed(w) PROVE Calm
  <2>1. UNCHANGED <<upload, queue, job, crashes>> /\ pc[w] \in TaskPCs
    BY <1>9 DEF MarkProcessed
  <2>2. \E label \in PCs : pc' = [pc EXCEPT ![w] = label]
    BY <1>9 DEF MarkProcessed, PCs
  <2> QED
    BY <2>1, <2>2, CalmWorker
<1>10. ASSUME NEW w \in Workers, DispatchEmbed(w)
       PROVE  Calm \/ \E n \in Message : Published(w, n)
  <2>1. /\ pc[w] = "dispatch_embed" /\ pc' = [pc EXCEPT ![w] = "ack"]
        /\ UNCHANGED <<upload, job, crashes>>
    BY <1>10 DEF DispatchEmbed
  <2>2. CASE UNCHANGED queue
    BY <2>1, <2>2, CalmWorker
  <2>3. CASE Publish(First("embed", job[w].asset))
    <3>1. job[w] \in Message /\ job[w].asset \in Assets /\ job[w].task = "ingest"
      BY <2>1, BusyRunsMessage, MessageFields DEF JobsMatch
    <3>2. /\ First("embed", job[w].asset) \in Message
          /\ First("embed", job[w].asset).asset = job[w].asset
      BY <3>1, FirstIsMessage
    <3>3. Runs(First("embed", job[w].asset)) <= Runs(job[w]) - 1
      BY <3>1, EmbedWeighsLess
    <3>4. Published(w, First("embed", job[w].asset))
      BY <2>1, <2>3, <3>2, <3>3 DEF TypeOK, Published
    <3> QED
      BY <3>2, <3>4
  <2> QED
    BY <1>10, <2>2, <2>3 DEF DispatchEmbed
<1>11. ASSUME NEW w \in Workers, HasVectors(w) PROVE Calm
  <2>1. UNCHANGED <<upload, queue, job, crashes>> /\ pc[w] \in TaskPCs
    BY <1>11 DEF HasVectors
  <2>2. \E label \in PCs : pc' = [pc EXCEPT ![w] = label]
    BY <1>11 DEF HasVectors, PCs
  <2> QED
    BY <2>1, <2>2, CalmWorker
<1>12. ASSUME NEW w \in Workers, FindByAsset(w) PROVE Calm
  BY <1>12, CalmWorker DEF FindByAsset
<1>13. ASSUME NEW w \in Workers, UpsertOne(w) PROVE Calm
  BY <1>13 DEF UpsertOne, Calm, Fresh
<1>14. ASSUME NEW w \in Workers, SaveVectors(w) PROVE Calm
  BY <1>14, CalmWorker DEF SaveVectors
<1>15. ASSUME NEW w \in Workers, Raise(w) PROVE Calm
  BY <1>15, CalmWorker DEF Raise
<1>16. ASSUME NEW w \in Workers, Retry(w)
       PROVE  Calm \/ \E n \in Message : Published(w, n)
  <2> DEFINE n == [job[w] EXCEPT !.retries = @ + 1]
  <2>1. /\ pc[w] = "handle" /\ pc' = [pc EXCEPT ![w] = "ack"]
        /\ UNCHANGED <<upload, job, crashes>>
    BY <1>16 DEF Retry
  <2>2. CASE UNCHANGED queue
    BY <2>1, <2>2, CalmWorker
  <2>3. CASE Publish(n)
    <3>1. job[w] \in Message /\ job[w].retries < MaxRetries
      BY <1>16, <2>1, BusyRunsMessage DEF Retry
    <3>2. n \in Message /\ n.asset = job[w].asset /\ Runs(n) = Runs(job[w]) - 1
      BY <3>1, NextAttemptIsMessage, RetryWeighsLess
    <3>3. Runs(job[w]) \in Int
      BY <3>1, RunsRange
    <3> HIDE DEF n
    <3>4. Published(w, n)
      BY <2>1, <2>3, <3>2, <3>3 DEF TypeOK, Published
    <3> QED
      BY <3>2, <3>4
  <2> QED
    BY <1>16, <2>2, <2>3 DEF Retry
<1>17. ASSUME NEW w \in Workers, DeadLetter(w) PROVE Calm
  BY <1>17, CalmWorker DEF DeadLetter
<1>18. ASSUME NEW w \in Workers, TimeLimit(w) PROVE Calm
  BY <1>18, CalmWorker DEF TimeLimit
<1>19. ASSUME NEW w \in Workers, MarkFailure(w) PROVE Calm
  BY <1>19, CalmWorker DEF MarkFailure
<1>20. ASSUME NEW w \in Workers, Ack(w) PROVE Calm
  BY <1>20 DEF TypeOK, Ack, Calm, Fresh
<1>21. ASSUME NEW w \in Workers, Crash(w) PROVE job[w] \in Message /\ Lost(w)
  <2>1. job[w] \in Message
    BY <1>21, BusyRunsMessage DEF Crash
  <2> QED
    BY <1>21, <2>1 DEF TypeOK, Crash, Lost
<1>22. CASE UNCHANGED vars
  BY <1>22 DEF vars, Calm, Fresh
<1> QED
  BY <1>1, <1>2, <1>3, <1>4, <1>5, <1>6, <1>7, <1>8, <1>9, <1>10, <1>11, <1>12, <1>13,
     <1>14, <1>15, <1>16, <1>17, <1>18, <1>19, <1>20, <1>21, <1>22
     DEF Next, WorkerStep, IngestStep, EmbedStep

------------------------------------------------------------------------------
\* What a step does to either set.

LEMMA FewerCopies ==
  ASSUME NEW q \in [Message -> Nat], NEW p \in [Message -> Nat], NEW a \in Assets,
         \A n \in Message : p[n] <= q[n], IsFiniteSet(QueuedIn(q, a))
  PROVE  IsFiniteSet(QueuedIn(p, a))
<1>1. ASSUME NEW x \in QueuedIn(p, a) PROVE x \in QueuedIn(q, a)
  <2>1. PICK n \in JobsOf(a) : x \in {n} \X CopiesOf(n, p[n])
    BY <1>1 DEF QueuedIn
  <2>2. 1..p[n] \subseteq 1..q[n]
    BY DEF JobsOf
  <2>3. x \in {n} \X CopiesOf(n, q[n])
    BY <2>1, <2>2 DEF CopiesOf
  <2> QED
    BY <2>3 DEF QueuedIn
<1> QED
  BY <1>1, FS_Subset

LEMMA QueueGrows ==
  ASSUME TypeOK, TypeOK', NEW m \in Message, Publish(m), NEW a \in Assets,
         IsFiniteSet(QueuedRuns(a))
  PROVE  /\ IsFiniteSet(QueuedRuns(a)')
         /\ m.asset = a => Cardinality(QueuedRuns(a)') = Cardinality(QueuedRuns(a)) + Runs(m)
         /\ m.asset # a => QueuedRuns(a)' = QueuedRuns(a)
<1>1. QueuedRuns(a) = QueuedIn(queue, a) /\ QueuedRuns(a)' = QueuedIn(queue', a)
  BY DEF QueuedRuns, QueuedIn
<1>2. queue \in [Message -> Nat] /\ queue' \in [Message -> Nat]
  BY DEF TypeOK
<1>3. queue'[m] = queue[m] + 1 /\ \A n \in Message \ {m} : queue'[n] = queue[n]
  BY <1>2 DEF Publish
<1>4. CASE m.asset = a
  BY <1>1, <1>2, <1>3, <1>4, CopyCounts
<1>5. CASE m.asset # a
  BY <1>1, <1>2, <1>3, <1>5, OtherCopies
<1> QED
  BY <1>4, <1>5

LEMMA QueueShrinks ==
  ASSUME TypeOK, TypeOK', NEW m \in Message, queue[m] > 0,
         queue' = [queue EXCEPT ![m] = @ - 1], NEW a \in Assets, IsFiniteSet(QueuedRuns(a))
  PROVE  /\ IsFiniteSet(QueuedRuns(a)')
         /\ m.asset = a => Cardinality(QueuedRuns(a)) = Cardinality(QueuedRuns(a)') + Runs(m)
         /\ m.asset # a => QueuedRuns(a)' = QueuedRuns(a)
<1>1. QueuedRuns(a) = QueuedIn(queue, a) /\ QueuedRuns(a)' = QueuedIn(queue', a)
  BY DEF QueuedRuns, QueuedIn
<1>2. queue \in [Message -> Nat] /\ queue' \in [Message -> Nat]
  BY DEF TypeOK
<1>3. \A n \in Message : queue'[n] <= queue[n] /\ (n # m => queue'[n] = queue[n])
  BY <1>2
<1>4. IsFiniteSet(QueuedIn(queue', a))
  BY <1>1, <1>2, <1>3, FewerCopies
<1>5. CASE m.asset = a
  <2>1. queue[m] = queue'[m] + 1 /\ \A n \in Message \ {m} : queue[n] = queue'[n]
    BY <1>2
  <2>2. IsFiniteSet(QueuedIn(queue', m.asset))
    BY <1>4, <1>5
  <2>3. Cardinality(QueuedIn(queue, m.asset)) = Cardinality(QueuedIn(queue', m.asset)) + Runs(m)
    BY ONLY m \in Message, <1>2, <2>1, <2>2, CopyCounts
  <2> QED
    BY <1>1, <1>4, <1>5, <2>3
<1>6. CASE m.asset # a
  <2>1. \A n \in JobsOf(a) : queue'[n] = queue[n]
    BY <1>3, <1>6 DEF JobsOf
  <2>2. QueuedIn(queue', a) = QueuedIn(queue, a)
    BY <2>1 DEF QueuedIn
  <2> QED
    BY <1>1, <1>4, <1>6, <2>2
<1> QED
  BY <1>5, <1>6

\* Nobody enters a task of the asset.
LEMMA SpawnedShrinks ==
  ASSUME NEW a \in Assets, IsFiniteSet(SpawnedRuns(a)),
         \A w \in Workers : pc'[w] \in TaskPCs /\ job'[w].asset = a
                              => pc[w] \in TaskPCs /\ job'[w] = job[w]
  PROVE  /\ IsFiniteSet(SpawnedRuns(a)')
         /\ Cardinality(SpawnedRuns(a)') <= Cardinality(SpawnedRuns(a))
<1>1. /\ SpawnedRuns(a) = SpawnedIn(Inside(a), job)
      /\ SpawnedRuns(a)' = SpawnedIn(Inside(a)', job')
  BY DEF SpawnedRuns, SpawnedIn
<1>2. Inside(a)' \subseteq Inside(a) /\ \A w \in Inside(a)' : job'[w] = job[w]
  BY DEF Inside
<1>3. SpawnedIn(Inside(a)', job') = SpawnedIn(Inside(a)', job)
  BY <1>2, SpawnedAgree
<1> QED
  BY <1>1, <1>2, <1>3, FewerSpawned

LEMMA WorkerLeaves ==
  ASSUME NEW w \in Workers, pc[w] \in TaskPCs, pc'[w] \notin TaskPCs, job[w] \in Message,
         NEW a \in Assets, job[w].asset = a, IsFiniteSet(SpawnedRuns(a)),
         \A v \in Workers \ {w} : pc'[v] = pc[v] /\ job'[v] = job[v]
  PROVE  /\ IsFiniteSet(SpawnedRuns(a)')
         /\ Cardinality(SpawnedRuns(a)) = Cardinality(SpawnedRuns(a)') + Runs(job[w]) - 1
<1>1. /\ SpawnedRuns(a) = SpawnedIn(Inside(a), job)
      /\ SpawnedRuns(a)' = SpawnedIn(Inside(a)', job')
  BY DEF SpawnedRuns, SpawnedIn
<1>2. Inside(a) = Inside(a)' \cup {w} /\ w \notin Inside(a)'
  BY DEF Inside
<1>3. SpawnedIn(Inside(a)', job') = SpawnedIn(Inside(a)', job)
  <2>1. \A v \in Inside(a)' : job'[v] = job[v]
    BY DEF Inside
  <2> QED
    BY <2>1, SpawnedAgree
<1>4. IsFiniteSet(SpawnedIn(Inside(a)', job))
  BY <1>1, <1>2, FewerSpawned
<1>5. /\ IsFiniteSet(SpawnedIn(Inside(a)' \cup {w}, job))
      /\ Cardinality(SpawnedIn(Inside(a)' \cup {w}, job))
           = Cardinality(SpawnedIn(Inside(a)', job)) + Runs(job[w]) - 1
  BY <1>2, <1>4, WorkerCounts
<1> QED
  BY <1>1, <1>2, <1>3, <1>4, <1>5

LEMMA WorkerEnters ==
  ASSUME NEW w \in Workers, pc[w] \notin TaskPCs, pc'[w] \in TaskPCs, job'[w] \in Message,
         NEW a \in Assets, job'[w].asset = a, IsFiniteSet(SpawnedRuns(a)),
         \A v \in Workers \ {w} : pc'[v] = pc[v] /\ job'[v] = job[v]
  PROVE  /\ IsFiniteSet(SpawnedRuns(a)')
         /\ Cardinality(SpawnedRuns(a)') = Cardinality(SpawnedRuns(a)) + Runs(job'[w]) - 1
<1>1. /\ SpawnedRuns(a) = SpawnedIn(Inside(a), job)
      /\ SpawnedRuns(a)' = SpawnedIn(Inside(a)', job')
  BY DEF SpawnedRuns, SpawnedIn
<1>2. Inside(a)' = Inside(a) \cup {w} /\ w \notin Inside(a)
  BY DEF Inside
<1>3. SpawnedIn(Inside(a), job') = SpawnedIn(Inside(a), job)
  <2>1. \A v \in Inside(a) : job'[v] = job[v]
    BY DEF Inside
  <2> QED
    BY <2>1, SpawnedAgree
<1>4. /\ IsFiniteSet(SpawnedIn(Inside(a) \cup {w}, job'))
      /\ Cardinality(SpawnedIn(Inside(a) \cup {w}, job'))
           = Cardinality(SpawnedIn(Inside(a), job')) + Runs(job'[w]) - 1
  BY <1>1, <1>2, <1>3, WorkerCounts
<1> QED
  BY <1>1, <1>2, <1>3, <1>4

------------------------------------------------------------------------------
\* The count of each kind of step.

LEMMA CountTypes ==
  ASSUME TypeOK, RunsFinite, NEW a \in Assets
  PROVE  /\ MaxRuns \in Nat
         /\ UploadRuns(a) \in {0, MaxRuns}
         /\ Cardinality(QueuedRuns(a)) \in Nat
         /\ Cardinality(SpawnedRuns(a)) \in Nat
         /\ CrashRuns \in Nat
<1>1. MaxRuns \in Nat
  BY RetriesAssumption DEF MaxRuns
<1>2. MaxCrashes - crashes \in Nat
  BY CrashAssumption DEF TypeOK
<1>3. CrashRuns \in Nat
  BY <1>1, <1>2 DEF CrashRuns
<1> QED
  BY <1>1, <1>3, FS_CardinalityType DEF UploadRuns, RunsFinite

LEMMA CrashRunsDrop ==
  ASSUME TypeOK, crashes' = crashes + 1
  PROVE  CrashRuns' = CrashRuns - MaxRuns
<1>1. MaxRuns \in Nat /\ crashes \in Int
  BY RetriesAssumption, CrashAssumption DEF MaxRuns, TypeOK
<1>2. PICK d \in Int : d = MaxCrashes - crashes
  BY <1>1, CrashAssumption
<1>3. MaxCrashes - (crashes + 1) = d - 1
  BY <1>1, <1>2, CrashAssumption
<1>4. (d - 1) * MaxRuns = d * MaxRuns - MaxRuns
  BY <1>1
<1> QED
  BY <1>2, <1>3, <1>4 DEF CrashRuns, MaxRuns

\* What the five lemmas below show of a step and an asset.
Counted(a) ==
  /\ IsFiniteSet(QueuedRuns(a)') /\ IsFiniteSet(SpawnedRuns(a)')
  /\ RunsLeft(a)' <= RunsLeft(a)
  /\ \A w \in Workers : Begins(w, a) => RunsLeft(a)' < RunsLeft(a)

LEMMA CountedBySums ==
  ASSUME TypeOK, TypeOK', RunsFinite, NEW a \in Assets,
         IsFiniteSet(QueuedRuns(a)'), IsFiniteSet(SpawnedRuns(a)'),
         UploadRuns(a)' + Cardinality(QueuedRuns(a)') + Cardinality(SpawnedRuns(a)') + CrashRuns'
           <= UploadRuns(a) + Cardinality(QueuedRuns(a)) + Cardinality(SpawnedRuns(a)) + CrashRuns,
         \A w \in Workers : ~Begins(w, a)
  PROVE  Counted(a)
BY DEF Counted, RunsLeft

LEMMA CalmCounted ==
  ASSUME TypeOK, TypeOK', RunsFinite, Calm, NEW a \in Assets
  PROVE  Counted(a)
<1>1. QueuedRuns(a)' = QueuedRuns(a) /\ CrashRuns' = CrashRuns
  BY DEF Calm, QueuedRuns, CrashRuns, MaxRuns
<1>2. /\ IsFiniteSet(SpawnedRuns(a)')
      /\ Cardinality(SpawnedRuns(a)') <= Cardinality(SpawnedRuns(a))
  BY SpawnedShrinks DEF Calm, RunsFinite
<1>3. UploadRuns(a)' <= UploadRuns(a) /\ UploadRuns(a)' \in Nat
  <2>1. (upload'[a] \in {"new", "saved"}) => upload[a] \in {"new", "saved"}
    BY DEF Calm, Fresh
  <2> QED
    BY <2>1, CountTypes DEF UploadRuns, MaxRuns
<1>4. \A w \in Workers : ~Begins(w, a)
  BY DEF Calm, Begins, TaskPCs, IngestPCs, EmbedPCs
<1>5. IsFiniteSet(QueuedRuns(a)') /\ Cardinality(SpawnedRuns(a)') \in Nat
  BY <1>1, <1>2, FS_CardinalityType DEF RunsFinite
<1>6. UploadRuns(a)' + Cardinality(QueuedRuns(a)') + Cardinality(SpawnedRuns(a)') + CrashRuns'
        <= UploadRuns(a) + Cardinality(QueuedRuns(a)) + Cardinality(SpawnedRuns(a)) + CrashRuns
  BY <1>1, <1>2, <1>3, <1>5, CountTypes
<1> QED
  BY <1>2, <1>4, <1>5, <1>6, CountedBySums

LEMMA UploadedCounted ==
  ASSUME TypeOK, TypeOK', RunsFinite, NEW b \in Assets, Uploaded(b), NEW a \in Assets
  PROVE  Counted(a)
<1>1. /\ First("ingest", b) \in Message /\ First("ingest", b).asset = b
      /\ Runs(First("ingest", b)) = MaxRuns
  BY FirstIsMessage, FirstWeighsAll
<1>2. /\ IsFiniteSet(QueuedRuns(a)')
      /\ b = a => Cardinality(QueuedRuns(a)') = Cardinality(QueuedRuns(a)) + MaxRuns
      /\ b # a => QueuedRuns(a)' = QueuedRuns(a)
  BY <1>1, QueueGrows DEF Uploaded, RunsFinite
<1>3. SpawnedRuns(a)' = SpawnedRuns(a) /\ CrashRuns' = CrashRuns
  BY DEF Uploaded, SpawnedRuns, Inside, CrashRuns, MaxRuns
<1>4. /\ b = a => UploadRuns(a) = MaxRuns /\ UploadRuns(a)' = 0
      /\ b # a => UploadRuns(a)' = UploadRuns(a)
  BY DEF Uploaded, Fresh, UploadRuns, MaxRuns
<1>5. \A w \in Workers : ~Begins(w, a)
  BY DEF Uploaded, Begins
<1>6. UploadRuns(a)' + Cardinality(QueuedRuns(a)') + Cardinality(SpawnedRuns(a)') + CrashRuns'
        <= UploadRuns(a) + Cardinality(QueuedRuns(a)) + Cardinality(SpawnedRuns(a)) + CrashRuns
  BY <1>2, <1>3, <1>4, CountTypes
<1>7. IsFiniteSet(SpawnedRuns(a)')
  BY <1>3 DEF RunsFinite
<1> QED
  BY <1>2, <1>5, <1>6, <1>7, CountedBySums

LEMMA PublishedCounted ==
  ASSUME TypeOK, JobsMatch, TypeOK', RunsFinite, NEW w \in Workers, NEW n \in Message,
         Published(w, n), NEW a \in Assets
  PROVE  Counted(a)
<1>1. job[w] \in Message /\ n.asset = job[w].asset
  BY BusyRunsMessage DEF Published, TaskPCs, IngestPCs, EmbedPCs
<1>2. Runs(n) \in Nat /\ Runs(job[w]) \in Nat /\ Runs(n) <= Runs(job[w]) - 1
  BY <1>1, RunsRange DEF Published
<1>3. /\ IsFiniteSet(QueuedRuns(a)')
      /\ n.asset = a => Cardinality(QueuedRuns(a)') = Cardinality(QueuedRuns(a)) + Runs(n)
      /\ n.asset # a => QueuedRuns(a)' = QueuedRuns(a)
  BY QueueGrows DEF Published, RunsFinite
<1>4. /\ IsFiniteSet(SpawnedRuns(a)')
      /\ n.asset = a => Cardinality(SpawnedRuns(a)) = Cardinality(SpawnedRuns(a)') + Runs(job[w]) - 1
      /\ n.asset # a => Cardinality(SpawnedRuns(a)') <= Cardinality(SpawnedRuns(a))
  <2>1. /\ pc[w] \in TaskPCs /\ pc'[w] \notin TaskPCs /\ job' = job
        /\ \A v \in Workers \ {w} : pc'[v] = pc[v]
    BY DEF Published, TaskPCs, IngestPCs, EmbedPCs
  <2>2. CASE n.asset = a
    BY <1>1, <2>1, <2>2, WorkerLeaves DEF RunsFinite
  <2>3. CASE n.asset # a
    BY <1>1, <2>1, <2>3, SpawnedShrinks DEF RunsFinite
  <2> QED
    BY <2>2, <2>3
<1>5. UploadRuns(a)' = UploadRuns(a) /\ CrashRuns' = CrashRuns
  BY DEF Published, UploadRuns, CrashRuns, MaxRuns
<1>6. \A v \in Workers : ~Begins(v, a)
  BY DEF Published, Begins
<1>7. Cardinality(SpawnedRuns(a)') \in Nat
  BY <1>4, FS_CardinalityType
<1>8. UploadRuns(a)' + Cardinality(QueuedRuns(a)') + Cardinality(SpawnedRuns(a)') + CrashRuns'
        <= UploadRuns(a) + Cardinality(QueuedRuns(a)) + Cardinality(SpawnedRuns(a)) + CrashRuns
  BY <1>2, <1>3, <1>4, <1>5, <1>7, CountTypes
<1> QED
  BY <1>3, <1>4, <1>6, <1>8, CountedBySums

\* A run begins: its own weight of one is gone.
LEMMA TakenCounted ==
  ASSUME TypeOK, TypeOK', RunsFinite, NEW w \in Workers, NEW m \in Message,
         Taken(w, m), NEW a \in Assets
  PROVE  Counted(a)
<1>1. Runs(m) \in Nat
  BY RunsRange
<1>2. /\ IsFiniteSet(QueuedRuns(a)')
      /\ m.asset = a => Cardinality(QueuedRuns(a)) = Cardinality(QueuedRuns(a)') + Runs(m)
      /\ m.asset # a => QueuedRuns(a)' = QueuedRuns(a)
  BY QueueShrinks DEF Taken, RunsFinite
<1>3. /\ IsFiniteSet(SpawnedRuns(a)')
      /\ m.asset = a => Cardinality(SpawnedRuns(a)') = Cardinality(SpawnedRuns(a)) + Runs(m) - 1
      /\ m.asset # a => Cardinality(SpawnedRuns(a)') <= Cardinality(SpawnedRuns(a))
  <2>1. /\ pc[w] \notin TaskPCs /\ pc'[w] \in TaskPCs /\ job'[w] = m
        /\ \A v \in Workers \ {w} : pc'[v] = pc[v] /\ job'[v] = job[v]
    BY DEF Taken, TaskPCs, IngestPCs, EmbedPCs
  <2>2. CASE m.asset = a
    BY <2>1, <2>2, WorkerEnters DEF RunsFinite
  <2>3. CASE m.asset # a
    BY <2>1, <2>3, SpawnedShrinks DEF RunsFinite
  <2> QED
    BY <2>2, <2>3
<1>4. UploadRuns(a)' = UploadRuns(a) /\ CrashRuns' = CrashRuns
  BY DEF Taken, UploadRuns, CrashRuns, MaxRuns
<1>5. Cardinality(QueuedRuns(a)') \in Nat /\ Cardinality(SpawnedRuns(a)') \in Nat
  BY <1>2, <1>3, FS_CardinalityType
<1>6. CASE m.asset = a
  <2>1. RunsLeft(a)' < RunsLeft(a)
    BY <1>1, <1>2, <1>3, <1>4, <1>5, <1>6, CountTypes DEF RunsLeft
  <2>2. RunsLeft(a)' \in Int /\ RunsLeft(a) \in Int
    BY <1>4, <1>5, CountTypes DEF RunsLeft
  <2> QED
    BY <1>2, <1>3, <2>1, <2>2 DEF Counted
<1>7. CASE m.asset # a
  <2>1. \A v \in Workers : ~Begins(v, a)
    BY <1>7 DEF Taken, Begins
  <2>2. UploadRuns(a)' + Cardinality(QueuedRuns(a)') + Cardinality(SpawnedRuns(a)') + CrashRuns'
          <= UploadRuns(a) + Cardinality(QueuedRuns(a)) + Cardinality(SpawnedRuns(a)) + CrashRuns
    BY <1>2, <1>3, <1>4, <1>5, <1>7, CountTypes
  <2> QED
    BY <1>2, <1>3, <2>1, <2>2, CountedBySums
<1> QED
  BY <1>6, <1>7

LEMMA LostCounted ==
  ASSUME TypeOK, TypeOK', RunsFinite, NEW w \in Workers, job[w] \in Message, Lost(w),
         NEW a \in Assets
  PROVE  Counted(a)
<1>1. Runs(job[w]) \in Nat /\ Runs(job[w]) <= MaxRuns
  BY RunsRange
<1>2. /\ IsFiniteSet(QueuedRuns(a)')
      /\ Cardinality(QueuedRuns(a)') <= Cardinality(QueuedRuns(a)) + Runs(job[w])
  <2>1. PICK m \in Message : m = job[w]
    OBVIOUS
  <2>2. /\ IsFiniteSet(QueuedRuns(a)')
        /\ m.asset = a => Cardinality(QueuedRuns(a)') = Cardinality(QueuedRuns(a)) + Runs(m)
        /\ m.asset # a => QueuedRuns(a)' = QueuedRuns(a)
    BY <2>1, QueueGrows DEF Lost, RunsFinite
  <2> QED
    BY <1>1, <2>1, <2>2, CountTypes
<1>3. /\ IsFiniteSet(SpawnedRuns(a)')
      /\ Cardinality(SpawnedRuns(a)') <= Cardinality(SpawnedRuns(a))
  BY SpawnedShrinks DEF Lost, RunsFinite, TaskPCs, IngestPCs, EmbedPCs
<1>4. UploadRuns(a)' = UploadRuns(a) /\ CrashRuns' = CrashRuns - MaxRuns
  BY CrashRunsDrop DEF Lost, UploadRuns, MaxRuns
<1>5. \A v \in Workers : ~Begins(v, a)
  BY DEF Lost, Begins
<1>6. Cardinality(QueuedRuns(a)') \in Nat /\ Cardinality(SpawnedRuns(a)') \in Nat
  BY <1>2, <1>3, FS_CardinalityType
<1>7. UploadRuns(a)' + Cardinality(QueuedRuns(a)') + Cardinality(SpawnedRuns(a)') + CrashRuns'
        <= UploadRuns(a) + Cardinality(QueuedRuns(a)) + Cardinality(SpawnedRuns(a)) + CrashRuns
  BY <1>1, <1>2, <1>3, <1>4, <1>6, CountTypes
<1> QED
  BY <1>2, <1>3, <1>5, <1>7, CountedBySums

LEMMA StepCounted ==
  ASSUME TypeOK, JobsMatch, TypeOK', RunsFinite, [Next]_vars, NEW a \in Assets
  PROVE  Counted(a)
BY StepKinds, CalmCounted, UploadedCounted, PublishedCounted, TakenCounted, LostCounted

------------------------------------------------------------------------------
\* One run.

LEMMA Distances ==
  /\ Distance("idle") = 0 /\ Distance("ack") = 1 /\ Distance("raise") = 2
  /\ Distance("handle") = 3 /\ Distance("upsert") = 4 /\ Distance("dispatch_embed") = 4
  /\ Distance("find_by_asset") = 5 /\ Distance("insert_many") = 5 /\ Distance("has_vectors") = 6
  /\ Distance("delete_many") = 6 /\ Distance("read_bytes") = 7 /\ Distance("is_processed") = 8
  /\ Distance("start") = 9
BY DEF Distance

\* A chunk crossed off shortens what is still to do.
LEMMA CrossedOff ==
  ASSUME TypeOK, StoredInv, TodoInv, NEW w \in Workers, NEW c \in todo[w],
         todo' = [todo EXCEPT ![w] = @ \ {c}], pc' = pc
  PROVE  Advances(w)
<1>1. IsFiniteSet(todo[w])
  BY FS_Subset DEF StoredInv, TodoInv
<1>2. Cardinality(todo[w] \ {c}) = Cardinality(todo[w]) - 1 /\ Cardinality(todo[w]) \in Nat
  BY <1>1, FS_RemoveElement, FS_CardinalityType
<1>3. todo'[w] = todo[w] \ {c}
  BY DEF TypeOK
<1> QED
  BY <1>2, <1>3 DEF Advances

LEMMA RunAdvances ==
  ASSUME TypeOK, JobsMatch, StoredInv, TodoInv, NEW w \in Workers, pc[w] # "idle",
         WorkerStep(w) \/ TimeLimit(w)
  PROVE  Advances(w)
<1> USE Distances DEF TypeOK, Advances, TaskPCs, IngestPCs, EmbedPCs, Goto
<1>1. ~Take(w)
  BY DEF Take
<1>2. ASSUME GetContainer(w) PROVE Advances(w)
  BY <1>2 DEF GetContainer
<1>3. ASSUME IsProcessed(w) PROVE Advances(w)
  BY <1>3 DEF IsProcessed
<1>4. ASSUME ReadAndChunk(w) PROVE Advances(w)
  BY <1>4 DEF ReadAndChunk
<1>5. ASSUME DeleteMany(w) PROVE Advances(w)
  BY <1>5 DEF DeleteMany
<1>6. ASSUME InsertOne(w) PROVE Advances(w)
  BY <1>6, CrossedOff DEF InsertOne
<1>7. ASSUME MarkProcessed(w) PROVE Advances(w)
  BY <1>7 DEF MarkProcessed
<1>8. ASSUME DispatchEmbed(w) PROVE Advances(w)
  BY <1>8 DEF DispatchEmbed
<1>9. ASSUME HasVectors(w) PROVE Advances(w)
  BY <1>9 DEF HasVectors
<1>10. ASSUME FindByAsset(w) PROVE Advances(w)
  BY <1>10 DEF FindByAsset
<1>11. ASSUME UpsertOne(w) PROVE Advances(w)
  BY <1>11, CrossedOff DEF UpsertOne
<1>12. ASSUME SaveVectors(w) PROVE Advances(w)
  BY <1>12 DEF SaveVectors
<1>13. ASSUME Raise(w) PROVE Advances(w)
  BY <1>13 DEF Raise
<1>14. ASSUME Retry(w) PROVE Advances(w)
  BY <1>14 DEF Retry
<1>15. ASSUME DeadLetter(w) PROVE Advances(w)
  BY <1>15 DEF DeadLetter
<1>16. ASSUME MarkFailure(w) PROVE Advances(w)
  BY <1>16 DEF MarkFailure
<1>17. ASSUME Ack(w) PROVE Advances(w)
  BY <1>17 DEF Ack
<1>18. ASSUME TimeLimit(w) PROVE Advances(w)
  BY <1>18 DEF TimeLimit
<1> QED
  BY <1>1, <1>2, <1>3, <1>4, <1>5, <1>6, <1>7, <1>8, <1>9, <1>10, <1>11, <1>12, <1>13,
     <1>14, <1>15, <1>16, <1>17, <1>18
     DEF WorkerStep, IngestStep, EmbedStep

------------------------------------------------------------------------------

LEMMA RunsBoundedInit == Init => RunsBounded
<1> SUFFICES ASSUME Init, NEW a \in Assets
             PROVE  /\ IsFiniteSet(QueuedRuns(a)) /\ IsFiniteSet(SpawnedRuns(a))
                    /\ RunsLeft(a) \in 0..MaxRuns * (MaxCrashes + 1)
  BY DEF RunsBounded, RunsFinite
<1>1. QueuedRuns(a) = {}
  BY DEF Init, QueuedRuns, CopiesOf, JobsOf
<1>2. SpawnedRuns(a) = {}
  BY DEF Init, SpawnedRuns, Inside, TaskPCs, IngestPCs, EmbedPCs
<1>3. MaxRuns \in Nat
  BY RetriesAssumption DEF MaxRuns
<1>4. MaxCrashes * MaxRuns \in Nat /\ MaxRuns * (MaxCrashes + 1) = MaxRuns + MaxCrashes * MaxRuns
  BY <1>3, CrashAssumption
<1>5. UploadRuns(a) = MaxRuns
  BY DEF Init, UploadRuns
<1>6. CrashRuns = MaxCrashes * MaxRuns
  BY CrashAssumption DEF Init, CrashRuns
<1>7. RunsLeft(a) = MaxRuns + MaxCrashes * MaxRuns
  BY <1>1, <1>2, <1>3, <1>4, <1>5, <1>6, FS_EmptySet DEF RunsLeft
<1> QED
  BY <1>1, <1>2, <1>3, <1>4, <1>7, FS_EmptySet

LEMMA ProductIsNat ==
  ASSUME NEW i \in Nat, NEW j \in Nat
  PROVE  i * j \in Nat
OBVIOUS

LEMMA RunsBoundedStep == IInv /\ IInv' /\ RunsBounded /\ [Next]_vars => RunsBounded'
<1> SUFFICES ASSUME TypeOK, JobsMatch, TypeOK', RunsBounded, [Next]_vars, NEW a \in Assets
             PROVE  /\ IsFiniteSet(QueuedRuns(a)') /\ IsFiniteSet(SpawnedRuns(a)')
                    /\ RunsLeft(a)' \in 0..MaxRuns * (MaxCrashes + 1)
  BY DEF IInv, RunsBounded, RunsFinite, MaxRuns
<1>1. Counted(a)
  BY StepCounted DEF RunsBounded
<1>2. RunsLeft(a)' \in Nat
  <2>1. Cardinality(QueuedRuns(a)') \in Nat /\ Cardinality(SpawnedRuns(a)') \in Nat
    BY <1>1, FS_CardinalityType DEF Counted
  <2>2. MaxRuns \in Nat /\ MaxCrashes - crashes' \in Nat
    <3>1. PICK c \in 0..MaxCrashes : c = crashes'
      BY DEF TypeOK
    <3>2. MaxCrashes - c \in Nat
      BY CrashAssumption
    <3>3. MaxRuns \in Nat
      BY RetriesAssumption DEF MaxRuns
    <3> QED
      BY <3>1, <3>2, <3>3
  <2>3. (MaxCrashes - crashes') * MaxRuns \in Nat
    BY <2>2, ProductIsNat
  <2>4. CrashRuns' \in Nat
    BY <2>3 DEF CrashRuns, MaxRuns
  <2>5. UploadRuns(a)' \in Nat
    BY <2>2 DEF UploadRuns, MaxRuns
  <2> QED
    BY <2>1, <2>4, <2>5 DEF RunsLeft
<1>3. MaxRuns * (MaxCrashes + 1) \in Nat
  BY RetriesAssumption, CrashAssumption DEF MaxRuns
<1> QED
  BY <1>1, <1>2, <1>3 DEF Counted, RunsBounded

\* At most 2 * (MaxRetries + 1) runs of its two tasks, and as many again for every
\* worker loss, are left to an upload at any time.
THEOREM WorkIsBounded == Spec => []RunsBounded
<1>1. Init => RunsBounded
  BY RunsBoundedInit
<1>2. IInv /\ IInv' /\ RunsBounded /\ [Next]_vars => RunsBounded'
  BY RunsBoundedStep
<1> QED
  BY <1>1, <1>2, Invariance, PTL DEF Spec

\* No step adds to those runs, each run that begins uses one up, and every step of
\* a run brings its end closer.
THEOREM WorkEnds == Spec => WorkRunsOut
<1>1. ASSUME IInv, IInv', RunsBounded, [Next]_vars
      PROVE  /\ \A a \in Assets : RunsLeft(a)' <= RunsLeft(a)
             /\ \A a \in Assets, w \in Workers : Begins(w, a) => RunsLeft(a)' < RunsLeft(a)
             /\ \A w \in Workers :
                  pc[w] # "idle" /\ (WorkerStep(w) \/ TimeLimit(w)) => Advances(w)
  <2>1. \A a \in Assets : Counted(a)
    BY <1>1, StepCounted DEF IInv, RunsBounded
  <2>2. ASSUME NEW w \in Workers, pc[w] # "idle", WorkerStep(w) \/ TimeLimit(w)
        PROVE  Advances(w)
    BY <1>1, <2>2, RunAdvances DEF IInv, ConvergeInv
  <2> QED
    BY <2>1, <2>2 DEF Counted
<1> QED
  BY <1>1, Invariance, WorkIsBounded, PTL DEF Spec, WorkRunsOut
=============================================================================
