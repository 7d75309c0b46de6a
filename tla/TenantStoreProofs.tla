-------------------------- MODULE TenantStoreProofs --------------------------
(***************************************************************************)
(* Proofs about TenantStore, for any tenants, workers, assets and bounds.  *)
(***************************************************************************)
EXTENDS TenantStore, TLAPS

\* Collections of different tenants, and the two of one tenant, differ.
LEMMA Names ==
  ASSUME NEW t \in Tenants, NEW u \in Tenants
  PROVE  /\ ChunksOf(t) \in Collection /\ StateOf(t) \in Collection
         /\ ChunksOf(t) = ChunksOf(u) => t = u
         /\ StateOf(t) = StateOf(u) => t = u
         /\ ChunksOf(t) # StateOf(u)
BY DigestAssumption DEF Collection, ChunksOf, StateOf, TenantCollection

LEMMA TargetType ==
  ASSUME NEW a \in Assets, NEW n \in Positions
  PROVE  /\ Owner[a] \in Tenants /\ Target(a, n) \in Collection /\ <<a, n>> \in Record
         /\ n <= NumChunks => Target(a, n) = ChunksOf(Owner[a]) /\ n + 1 \in Positions
         /\ ~(n <= NumChunks) => Target(a, n) = StateOf(Owner[a]) /\ n = NumChunks + 1
<1>1. Owner[a] \in Tenants
  BY OwnerAssumption
<1>2. ChunksOf(Owner[a]) \in Collection /\ StateOf(Owner[a]) \in Collection
  BY <1>1, Names
<1>3. <<a, n>> \in Record
  BY DEF Record
<1>4. n <= NumChunks => n + 1 \in Positions
  BY BoundsAssumption DEF Positions
<1>5. ~(n <= NumChunks) => n = NumChunks + 1
  BY BoundsAssumption DEF Positions
<1> QED
  BY <1>1, <1>2, <1>3, <1>4, <1>5 DEF Target

\* A busy worker has a job, of an asset.
LEMMA Busy ==
  ASSUME TypeOK, JobsInv, NEW w \in Workers, pc[w] # "idle"
  PROVE  /\ job[w] \in Jobs /\ status[job[w]] = "running"
         /\ Asset(w) \in Assets /\ Tenant(w) \in Tenants /\ Tenant(w) = Owner[Asset(w)]
         /\ next[w] \in Positions
         /\ Here(w) \in Collection /\ Here(w) = Target(Asset(w), next[w])
         /\ Row(w) \in Record /\ Row(w) = <<Asset(w), next[w]>>
<1>1. job[w] \in Jobs /\ next[w] \in Positions
  BY DEF TypeOK, JobsInv
<1>2. status[job[w]] = "running"
  BY <1>1, NoneAssumption DEF JobsInv
<1>3. Asset(w) \in Assets /\ Tenant(w) = Owner[Asset(w)]
  BY <1>1, OwnerAssumption DEF Asset, Tenant
<1> QED
  BY <1>1, <1>2, <1>3, TargetType DEF Here, Row

\* The job of w ends its attempt with status s, and nobody else's.
Ends(w, s) ==
  /\ pc' = [pc EXCEPT ![w] = "idle"]
  /\ job' = [job EXCEPT ![w] = NoJob]
  /\ next' = next
  /\ status' = [status EXCEPT ![job[w]] = s]

LEMMA FinishEnds ==
  ASSUME NEW w, Finish(w)
  PROVE  Ends(w, "done") /\ retries' = retries
BY DEF Finish, Leave, Goto, Ends

\* What an exception does to the retry counter.
LEMMA FailEnds ==
  ASSUME TypeOK, JobsInv, NEW w \in Workers, pc[w] # "idle", Fail(w)
  PROVE  \/ /\ Ends(w, "queued")
            /\ retries[job[w]] < MaxRetries
            /\ retries' = [retries EXCEPT ![job[w]] = @ + 1]
         \/ /\ Ends(w, "dead")
            /\ retries[job[w]] = MaxRetries
            /\ retries' = retries
<1>1. job[w] \in Jobs
  BY Busy
<1>2. retries[job[w]] \in 0..MaxRetries
  BY <1>1 DEF TypeOK
<1>3. CASE retries[job[w]] < MaxRetries
  BY <1>3 DEF Fail, Leave, Goto, Ends
<1>4. CASE ~(retries[job[w]] < MaxRetries)
  <2>1. retries[job[w]] = MaxRetries
    BY <1>2, <1>4, RetriesAssumption
  <2> QED
    BY <1>4, <2>1 DEF Fail, Leave, Goto, Ends
<1> QED
  BY <1>3, <1>4

LEMMA FailType ==
  ASSUME TypeOK, JobsInv, NEW w \in Workers, pc[w] # "idle", Fail(w)
  PROVE  /\ pc' \in [Workers -> Calls \cup {"idle"}] /\ job' \in [Workers -> Jobs \cup {NoJob}]
         /\ next' \in [Workers -> Positions] /\ status' \in [Jobs -> Statuses]
         /\ retries' \in [Jobs -> 0..MaxRetries]
<1>1. job[w] \in Jobs /\ retries[job[w]] \in 0..MaxRetries
  BY Busy DEF TypeOK
<1>2. retries[job[w]] < MaxRetries => retries[job[w]] + 1 \in 0..MaxRetries
  BY <1>1, RetriesAssumption
<1>3. retries' \in [Jobs -> 0..MaxRetries]
  BY <1>1, <1>2, FailEnds DEF TypeOK
<1> QED
  BY <1>3, FailEnds DEF Ends, TypeOK, Statuses

\* The kinds of steps on the collections.
LEMMA MilvusType ==
  ASSUME TypeOK, NEW c \in Collection
  PROVE  /\ Created(c) => collections' \in SUBSET Collection /\ rows' \in [Collection -> SUBSET Record]
         /\ Dropped(c) => collections' \in SUBSET Collection /\ rows' \in [Collection -> SUBSET Record]
         /\ \A r \in Record : Upserted(c, r) =>
              collections' \in SUBSET Collection /\ rows' \in [Collection -> SUBSET Record]
BY DEF TypeOK, Created, Dropped, Upserted

LEMMA WrittenType ==
  ASSUME TypeOK, JobsInv, NEW w \in Workers, pc[w] = "upsert", Written(w)
  PROVE  /\ collections' \in SUBSET Collection /\ rows' \in [Collection -> SUBSET Record]
         /\ outlived' \in SUBSET Assets
<1>1. Asset(w) \in Assets /\ Here(w) \in Collection /\ Row(w) \in Record
  BY Busy
<1> QED
  BY <1>1, MilvusType DEF Written, TypeOK

\* A message comes into being: an ingest queues it, or the broker copies one.
Appears(j) == Dispatch(j) \/ \E i \in Jobs : Redeliver(i, j)
------------------------------------------------------------------------------

LEMMA TypeInductive == TypeOK /\ JobsInv /\ [Next]_vars => TypeOK'
<1> SUFFICES ASSUME TypeOK, JobsInv, [Next]_vars PROVE TypeOK'
  OBVIOUS
<1>1. ASSUME NEW w \in Workers, NEW j \in Jobs, Begin(w, j) PROVE TypeOK'
  <2>1. 1 \in Positions
    BY BoundsAssumption DEF Positions
  <2> QED
    BY <1>1, <2>1 DEF TypeOK, Begin, Goto, milvusVars, dropVars, histVars, Calls, Statuses
<1>2. ASSUME NEW w \in Workers, Lookup(w) PROVE TypeOK'
  BY <1>2 DEF TypeOK, Lookup, Embed, Goto, milvusVars, dropVars, Calls
<1>3. ASSUME NEW w \in Workers, Query(w) PROVE TypeOK'
  <2>1. CASE Fail(w) /\ excused' = excused \cup {job[w]} /\ UNCHANGED disturbed
    BY <1>3, <2>1, FailType, Busy DEF TypeOK, Query, milvusVars, dropVars
  <2>2. CASE Finish(w) /\ UNCHANGED <<excused, disturbed>>
    BY <1>3, <2>2, FinishEnds, Busy DEF TypeOK, Query, milvusVars, dropVars, Ends, Statuses
  <2>3. CASE Embed(w) /\ UNCHANGED <<status, retries, job, next, excused>>
    BY <1>3, <2>3 DEF TypeOK, Query, Embed, Goto, milvusVars, dropVars, Calls
  <2> QED
    BY <1>3, <2>1, <2>2, <2>3 DEF Query
<1>4. ASSUME NEW w \in Workers, Check(w) PROVE TypeOK'
  BY <1>4 DEF TypeOK, Check, Goto, milvusVars, dropVars, histVars, Calls
<1>5. ASSUME NEW w \in Workers, Create(w) PROVE TypeOK'
  <2>1. CASE Created(Here(w)) /\ Goto(w, "upsert") /\ UNCHANGED <<status, retries, job, next>>
    BY <1>5, <2>1, Busy, MilvusType DEF TypeOK, Create, Goto, dropVars, histVars, Calls
  <2>2. CASE Fail(w) /\ UNCHANGED milvusVars
    BY <1>5, <2>2, FailType, Busy DEF TypeOK, Create, milvusVars, dropVars, histVars
  <2> QED
    BY <1>5, <2>1, <2>2 DEF Create
<1>6. ASSUME NEW w \in Workers, Upsert(w) PROVE TypeOK'
  <2>1. CASE Written(w)
    <3>1. collections' \in SUBSET Collection /\ rows' \in [Collection -> SUBSET Record]
          /\ outlived' \in SUBSET Assets
      BY <1>6, <2>1, Busy, WrittenType DEF Upsert
    <3>2. UNCHANGED <<dropVars, faults, disturbed, excused>>
      BY <1>6, <2>1, Busy DEF Upsert, Written, Upserted
    <3>3. CASE next[w] <= NumChunks /\ next' = [next EXCEPT ![w] = @ + 1] /\ Goto(w, "check")
               /\ UNCHANGED <<status, retries, job>>
      BY <1>6, <3>1, <3>2, <3>3, Busy, TargetType DEF TypeOK, Upsert, Goto, dropVars, Calls
    <3>4. CASE Finish(w)
      BY <1>6, <3>1, <3>2, <3>4, FinishEnds, Busy DEF TypeOK, Upsert, dropVars, Ends, Statuses
    <3> QED
      BY <1>6, <2>1, <3>3, <3>4 DEF Upsert, Written, Upserted
  <2>2. CASE ~Exists(Here(w)) /\ Fail(w) /\ excused' = excused \cup {job[w]}
             /\ UNCHANGED <<milvusVars, outlived>>
    BY <1>6, <2>2, FailType, Busy DEF TypeOK, Upsert, milvusVars, dropVars
  <2> QED
    BY <1>6, <2>1, <2>2 DEF Upsert
<1>7. ASSUME NEW w \in Workers, CallFails(w) PROVE TypeOK'
  <2>1. collections' \in SUBSET Collection /\ rows' \in [Collection -> SUBSET Record]
        /\ outlived' \in SUBSET Assets
    BY <1>7, Busy, MilvusType, WrittenType DEF CallFails, milvusVars, TypeOK
  <2>2. faults + 1 \in 0..MaxFaults
    BY <1>7, BoundsAssumption DEF CallFails, TypeOK
  <2> QED
    BY <1>7, <2>1, <2>2, FailType, Busy DEF TypeOK, CallFails, dropVars
<1>8. ASSUME NEW w \in Workers, WorkerLost(w) PROVE TypeOK'
  <2>1. faults + 1 \in 0..MaxFaults
    BY <1>8, BoundsAssumption DEF WorkerLost, TypeOK
  <2> QED
    BY <1>8, <2>1, Busy DEF TypeOK, WorkerLost, Leave, Goto, milvusVars, dropVars, histVars, Statuses
<1>9. ASSUME NEW j \in Jobs, Appears(j) PROVE TypeOK'
  <2>1. 0 \in 0..MaxRetries
    BY RetriesAssumption
  <2> QED
    BY <1>9, <2>1
       DEF TypeOK, Appears, Dispatch, Redeliver, milvusVars, workerVars, dropVars, Statuses
<1>10. ASSUME NEW t \in Tenants, BeginDrop(t) PROVE TypeOK'
  <2>1. drops + 1 \in 0..MaxDrops
    BY <1>10, BoundsAssumption DEF BeginDrop, TypeOK
  <2> QED
    BY <1>10, <2>1 DEF TypeOK, BeginDrop, milvusVars, workerVars, histVars, DropCalls
<1>11. CASE HasChunks
  BY <1>11 DEF TypeOK, HasChunks, milvusVars, workerVars, histVars, DropCalls
<1>12. CASE DropChunks
  <2>1. dropping \in Tenants
    BY <1>12 DEF DropChunks, JobsInv
  <2>2. collections' \in SUBSET Collection /\ rows' \in [Collection -> SUBSET Record]
    BY <1>12, <2>1, Names, MilvusType DEF DropChunks
  <2> QED
    BY <1>12, <2>1, <2>2 DEF TypeOK, DropChunks, workerVars, DropCalls, AssetsOf, JobsOf
<1>13. CASE HasState
  BY <1>13 DEF TypeOK, HasState, EndDrop, milvusVars, workerVars, histVars, DropCalls
<1>14. CASE DropState
  <2>1. dropping \in Tenants
    BY <1>14 DEF DropState, JobsInv
  <2>2. collections' \in SUBSET Collection /\ rows' \in [Collection -> SUBSET Record]
    BY <1>14, <2>1, Names, MilvusType DEF DropState
  <2> QED
    BY <1>14, <2>1, <2>2 DEF TypeOK, DropState, EndDrop, workerVars, JobsOf
<1>15. CASE DropFails
  <2>1. faults + 1 \in 0..MaxFaults
    BY <1>15, BoundsAssumption DEF DropFails, TypeOK
  <2> QED
    BY <1>15, <2>1 DEF TypeOK, DropFails, EndDrop, milvusVars, workerVars, histVars
<1>16. CASE UNCHANGED vars
  BY <1>16 DEF TypeOK, vars, milvusVars, workerVars, dropVars, histVars
<1> QED
  BY <1>1, <1>2, <1>3, <1>4, <1>5, <1>6, <1>7, <1>8, <1>9, <1>10, <1>11, <1>12, <1>13,
     <1>14, <1>15, <1>16 DEF Next, Appears

------------------------------------------------------------------------------
\* JobsInv: w ends its attempt, w goes on with its job, or no worker moves.

LEMMA EndsKeepsJobs ==
  ASSUME TypeOK, JobsInv, NEW w \in Workers, pc[w] # "idle", NEW s, Ends(w, s),
         UNCHANGED <<step, dropping>>
  PROVE  JobsInv'
<1>1. job[w] \in Jobs
  BY Busy
<1>2. pc'[w] = "idle" /\ job'[w] = NoJob
  BY DEF TypeOK, Ends
<1>3. \A v \in Workers : v # w => pc'[v] = pc[v] /\ job'[v] = job[v] /\ next'[v] = next[v]
  BY DEF TypeOK, Ends
<1>4. \A v \in Workers : v # w /\ job[v] # NoJob => status'[job[v]] = status[job[v]]
  BY <1>1 DEF TypeOK, JobsInv, Ends
<1> QED
  BY <1>2, <1>3, <1>4 DEF JobsInv

LEMMA MoveKeepsJobs ==
  ASSUME TypeOK, JobsInv, NEW w \in Workers, pc[w] # "idle",
         NEW l \in Calls, pc' = [pc EXCEPT ![w] = l], l # "idle",
         l \in {"lookup", "query"} => next'[w] = 1,
         \A v \in Workers : v # w => next'[v] = next[v],
         UNCHANGED <<job, status, step, dropping>>
  PROVE  JobsInv'
<1>1. pc'[w] = l /\ \A v \in Workers : v # w => pc'[v] = pc[v]
  BY DEF TypeOK
<1> QED
  BY <1>1 DEF JobsInv

LEMMA StillKeepsJobs ==
  ASSUME JobsInv, UNCHANGED <<workerVars, status>>, step' # "idle" => dropping' \in Tenants
  PROVE  JobsInv'
BY DEF JobsInv, workerVars

LEMMA JobsInductive == TypeOK /\ JobsInv /\ [Next]_vars => JobsInv'
<1> SUFFICES ASSUME TypeOK, JobsInv, [Next]_vars PROVE JobsInv'
  OBVIOUS
<1>f. ASSUME NEW w \in Workers, pc[w] # "idle", Fail(w), UNCHANGED <<step, dropping>>
      PROVE  JobsInv'
  BY <1>f, FailEnds, EndsKeepsJobs
<1>1. ASSUME NEW w \in Workers, NEW j \in Jobs, Begin(w, j) PROVE JobsInv'
  <2>1. pc'[w] = "lookup" /\ job'[w] = j /\ next'[w] = 1 /\ j # NoJob
    BY <1>1, NoneAssumption DEF TypeOK, Begin, Goto
  <2>2. \A v \in Workers : v # w => pc'[v] = pc[v] /\ job'[v] = job[v] /\ next'[v] = next[v]
    BY <1>1 DEF TypeOK, Begin, Goto
  <2>3. status'[j] = "running" /\ \A i \in Jobs : status[i] = "running" => status'[i] = "running"
    BY <1>1 DEF TypeOK, Begin
  <2>4. \A v \in Workers : v # w => job[v] # j
    BY <1>1, NoneAssumption DEF Begin, JobsInv
  <2>5. UNCHANGED <<step, dropping>>
    BY <1>1 DEF Begin, dropVars
  <2>6. \A v \in Workers : v # w /\ job'[v] # NoJob => status'[job'[v]] = "running"
    BY <2>2, <2>3 DEF JobsInv, TypeOK
  <2> QED
    BY <2>1, <2>2, <2>3, <2>4, <2>5, <2>6 DEF JobsInv
<1>2. ASSUME NEW w \in Workers, Lookup(w) PROVE JobsInv'
  <2>1. pc[w] # "idle" /\ next[w] = 1 /\ UNCHANGED <<job, next, status, step, dropping>>
    BY <1>2 DEF Lookup, dropVars, JobsInv
  <2>2. PICK l \in Calls : pc' = [pc EXCEPT ![w] = l]
    BY <1>2 DEF Lookup, Embed, Goto, Calls
  <2> QED
    BY <2>1, <2>2, MoveKeepsJobs DEF Calls
<1>3. ASSUME NEW w \in Workers, Query(w) PROVE JobsInv'
  <2>1. pc[w] # "idle" /\ UNCHANGED <<step, dropping>>
    BY <1>3 DEF Query, dropVars
  <2>2. CASE Fail(w)
    BY <2>1, <2>2, <1>f
  <2>3. CASE Finish(w)
    BY <2>1, <2>3, FinishEnds, EndsKeepsJobs
  <2>4. CASE Embed(w) /\ UNCHANGED <<status, retries, job, next>>
    <3>1. pc' = [pc EXCEPT ![w] = "check"] /\ "check" \in Calls
      BY <2>4 DEF Embed, Goto, Calls
    <3> QED
      BY <2>1, <2>4, <3>1, MoveKeepsJobs
  <2> QED
    BY <1>3, <2>2, <2>3, <2>4 DEF Query
<1>4. ASSUME NEW w \in Workers, Check(w) PROVE JobsInv'
  <2>1. pc[w] # "idle" /\ UNCHANGED <<job, next, status, step, dropping>>
    BY <1>4 DEF Check, dropVars
  <2>2. PICK l \in {"upsert", "create"} : pc' = [pc EXCEPT ![w] = l]
    BY <1>4 DEF Check, Goto
  <2> QED
    BY <2>1, <2>2, MoveKeepsJobs DEF Calls
<1>5. ASSUME NEW w \in Workers, Create(w) PROVE JobsInv'
  <2>1. pc[w] # "idle" /\ UNCHANGED <<step, dropping>>
    BY <1>5 DEF Create, dropVars
  <2>2. CASE Goto(w, "upsert") /\ UNCHANGED <<status, retries, job, next>>
    <3>1. pc' = [pc EXCEPT ![w] = "upsert"] /\ "upsert" \in Calls
      BY <2>2 DEF Goto, Calls
    <3> QED
      BY <2>1, <2>2, <3>1, MoveKeepsJobs
  <2>3. CASE Fail(w)
    BY <2>1, <2>3, <1>f
  <2> QED
    BY <1>5, <2>2, <2>3 DEF Create
<1>6. ASSUME NEW w \in Workers, Upsert(w) PROVE JobsInv'
  <2>1. pc[w] # "idle" /\ UNCHANGED <<step, dropping>>
    BY <1>6 DEF Upsert, dropVars
  <2>2. CASE next' = [next EXCEPT ![w] = @ + 1] /\ Goto(w, "check") /\ UNCHANGED <<status, retries, job>>
    <3>1. pc' = [pc EXCEPT ![w] = "check"] /\ "check" \in Calls
      BY <2>2 DEF Goto, Calls
    <3>2. \A v \in Workers : v # w => next'[v] = next[v]
      BY <2>2 DEF TypeOK
    <3> QED
      BY <2>1, <2>2, <3>1, <3>2, MoveKeepsJobs
  <2>3. CASE Finish(w)
    BY <2>1, <2>3, FinishEnds, EndsKeepsJobs
  <2>4. CASE Fail(w)
    BY <2>1, <2>4, <1>f
  <2> QED
    BY <1>6, <2>2, <2>3, <2>4 DEF Upsert
<1>7. ASSUME NEW w \in Workers, CallFails(w) PROVE JobsInv'
  BY <1>7, <1>f DEF CallFails, dropVars
<1>8. ASSUME NEW w \in Workers, WorkerLost(w) PROVE JobsInv'
  <2>1. Ends(w, "queued") /\ pc[w] # "idle" /\ UNCHANGED <<step, dropping>>
    BY <1>8 DEF WorkerLost, Leave, Goto, Ends, dropVars
  <2> QED
    BY <2>1, EndsKeepsJobs
<1>9. ASSUME NEW j \in Jobs, Appears(j) PROVE JobsInv'
  <2>1. UNCHANGED <<pc, job, next, step, dropping>>
    BY <1>9 DEF Appears, Dispatch, Redeliver, workerVars, dropVars
  <2>2. \A v \in Workers : job[v] # NoJob => status'[job[v]] = "running"
    BY <1>9 DEF Appears, Dispatch, Redeliver, JobsInv, TypeOK
  <2> QED
    BY <2>1, <2>2 DEF JobsInv
<1>10. ASSUME NEW t \in Tenants, BeginDrop(t) PROVE JobsInv'
  BY <1>10, StillKeepsJobs DEF BeginDrop
<1>11. CASE HasChunks
  BY <1>11, StillKeepsJobs DEF HasChunks, JobsInv
<1>12. CASE DropChunks
  BY <1>12, StillKeepsJobs DEF DropChunks, JobsInv
<1>13. CASE HasState
  BY <1>13, StillKeepsJobs DEF HasState, EndDrop, JobsInv
<1>14. CASE DropState
  BY <1>14, StillKeepsJobs DEF DropState, EndDrop
<1>15. CASE DropFails
  BY <1>15, StillKeepsJobs DEF DropFails, EndDrop
<1>16. CASE UNCHANGED vars
  BY <1>16, StillKeepsJobs DEF vars, dropVars, JobsInv
<1> QED
  BY <1>1, <1>2, <1>3, <1>4, <1>5, <1>6, <1>7, <1>8, <1>9, <1>10, <1>11, <1>12, <1>13,
     <1>14, <1>15, <1>16 DEF Next, Appears

------------------------------------------------------------------------------
\* What a step may do to Milvus, and to the record of what outlives a drop.

LEMMA MilvusSteps ==
  ASSUME [Next]_vars
  PROVE  \/ UNCHANGED <<milvusVars, outlived>>
         \/ \E w \in Workers : pc[w] = "create" /\ Created(Here(w)) /\ UNCHANGED outlived
         \/ \E w \in Workers : pc[w] = "upsert" /\ Written(w)
         \/ DropChunks
         \/ DropState
<1>1. ASSUME NEW w \in Workers, Create(w)
      PROVE  \/ UNCHANGED <<milvusVars, outlived>>
             \/ pc[w] = "create" /\ Created(Here(w)) /\ UNCHANGED outlived
  BY <1>1 DEF Create, histVars
<1>2. ASSUME NEW w \in Workers, Upsert(w)
      PROVE  UNCHANGED <<milvusVars, outlived>> \/ (pc[w] = "upsert" /\ Written(w))
  BY <1>2 DEF Upsert
<1>3. ASSUME NEW w \in Workers, CallFails(w)
      PROVE  \/ UNCHANGED <<milvusVars, outlived>>
             \/ pc[w] = "create" /\ Created(Here(w)) /\ UNCHANGED outlived
             \/ pc[w] = "upsert" /\ Written(w)
  BY <1>3 DEF CallFails
<1>4. CASE \E w \in Workers, j \in Jobs : Begin(w, j)
  BY <1>4 DEF Begin, histVars
<1>5. CASE \E w \in Workers : Lookup(w) \/ Query(w) \/ Check(w) \/ WorkerLost(w)
  BY <1>5 DEF Lookup, Query, Check, WorkerLost, histVars
<1>6. CASE \E j \in Jobs : Appears(j)
  BY <1>6 DEF Appears, Dispatch, Redeliver
<1>7. CASE \E t \in Tenants : BeginDrop(t)
  BY <1>7 DEF BeginDrop, histVars
<1>8. CASE HasChunks \/ HasState \/ DropFails
  BY <1>8 DEF HasChunks, HasState, DropFails, histVars
<1>9. CASE UNCHANGED vars
  BY <1>9 DEF vars, histVars
<1> QED
  BY <1>1, <1>2, <1>3, <1>4, <1>5, <1>6, <1>7, <1>8, <1>9 DEF Next, Appears

LEMMA RowsInductive == TypeOK /\ JobsInv /\ RowsInv /\ [Next]_vars => RowsInv'
<1> SUFFICES ASSUME TypeOK, JobsInv, RowsInv, [Next]_vars PROVE RowsInv'
  OBVIOUS
<1>1. CASE UNCHANGED milvusVars
  BY <1>1 DEF RowsInv, milvusVars
<1>2. ASSUME NEW w \in Workers, pc[w] = "create", Created(Here(w)) PROVE RowsInv'
  BY <1>2 DEF RowsInv, Created
<1>3. ASSUME NEW w \in Workers, pc[w] = "upsert", Written(w) PROVE RowsInv'
  BY <1>3 DEF RowsInv, Written, Upserted, Exists, TypeOK
<1>4. CASE DropChunks
  BY <1>4 DEF RowsInv, DropChunks, Dropped, TypeOK
<1>5. CASE DropState
  BY <1>5 DEF RowsInv, DropState, Dropped, TypeOK
<1> QED
  BY <1>1, <1>2, <1>3, <1>4, <1>5, MilvusSteps

------------------------------------------------------------------------------
\* What the steps on Milvus do to the vectors and the markers.

LEMMA MarkerType ==
  ASSUME NEW a \in Assets
  PROVE  /\ Owner[a] \in Tenants /\ Marker(a) \in Record
         /\ \A b \in Assets : Marker(b) = Marker(a) => b = a
<1>1. Owner[a] \in Tenants
  BY OwnerAssumption
<1>2. NumChunks + 1 \in Positions
  BY BoundsAssumption DEF Positions
<1> QED
  BY <1>1, <1>2 DEF Marker, Record

LEMMA UpsertsAdd ==
  ASSUME TypeOK, JobsInv, NEW w \in Workers, pc[w] = "upsert", Upserted(Here(w), Row(w))
  PROVE  /\ next[w] <= NumChunks =>
              /\ \A t \in Tenants : rows'[StateOf(t)] = rows[StateOf(t)]
              /\ \A t \in Tenants : t # Tenant(w) => rows'[ChunksOf(t)] = rows[ChunksOf(t)]
              /\ rows'[ChunksOf(Tenant(w))] = rows[ChunksOf(Tenant(w))] \cup {Row(w)}
         /\ ~(next[w] <= NumChunks) =>
              /\ \A t \in Tenants : rows'[ChunksOf(t)] = rows[ChunksOf(t)]
              /\ \A t \in Tenants : t # Tenant(w) => rows'[StateOf(t)] = rows[StateOf(t)]
              /\ rows'[StateOf(Tenant(w))] = rows[StateOf(Tenant(w))] \cup {Marker(Asset(w))}
<1>1. /\ Asset(w) \in Assets /\ Tenant(w) \in Tenants /\ Tenant(w) = Owner[Asset(w)]
      /\ next[w] \in Positions /\ Row(w) = <<Asset(w), next[w]>>
      /\ Here(w) = Target(Asset(w), next[w])
  BY Busy
<1>2. rows' = [rows EXCEPT ![Here(w)] = @ \cup {Row(w)}]
  BY DEF Upserted
<1>3. CASE next[w] <= NumChunks
  <2>1. Here(w) = ChunksOf(Tenant(w))
    BY <1>1, <1>3, TargetType
  <2> QED
    BY <1>1, <1>2, <1>3, <2>1, Names DEF TypeOK
<1>4. CASE ~(next[w] <= NumChunks)
  <2>1. Here(w) = StateOf(Tenant(w)) /\ next[w] = NumChunks + 1
    BY <1>1, <1>4, TargetType
  <2>2. Row(w) = Marker(Asset(w))
    BY <1>1, <2>1 DEF Marker
  <2> QED
    BY <1>1, <1>2, <1>4, <2>1, <2>2, Names DEF TypeOK
<1> QED
  BY <1>3, <1>4

LEMMA DropsErase ==
  ASSUME TypeOK, NEW t \in Tenants
  PROVE  /\ Dropped(ChunksOf(t)) =>
              /\ rows'[ChunksOf(t)] = {}
              /\ \A u \in Tenants : u # t => rows'[ChunksOf(u)] = rows[ChunksOf(u)]
              /\ \A u \in Tenants : rows'[StateOf(u)] = rows[StateOf(u)]
         /\ Dropped(StateOf(t)) =>
              /\ rows'[StateOf(t)] = {}
              /\ \A u \in Tenants : u # t => rows'[StateOf(u)] = rows[StateOf(u)]
              /\ \A u \in Tenants : rows'[ChunksOf(u)] = rows[ChunksOf(u)]
BY Names DEF Dropped, TypeOK

------------------------------------------------------------------------------
\* BehindInv, worker by worker.

Behind(v) ==
  Writing(v) /\ job[v] \notin disturbed =>
    \A n \in 1..next[v] - 1 : <<Asset(v), n>> \in Findable(Tenant(v))

LEMMA VectorsGrow ==
  ASSUME TypeOK, JobsInv, [Next]_vars, ~DropChunks
  PROVE  \A t \in Tenants : rows[ChunksOf(t)] \subseteq rows'[ChunksOf(t)]
<1>1. CASE UNCHANGED milvusVars
  BY <1>1 DEF milvusVars
<1>2. ASSUME NEW w \in Workers, pc[w] = "create", Created(Here(w))
      PROVE  \A t \in Tenants : rows[ChunksOf(t)] \subseteq rows'[ChunksOf(t)]
  BY <1>2 DEF Created
<1>3. ASSUME NEW w \in Workers, pc[w] = "upsert", Written(w)
      PROVE  \A t \in Tenants : rows[ChunksOf(t)] \subseteq rows'[ChunksOf(t)]
  BY <1>3, UpsertsAdd DEF Written
<1>4. CASE DropState
  <2>1. dropping \in Tenants /\ Dropped(StateOf(dropping))
    BY <1>4 DEF DropState, JobsInv
  <2> QED
    BY <2>1, DropsErase
<1> QED
  BY <1>1, <1>2, <1>3, <1>4, MilvusSteps

LEMMA BehindFrame ==
  ASSUME TypeOK, JobsInv, NEW v \in Workers, Behind(v),
         pc'[v] = pc[v], job'[v] = job[v], next'[v] = next[v],
         Writing(v) /\ job[v] \in disturbed => job[v] \in disturbed',
         \A t \in Tenants : rows[ChunksOf(t)] \subseteq rows'[ChunksOf(t)]
  PROVE  Behind(v)'
<1> SUFFICES ASSUME Writing(v), job[v] \notin disturbed, NEW n \in 1..next[v] - 1
             PROVE  <<Asset(v), n>> \in rows'[ChunksOf(Tenant(v))]
  BY DEF Behind, Writing, Findable, Asset, Tenant
<1>1. Tenant(v) \in Tenants
  BY Busy DEF Writing
<1>2. <<Asset(v), n>> \in rows[ChunksOf(Tenant(v))]
  BY DEF Behind, Findable
<1> QED
  BY <1>1, <1>2

LEMMA NotWriting ==
  ASSUME NEW v \in Workers, pc'[v] \in {"idle", "lookup", "query"}
  PROVE  Behind(v)'
BY DEF Behind, Writing

\* A record is written once more, or the first one is next.
LEMMA FreshAttempt ==
  ASSUME NEW v \in Workers, next'[v] = 1
  PROVE  Behind(v)'
BY DEF Behind

\* The steps of a worker leave the others alone.
LEMMA OthersStay ==
  ASSUME TypeOK, JobsInv, NEW w \in Workers,
         \/ \E j \in Jobs : Begin(w, j)
         \/ Lookup(w) \/ Query(w) \/ Check(w) \/ Create(w) \/ Upsert(w)
         \/ CallFails(w) \/ WorkerLost(w)
  PROVE  \A v \in Workers : v # w =>
           /\ pc'[v] = pc[v] /\ job'[v] = job[v] /\ next'[v] = next[v]
           /\ Writing(v) /\ job[v] \in disturbed => job[v] \in disturbed'
<1>j. \A v \in Workers : v # w /\ Writing(v) => job[v] # job[w]
  BY NoneAssumption DEF JobsInv, Writing
<1>f. ASSUME Fail(w), pc[w] # "idle"
      PROVE  \A v \in Workers : v # w => pc'[v] = pc[v] /\ job'[v] = job[v] /\ next'[v] = next[v]
  BY <1>f, FailEnds DEF Ends, TypeOK
<1>1. CASE \E j \in Jobs : Begin(w, j)
  BY <1>1 DEF Begin, Goto, TypeOK, histVars
<1>2. CASE Lookup(w)
  BY <1>2, <1>j DEF Lookup, Embed, Goto, TypeOK
<1>3. CASE Query(w)
  <2>1. CASE Fail(w) /\ UNCHANGED disturbed
    BY <1>3, <2>1, <1>f DEF Query
  <2>2. CASE Finish(w) /\ UNCHANGED disturbed
    BY <2>2 DEF Finish, Leave, Goto, TypeOK
  <2>3. CASE Embed(w) /\ UNCHANGED <<job, next>>
    BY <2>3, <1>j DEF Embed, Goto, TypeOK
  <2> QED
    BY <1>3, <2>1, <2>2, <2>3 DEF Query
<1>4. CASE Check(w)
  BY <1>4 DEF Check, Goto, TypeOK, histVars
<1>5. CASE Create(w)
  BY <1>5, <1>f DEF Create, Goto, TypeOK, histVars
<1>6. CASE Upsert(w)
  <2>1. pc[w] # "idle" /\ UNCHANGED disturbed
    BY <1>6 DEF Upsert
  <2>2. CASE Fail(w)
    BY <2>1, <2>2, <1>f
  <2>3. CASE Finish(w)
    BY <2>1, <2>3 DEF Finish, Leave, Goto, TypeOK
  <2>4. CASE next' = [next EXCEPT ![w] = @ + 1] /\ Goto(w, "check") /\ UNCHANGED job
    BY <2>1, <2>4 DEF Goto, TypeOK
  <2> QED
    BY <1>6, <2>2, <2>3, <2>4 DEF Upsert
<1>7. CASE CallFails(w)
  BY <1>7, <1>f DEF CallFails
<1>8. CASE WorkerLost(w)
  BY <1>8 DEF WorkerLost, Leave, Goto, TypeOK, histVars
<1> QED
  BY <1>1, <1>2, <1>3, <1>4, <1>5, <1>6, <1>7, <1>8

\* A worker whose step ends its attempt writes nothing more.
LEMMA EndedIsBehind ==
  ASSUME TypeOK, NEW w \in Workers, NEW s, Ends(w, s)
  PROVE  Behind(w)'
<1>1. pc'[w] = "idle"
  BY DEF Ends, TypeOK
<1> QED
  BY <1>1, NotWriting

LEMMA BehindInductive ==
  TypeOK /\ JobsInv /\ BehindInv /\ [Next]_vars => BehindInv'
<1> SUFFICES ASSUME TypeOK, JobsInv, BehindInv, [Next]_vars, NEW v \in Workers
             PROVE  Behind(v)'
  BY DEF BehindInv, Behind, Writing, Findable, Asset, Tenant
<1>b. Behind(v)
  BY DEF BehindInv, Behind
<1>o. ASSUME NEW w \in Workers, v # w,
             \/ \E j \in Jobs : Begin(w, j)
             \/ Lookup(w) \/ Query(w) \/ Check(w) \/ Create(w) \/ Upsert(w)
             \/ CallFails(w) \/ WorkerLost(w)
      PROVE  Behind(v)'
  <2>1. ~DropChunks
    BY <1>o DEF Begin, Lookup, Query, Check, Create, Upsert, CallFails, WorkerLost, DropChunks,
                dropVars, Fail, Finish, Leave
  <2> QED
    BY <1>b, <1>o, <2>1, OthersStay, VectorsGrow, BehindFrame
<1>f. ASSUME Fail(v), pc[v] # "idle"
      PROVE  Behind(v)'
  BY <1>f, FailEnds, EndedIsBehind
<1>s. ASSUME UNCHANGED workerVars, ~DropChunks,
             Writing(v) /\ job[v] \in disturbed => job[v] \in disturbed'
      PROVE  Behind(v)'
  <2>1. pc'[v] = pc[v] /\ job'[v] = job[v] /\ next'[v] = next[v]
    BY <1>s DEF workerVars
  <2> QED
    BY <1>b, <1>s, <2>1, VectorsGrow, BehindFrame
<1>1. ASSUME NEW j \in Jobs, Begin(v, j) PROVE Behind(v)'
  <2>1. pc'[v] = "lookup"
    BY <1>1 DEF Begin, Goto, TypeOK
  <2> QED
    BY <2>1, NotWriting
<1>2. CASE Lookup(v) \/ (Query(v) /\ Embed(v) /\ UNCHANGED next)
  <2>1. next'[v] = 1
    BY <1>2 DEF Lookup, Query, JobsInv
  <2> QED
    BY <2>1, FreshAttempt
<1>3. CASE Query(v)
  <2>1. pc[v] # "idle"
    BY <1>3 DEF Query
  <2> QED
    BY <1>2, <1>3, <2>1, <1>f, FinishEnds, EndedIsBehind DEF Query
<1>4. CASE Check(v) \/ (Create(v) /\ Created(Here(v)) /\ UNCHANGED <<job, next>>)
  <2>1. Writing(v) /\ UNCHANGED <<job, next, disturbed>>
    BY <1>4 DEF Check, Create, Writing, histVars
  <2>2. rows' = rows
    BY <1>4 DEF Check, Create, Created, milvusVars
  <2> QED
    BY <1>b, <2>1, <2>2 DEF Behind, Findable, Asset, Tenant
<1>5. CASE Create(v)
  <2>1. pc[v] # "idle"
    BY <1>5 DEF Create
  <2> QED
    BY <1>4, <1>5, <2>1, <1>f DEF Create
<1>6. CASE Upsert(v)
  <2>1. pc[v] = "upsert" /\ UNCHANGED disturbed
    BY <1>6 DEF Upsert
  <2>2. CASE /\ Written(v) /\ next[v] <= NumChunks
             /\ next' = [next EXCEPT ![v] = @ + 1] /\ UNCHANGED job
    <3>1. next'[v] = next[v] + 1 /\ next[v] \in Nat
      BY <2>1, <2>2, BoundsAssumption DEF TypeOK, Positions
    <3>2. \A n \in 1..(next[v] + 1) - 1 : n \in 1..next[v] - 1 \/ n = next[v]
      BY <3>1
    <3>3. rows'[ChunksOf(Tenant(v))] = rows[ChunksOf(Tenant(v))] \cup {<<Asset(v), next[v]>>}
      BY <2>1, <2>2, UpsertsAdd DEF Written, Row
    <3>4. Writing(v)
      BY <2>1 DEF Writing
    <3>5. job[v] \notin disturbed =>
            \A n \in 1..(next[v] + 1) - 1 : <<Asset(v), n>> \in rows'[ChunksOf(Tenant(v))]
      BY <1>b, <3>2, <3>3, <3>4 DEF Behind, Findable
    <3> QED
      BY <2>1, <2>2, <3>1, <3>5 DEF Behind, Findable, Asset, Tenant
  <2>3. CASE Finish(v)
    BY <2>3, FinishEnds, EndedIsBehind
  <2>4. CASE Fail(v)
    BY <2>1, <2>4, <1>f
  <2> QED
    BY <1>6, <2>2, <2>3, <2>4 DEF Upsert
<1>7. CASE CallFails(v)
  BY <1>7, <1>f DEF CallFails
<1>8. CASE WorkerLost(v)
  <2>1. Ends(v, "queued")
    BY <1>8 DEF WorkerLost, Leave, Goto, Ends
  <2> QED
    BY <2>1, EndedIsBehind
<1>9. ASSUME NEW j \in Jobs, Appears(j) PROVE Behind(v)'
  <2>1. ~DropChunks
    BY <1>9 DEF Appears, Dispatch, Redeliver, DropChunks, dropVars
  <2> QED
    BY <1>9, <2>1, <1>s DEF Appears, Dispatch, Redeliver
<1>10. ASSUME NEW t \in Tenants, BeginDrop(t) PROVE Behind(v)'
  <2>1. ~DropChunks
    BY <1>10 DEF BeginDrop, DropChunks
  <2> QED
    BY <1>10, <2>1, <1>s DEF BeginDrop, histVars
<1>11. CASE HasChunks \/ DropFails
  <2>1. ~DropChunks
    BY <1>11 DEF HasChunks, DropFails, EndDrop, DropChunks
  <2> QED
    BY <1>11, <2>1, <1>s DEF HasChunks, DropFails, histVars
<1>12. CASE DropChunks
  <2>1. dropping \in Tenants /\ Dropped(ChunksOf(dropping)) /\ UNCHANGED workerVars
    BY <1>12 DEF DropChunks, JobsInv
  <2>2. pc'[v] = pc[v] /\ job'[v] = job[v] /\ next'[v] = next[v]
    BY <2>1 DEF workerVars
  <2>3. CASE Writing(v) /\ Tenant(v) = dropping
    <3>1. job[v] \in Jobs /\ next[v] \in Positions
      BY <2>3, Busy DEF Writing
    <3>2. CASE next[v] > 1
      <4>1. job[v] \in disturbed'
        BY <1>12, <2>3, <3>1, <3>2 DEF DropChunks, JobsOf, HasWritten, Tenant, Asset
      <4> QED
        BY <2>2, <4>1 DEF Behind
    <3>3. CASE ~(next[v] > 1)
      <4>1. next'[v] = 1
        BY <2>2, <3>1, <3>3, BoundsAssumption DEF Positions
      <4> QED
        BY <4>1, FreshAttempt
    <3> QED
      BY <3>2, <3>3
  <2>4. CASE Writing(v) /\ Tenant(v) # dropping
    <3>1. Tenant(v) \in Tenants
      BY <2>4, Busy DEF Writing
    <3>2. rows'[ChunksOf(Tenant(v))] = rows[ChunksOf(Tenant(v))]
      BY <2>1, <2>4, <3>1, DropsErase
    <3>3. disturbed \subseteq disturbed'
      BY <1>12 DEF DropChunks
    <3> QED
      BY <1>b, <2>2, <2>4, <3>2, <3>3 DEF Behind, Writing, Findable, Asset, Tenant
  <2>5. CASE ~Writing(v)
    BY <2>2, <2>5 DEF Behind, Writing
  <2> QED
    BY <2>3, <2>4, <2>5
<1>13. CASE HasState \/ DropState
  <2>1. UNCHANGED <<workerVars, disturbed>> /\ ~DropChunks
    BY <1>13 DEF HasState, DropState, DropChunks, histVars
  <2> QED
    BY <1>s, <2>1
<1>14. CASE UNCHANGED vars
  <2>1. UNCHANGED <<pc, job, next, disturbed, rows>>
    BY <1>14 DEF vars, workerVars, histVars, milvusVars
  <2> QED
    BY <1>b, <2>1 DEF Behind, Writing, Findable, Asset, Tenant
<1> QED
  BY <1>o, <1>1, <1>2, <1>3, <1>4, <1>5, <1>6, <1>7, <1>8, <1>9, <1>10, <1>11, <1>12, <1>13,
     <1>14 DEF Next, Appears

------------------------------------------------------------------------------
\* MarkedMeansStored, asset by asset.

Stored(a) ==
  IsMarked(a) => \/ \A n \in 1..NumChunks : <<a, n>> \in Findable(Owner[a])
                 \/ a \in outlived

LEMMA StoredFrame ==
  ASSUME NEW a \in Assets, Stored(a),
         IsMarked(a)' => IsMarked(a),
         rows[ChunksOf(Owner[a])] \subseteq rows'[ChunksOf(Owner[a])],
         a \in outlived => a \in outlived'
  PROVE  Stored(a)'
BY DEF Stored, Findable

\* An attempt writes the marker last: the vectors are behind it, or it is disturbed.
LEMMA WriterStores ==
  ASSUME TypeOK, JobsInv, BehindInv, NEW w \in Workers, pc[w] = "upsert", Written(w),
         ~(next[w] <= NumChunks), NEW a, a = Asset(w)
  PROVE  Stored(a)'
<1>1. a \in Assets /\ Tenant(w) \in Tenants /\ Tenant(w) = Owner[a] /\ next[w] \in Positions
  BY Busy
<1>2. 1..next[w] - 1 = 1..NumChunks
  BY <1>1, BoundsAssumption DEF Positions
<1>3. rows'[ChunksOf(Owner[a])] = rows[ChunksOf(Owner[a])]
  BY <1>1, UpsertsAdd DEF Written
<1>4. CASE job[w] \in disturbed
  <2>1. a \in outlived'
    BY <1>4 DEF Written
  <2> QED
    BY <2>1 DEF Stored
<1>5. CASE job[w] \notin disturbed
  <2>1. \A n \in 1..NumChunks : <<a, n>> \in rows[ChunksOf(Owner[a])]
    BY <1>1, <1>2, <1>5 DEF BehindInv, Writing, Findable
  <2>2. \A n \in 1..NumChunks : <<a, n>> \in rows'[ChunksOf(Owner[a])]
    BY <1>3, <2>1
  <2> QED
    BY <2>2 DEF Stored, Findable
<1> QED
  BY <1>4, <1>5

LEMMA MarkedInductive ==
  TypeOK /\ JobsInv /\ BehindInv /\ MarkedMeansStored /\ [Next]_vars => MarkedMeansStored'
<1> SUFFICES ASSUME TypeOK, JobsInv, BehindInv, MarkedMeansStored, [Next]_vars, NEW a \in Assets
             PROVE  Stored(a)'
  BY DEF MarkedMeansStored, Stored, IsMarked, Findable
<1>s. Stored(a)
  BY DEF MarkedMeansStored, Stored
<1>o. Owner[a] \in Tenants
  BY MarkerType
<1>1. CASE UNCHANGED <<milvusVars, outlived>>
  <2>1. rows' = rows
    BY <1>1 DEF milvusVars
  <2> QED
    BY <1>s, <1>1, <2>1, StoredFrame DEF IsMarked
<1>2. CASE \E w \in Workers : pc[w] = "create" /\ Created(Here(w)) /\ UNCHANGED outlived
  <2>1. rows' = rows /\ outlived' = outlived
    BY <1>2 DEF Created
  <2> QED
    BY <1>s, <2>1, StoredFrame DEF IsMarked
<1>3. ASSUME NEW w \in Workers, pc[w] = "upsert", Written(w) PROVE Stored(a)'
  <2>1. Upserted(Here(w), Row(w)) /\ Asset(w) \in Assets
    BY <1>3, Busy DEF Written
  <2>2. CASE next[w] <= NumChunks
    <3>1. rows'[StateOf(Owner[a])] = rows[StateOf(Owner[a])] /\ outlived' = outlived
      BY <1>3, <1>o, <2>1, <2>2, UpsertsAdd DEF Written
    <3>2. rows[ChunksOf(Owner[a])] \subseteq rows'[ChunksOf(Owner[a])]
      BY <1>3, <1>o, <2>1, <2>2, UpsertsAdd
    <3> QED
      BY <1>s, <3>1, <3>2, StoredFrame DEF IsMarked
  <2>3. CASE ~(next[w] <= NumChunks) /\ a = Asset(w)
    BY <1>3, <2>3, WriterStores
  <2>4. CASE ~(next[w] <= NumChunks) /\ a # Asset(w)
    <3>1. rows'[ChunksOf(Owner[a])] = rows[ChunksOf(Owner[a])]
      BY <1>3, <1>o, <2>1, <2>4, UpsertsAdd
    <3>2. IsMarked(a)' => IsMarked(a)
      <4>1. rows'[StateOf(Owner[a])] \subseteq rows[StateOf(Owner[a])] \cup {Marker(Asset(w))}
        BY <1>3, <1>o, <2>1, <2>4, UpsertsAdd
      <4>2. Marker(a) # Marker(Asset(w))
        BY <2>1, <2>4, MarkerType
      <4> QED
        BY <4>1, <4>2 DEF IsMarked
    <3>3. a \in outlived => a \in outlived'
      BY <1>3, <2>4 DEF Written
    <3> QED
      BY <1>s, <3>1, <3>2, <3>3, StoredFrame
  <2> QED
    BY <2>2, <2>3, <2>4
<1>4. CASE DropChunks
  <2>1. dropping \in Tenants /\ Dropped(ChunksOf(dropping))
    BY <1>4 DEF DropChunks, JobsInv
  <2>2. IsMarked(a)' = IsMarked(a)
    BY <1>o, <2>1, DropsErase DEF IsMarked
  <2>3. outlived' = outlived \cup {b \in AssetsOf(dropping) : IsMarked(b)}
    BY <1>4 DEF DropChunks
  <2>4. CASE Owner[a] = dropping
    BY <2>2, <2>3, <2>4 DEF Stored, AssetsOf
  <2>5. CASE Owner[a] # dropping
    <3>1. rows'[ChunksOf(Owner[a])] = rows[ChunksOf(Owner[a])]
      BY <1>o, <2>1, <2>5, DropsErase
    <3> QED
      BY <1>s, <2>2, <2>3, <3>1, StoredFrame
  <2> QED
    BY <2>4, <2>5
<1>5. CASE DropState
  <2>1. dropping \in Tenants /\ Dropped(StateOf(dropping)) /\ outlived' = outlived \ AssetsOf(dropping)
    BY <1>5 DEF DropState, JobsInv
  <2>2. rows'[ChunksOf(Owner[a])] = rows[ChunksOf(Owner[a])]
    BY <1>o, <2>1, DropsErase
  <2>3. CASE Owner[a] = dropping
    <3>1. ~IsMarked(a)'
      BY <2>1, <2>3, DropsErase DEF IsMarked
    <3> QED
      BY <3>1 DEF Stored
  <2>4. CASE Owner[a] # dropping
    <3>1. IsMarked(a)' = IsMarked(a) /\ (a \in outlived => a \in outlived')
      BY <1>o, <2>1, <2>4, DropsErase DEF IsMarked, AssetsOf
    <3> QED
      BY <1>s, <2>2, <3>1, StoredFrame
  <2> QED
    BY <2>3, <2>4
<1> QED
  BY <1>1, <1>2, <1>3, <1>4, <1>5, MilvusSteps

------------------------------------------------------------------------------
\* RacesInv, job by job and worker by worker.

Retried(j) ==
  /\ retries[j] <= 2
  /\ retries[j] >= 1 => ChunksOf(Owner[AssetOf[j]]) \in collections
  /\ retries[j] = 2 => StateOf(Owner[AssetOf[j]]) \in collections

Raced(w) ==
  /\ next[w] > 1 => ChunksOf(Tenant(w)) \in collections
  /\ pc[w] = "create" /\ next[w] <= NumChunks => retries[job[w]] = 0
  /\ pc[w] = "create" => retries[job[w]] <= 1

\* A collection goes only when its tenant's jobs are excused.
LEMMA CollectionsStay ==
  ASSUME TypeOK, JobsInv, [Next]_vars, NEW j \in Jobs, j \notin excused'
  PROVE  /\ ChunksOf(Owner[AssetOf[j]]) \in collections => ChunksOf(Owner[AssetOf[j]]) \in collections'
         /\ StateOf(Owner[AssetOf[j]]) \in collections => StateOf(Owner[AssetOf[j]]) \in collections'
<1>o. Owner[AssetOf[j]] \in Tenants
  BY OwnerAssumption
<1>1. CASE UNCHANGED <<milvusVars, outlived>>
  BY <1>1 DEF milvusVars
<1>2. CASE \E w \in Workers : pc[w] = "create" /\ Created(Here(w))
  BY <1>2 DEF Created
<1>3. CASE \E w \in Workers : pc[w] = "upsert" /\ Written(w)
  BY <1>3 DEF Written, Upserted
<1>4. CASE DropChunks \/ DropState
  <2>1. dropping \in Tenants /\ Owner[AssetOf[j]] # dropping
    BY <1>4 DEF DropChunks, DropState, JobsOf, JobsInv
  <2>2. collections' = collections \ {ChunksOf(dropping)} \/ collections' = collections \ {StateOf(dropping)}
    BY <1>4 DEF DropChunks, DropState, Dropped
  <2> QED
    BY <1>o, <2>1, <2>2, Names
<1> QED
  BY <1>1, <1>2, <1>3, <1>4, MilvusSteps

LEMMA RetriedFrame ==
  ASSUME TypeOK, JobsInv, [Next]_vars, NEW j \in Jobs, j \notin excused', Retried(j),
         retries'[j] = retries[j]
  PROVE  Retried(j)'
BY CollectionsStay DEF Retried

LEMMA RacedFrame ==
  ASSUME TypeOK, JobsInv, [Next]_vars, NEW v \in Workers, Writing(v), job[v] \notin excused',
         Raced(v), pc'[v] = pc[v], job'[v] = job[v], next'[v] = next[v],
         retries'[job[v]] = retries[job[v]]
  PROVE  Raced(v)'
<1>1. job[v] \in Jobs
  BY Busy DEF Writing
<1> QED
  BY <1>1, CollectionsStay DEF Raced, Tenant, Asset

\* Losing the race to create costs one retry, of the two there are.
LEMMA RaceCosts ==
  ASSUME TypeOK, JobsInv, RacesInv, NEW w \in Workers, pc[w] = "create",
         job[w] \notin excused, Exists(Here(w))
  PROVE  /\ retries[job[w]] < MaxRetries
         /\ retries[job[w]] \in {0, 1}
         /\ ChunksOf(Tenant(w)) \in collections
         /\ retries[job[w]] = 1 => StateOf(Tenant(w)) \in collections
<1>1. /\ job[w] \in Jobs /\ next[w] \in Positions /\ Asset(w) \in Assets
      /\ Here(w) = Target(Asset(w), next[w]) /\ Tenant(w) = Owner[Asset(w)]
      /\ retries[job[w]] \in 0..MaxRetries
  BY Busy DEF TypeOK
<1>2. /\ next[w] > 1 => ChunksOf(Tenant(w)) \in collections
      /\ next[w] <= NumChunks => retries[job[w]] = 0
      /\ retries[job[w]] <= 1
  BY DEF RacesInv, Writing
<1>3. retries[job[w]] \in {0, 1} /\ retries[job[w]] < MaxRetries
  BY <1>1, <1>2, RetriesAssumption
<1>4. CASE next[w] <= NumChunks
  <2>1. retries[job[w]] = 0
    BY <1>2, <1>4
  <2>2. Here(w) = ChunksOf(Tenant(w))
    BY <1>1, <1>4, TargetType
  <2> QED
    BY <1>3, <2>1, <2>2 DEF Exists
<1>5. CASE ~(next[w] <= NumChunks)
  <2>1. next[w] > 1
    BY <1>1, <1>5, BoundsAssumption DEF Positions
  <2>2. Here(w) = StateOf(Tenant(w))
    BY <1>1, <1>5, TargetType
  <2> QED
    BY <1>2, <1>3, <2>1, <2>2 DEF Exists
<1> QED
  BY <1>4, <1>5

\* An exception in the race to create: who is excused does not change.
LEMMA RaceRetries ==
  ASSUME TypeOK, JobsInv, RacesInv, NEW w \in Workers, NEW j \in Jobs, job[w] = j,
         pc[w] = "create", Exists(Here(w)), Fail(w), UNCHANGED milvusVars
  PROVE  /\ j \notin excused => Retried(j)' /\ status' = [status EXCEPT ![j] = "queued"]
         /\ \A i \in Jobs : i # j => retries'[i] = retries[i]
<1>1. retries[j] \in 0..MaxRetries
  BY DEF TypeOK
<1>2. ASSUME j \notin excused
      PROVE  Retried(j)' /\ status' = [status EXCEPT ![j] = "queued"]
  <2>1. /\ retries[j] < MaxRetries /\ retries[j] \in {0, 1}
        /\ ChunksOf(Owner[AssetOf[j]]) \in collections
        /\ retries[j] = 1 => StateOf(Owner[AssetOf[j]]) \in collections
    BY <1>2, RaceCosts DEF Tenant, Asset
  <2>2. Ends(w, "queued") /\ retries' = [retries EXCEPT ![j] = @ + 1]
    BY <1>1, <2>1, FailEnds, RetriesAssumption
  <2>3. retries'[j] = retries[j] + 1
    BY <1>1, <2>2 DEF TypeOK
  <2>4. retries'[j] <= 2 /\ (retries'[j] = 2 => retries[j] = 1)
    BY <2>1, <2>3
  <2>5. collections' = collections
    BY DEF milvusVars
  <2> QED
    BY <2>1, <2>2, <2>4, <2>5 DEF Retried, Ends
<1>3. \A i \in Jobs : i # j => retries'[i] = retries[i]
  BY <1>1, FailEnds DEF TypeOK
<1> QED
  BY <1>2, <1>3

\* No other step takes a retry from a job that stays without an excuse.
LEMMA RetriesStay ==
  ASSUME TypeOK, JobsInv, [Next]_vars, NEW j \in Jobs, j \notin excused',
         ~Appears(j),
         \A w \in Workers : job[w] = j => ~(Create(w) /\ Fail(w))
  PROVE  retries'[j] = retries[j] /\ (status'[j] = "dead" => status[j] = "dead")
<1>f. ASSUME NEW w \in Workers, pc[w] # "idle", Fail(w), job[w] # j
      PROVE  retries'[j] = retries[j] /\ status'[j] = status[j]
  BY <1>f, Busy, FailEnds DEF TypeOK, Ends
<1>d. ASSUME NEW w \in Workers, pc[w] # "idle", Finish(w)
      PROVE  retries'[j] = retries[j] /\ (status'[j] = "dead" => status[j] = "dead")
  BY <1>d, Busy, FinishEnds DEF TypeOK, Ends
<1>1. ASSUME NEW w \in Workers, NEW i \in Jobs, Begin(w, i)
      PROVE  retries'[j] = retries[j] /\ (status'[j] = "dead" => status[j] = "dead")
  BY <1>1 DEF Begin, TypeOK
<1>2. CASE \E w \in Workers : Lookup(w) \/ Check(w)
  BY <1>2 DEF Lookup, Check
<1>3. ASSUME NEW w \in Workers, Query(w)
      PROVE  retries'[j] = retries[j] /\ (status'[j] = "dead" => status[j] = "dead")
  <2>1. pc[w] # "idle"
    BY <1>3 DEF Query
  <2>2. CASE Fail(w) /\ excused' = excused \cup {job[w]}
    BY <2>1, <2>2, <1>f
  <2> QED
    BY <1>3, <2>1, <2>2, <1>d DEF Query
<1>5. ASSUME NEW w \in Workers, Create(w)
      PROVE  retries'[j] = retries[j] /\ (status'[j] = "dead" => status[j] = "dead")
  <2>1. pc[w] # "idle"
    BY <1>5 DEF Create
  <2> QED
    BY <1>5, <2>1, <1>f DEF Create
<1>6. ASSUME NEW w \in Workers, Upsert(w)
      PROVE  retries'[j] = retries[j] /\ (status'[j] = "dead" => status[j] = "dead")
  <2>1. pc[w] # "idle"
    BY <1>6 DEF Upsert
  <2>2. CASE Fail(w) /\ excused' = excused \cup {job[w]}
    BY <2>1, <2>2, <1>f
  <2> QED
    BY <1>6, <2>1, <2>2, <1>d DEF Upsert
<1>7. ASSUME NEW w \in Workers, CallFails(w)
      PROVE  retries'[j] = retries[j] /\ (status'[j] = "dead" => status[j] = "dead")
  BY <1>7, <1>f DEF CallFails
<1>8. ASSUME NEW w \in Workers, WorkerLost(w)
      PROVE  retries'[j] = retries[j] /\ (status'[j] = "dead" => status[j] = "dead")
  BY <1>8, Busy DEF WorkerLost, TypeOK
<1>9. ASSUME NEW i \in Jobs, Appears(i)
      PROVE  retries'[j] = retries[j] /\ (status'[j] = "dead" => status[j] = "dead")
  BY <1>9 DEF Appears, Dispatch, Redeliver, TypeOK
<1>10. CASE \E t \in Tenants : BeginDrop(t)
  BY <1>10 DEF BeginDrop
<1>11. CASE HasChunks \/ DropChunks \/ HasState \/ DropState \/ DropFails
  BY <1>11 DEF HasChunks, DropChunks, HasState, DropState, DropFails
<1>12. CASE UNCHANGED vars
  BY <1>12 DEF vars
<1> QED
  BY <1>1, <1>2, <1>3, <1>5, <1>6, <1>7, <1>8, <1>9, <1>10, <1>11, <1>12 DEF Next, Appears

\* Only a new delivery takes an excuse away.
LEMMA ExcusesStay ==
  ASSUME [Next]_vars, NEW j \in Jobs, ~Appears(j), j \notin excused'
  PROVE  j \notin excused
<1>1. CASE \E w \in Workers, i \in Jobs : Begin(w, i)
  BY <1>1 DEF Begin, histVars
<1>2. CASE \E w \in Workers : Lookup(w) \/ Query(w) \/ Check(w) \/ Create(w) \/ Upsert(w)
  BY <1>2 DEF Lookup, Query, Check, Create, Upsert, histVars
<1>3. CASE \E w \in Workers : CallFails(w) \/ WorkerLost(w)
  BY <1>3 DEF CallFails, WorkerLost, histVars
<1>4. CASE \E i \in Jobs : Appears(i)
  BY <1>4 DEF Appears, Dispatch, Redeliver
<1>5. CASE (\E t \in Tenants : BeginDrop(t)) \/ UNCHANGED vars
  BY <1>5 DEF BeginDrop, vars, histVars
<1>6. CASE HasChunks \/ DropChunks \/ HasState \/ DropState \/ DropFails
  BY <1>6 DEF HasChunks, DropChunks, HasState, DropState, DropFails, histVars
<1> QED
  BY <1>1, <1>2, <1>3, <1>4, <1>5, <1>6 DEF Next, Appears

\* The retries and the outcome of a job, together.
LEMMA RetriedInductive ==
  ASSUME TypeOK, JobsInv, RacesInv, RaceIsSurvived, [Next]_vars, NEW j \in Jobs, j \notin excused'
  PROVE  Retried(j)' /\ status'[j] # "dead"
<1>1. CASE Appears(j)
  <2>1. status'[j] = "queued"
    BY <1>1 DEF Appears, Dispatch, Redeliver, TypeOK
  <2>2. CASE Dispatch(j)
    <3>1. retries'[j] = 0
      BY <2>2 DEF Dispatch, TypeOK
    <3> QED
      BY <2>1, <3>1 DEF Retried
  <2>3. ASSUME NEW i \in Jobs, Redeliver(i, j) PROVE Retried(j)'
    <3>1. i \notin excused /\ AssetOf[j] = AssetOf[i] /\ collections' = collections
      BY <2>3 DEF Redeliver, milvusVars
    <3>2. retries'[j] = retries[i]
      BY <2>3 DEF Redeliver, TypeOK
    <3>3. Retried(i)
      BY <3>1 DEF RacesInv, Retried
    <3> QED
      BY <3>1, <3>2, <3>3 DEF Retried
  <2> QED
    BY <1>1, <2>1, <2>2, <2>3 DEF Appears
<1>2. CASE ~Appears(j)
  <2>1. j \notin excused
    BY <1>2, ExcusesStay
  <2>2. Retried(j) /\ status[j] # "dead"
    BY <2>1 DEF RacesInv, RaceIsSurvived, Retried
  <2>3. ASSUME NEW w \in Workers, job[w] = j, Create(w), Fail(w)
        PROVE  Retried(j)' /\ status'[j] # "dead"
    <3>1. pc[w] = "create" /\ pc'[w] = "idle"
      BY <2>3, FailEnds DEF Create, Ends, TypeOK
    <3>2. Exists(Here(w)) /\ UNCHANGED milvusVars
      BY <2>3, <3>1 DEF Create, Goto, TypeOK
    <3> QED
      BY <2>1, <2>3, <3>1, <3>2, RaceRetries DEF TypeOK
  <2>4. CASE \A w \in Workers : job[w] = j => ~(Create(w) /\ Fail(w))
    BY <1>2, <2>2, <2>4, RetriesStay, RetriedFrame
  <2> QED
    BY <2>3, <2>4
<1> QED
  BY <1>1, <1>2

\* A worker that goes on with its job keeps what it knows.
LEMMA RacedInductive ==
  ASSUME TypeOK, JobsInv, RowsInv, RacesInv, [Next]_vars, NEW v \in Workers,
         Writing(v)', job'[v] \notin excused'
  PROVE  Raced(v)'
<1>f. ASSUME NEW w \in Workers, pc[w] # "idle", Fail(w) PROVE v # w
  BY <1>f, FailEnds DEF Ends, TypeOK, Writing
<1>d. ASSUME NEW w \in Workers, Finish(w) PROVE v # w
  BY <1>d DEF Finish, Leave, Goto, TypeOK, Writing
\* The first record is not preceded by another, and nothing is being created.
<1>e. ASSUME next'[v] = 1, pc'[v] = "check" PROVE Raced(v)'
  BY <1>e DEF Raced
<1>b. Writing(v) /\ job[v] \notin excused => Raced(v)
  BY DEF RacesInv, Raced
<1>s. ASSUME pc'[v] = pc[v], job'[v] = job[v], next'[v] = next[v], retries'[job[v]] = retries[job[v]],
             \A j \in Jobs : job[v] = j => ~Appears(j)
      PROVE  Raced(v)'
  <2>1. Writing(v)
    BY <1>s DEF Writing
  <2>2. job[v] \in Jobs
    BY <2>1, Busy DEF Writing
  <2>3. job[v] \notin excused' /\ job[v] \notin excused
    BY <1>s, <2>2, ExcusesStay
  <2> QED
    BY <1>b, <1>s, <2>1, <2>3, RacedFrame
<1>r. \A j \in Jobs : Writing(v) /\ job[v] = j => ~Appears(j)
  BY Busy DEF Writing, Appears, Dispatch, Redeliver
<1>o. ASSUME NEW w \in Workers, v # w,
             \/ \E j \in Jobs : Begin(w, j)
             \/ Lookup(w) \/ Query(w) \/ Check(w) \/ Create(w) \/ Upsert(w)
             \/ CallFails(w) \/ WorkerLost(w)
      PROVE  Raced(v)'
  <2>1. pc'[v] = pc[v] /\ job'[v] = job[v] /\ next'[v] = next[v]
    BY <1>o, OthersStay
  <2>2. Writing(v)
    BY <2>1 DEF Writing
  <2>3. job[v] \in Jobs
    BY <2>2, Busy DEF Writing
  <2>4. \A u \in Workers : job[u] = job[v] => ~(Create(u) /\ Fail(u))
    <3>1. \A u \in Workers : job[u] = job[v] => u = v
      BY <2>3, NoneAssumption DEF JobsInv
    <3>2. ~(Create(v) /\ Fail(v))
      BY <2>1, <2>2, <1>f DEF Create
    <3> QED
      BY <3>1, <3>2
  <2>5. retries'[job[v]] = retries[job[v]]
    BY <1>r, <2>1, <2>2, <2>3, <2>4, RetriesStay
  <2> QED
    BY <1>r, <1>s, <2>1, <2>2, <2>5
<1>q. ASSUME UNCHANGED <<pc, job, next, retries>>
      PROVE  Raced(v)'
  <2>1. Writing(v)
    BY <1>q DEF Writing
  <2> QED
    BY <1>q, <1>r, <1>s, <2>1
<1>1. ASSUME NEW j \in Jobs, Begin(v, j) PROVE FALSE
  BY <1>1 DEF Begin, Goto, TypeOK, Writing
<1>2. CASE Lookup(v)
  <2>1. next'[v] = 1 /\ pc'[v] = "check"
    BY <1>2 DEF Lookup, Embed, Goto, JobsInv, TypeOK, Writing
  <2> QED
    BY <1>e, <2>1
<1>3. CASE Query(v)
  <2>1. pc[v] = "query"
    BY <1>3 DEF Query
  <2>2. Embed(v) /\ next' = next
    BY <1>3, <2>1, <1>f, <1>d DEF Query
  <2>3. next'[v] = 1 /\ pc'[v] = "check"
    BY <2>1, <2>2 DEF Embed, Goto, JobsInv, TypeOK
  <2> QED
    BY <1>e, <2>3
<1>4. CASE Check(v)
  <2>1. Writing(v) /\ UNCHANGED <<job, next, retries, excused, collections>>
    BY <1>4 DEF Check, Writing, milvusVars, histVars
  <2>2. pc'[v] = (IF Exists(Here(v)) THEN "upsert" ELSE "create")
    BY <1>4 DEF Check, Goto, TypeOK
  <2>3. Raced(v)
    BY <1>b, <2>1
  <2>4. /\ job[v] \in Jobs /\ Asset(v) \in Assets /\ next[v] \in Positions
        /\ Here(v) = Target(Asset(v), next[v]) /\ Tenant(v) = Owner[Asset(v)]
        /\ retries[job[v]] \in 0..MaxRetries
    BY <2>1, Busy DEF Writing, TypeOK
  <2>5. Retried(job[v])
    BY <2>1, <2>4 DEF RacesInv, Retried
  <2>6. CASE Exists(Here(v))
    BY <2>1, <2>2, <2>3, <2>6 DEF Raced, Tenant, Asset
  <2>7. CASE ~Exists(Here(v)) /\ next[v] <= NumChunks
    <3>1. ChunksOf(Tenant(v)) \notin collections
      BY <2>4, <2>7, TargetType DEF Exists
    <3>2. retries[job[v]] = 0
      BY <2>4, <2>5, <3>1, RetriesAssumption DEF Retried, Tenant, Asset
    <3> QED
      BY <2>1, <2>2, <2>3, <3>2 DEF Raced, Tenant, Asset
  <2>8. CASE ~Exists(Here(v)) /\ ~(next[v] <= NumChunks)
    <3>1. StateOf(Tenant(v)) \notin collections
      BY <2>4, <2>8, TargetType DEF Exists
    <3>2. retries[job[v]] <= 1
      BY <2>4, <2>5, <3>1, RetriesAssumption DEF Retried, Tenant, Asset
    <3> QED
      BY <2>1, <2>2, <2>3, <2>8, <3>2 DEF Raced, Tenant, Asset
  <2> QED
    BY <2>6, <2>7, <2>8
<1>5. CASE Create(v)
  <2>1. pc[v] = "create" /\ excused' = excused
    BY <1>5 DEF Create, histVars
  <2>2. Created(Here(v)) /\ Goto(v, "upsert") /\ UNCHANGED <<retries, job, next>>
    BY <1>5, <2>1, <1>f DEF Create
  <2>3. pc'[v] = "upsert" /\ collections \subseteq collections'
    BY <2>2 DEF Goto, TypeOK, Created
  <2>4. Raced(v)
    BY <1>b, <2>1, <2>2 DEF Writing
  <2> QED
    BY <2>2, <2>3, <2>4 DEF Raced, Tenant, Asset
<1>6. CASE Upsert(v)
  <2>1. pc[v] = "upsert"
    BY <1>6 DEF Upsert
  <2>2. /\ Written(v) /\ next[v] <= NumChunks
        /\ Goto(v, "check") /\ UNCHANGED job
    BY <1>6, <2>1, <1>f, <1>d DEF Upsert
  <2>3. ChunksOf(Tenant(v)) \in collections'
    <3>1. /\ Asset(v) \in Assets /\ next[v] \in Positions
          /\ Here(v) = Target(Asset(v), next[v]) /\ Tenant(v) = Owner[Asset(v)]
      BY <2>1, Busy
    <3> QED
      BY <2>2, <3>1, TargetType DEF Written, Upserted, Exists
  <2>4. pc'[v] = "check"
    BY <2>2 DEF Goto, TypeOK
  <2> QED
    BY <2>2, <2>3, <2>4 DEF Raced, Tenant, Asset
<1>7. CASE CallFails(v)
  BY <1>7, <1>f DEF CallFails
<1>8. CASE WorkerLost(v)
  BY <1>8 DEF WorkerLost, Leave, Goto, TypeOK, Writing
<1>9. ASSUME NEW j \in Jobs, Appears(j) PROVE Raced(v)'
  <2>1. UNCHANGED <<pc, job, next>>
    BY <1>9 DEF Appears, Dispatch, Redeliver, workerVars
  <2>2. Writing(v)
    BY <2>1 DEF Writing
  <2>3. job[v] # j /\ job[v] \in Jobs
    BY <1>9, <2>2, <1>r, Busy DEF Writing
  <2>4. retries'[job[v]] = retries[job[v]]
    BY <1>9, <2>3 DEF Appears, Dispatch, Redeliver, TypeOK
  <2> QED
    BY <1>r, <1>s, <2>1, <2>2, <2>4
<1>10. CASE \E t \in Tenants : BeginDrop(t)
  BY <1>10, <1>q DEF BeginDrop, workerVars
<1>11. CASE HasChunks \/ DropChunks \/ HasState \/ DropState \/ DropFails
  BY <1>11, <1>q DEF HasChunks, DropChunks, HasState, DropState, DropFails, workerVars
<1>12. CASE UNCHANGED vars
  BY <1>12, <1>q DEF vars, workerVars
<1> QED
  BY <1>o, <1>1, <1>2, <1>3, <1>4, <1>5, <1>6, <1>7, <1>8, <1>9, <1>10, <1>11, <1>12 DEF Next, Appears

------------------------------------------------------------------------------

LEMMA InitInvariant == Init => IInv
<1> SUFFICES ASSUME Init PROVE IInv
  OBVIOUS
<1>1. TypeOK
  <2>1. 1 \in Positions /\ 0 \in 0..MaxRetries /\ 0 \in 0..MaxFaults /\ 0 \in 0..MaxDrops
    BY BoundsAssumption, RetriesAssumption DEF Positions
  <2> QED
    BY <2>1 DEF Init, TypeOK, Statuses
<1>2. JobsInv
  BY DEF Init, JobsInv
<1>3. RowsInv
  BY DEF Init, RowsInv
<1>4. BehindInv
  BY DEF Init, BehindInv, Writing
<1>5. RacesInv
  BY DEF Init, RacesInv, Writing
<1>6. MarkedMeansStored
  <2>1. \A a \in Assets : StateOf(Owner[a]) \in Collection
    BY OwnerAssumption, Names
  <2> QED
    BY <2>1 DEF Init, MarkedMeansStored, IsMarked
<1>7. RaceIsSurvived
  BY DEF Init, RaceIsSurvived
<1> QED
  BY <1>1, <1>2, <1>3, <1>4, <1>5, <1>6, <1>7 DEF IInv

LEMMA StepInvariant == IInv /\ [Next]_vars => IInv'
<1> SUFFICES ASSUME IInv, [Next]_vars PROVE IInv'
  OBVIOUS
<1>i. TypeOK /\ JobsInv /\ RowsInv /\ BehindInv /\ RacesInv /\ MarkedMeansStored /\ RaceIsSurvived
  BY DEF IInv
<1>1. TypeOK' /\ JobsInv'
  BY <1>i, TypeInductive, JobsInductive
<1>2. RowsInv' /\ BehindInv'
  BY <1>i, RowsInductive, BehindInductive
<1>3. MarkedMeansStored'
  BY <1>i, MarkedInductive
<1>4. RacesInv'
  <2>1. \A j \in Jobs : j \notin excused' => Retried(j)'
    BY <1>i, RetriedInductive
  <2>2. \A w \in Workers : Writing(w)' /\ job'[w] \notin excused' => Raced(w)'
    BY <1>i, RacedInductive
  <2> QED
    BY <2>1, <2>2 DEF RacesInv, Retried, Raced, Writing, Tenant, Asset
<1>5. RaceIsSurvived'
  <2>1. \A j \in Jobs : j \notin excused' => status'[j] # "dead"
    BY <1>i, RetriedInductive
  <2> QED
    BY <2>1 DEF RaceIsSurvived
<1> QED
  BY <1>1, <1>2, <1>3, <1>4, <1>5 DEF IInv

THEOREM Invariant == Spec => []IInv
<1> QED
  BY InitInvariant, StepInvariant, PTL DEF Spec

\* Every variable keeps its type; retries and faults stay in their bounds.
THEOREM TypeCorrect == Spec => []TypeOK
<1>1. IInv => TypeOK
  BY DEF IInv
<1> QED
  BY <1>1, Invariant, PTL

\* A marker means that the asset's vectors are stored, or that a drop took them, for
\* any number of overlapping attempts.
THEOREM MarkedIsStored == Spec => []MarkedMeansStored
<1>1. IInv => MarkedMeansStored
  BY DEF IInv
<1> QED
  BY <1>1, Invariant, PTL

\* An embed that met nothing but races to create a collection is not given up.
THEOREM RacesAreSurvived == Spec => []RaceIsSurvived
<1>1. IInv => RaceIsSurvived
  BY DEF IInv
<1> QED
  BY <1>1, Invariant, PTL

------------------------------------------------------------------------------
\* The refinement: an upsert of a chunk is Upsert, of a marker Save, and the two
\* drops are EraseVectors and EraseMarks.  Everything else stutters.

LEMMA InitImplements == Init => Port!Init
<1> SUFFICES ASSUME Init PROVE Port!Init
  OBVIOUS
<1>1. \A t \in Tenants : Findable(t) = {}
  BY Names DEF Init, Findable
<1>2. \A a \in Assets : ~IsMarked(a)
  BY MarkerType, Names DEF Init, IsMarked
<1> QED
  BY <1>1, <1>2 DEF Port!Init

LEMMA PortStutters ==
  ASSUME \A t \in Tenants : rows'[ChunksOf(t)] = rows[ChunksOf(t)],
         \A t \in Tenants : rows'[StateOf(t)] = rows[StateOf(t)]
  PROVE  UNCHANGED Port!vars
<1>1. \A t \in Tenants : Findable(t)' = Findable(t)
  BY DEF Findable
<1>2. \A a \in Assets : IsMarked(a)' = IsMarked(a)
  BY MarkerType DEF IsMarked
<1> QED
  BY <1>1, <1>2 DEF Port!vars

LEMMA VectorIsUpserted ==
  ASSUME TypeOK, JobsInv, NEW w \in Workers, pc[w] = "upsert", next[w] <= NumChunks, Written(w)
  PROVE  Port!Next
<1> DEFINE c == Row(w)
<1>1. /\ Asset(w) \in Assets /\ next[w] \in 1..NumChunks
      /\ c = <<Asset(w), next[w]>> /\ Tenant(w) = Owner[Asset(w)]
  BY Busy, BoundsAssumption DEF Positions
<1>2. c \in Chunk
  BY <1>1 DEF Chunk
<1>3. /\ \A t \in Tenants : rows'[StateOf(t)] = rows[StateOf(t)]
      /\ \A t \in Tenants : t # Tenant(w) => rows'[ChunksOf(t)] = rows[ChunksOf(t)]
      /\ rows'[ChunksOf(Tenant(w))] = rows[ChunksOf(Tenant(w))] \cup {c}
  BY UpsertsAdd DEF Written
<1>4. \A a \in Assets : IsMarked(a)' = IsMarked(a)
  BY <1>3, MarkerType DEF IsMarked
<1>5. [t \in Tenants |-> rows'[ChunksOf(t)]]
        = [[t \in Tenants |-> rows[ChunksOf(t)]] EXCEPT ![Tenant(w)] = @ \cup {c}]
  BY <1>3
<1>6. Owner[[d \in Chunk |-> d[1]][c]] = Tenant(w)
  BY <1>1, <1>2
<1> QED
  BY <1>2, <1>4, <1>5, <1>6 DEF Port!Next, Port!Upsert, Findable

LEMMA MarkerIsSaved ==
  ASSUME TypeOK, JobsInv, NEW w \in Workers, pc[w] = "upsert", ~(next[w] <= NumChunks), Written(w)
  PROVE  Port!Next
<1>1. Asset(w) \in Assets /\ Tenant(w) \in Tenants /\ Tenant(w) = Owner[Asset(w)]
  BY Busy
<1>2. /\ \A t \in Tenants : rows'[ChunksOf(t)] = rows[ChunksOf(t)]
      /\ \A t \in Tenants : t # Tenant(w) => rows'[StateOf(t)] = rows[StateOf(t)]
      /\ rows'[StateOf(Tenant(w))] = rows[StateOf(Tenant(w))] \cup {Marker(Asset(w))}
  BY UpsertsAdd DEF Written
<1>3. \A a \in Assets : Marker(a) = Marker(Asset(w)) => a = Asset(w)
  BY <1>1, MarkerType
<1>4. \A a \in Assets : IsMarked(a)' <=> IsMarked(a) \/ a = Asset(w)
  BY <1>1, <1>2, <1>3, MarkerType DEF IsMarked
<1>5. {a \in Assets : IsMarked(a)'} = {a \in Assets : IsMarked(a)} \cup {Asset(w)}
  BY <1>1, <1>4
<1>6. [t \in Tenants |-> rows'[ChunksOf(t)]] = [t \in Tenants |-> rows[ChunksOf(t)]]
  BY <1>2
<1> QED
  BY <1>1, <1>5, <1>6 DEF Port!Next, Port!Save, Findable

LEMMA DropErases ==
  ASSUME TypeOK, NEW t \in Tenants, Dropped(ChunksOf(t)) \/ Dropped(StateOf(t))
  PROVE  Port!Next
<1>1. CASE Dropped(ChunksOf(t))
  <2>1. /\ rows'[ChunksOf(t)] = {}
        /\ \A u \in Tenants : u # t => rows'[ChunksOf(u)] = rows[ChunksOf(u)]
        /\ \A u \in Tenants : rows'[StateOf(u)] = rows[StateOf(u)]
    BY <1>1, DropsErase
  <2>2. \A a \in Assets : IsMarked(a)' = IsMarked(a)
    BY <2>1, MarkerType DEF IsMarked
  <2>3. [u \in Tenants |-> rows'[ChunksOf(u)]]
          = [[u \in Tenants |-> rows[ChunksOf(u)]] EXCEPT ![t] = {}]
    BY <2>1
  <2> QED
    BY <2>2, <2>3 DEF Port!Next, Port!EraseVectors, Findable
<1>2. CASE Dropped(StateOf(t))
  <2>1. /\ rows'[StateOf(t)] = {}
        /\ \A u \in Tenants : u # t => rows'[StateOf(u)] = rows[StateOf(u)]
        /\ \A u \in Tenants : rows'[ChunksOf(u)] = rows[ChunksOf(u)]
    BY <1>2, DropsErase
  <2>2. \A a \in Assets : IsMarked(a)' <=> IsMarked(a) /\ Owner[a] # t
    BY <2>1, MarkerType DEF IsMarked
  <2>3. {a \in Assets : IsMarked(a)'} = {a \in {b \in Assets : IsMarked(b)} : Owner[a] # t}
    BY <2>2
  <2>4. [u \in Tenants |-> rows'[ChunksOf(u)]] = [u \in Tenants |-> rows[ChunksOf(u)]]
    BY <2>1
  <2> QED
    BY <2>3, <2>4 DEF Port!Next, Port!EraseMarks, Findable
<1> QED
  BY <1>1, <1>2

LEMMA StepImplements == IInv /\ [Next]_vars => [Port!Next]_(Port!vars)
<1> SUFFICES ASSUME IInv, [Next]_vars PROVE [Port!Next]_(Port!vars)
  OBVIOUS
<1>i. TypeOK /\ JobsInv
  BY DEF IInv
<1>1. CASE UNCHANGED <<milvusVars, outlived>>
  BY <1>1, PortStutters DEF milvusVars
<1>2. CASE \E w \in Workers : pc[w] = "create" /\ Created(Here(w)) /\ UNCHANGED outlived
  <2>1. rows' = rows
    BY <1>2 DEF Created
  <2> QED
    BY <2>1, PortStutters
<1>3. CASE \E w \in Workers : pc[w] = "upsert" /\ Written(w)
  BY <1>i, <1>3, VectorIsUpserted, MarkerIsSaved
<1>4. CASE DropChunks \/ DropState
  <2>1. dropping \in Tenants /\ (Dropped(ChunksOf(dropping)) \/ Dropped(StateOf(dropping)))
    BY <1>i, <1>4 DEF DropChunks, DropState, JobsInv
  <2> QED
    BY <1>i, <2>1, DropErases
<1> QED
  BY <1>1, <1>2, <1>3, <1>4, MilvusSteps

\* The detailed store implements the port, for any number of tenants and workers.
THEOREM Implements == Spec => ImplementsPort
<1> QED
  BY InitImplements, StepImplements, Invariant, PTL DEF Spec, ImplementsPort, Port!Spec
==============================================================================
