---------------------------- MODULE TenantStore ----------------------------
(***************************************************************************)
(* TenantCollectionVectorStore over MilvusVectorDBProvider: per tenant a   *)
(* collection of chunk vectors and one of embed markers.                   *)
(*                                                                         *)
(* Every operation asks whether its collection exists and then uses it,    *)
(* each in a remote call of its own.  Between two calls other workers      *)
(* embed, a tenant is dropped, a call fails, or a worker is lost.  An      *)
(* asset can have several embed jobs under way: each of two overlapping    *)
(* ingests queues one, and a message that is acknowledged late may be      *)
(* delivered again.  All of them embed the same chunks: what a second      *)
(* chunking does to an embed under way is in IngestPipeline.               *)
(* Milvus itself is external: it keeps collections by name, and creating   *)
(* one that exists either raises or leaves it as it is.                    *)
(***************************************************************************)
EXTENDS Naturals, FiniteSets

CONSTANTS Tenants, Assets, Workers,
          Jobs,        \* embed messages, each with a retry counter of its own
          AssetOf,     \* AssetOf[j]: the asset a job is for
          Owner,       \* Owner[a]: the tenant of an asset
          Readable,    \* Readable[t]: the tenant id with illegal characters replaced
          Digest,      \* Digest[t]: the hash of the tenant id
          NumChunks,   \* chunks per asset
          MaxRetries,  \* of a job, after its first attempt
          MaxFaults,   \* bound on failing calls and lost workers
          MaxDrops,    \* bound on the drops of a tenant
          NoJob, NoTenant

ASSUME OwnerAssumption == Owner \in [Assets -> Tenants] /\ AssetOf \in [Jobs -> Assets]

\* SHA-256 tells tenant ids apart.
ASSUME DigestAssumption == \A t, u \in Tenants : Digest[t] = Digest[u] => t = u

ASSUME BoundsAssumption ==
  NumChunks \in Nat \ {0} /\ MaxFaults \in Nat /\ MaxDrops \in Nat

\* MAX_RETRIES is 3; what follows holds for two retries already.
ASSUME RetriesAssumption == MaxRetries \in Nat /\ MaxRetries >= 2

ASSUME NoneAssumption == NoJob \notin Jobs /\ NoTenant \notin Tenants

\* Mutant: the name is the readable part alone.
TenantCollectionReadable(t) == <<Readable[t]>>

\* MilvusVectorDBProvider.tenant_collection: a legal name, with a hash of the id.
TenantCollection(t) == <<Readable[t], Digest[t]>>

\* _chunks and _state: the collections of a tenant.
ChunksOf(t) == <<TenantCollection(t), "chunks">>
StateOf(t)  == <<TenantCollection(t), "state">>

Collection == {ChunksOf(t) : t \in Tenants} \cup {StateOf(t) : t \in Tenants}

\* An embed writes its records in this order: one per chunk, then the marker.
Positions == 1..NumChunks + 1
Record == Assets \X Positions
Chunk  == Assets \X (1..NumChunks)
Marker(a) == <<a, NumChunks + 1>>

\* The collection the n-th record of an asset goes to.
Target(a, n) == IF n <= NumChunks THEN ChunksOf(Owner[a]) ELSE StateOf(Owner[a])

VARIABLES
  collections, \* the collections that exist
  rows,        \* rows[c]: the records of collection c
  status,      \* status[j]: where the job is
  retries,     \* retries[j]: the retry counter its message carries
  pc, job,     \* the call a worker makes next, and in which job
  next,        \* next[w]: position of the record it writes
  step,        \* the call drop_tenant makes next
  dropping,    \* for which tenant
  faults, drops,
  disturbed,   \* history: jobs whose running attempt lost vectors to a drop
  outlived,    \* history: assets whose marker outlives vectors that a drop took
  excused      \* history: jobs that met more than races to create

milvusVars == <<collections, rows>>
workerVars == <<pc, job, next>>
dropVars   == <<step, dropping, drops>>
histVars   == <<disturbed, outlived, excused>>
vars == <<milvusVars, status, retries, workerVars, dropVars, faults, histVars>>

Statuses == {"new", "queued", "running", "done", "dead"}
Calls == {"lookup", "query", "check", "create", "upsert"}
DropCalls == {"has_chunks", "drop_chunks", "has_state", "drop_state"}

TypeOK ==
  /\ collections \in SUBSET Collection
  /\ rows \in [Collection -> SUBSET Record]
  /\ status \in [Jobs -> Statuses]
  /\ retries \in [Jobs -> 0..MaxRetries]
  /\ pc \in [Workers -> Calls \cup {"idle"}]
  /\ job \in [Workers -> Jobs \cup {NoJob}]
  /\ next \in [Workers -> Positions]
  /\ step \in DropCalls \cup {"idle"}
  /\ dropping \in Tenants \cup {NoTenant}
  /\ faults \in 0..MaxFaults /\ drops \in 0..MaxDrops
  /\ disturbed \in SUBSET Jobs /\ outlived \in SUBSET Assets /\ excused \in SUBSET Jobs

Init ==
  /\ collections = {}
  /\ rows = [c \in Collection |-> {}]
  /\ status = [j \in Jobs |-> "new"]
  /\ retries = [j \in Jobs |-> 0]
  /\ pc = [w \in Workers |-> "idle"]
  /\ job = [w \in Workers |-> NoJob]
  /\ next = [w \in Workers |-> 1]
  /\ step = "idle" /\ dropping = NoTenant
  /\ faults = 0 /\ drops = 0
  /\ disturbed = {} /\ outlived = {} /\ excused = {}

\* MilvusClient.has_collection.
Exists(c) == c \in collections

------------------------------------------------------------------------------
\* The embed job around the store.

Goto(w, label) == pc' = [pc EXCEPT ![w] = label]

Leave(w) == Goto(w, "idle") /\ job' = [job EXCEPT ![w] = NoJob] /\ UNCHANGED next

\* An ingest of the asset queues an embed.  Two of them may run, so may their embeds.
Dispatch(j) ==
  /\ status[j] = "new"
  /\ status' = [status EXCEPT ![j] = "queued"]
  /\ retries' = [retries EXCEPT ![j] = 0]
  /\ excused' = excused \ {j}
  /\ UNCHANGED <<milvusVars, workerVars, dropVars, faults, disturbed, outlived>>

\* The message of i is not acknowledged before its attempt has ended: the broker may
\* deliver it once more, as j, with the counter it carries, beside i and its retries.
Redeliver(i, j) ==
  /\ status[i] \in {"queued", "running"}
  /\ status[j] = "new" /\ AssetOf[j] = AssetOf[i]
  /\ status' = [status EXCEPT ![j] = "queued"]
  /\ retries' = [retries EXCEPT ![j] = retries[i]]
  /\ excused' = IF i \in excused THEN excused \cup {j} ELSE excused \ {j}
  /\ UNCHANGED <<milvusVars, workerVars, dropVars, faults, disturbed, outlived>>

Begin(w, j) ==
  /\ pc[w] = "idle" /\ status[j] = "queued"
  /\ status' = [status EXCEPT ![j] = "running"]
  /\ Goto(w, "lookup")
  /\ job' = [job EXCEPT ![w] = j]
  /\ next' = [next EXCEPT ![w] = 1]
  /\ UNCHANGED <<milvusVars, retries, dropVars, faults, histVars>>

\* The job is over.
Finish(w) ==
  /\ status' = [status EXCEPT ![job[w]] = "done"]
  /\ Leave(w)
  /\ UNCHANGED retries

\* Mutant: the last retry is not made.
FailEarly(w) ==
  /\ IF retries[job[w]] + 1 < MaxRetries
       THEN /\ status' = [status EXCEPT ![job[w]] = "queued"]
            /\ retries' = [retries EXCEPT ![job[w]] = @ + 1]
       ELSE status' = [status EXCEPT ![job[w]] = "dead"] /\ UNCHANGED retries
  /\ Leave(w)

\* Mutant: retries without end.
FailUnbounded(w) ==
  /\ status' = [status EXCEPT ![job[w]] = "queued"]
  /\ retries' = [retries EXCEPT ![job[w]] = @ + 1]
  /\ Leave(w)

\* An exception ends the attempt: embed_asset retries, or gives up.
Fail(w) ==
  /\ IF retries[job[w]] < MaxRetries
       THEN /\ status' = [status EXCEPT ![job[w]] = "queued"]
            /\ retries' = [retries EXCEPT ![job[w]] = @ + 1]
       ELSE status' = [status EXCEPT ![job[w]] = "dead"] /\ UNCHANGED retries
  /\ Leave(w)

\* The asset a worker embeds, and its tenant.
Asset(w)  == AssetOf[job[w]]
Tenant(w) == Owner[Asset(w)]

------------------------------------------------------------------------------
\* has_vectors: get_record on the markers.

\* The asset has no marker: all its records are written, again or for the first time.
Embed(w) == Goto(w, "check") /\ disturbed' = disturbed \ {job[w]}

Lookup(w) ==
  /\ pc[w] = "lookup"
  /\ IF Exists(StateOf(Tenant(w))) THEN Goto(w, "query") /\ UNCHANGED disturbed
                                   ELSE Embed(w)
  /\ UNCHANGED <<milvusVars, status, retries, job, next, dropVars, faults, outlived, excused>>

Query(w) ==
  /\ pc[w] = "query"
  /\ LET state == StateOf(Tenant(w)) IN
     CASE ~Exists(state) ->
            Fail(w) /\ excused' = excused \cup {job[w]} /\ UNCHANGED disturbed
       [] Exists(state) /\ Marker(Asset(w)) \in rows[state] ->
            Finish(w) /\ UNCHANGED <<excused, disturbed>>
       [] OTHER ->
            Embed(w) /\ UNCHANGED <<status, retries, job, next, excused>>
  /\ UNCHANGED <<milvusVars, dropVars, faults, outlived>>

------------------------------------------------------------------------------
\* upsert and save_vectors: insert_one, that is create_collection, then an upsert.

Here(w) == Target(Asset(w), next[w])
Row(w)  == <<Asset(w), next[w]>>

Check(w) ==
  /\ pc[w] = "check"
  /\ Goto(w, IF Exists(Here(w)) THEN "upsert" ELSE "create")
  /\ UNCHANGED <<milvusVars, status, retries, job, next, dropVars, faults, histVars>>

\* Mutant: do_recreate is the default.
CreatedAnew(c) == collections' = collections \cup {c} /\ rows' = [rows EXCEPT ![c] = {}]

Created(c) == collections' = collections \cup {c} /\ UNCHANGED rows

\* Somebody else may have created the collection since the check.
Create(w) ==
  /\ pc[w] = "create"
  /\ \/ /\ Created(Here(w))
        /\ Goto(w, "upsert")
        /\ UNCHANGED <<status, retries, job, next>>
     \/ Exists(Here(w)) /\ Fail(w) /\ UNCHANGED milvusVars
  /\ UNCHANGED <<dropVars, faults, histVars>>

\* MilvusClient.upsert, keyed by record_id.
Upserted(c, r) ==
  /\ Exists(c)
  /\ rows' = [rows EXCEPT ![c] = @ \cup {r}]
  /\ UNCHANGED collections

\* A row is written.  The marker is the last one: if a drop has taken some of the
\* attempt's vectors it outlives them, otherwise they are all there.
Written(w) ==
  /\ Upserted(Here(w), Row(w))
  /\ outlived' = IF next[w] <= NumChunks THEN outlived
                 ELSE IF job[w] \in disturbed THEN outlived \cup {Asset(w)}
                 ELSE outlived \ {Asset(w)}

\* The collection may be gone since the check.
Upsert(w) ==
  /\ pc[w] = "upsert"
  /\ \/ /\ Written(w)
        /\ IF next[w] <= NumChunks
             THEN /\ next' = [next EXCEPT ![w] = @ + 1]
                  /\ Goto(w, "check")
                  /\ UNCHANGED <<status, retries, job>>
             ELSE Finish(w)
        /\ UNCHANGED excused
     \/ /\ ~Exists(Here(w))
        /\ Fail(w)
        /\ excused' = excused \cup {job[w]}
        /\ UNCHANGED <<milvusVars, outlived>>
  /\ UNCHANGED <<dropVars, faults, disturbed>>

\* A call raises, having taken effect or not.
CallFails(w) ==
  /\ pc[w] # "idle" /\ faults < MaxFaults
  /\ \/ UNCHANGED <<milvusVars, outlived>>
     \/ pc[w] = "create" /\ Created(Here(w)) /\ UNCHANGED outlived
     \/ pc[w] = "upsert" /\ Written(w)
  /\ Fail(w)
  /\ faults' = faults + 1
  /\ excused' = excused \cup {job[w]}
  /\ UNCHANGED <<dropVars, disturbed>>

\* The process is gone: its job is delivered again, with the same retry counter.
WorkerLost(w) ==
  /\ pc[w] # "idle" /\ faults < MaxFaults
  /\ status' = [status EXCEPT ![job[w]] = "queued"]
  /\ Leave(w)
  /\ faults' = faults + 1
  /\ UNCHANGED <<milvusVars, retries, dropVars, histVars>>

------------------------------------------------------------------------------
\* drop_tenant: two times delete_collection.

BeginDrop(t) ==
  /\ step = "idle" /\ drops < MaxDrops
  /\ step' = "has_chunks" /\ dropping' = t
  /\ drops' = drops + 1
  /\ UNCHANGED <<milvusVars, status, retries, workerVars, faults, histVars>>

HasChunks ==
  /\ step = "has_chunks"
  /\ step' = IF Exists(ChunksOf(dropping)) THEN "drop_chunks" ELSE "has_state"
  /\ UNCHANGED <<milvusVars, status, retries, workerVars, dropping, drops, faults, histVars>>

AssetsOf(t) == {a \in Assets : Owner[a] = t}
JobsOf(t)   == {j \in Jobs : Owner[AssetOf[j]] = t}

\* MilvusClient.drop_collection.
Dropped(c) == collections' = collections \ {c} /\ rows' = [rows EXCEPT ![c] = {}]

IsMarked(a) == Marker(a) \in rows[StateOf(Owner[a])]

\* The attempt in w writes, and has written.
Writing(w)    == pc[w] \in {"check", "create", "upsert"}
HasWritten(w) == Writing(w) /\ next[w] > 1

DropChunks ==
  /\ step = "drop_chunks"
  /\ Dropped(ChunksOf(dropping))
  /\ step' = "has_state"
  /\ disturbed' = disturbed \cup {j \in JobsOf(dropping) : \E w \in Workers : HasWritten(w) /\ job[w] = j}
  /\ outlived' = outlived \cup {a \in AssetsOf(dropping) : IsMarked(a)}
  /\ excused' = excused \cup JobsOf(dropping)
  /\ UNCHANGED <<status, retries, workerVars, dropping, drops, faults>>

EndDrop == step' = "idle" /\ dropping' = NoTenant

HasState ==
  /\ step = "has_state"
  /\ IF Exists(StateOf(dropping)) THEN step' = "drop_state" /\ UNCHANGED dropping
                                  ELSE EndDrop
  /\ UNCHANGED <<milvusVars, status, retries, workerVars, drops, faults, histVars>>

DropState ==
  /\ step = "drop_state"
  /\ Dropped(StateOf(dropping))
  /\ EndDrop
  /\ outlived' = outlived \ AssetsOf(dropping)
  /\ excused' = excused \cup JobsOf(dropping)
  /\ UNCHANGED <<status, retries, workerVars, drops, faults, disturbed>>

\* A drop that raises leaves what it has not dropped.
DropFails ==
  /\ step # "idle" /\ faults < MaxFaults
  /\ EndDrop
  /\ faults' = faults + 1
  /\ UNCHANGED <<milvusVars, status, retries, workerVars, drops, histVars>>

------------------------------------------------------------------------------

Next ==
  \/ \E j \in Jobs : Dispatch(j)
  \/ \E i, j \in Jobs : Redeliver(i, j)
  \/ \E w \in Workers, j \in Jobs : Begin(w, j)
  \/ \E w \in Workers : Lookup(w) \/ Query(w) \/ Check(w) \/ Create(w) \/ Upsert(w)
  \/ \E w \in Workers : CallFails(w) \/ WorkerLost(w)
  \/ \E t \in Tenants : BeginDrop(t)
  \/ HasChunks \/ DropChunks \/ HasState \/ DropState \/ DropFails

Spec == Init /\ [][Next]_vars

------------------------------------------------------------------------------
\* Properties.

\* What search_by_tenant can find.
Findable(t) == rows[ChunksOf(t)]

\* A marker means that every vector of the asset is there (save_vectors: "it means
\* finished rather than started"), whatever failed, raced, was retried or overlapped
\* with another attempt of the same asset.  The exception is a drop: the marker stood
\* when the vectors were dropped, or an attempt wrote it that had lost vectors so.
MarkedMeansStored ==
  \A a \in Assets :
    IsMarked(a) => \/ \A n \in 1..NumChunks : <<a, n>> \in Findable(Owner[a])
                   \/ a \in outlived

\* Racing for the first write of a tenant costs retries, never the job: an embed
\* that ran out of them met a failing call or a drop as well.
RaceIsSurvived == \A j \in Jobs : status[j] = "dead" => j \in excused

Port == INSTANCE VectorStore
  WITH Chunks <- Chunk, AssetOf <- [c \in Chunk |-> c[1]],
       vectors <- [t \in Tenants |-> Findable(t)],
       marked <- {a \in Assets : IsMarked(a)}

\* The store keeps the promises of VectorStorePort: creating a collection, in a race
\* or not, erases nothing, and no upsert, drop or search reaches another tenant's.
ImplementsPort == Port!Spec

------------------------------------------------------------------------------
\* The inductive invariant behind these properties.

\* A worker runs one message, which nobody else runs, and a drop is under way for
\* some tenant.  An asset may run in several workers.
JobsInv ==
  /\ \A w \in Workers :
       /\ pc[w] = "idle" <=> job[w] = NoJob
       /\ job[w] # NoJob => status[job[w]] = "running"
       /\ pc[w] \in {"lookup", "query"} => next[w] = 1
  /\ \A v, w \in Workers : job[v] # NoJob /\ job[v] = job[w] => v = w
  /\ step # "idle" => dropping \in Tenants

RowsInv == \A c \in Collection : c \notin collections => rows[c] = {}

\* What an undisturbed attempt has behind it is in the store.
BehindInv ==
  \A w \in Workers :
    Writing(w) /\ job[w] \notin disturbed =>
      \A n \in 1..next[w] - 1 : <<Asset(w), n>> \in Findable(Tenant(w))

\* Without another excuse each retry stands for a collection that somebody else
\* created first: the chunks, then the markers.
RacesInv ==
  /\ \A j \in Jobs \ excused :
       /\ retries[j] <= 2
       /\ retries[j] >= 1 => ChunksOf(Owner[AssetOf[j]]) \in collections
       /\ retries[j] = 2 => StateOf(Owner[AssetOf[j]]) \in collections
  /\ \A w \in Workers :
       Writing(w) /\ job[w] \notin excused =>
         /\ next[w] > 1 => ChunksOf(Tenant(w)) \in collections
         /\ pc[w] = "create" /\ next[w] <= NumChunks => retries[job[w]] = 0
         /\ pc[w] = "create" => retries[job[w]] <= 1

IInv ==
  /\ TypeOK /\ JobsInv /\ RowsInv /\ BehindInv /\ RacesInv
  /\ MarkedMeansStored /\ RaceIsSurvived
==============================================================================
