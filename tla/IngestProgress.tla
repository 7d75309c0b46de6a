--------------------------- MODULE IngestProgress ---------------------------
(***************************************************************************)
(* Why the jobs of an upload come to an end, whatever is retried,          *)
(* redelivered or duplicated: a count of the task runs that an upload can  *)
(* still cause, which no step raises and every run lowers, and a measure   *)
(* of one run that each of its steps lowers.                               *)
(***************************************************************************)
EXTENDS IngestInvariants

\* The runs one message leads to at most: its own and those of its retries, and
\* for an ingest the embed job at the end with retries of its own.
Attempts(m) == MaxRetries - m.retries + 1

Runs(m) == IF m.task = "ingest" THEN Attempts(m) + MaxRetries + 1 ELSE Attempts(m)

MaxRuns == 2 * (MaxRetries + 1)

JobsOf(a) == {m \in Message : m.asset = a}

\* One element for every run that n copies of a message, or the queued copies of
\* all jobs of a, stand for.
CopiesOf(m, n) == (1..n) \X (1..Runs(m))

QueuedRuns(a) == UNION {{m} \X CopiesOf(m, queue[m]) : m \in JobsOf(a)}

\* Workers inside a task of a: what they run can still be retried or handed over.
Inside(a) == {w \in Workers : pc[w] \in TaskPCs /\ job[w].asset = a}

\* One element for every run that may follow the runs under way.
SpawnedRuns(a) == UNION {{w} \X (1..Runs(job[w]) - 1) : w \in Inside(a)}

UploadRuns(a) == IF upload[a] \in {"new", "saved"} THEN MaxRuns ELSE 0

\* A worker loss puts the message it ran back.
CrashRuns == (MaxCrashes - crashes) * MaxRuns

RunsLeft(a) ==
  UploadRuns(a) + Cardinality(QueuedRuns(a)) + Cardinality(SpawnedRuns(a)) + CrashRuns

\* The two operators above count what they list only while that is finite.
RunsFinite == \A a \in Assets : IsFiniteSet(QueuedRuns(a)) /\ IsFiniteSet(SpawnedRuns(a))

\* The work of one upload is bounded before it begins.
RunsBounded == RunsFinite /\ \A a \in Assets : RunsLeft(a) \in 0..MaxRuns * (MaxCrashes + 1)

Begins(w, a) == pc[w] = "idle" /\ pc'[w] = "start" /\ job'[w].asset = a

\* How far a run is from its end; no call of a task is made twice but for the two
\* loops over chunks.
Distance(label) ==
  CASE label = "idle"                             -> 0
    [] label = "ack"                              -> 1
    [] label = "raise"                            -> 2
    [] label = "handle"                           -> 3
    [] label \in {"upsert", "dispatch_embed"}     -> 4
    [] label \in {"find_by_asset", "insert_many"} -> 5
    [] label \in {"has_vectors", "delete_many"}   -> 6
    [] label = "read_bytes"                       -> 7
    [] label = "is_processed"                     -> 8
    [] label = "start"                            -> 9

\* A step of w brings its run closer to its end, or crosses off a chunk.
Advances(w) ==
  \/ Distance(pc'[w]) < Distance(pc[w])
  \/ pc'[w] = pc[w] /\ Cardinality(todo'[w]) < Cardinality(todo[w])

\* No step adds to the runs an upload can still cause, a run that begins uses one
\* up, and every step of a run brings its end closer: retries (self.retry with its
\* count), redeliveries and duplicate embeds cannot keep a worker busy for ever.
WorkRunsOut ==
  [][/\ \A a \in Assets : RunsLeft(a)' <= RunsLeft(a)
     /\ \A a \in Assets, w \in Workers : Begins(w, a) => RunsLeft(a)' < RunsLeft(a)
     /\ \A w \in Workers :
          pc[w] # "idle" /\ (WorkerStep(w) \/ TimeLimit(w)) => Advances(w)]_vars
=============================================================================
