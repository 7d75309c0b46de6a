--------------------------- MODULE QueryPathProofs ---------------------------
(***************************************************************************)
(* Proofs about QueryPath for any set of queries and any number of changes *)
(* of the corpus: the invariant IInv is inductive and implies the safety   *)
(* properties.                                                             *)
(***************************************************************************)
EXTENDS QueryPath, TLAPS

\* What a response tells its caller: its status, the outcomes of the two branches
\* it carries, and its three flags.
Says(r, status, x, y, synthetic, rag_only, sql_only) ==
  /\ r \in Response
  /\ r.status = status /\ r.rag = x /\ r.sql = y
  /\ r.synthetic <=> synthetic
  /\ r.rag_only <=> rag_only
  /\ r.sql_only <=> sql_only

\* A refusal speaks of no branch.
Refuses(r, status) ==
  /\ r \in Response
  /\ r.status = status /\ r.rag = "pending" /\ r.sql = "pending"
  /\ ~r.synthetic /\ ~r.rag_only /\ ~r.sql_only

LEMMA RefusalSays ==
  ASSUME NEW st \in {200, 403, 500, 503}
  PROVE  Refuses(Refusal(st), st)
BY DEF Refuses, Refusal, Reply, Response, RagOutcomes, SqlOutcomes

LEMMA RagResponseSays ==
  ASSUME NEW x \in RagOutcomes
  PROVE  Says(RagResponse(x), 200, x, "pending", FALSE, FALSE, FALSE)
BY DEF Says, RagResponse, Reply, Response, RagOutcomes, SqlOutcomes

LEMMA RagFallbackSays ==
  ASSUME NEW x \in RagOutcomes
  PROVE  Says(RagFallback(x), 200, x, "pending", FALSE, TRUE, FALSE)
BY DEF Says, RagFallback, Reply, Response, RagOutcomes, SqlOutcomes

LEMMA SqlResponseSays ==
  ASSUME NEW y \in SqlOutcomes
  PROVE  Says(SqlResponse(y), 200, "pending", y, database = "none", FALSE, FALSE)
<1>1. Synthetic \in BOOLEAN /\ (Synthetic <=> database = "none")
  BY DEF Synthetic
<1>2. SqlResponse(y) \in Response
  BY <1>1 DEF SqlResponse, Reply, Response, RagOutcomes, SqlOutcomes
<1> QED
  BY <1>1, <1>2 DEF Says, SqlResponse, Reply

LEMMA SqlFallbackSays ==
  ASSUME NEW y \in SqlOutcomes
  PROVE  Says(SqlFallback(y), 200, "pending", y, database = "none", FALSE, TRUE)
<1>1. Synthetic \in BOOLEAN /\ (Synthetic <=> database = "none")
  BY DEF Synthetic
<1>2. SqlFallback(y) \in Response
  BY <1>1 DEF SqlFallback, Reply, Response, RagOutcomes, SqlOutcomes
<1> QED
  BY <1>1, <1>2 DEF Says, SqlFallback, Reply

LEMMA MergedSays ==
  ASSUME NEW x \in RagOutcomes, NEW y \in SqlOutcomes
  PROVE  Says(Merged(x, y), 200, x, y, database = "none", FALSE, FALSE)
<1>1. Synthetic \in BOOLEAN /\ (Synthetic <=> database = "none")
  BY DEF Synthetic
<1>2. Merged(x, y) \in Response
  BY <1>1 DEF Merged, Reply, Response, RagOutcomes, SqlOutcomes
<1> QED
  BY <1>1, <1>2 DEF Says, Merged, Reply

\* The properties that look at a finished query hold while one is being worked on.
Visible ==
  /\ SyntheticIsDeclared /\ OutageNeverRefuses /\ ErrorHasOtherCause
  /\ AnswerFitsContext /\ PartialMeansPartial /\ ResponseInv

LEMMA WorkingOn ==
  ASSUME SyntheticIsDeclared, phase' # "idle", response' = response, database' = database
  PROVE  Visible'
BY DEF Visible, SyntheticIsDeclared, OutageNeverRefuses, ErrorHasOtherCause, AnswerFitsContext,
       PartialMeansPartial, ResponseInv, Answered

LEMMA ArriveKeeps ==
  ASSUME IInv, NEW q \in Queries, NEW r \in Roles, Arrive(q, r)
  PROVE  IInv'
<1>1. TypeOK'
  BY DEF IInv, TypeOK, Arrive, Phases, worldVars, RagOutcomes, SqlOutcomes
<1>2. PhaseInv'
  BY DEF IInv, PhaseInv, Arrive
<1>3. CacheInv'
  BY DEF IInv, CacheInv, Arrive
<1>4. OutageInv'
  BY DEF OutageInv, Arrive
<1>5. Visible'
  BY WorkingOn DEF IInv, Arrive, worldVars
<1> QED
  BY <1>1, <1>2, <1>3, <1>4, <1>5 DEF IInv, Visible

LEMMA DispatchTypes ==
  ASSUME TypeOK, NEW i \in Intents, NEW c \in Confidences, Dispatch(i, c)
  PROVE  /\ path' \in {"none", "RAG", "SQL", "HYBRID"}
         /\ \/ path' = "none" /\ phase' = "idle" /\ response' = Refusal(403)
            \/ path' = "SQL" /\ phase' = "sql" /\ response' = response
            \/ path' \in {"RAG", "HYBRID"} /\ phase' = "retrieve" /\ response' = response
<1>1. Route(i, c) \in {"none", "RAG", "SQL", "HYBRID"}
  BY DEF Route, Intents, Confidences
<1>2. path' = Route(i, c)
  BY DEF Dispatch
<1>3. CASE Route(i, c) = "none"
  BY <1>2, <1>3 DEF Dispatch, Respond
<1>4. CASE Route(i, c) = "SQL"
  BY <1>2, <1>4 DEF Dispatch
<1>5. CASE Route(i, c) \in {"RAG", "HYBRID"}
  BY <1>2, <1>5 DEF Dispatch
<1> QED
  BY <1>1, <1>2, <1>3, <1>4, <1>5

\* A refusal before a use case was picked says nothing of branches.
LEMMA RefusedEarly ==
  ASSUME TypeOK, NEW st \in {200, 403, 500, 503}, phase' = "idle", path' = "none", response' = Refusal(st),
         st # 500 \/ "classify" \in malformed', "classify" \notin unanswered'
  PROVE  Visible'
<1>1. Refuses(response', st)
  BY RefusalSays
<1> QED
  BY <1>1 DEF Refuses, Visible, SyntheticIsDeclared, OutageNeverRefuses, ErrorHasOtherCause,
              AnswerFitsContext, PartialMeansPartial, ResponseInv, Answered

LEMMA ClassifyKeeps ==
  ASSUME IInv, Classify
  PROVE  IInv'
<1>0. /\ TypeOK /\ phase = "classify" /\ path = "none" /\ rag = "pending" /\ sql = "pending"
      /\ "classify" \notin unanswered /\ SyntheticIsDeclared
  BY DEF IInv, Classify, PhaseInv
<1>1. /\ query' = query /\ role' = role /\ context' = context /\ rag' = rag /\ statement' = statement
      /\ sql' = sql /\ answerTo' = answerTo /\ cache' = cache /\ corpus' = corpus
      /\ database' = database
  BY DEF Classify, branchVars, worldVars
<1>2. CacheInv'
  BY <1>0, <1>1 DEF CacheInv, IInv
<1>3. CASE (\E i \in Intents, c \in Confidences : Dispatch(i, c)) /\ UNCHANGED <<unanswered, malformed>>
  <2>1. PICK i \in Intents, c \in Confidences : Dispatch(i, c)
    BY <1>3
  <2>2. /\ path' \in {"none", "RAG", "SQL", "HYBRID"}
        /\ \/ path' = "none" /\ phase' = "idle" /\ response' = Refusal(403)
           \/ path' = "SQL" /\ phase' = "sql" /\ response' = response
           \/ path' \in {"RAG", "HYBRID"} /\ phase' = "retrieve" /\ response' = response
    BY <1>0, <2>1, DispatchTypes
  <2>3. unanswered' = unanswered /\ malformed' = malformed
    BY <1>3
  <2>4. response' \in Response
    BY <1>0, <2>2, RefusalSays DEF TypeOK, Refuses
  <2>5. TypeOK'
    BY <1>0, <1>1, <2>2, <2>3, <2>4 DEF TypeOK, Phases
  <2>6. PhaseInv'
    BY <1>0, <1>1, <2>2 DEF PhaseInv
  <2>7. OutageInv'
    BY <1>0, <2>3 DEF OutageInv
  <2>8. CASE phase' = "idle"
    <3>1. path' = "none" /\ response' = Refusal(403)
      BY <2>2, <2>8
    <3>2. Visible'
      BY <1>0, <2>3, <2>8, <3>1, RefusedEarly
    <3> QED
      BY <1>2, <2>5, <2>6, <2>7, <3>2 DEF IInv, Visible
  <2>9. CASE phase' # "idle"
    <3>1. response' = response
      BY <2>2, <2>9
    <3>2. Visible'
      BY <1>0, <1>1, <2>9, <3>1, WorkingOn
    <3> QED
      BY <1>2, <2>5, <2>6, <2>7, <3>2 DEF IInv, Visible
  <2> QED
    BY <2>8, <2>9
<1>4. CASE /\ Dispatch(FallbackDecision.intent, FallbackDecision.confidence)
           /\ unanswered' = unanswered \cup {"classify"}
           /\ UNCHANGED malformed
  <2>1. Dispatch("HYBRID", "medium")
    BY <1>4 DEF FallbackDecision
  <2>2. path' = "HYBRID" /\ phase' = "retrieve" /\ response' = response
    BY <2>1 DEF Dispatch, Route
  <2>3. TypeOK'
    BY <1>0, <1>1, <1>4, <2>2 DEF TypeOK, Phases, Calls
  <2>4. PhaseInv'
    BY <1>0, <1>1, <2>2 DEF PhaseInv
  <2>5. OutageInv'
    <3>1. "classify" \notin malformed
      BY DEF IInv, PhaseInv, Classify
    <3> QED
      BY <1>4, <2>2, <3>1 DEF OutageInv
  <2>6. Visible'
    BY <1>0, <1>1, <2>2, WorkingOn
  <2> QED
    BY <1>2, <2>3, <2>4, <2>5, <2>6 DEF IInv, Visible
<1>5. CASE /\ Respond(Refusal(500))
           /\ malformed' = malformed \cup {"classify"}
           /\ UNCHANGED <<path, unanswered>>
  <2>1. /\ phase' = "idle" /\ response' = Refusal(500) /\ path' = "none"
        /\ unanswered' = unanswered /\ "classify" \in malformed'
    BY <1>0, <1>5 DEF Respond
  <2>2. TypeOK'
    BY <1>0, <1>1, <1>5, <2>1, RefusalSays DEF TypeOK, Phases, Calls, Refuses
  <2>3. PhaseInv' /\ OutageInv'
    BY <1>0, <1>1, <2>1 DEF PhaseInv, OutageInv
  <2>4. Visible'
    BY <1>0, <2>1, RefusedEarly
  <2> QED
    BY <1>2, <2>2, <2>3, <2>4 DEF IInv, Visible
<1> QED
  BY <1>3, <1>4, <1>5 DEF Classify

\* A query that ends on the RAG path: retrieval failed, or RAGAgent.run returned.
LEMMA RagPathEnds ==
  ASSUME TypeOK, CacheInv', path' = "RAG", phase' = "idle", sql' = "pending",
         "classify" \notin unanswered',
         NEW x \in RagOutcomes, rag' = x,
         \/ x = "failed" /\ response' = Refusal(500)
         \/ response' = RagResponse(x)
  PROVE  Visible' /\ response' \in Response
<1>1. CASE x = "failed" /\ response' = Refusal(500)
  <2>1. Refuses(response', 500)
    BY <1>1, RefusalSays
  <2> QED
    BY <1>1, <2>1 DEF Refuses, Visible, SyntheticIsDeclared, OutageNeverRefuses, ErrorHasOtherCause,
                      AnswerFitsContext, PartialMeansPartial, ResponseInv, Answered
<1>2. CASE response' = RagResponse(x)
  <2>1. Says(response', 200, x, "pending", FALSE, FALSE, FALSE)
    BY <1>2, RagResponseSays
  <2> QED
    BY <2>1 DEF Says, Visible, SyntheticIsDeclared, OutageNeverRefuses, ErrorHasOtherCause,
                AnswerFitsContext, PartialMeansPartial, ResponseInv, Answered, CacheInv
<1> QED
  BY <1>1, <1>2

LEMMA RetrieveKeeps ==
  ASSUME IInv, Retrieve
  PROVE  IInv'
<1>0. /\ TypeOK /\ phase = "retrieve" /\ path \in {"RAG", "HYBRID"} /\ rag = "pending"
      /\ sql = "pending" /\ SyntheticIsDeclared
      /\ "classify" \in unanswered => path = "HYBRID"
  BY DEF IInv, Retrieve, PhaseInv, OutageInv
<1>1. /\ query' = query /\ role' = role /\ path' = path /\ statement' = statement /\ sql' = sql
      /\ answerTo' = answerTo /\ cache' = cache /\ corpus' = corpus /\ database' = database
      /\ unanswered' = unanswered /\ malformed' = malformed
  BY DEF Retrieve, worldVars
<1>2. OutageInv'
  BY <1>1 DEF OutageInv, IInv
<1>3. CASE context' \in {corpus, EmptyCorpus} /\ phase' = "generate" /\ UNCHANGED <<rag, response>>
  <2>1. TypeOK'
    BY <1>0, <1>1, <1>3, CorpusAssumption DEF TypeOK, Phases, EmptyCorpus
  <2>2. PhaseInv' /\ CacheInv'
    BY <1>0, <1>1, <1>3 DEF PhaseInv, CacheInv, IInv
  <2>3. Visible'
    BY <1>0, <1>1, <1>3, WorkingOn
  <2> QED
    BY <1>2, <2>1, <2>2, <2>3 DEF IInv, Visible
<1>4. CASE /\ rag' = "failed"
           /\ context' = context
           /\ path = "HYBRID" /\ phase' = "sql" /\ response' = response
  <2>1. TypeOK'
    BY <1>0, <1>1, <1>4 DEF TypeOK, Phases, RagOutcomes
  <2>2. PhaseInv' /\ CacheInv'
    BY <1>0, <1>1, <1>4 DEF PhaseInv, CacheInv, IInv
  <2>3. Visible'
    BY <1>0, <1>1, <1>4, WorkingOn
  <2> QED
    BY <1>2, <2>1, <2>2, <2>3 DEF IInv, Visible
<1>5. CASE /\ rag' = "failed"
           /\ context' = context
           /\ path = "RAG" /\ phase' = "idle" /\ response' = Refusal(500)
  <2>1. CacheInv' /\ PhaseInv'
    BY <1>0, <1>1, <1>5 DEF PhaseInv, CacheInv, IInv
  <2>2. Visible' /\ response' \in Response
    BY <1>0, <1>1, <1>5, <2>1, RagPathEnds DEF RagOutcomes
  <2>3. TypeOK'
    BY <1>0, <1>1, <1>5, <2>2 DEF TypeOK, Phases, RagOutcomes
  <2> QED
    BY <1>2, <2>1, <2>2, <2>3 DEF IInv, Visible
<1> QED
  BY <1>0, <1>3, <1>4, <1>5 DEF Retrieve, Respond

LEMMA GenerateTypes ==
  ASSUME IInv, Generate
  PROVE  /\ rag' \in {"ungrounded", "grounded"} /\ CacheInv'
         /\ answerTo' \in Prompts \cup {NoReply}
         /\ cache' \in [Prompts -> Entry \cup {NoReply}]
         /\ unanswered' \in SUBSET Calls /\ malformed' \in SUBSET Calls
         /\ "classify" \in unanswered' => "classify" \in unanswered
         /\ "classify" \in malformed' => "classify" \in malformed
<1>0. TypeOK /\ CacheInv /\ query' = query /\ context' = context
  BY DEF IInv, Generate
<1>1. RagPrompt \in Prompts /\ RagPrompt' = RagPrompt /\ CacheKey(RagPrompt) = RagPrompt
  BY <1>0 DEF TypeOK, RagPrompt, Prompts, CacheKey
<1>2. \A reply : RagOutcome(reply) \in {"ungrounded", "grounded"}
  BY DEF RagOutcome
<1>3. ASSUME NEW reply \in Replies,
             rag' = RagOutcome(reply),
             answerTo' = RagPrompt,
             cache' = [cache EXCEPT ![CacheKey(RagPrompt)] = [reply |-> reply, prompt |-> RagPrompt]],
             malformed' = (IF reply = "malformed" THEN malformed \cup {"generate"} ELSE malformed),
             unanswered' = unanswered
      PROVE  /\ CacheInv'
             /\ cache' \in [Prompts -> Entry \cup {NoReply}]
             /\ malformed' \in SUBSET Calls /\ unanswered' \in SUBSET Calls
             /\ "classify" \in malformed' => "classify" \in malformed
  <2> DEFINE e == [reply |-> reply, prompt |-> RagPrompt]
  <2>1. e \in Entry /\ e.prompt = RagPrompt
    BY <1>1 DEF Entry
  <2>2. cache' = [cache EXCEPT ![RagPrompt] = e]
    BY <1>1, <1>3
  <2> HIDE DEF e
  <2>3. cache' \in [Prompts -> Entry \cup {NoReply}]
    BY <1>0, <1>1, <2>1, <2>2 DEF TypeOK
  <2>4. \A p \in Prompts : cache'[p] # NoReply => cache'[p].prompt = p
    BY <1>0, <1>1, <2>1, <2>2 DEF TypeOK, CacheInv
  <2>5. CacheInv'
    BY <1>1, <1>3, <2>4 DEF CacheInv
  <2> QED
    BY <1>0, <1>3, <2>3, <2>5 DEF TypeOK, Calls
<1>4. ASSUME IF cache[CacheKey(RagPrompt)] = NoReply
               THEN rag' = "ungrounded" /\ answerTo' = NoReply
               ELSE /\ rag' = RagOutcome(cache[CacheKey(RagPrompt)].reply)
                    /\ answerTo' = cache[CacheKey(RagPrompt)].prompt,
             unanswered' = unanswered \cup {"generate"}, cache' = cache, malformed' = malformed
      PROVE  /\ CacheInv' /\ rag' \in {"ungrounded", "grounded"}
             /\ answerTo' \in Prompts \cup {NoReply}
             /\ unanswered' \in SUBSET Calls /\ malformed' \in SUBSET Calls
             /\ "classify" \in unanswered' => "classify" \in unanswered
  <2>1. CASE cache[RagPrompt] = NoReply
    BY <1>0, <1>1, <1>4, <2>1 DEF CacheInv, TypeOK, Calls
  <2>2. CASE cache[RagPrompt] # NoReply
    <3>1. cache[RagPrompt].prompt = RagPrompt
      BY <1>0, <1>1, <2>2 DEF CacheInv
    <3>2. answerTo' = RagPrompt /\ rag' \in {"ungrounded", "grounded"}
      BY <1>1, <1>2, <1>4, <2>2, <3>1
    <3> QED
      BY <1>0, <1>1, <1>4, <3>2 DEF CacheInv, TypeOK, Calls
  <2> QED
    BY <2>1, <2>2
<1> QED
  BY <1>0, <1>1, <1>2, <1>3, <1>4 DEF Generate, TypeOK

LEMMA GenerateKeeps ==
  ASSUME IInv, Generate
  PROVE  IInv'
<1>0. /\ TypeOK /\ phase = "generate" /\ path \in {"RAG", "HYBRID"} /\ sql = "pending"
      /\ SyntheticIsDeclared /\ ("classify" \in unanswered => path = "HYBRID" /\ "classify" \notin malformed)
  BY DEF IInv, Generate, PhaseInv, OutageInv
<1>1. /\ query' = query /\ role' = role /\ path' = path /\ statement' = statement /\ sql' = sql
      /\ context' = context /\ corpus' = corpus /\ database' = database
  BY DEF Generate, worldVars
<1>2. /\ rag' \in {"ungrounded", "grounded"} /\ CacheInv'
      /\ answerTo' \in Prompts \cup {NoReply}
      /\ cache' \in [Prompts -> Entry \cup {NoReply}]
      /\ unanswered' \in SUBSET Calls /\ malformed' \in SUBSET Calls
      /\ "classify" \in unanswered' => "classify" \in unanswered
      /\ "classify" \in malformed' => "classify" \in malformed
  BY GenerateTypes
<1>3. OutageInv'
  BY <1>0, <1>1, <1>2 DEF OutageInv
<1>4. CASE path = "HYBRID" /\ phase' = "sql" /\ response' = response
  <2>1. TypeOK'
    BY <1>0, <1>1, <1>2, <1>4 DEF TypeOK, Phases, RagOutcomes
  <2>2. PhaseInv'
    BY <1>0, <1>1, <1>2, <1>4 DEF PhaseInv
  <2>3. Visible'
    BY <1>0, <1>1, <1>4, WorkingOn
  <2> QED
    BY <1>2, <1>3, <2>1, <2>2, <2>3 DEF IInv, Visible
<1>5. CASE path = "RAG" /\ phase' = "idle" /\ response' = RagResponse(rag')
  <2>1. PICK x \in RagOutcomes : rag' = x
    BY <1>2 DEF RagOutcomes
  <2>2. response' = RagResponse(x)
    BY <1>5, <2>1
  <2>3. Visible' /\ response' \in Response
    BY <1>0, <1>1, <1>2, <1>5, <2>1, <2>2, RagPathEnds
  <2>4. TypeOK'
    BY <1>0, <1>1, <1>2, <1>5, <2>1, <2>3 DEF TypeOK, Phases
  <2>5. PhaseInv'
    BY <1>5 DEF PhaseInv
  <2> QED
    BY <1>2, <1>3, <2>3, <2>4, <2>5 DEF IInv, Visible
<1> QED
  BY <1>0, <1>4, <1>5 DEF Generate, Respond

LEMMA GenerateSqlKeeps ==
  ASSUME IInv, GenerateSql
  PROVE  IInv'
<1>0. TypeOK /\ phase = "sql" /\ phase' = "validate" /\ SyntheticIsDeclared
  BY DEF IInv, GenerateSql
<1>1. /\ query' = query /\ role' = role /\ path' = path /\ context' = context /\ rag' = rag
      /\ sql' = sql /\ response' = response /\ cache' = cache /\ corpus' = corpus
      /\ database' = database /\ answerTo' = answerTo
  BY DEF GenerateSql, worldVars
<1>2. /\ statement' \in {"offline", "accepted", "rejected"}
      /\ unanswered' \in {unanswered, unanswered \cup {"sql"}}
      /\ malformed' \in {malformed, malformed \cup {"sql"}}
  BY DEF GenerateSql
<1>3. TypeOK'
  BY <1>0, <1>1, <1>2 DEF TypeOK, Phases, Calls
<1>4. PhaseInv' /\ CacheInv'
  BY <1>0, <1>1 DEF IInv, PhaseInv, CacheInv, RagPrompt
<1>5. OutageInv'
  BY <1>1, <1>2 DEF IInv, OutageInv
<1>6. Visible'
  BY <1>0, <1>1, WorkingOn
<1> QED
  BY <1>3, <1>4, <1>5, <1>6 DEF IInv, Visible

\* A query that ends on the SQL path: the validator refused its statement, or
\* SQLAgent.run returned.
LEMMA SqlPathEnds ==
  ASSUME TypeOK, path' = "SQL", phase' = "idle", database' = database, rag' = "pending",
         "classify" \notin unanswered', NEW y \in SqlOutcomes \ {"pending"}, sql' = y,
         \/ statement' = "rejected" /\ response' = Refusal(500)
         \/ response' = SqlResponse(y)
  PROVE  Visible' /\ response' \in Response
<1>1. CASE statement' = "rejected" /\ response' = Refusal(500)
  <2>1. Refuses(response', 500)
    BY <1>1, RefusalSays
  <2> QED
    BY <1>1, <2>1 DEF Refuses, Visible, SyntheticIsDeclared, OutageNeverRefuses, ErrorHasOtherCause,
                      AnswerFitsContext, PartialMeansPartial, ResponseInv, Answered
<1>2. CASE response' = SqlResponse(y)
  <2>1. Says(response', 200, "pending", y, database = "none", FALSE, FALSE)
    BY <1>2, SqlResponseSays
  <2> QED
    BY <2>1 DEF Says, Visible, SyntheticIsDeclared, OutageNeverRefuses, ErrorHasOtherCause,
                AnswerFitsContext, PartialMeansPartial, ResponseInv, Answered
<1> QED
  BY <1>1, <1>2

\* The four ways HybridAgent.run goes on from its two branches.
LEMMA CombineEnds ==
  ASSUME TypeOK, SyntheticIsDeclared, CacheInv', path' = "HYBRID", database' = database,
         NEW x \in RagOutcomes \ {"pending"}, rag' = x,
         NEW y \in SqlOutcomes \ {"pending"}, sql' = y,
         Combine(x, y)
  PROVE  /\ Visible' /\ response' \in Response
         /\ \/ phase' = "idle"
            \/ phase' = "merge" /\ x # "failed" /\ y # "failed"
<1>1. CASE x = "failed" /\ y = "failed"
  <2>1. phase' = "idle" /\ response' = Refusal(503)
    BY <1>1 DEF Combine, Respond
  <2>2. Refuses(response', 503)
    BY <2>1, RefusalSays
  <2> QED
    BY <1>1, <2>1, <2>2 DEF Refuses, Visible, SyntheticIsDeclared, OutageNeverRefuses, ErrorHasOtherCause,
                AnswerFitsContext, PartialMeansPartial, ResponseInv, Answered
<1>2. CASE x # "failed" /\ y = "failed"
  <2>1. phase' = "idle" /\ response' = RagFallback(x)
    BY <1>2 DEF Combine, Respond
  <2>2. Says(response', 200, x, "pending", FALSE, TRUE, FALSE)
    BY <2>1, RagFallbackSays
  <2> QED
    BY <1>2, <2>1, <2>2 DEF Says, Visible, SyntheticIsDeclared, OutageNeverRefuses, ErrorHasOtherCause,
                AnswerFitsContext, PartialMeansPartial, ResponseInv, Answered, CacheInv
<1>3. CASE x = "failed" /\ y # "failed"
  <2>1. phase' = "idle" /\ response' = SqlFallback(y)
    BY <1>3 DEF Combine, Respond
  <2>2. Says(response', 200, "pending", y, database = "none", FALSE, TRUE)
    BY <2>1, SqlFallbackSays
  <2> QED
    BY <1>3, <2>1, <2>2 DEF Says, Visible, SyntheticIsDeclared, OutageNeverRefuses, ErrorHasOtherCause,
                AnswerFitsContext, PartialMeansPartial, ResponseInv, Answered
<1>4. CASE x # "failed" /\ y # "failed"
  <2>1. phase' = "merge" /\ response' = response
    BY <1>4 DEF Combine
  <2> QED
    BY <1>4, <2>1, WorkingOn DEF TypeOK
<1> QED
  BY <1>1, <1>2, <1>3, <1>4

LEMMA ValidateKeeps ==
  ASSUME IInv, Validate
  PROVE  IInv'
<1>0. /\ TypeOK /\ phase = "validate" /\ path \in {"SQL", "HYBRID"} /\ sql = "pending"
      /\ (path = "HYBRID" <=> rag # "pending") /\ SyntheticIsDeclared
      /\ "classify" \in unanswered => path = "HYBRID"
  BY DEF IInv, Validate, PhaseInv, OutageInv
<1>1. /\ query' = query /\ role' = role /\ path' = path /\ statement' = statement /\ rag' = rag
      /\ context' = context /\ answerTo' = answerTo /\ cache' = cache /\ corpus' = corpus
      /\ database' = database /\ unanswered' = unanswered /\ malformed' = malformed
  BY DEF Validate, worldVars
<1>2. OutageInv' /\ CacheInv'
  BY <1>1 DEF OutageInv, CacheInv, RagPrompt, IInv
<1>3. CASE statement # "rejected"
  <2>1. phase' = "execute" /\ sql' = sql /\ response' = response
    BY <1>3 DEF Validate
  <2>2. TypeOK'
    BY <1>0, <1>1, <2>1 DEF TypeOK, Phases
  <2>3. PhaseInv'
    BY <1>0, <1>1, <2>1 DEF PhaseInv
  <2>4. Visible'
    BY <1>0, <1>1, <2>1, WorkingOn
  <2> QED
    BY <1>2, <2>2, <2>3, <2>4 DEF IInv, Visible
<1>4. CASE statement = "rejected" /\ path = "SQL"
  <2>1. sql' = "failed" /\ phase' = "idle" /\ response' = Refusal(500)
    BY <1>4 DEF Validate, Respond
  <2>2. Visible' /\ response' \in Response
    BY <1>0, <1>1, <1>4, <2>1, SqlPathEnds DEF SqlOutcomes
  <2>3. TypeOK'
    BY <1>0, <1>1, <2>1, <2>2 DEF TypeOK, Phases, SqlOutcomes
  <2>4. PhaseInv'
    BY <2>1 DEF PhaseInv
  <2> QED
    BY <1>2, <2>2, <2>3, <2>4 DEF IInv, Visible
<1>5. CASE statement = "rejected" /\ path = "HYBRID"
  <2>1. sql' = "failed" /\ Combine(rag, "failed")
    BY <1>5 DEF Validate
  <2>2. rag \in RagOutcomes \ {"pending"} /\ "failed" \in SqlOutcomes \ {"pending"}
    BY <1>0, <1>5 DEF TypeOK, SqlOutcomes
  <2>3. Visible' /\ response' \in Response /\ phase' = "idle"
    BY <1>0, <1>1, <1>2, <1>5, <2>1, <2>2, CombineEnds
  <2>4. TypeOK'
    BY <1>0, <1>1, <2>1, <2>2, <2>3 DEF TypeOK, Phases
  <2>5. PhaseInv'
    BY <2>3 DEF PhaseInv
  <2> QED
    BY <1>2, <2>3, <2>4, <2>5 DEF IInv, Visible
<1> QED
  BY <1>0, <1>3, <1>4, <1>5

LEMMA ExecuteKeeps ==
  ASSUME IInv, Execute
  PROVE  IInv'
<1>0. /\ TypeOK /\ phase = "execute" /\ path \in {"SQL", "HYBRID"} /\ sql = "pending"
      /\ (path = "HYBRID" <=> rag # "pending") /\ SyntheticIsDeclared
      /\ "classify" \in unanswered => path = "HYBRID"
  BY DEF IInv, Execute, PhaseInv, OutageInv
<1>1. /\ query' = query /\ role' = role /\ path' = path /\ statement' = statement /\ rag' = rag
      /\ context' = context /\ answerTo' = answerTo /\ cache' = cache /\ corpus' = corpus
      /\ database' = database /\ unanswered' = unanswered /\ malformed' = malformed
  BY DEF Execute, worldVars
<1>2. OutageInv' /\ CacheInv'
  BY <1>1 DEF OutageInv, CacheInv, RagPrompt, IInv
<1>3. PICK y \in {"rows", "errored"} : sql' = y
  BY DEF Execute
<1>4. y \in SqlOutcomes \ {"pending"}
  BY DEF SqlOutcomes
<1>5. CASE path = "SQL"
  <2>1. phase' = "idle" /\ response' = SqlResponse(y)
    BY <1>3, <1>5 DEF Execute, Respond
  <2>2. Visible' /\ response' \in Response
    BY <1>0, <1>1, <1>3, <1>4, <1>5, <2>1, SqlPathEnds
  <2>3. TypeOK'
    BY <1>0, <1>1, <1>3, <1>4, <2>1, <2>2 DEF TypeOK, Phases
  <2>4. PhaseInv'
    BY <2>1 DEF PhaseInv
  <2> QED
    BY <1>2, <2>2, <2>3, <2>4 DEF IInv, Visible
<1>6. CASE path = "HYBRID"
  <2>1. Combine(rag, y)
    BY <1>3, <1>6 DEF Execute
  <2>2. rag \in RagOutcomes \ {"pending"}
    BY <1>0, <1>6 DEF TypeOK
  <2>3. /\ Visible' /\ response' \in Response
        /\ \/ phase' = "idle"
           \/ phase' = "merge" /\ rag # "failed" /\ y # "failed"
    BY <1>0, <1>1, <1>2, <1>3, <1>4, <1>6, <2>1, <2>2, CombineEnds
  <2>4. TypeOK'
    BY <1>0, <1>1, <1>3, <1>4, <2>3 DEF TypeOK, Phases
  <2>5. PhaseInv'
    BY <1>1, <1>3, <1>6, <2>2, <2>3 DEF PhaseInv
  <2> QED
    BY <1>2, <2>3, <2>4, <2>5 DEF IInv, Visible
<1> QED
  BY <1>0, <1>5, <1>6

\* HybridAgent._merge answered, or failed and fell back to the RAG answer.
LEMMA MergeKeeps ==
  ASSUME IInv, Merge
  PROVE  IInv'
<1>0. /\ TypeOK /\ path = "HYBRID" /\ CacheInv
      /\ rag \in RagOutcomes \ {"pending", "failed"} /\ sql \in {"rows", "errored"}
  BY DEF IInv, Merge, PhaseInv, TypeOK
<1>1. /\ query' = query /\ role' = role /\ path' = path /\ context' = context /\ rag' = rag
      /\ statement' = statement /\ sql' = sql /\ answerTo' = answerTo /\ cache' = cache
      /\ corpus' = corpus /\ database' = database /\ phase' = "idle"
  BY DEF Merge, Respond, branchVars, worldVars
<1>2. /\ response' = Merged(rag, sql) \/ response' = RagFallback(rag)
      /\ unanswered' \in {unanswered, unanswered \cup {"merge"}}
      /\ malformed' \in {malformed, malformed \cup {"merge"}}
  BY DEF Merge, Respond
<1>3. CacheInv' /\ PhaseInv' /\ OutageInv'
  BY <1>0, <1>1, <1>2 DEF CacheInv, RagPrompt, PhaseInv, OutageInv, IInv
<1>4. Visible' /\ response' \in Response
  <2>1. CASE response' = Merged(rag, sql)
    <3>1. Says(response', 200, rag, sql, database = "none", FALSE, FALSE)
      <4>1. rag \in RagOutcomes /\ sql \in SqlOutcomes
        BY <1>0 DEF SqlOutcomes
      <4>2. Says(Merged(rag, sql), 200, rag, sql, database = "none", FALSE, FALSE)
        BY <4>1, MergedSays
      <4> QED
        BY <2>1, <4>2
    <3> QED
      BY <1>0, <1>1, <1>3, <3>1
      DEF Says, Visible, SyntheticIsDeclared, OutageNeverRefuses, ErrorHasOtherCause,
          AnswerFitsContext, PartialMeansPartial, ResponseInv, Answered, CacheInv
  <2>2. CASE response' = RagFallback(rag)
    <3>1. Says(response', 200, rag, "pending", FALSE, TRUE, FALSE)
      BY <1>0, <2>2, RagFallbackSays
    <3> QED
      BY <1>0, <1>1, <1>3, <3>1
      DEF Says, Visible, SyntheticIsDeclared, OutageNeverRefuses, ErrorHasOtherCause,
          AnswerFitsContext, PartialMeansPartial, ResponseInv, Answered, CacheInv
  <2> QED
    BY <1>2, <2>1, <2>2
<1>5. TypeOK'
  BY <1>0, <1>1, <1>2, <1>4 DEF TypeOK, Phases, Calls
<1> QED
  BY <1>3, <1>4, <1>5 DEF IInv, Visible

\* The world may move between any two steps of a query: nothing it changes is
\* read by the invariant, save whether a database is configured at all.
LEMMA WorldMoves ==
  ASSUME IInv, corpus' \in 0..MaxCorpus, database' \in {"none", "up", "down"},
         database' = "none" <=> database = "none",
         UNCHANGED <<phase, query, role, path, branchVars, response, cache, unanswered, malformed>>
  PROVE  IInv'
<1>1. TypeOK'
  BY DEF IInv, TypeOK, branchVars
<1>2. PhaseInv' /\ CacheInv' /\ OutageInv'
  BY DEF IInv, PhaseInv, CacheInv, RagPrompt, OutageInv, branchVars
<1>3. Visible'
  BY DEF IInv, Visible, SyntheticIsDeclared, OutageNeverRefuses, ErrorHasOtherCause, AnswerFitsContext,
         PartialMeansPartial, ResponseInv, Answered, RagPrompt, branchVars
<1> QED
  BY <1>1, <1>2, <1>3 DEF IInv, Visible

LEMMA CorpusChangesKeeps ==
  ASSUME IInv, CorpusChanges
  PROVE  IInv'
<1>1. corpus' \in 0..MaxCorpus /\ database' = database /\ database \in {"none", "up", "down"}
  BY CorpusAssumption DEF IInv, TypeOK, CorpusChanges
<1> QED
  BY <1>1, WorldMoves DEF CorpusChanges

LEMMA DatabaseChangesKeeps ==
  ASSUME IInv, DatabaseChanges
  PROVE  IInv'
<1>1. corpus' \in 0..MaxCorpus /\ database' \in {"up", "down"} /\ database # "none"
  BY DEF IInv, TypeOK, DatabaseChanges
<1> QED
  BY <1>1, WorldMoves DEF DatabaseChanges

LEMMA InitInvariant == Init => IInv
<1> SUFFICES ASSUME Init PROVE IInv
  OBVIOUS
<1>1. Refuses(response, 403)
  BY RefusalSays DEF Init
<1>2. TypeOK
  BY <1>1, CorpusAssumption DEF Init, TypeOK, EmptyCorpus, Phases, Refuses, RagOutcomes, SqlOutcomes
<1>3. PhaseInv /\ CacheInv /\ OutageInv
  BY DEF Init, PhaseInv, CacheInv, OutageInv
<1>4. Visible
  BY <1>1 DEF Init, Refuses, Visible, SyntheticIsDeclared, OutageNeverRefuses, ErrorHasOtherCause,
              AnswerFitsContext, PartialMeansPartial, ResponseInv, Answered
<1> QED
  BY <1>2, <1>3, <1>4 DEF IInv, Visible

LEMMA StepInvariant == IInv /\ [Next]_vars => IInv'
<1> SUFFICES ASSUME IInv, [Next]_vars PROVE IInv'
  OBVIOUS
<1>1. ASSUME NEW q \in Queries, NEW r \in Roles, Arrive(q, r) PROVE IInv'
  BY <1>1, ArriveKeeps
<1>2. CASE Classify
  BY <1>2, ClassifyKeeps
<1>3. CASE Retrieve
  BY <1>3, RetrieveKeeps
<1>4. CASE Generate
  BY <1>4, GenerateKeeps
<1>5. CASE GenerateSql
  BY <1>5, GenerateSqlKeeps
<1>6. CASE Validate
  BY <1>6, ValidateKeeps
<1>7. CASE Execute
  BY <1>7, ExecuteKeeps
<1>8. CASE Merge
  BY <1>8, MergeKeeps
<1>9. CASE CorpusChanges
  BY <1>9, CorpusChangesKeeps
<1>10. CASE DatabaseChanges
  BY <1>10, DatabaseChangesKeeps
<1>11. CASE UNCHANGED vars
  <2>1. /\ corpus' \in 0..MaxCorpus /\ database' = database /\ database \in {"none", "up", "down"}
        /\ UNCHANGED <<phase, query, role, path, branchVars, response, cache, unanswered, malformed>>
    BY <1>11 DEF vars, worldVars, IInv, TypeOK
  <2> QED
    BY <2>1, WorldMoves
<1> QED
  BY <1>1, <1>2, <1>3, <1>4, <1>5, <1>6, <1>7, <1>8, <1>9, <1>10, <1>11 DEF Next

\* The inductive invariant holds throughout every series of queries.
THEOREM Invariance == Spec => []IInv
  BY InitInvariant, StepInvariant, PTL DEF Spec

\* Every variable keeps its type.
THEOREM TypeCorrectness == Spec => []TypeOK
<1>1. IInv => TypeOK
  BY DEF IInv
<1> QED
  BY <1>1, Invariance, PTL

\* Invented figures are declared on every path to the caller: SQL answer, SQL
\* fallback, merged answer (query_executor.py, query.py).
THEOREM SyntheticFiguresAreDeclared == Spec => []SyntheticIsDeclared
<1>1. IInv => SyntheticIsDeclared
  BY DEF IInv
<1> QED
  BY <1>1, Invariance, PTL

\* A classifier outage never refuses a query, whatever the corpus, the database and
\* the other providers do meanwhile (RouteQueryUseCase, IntentClassifierService).
THEOREM ClassifierOutageIsSurvived == Spec => []OutageNeverRefuses
<1>1. IInv => OutageNeverRefuses
  BY DEF IInv
<1> QED
  BY <1>1, Invariance, PTL

\* No 500 without a malformed classification, a failed retrieval or a refused
\* statement.
THEOREM ErrorsHaveCause == Spec => []ErrorHasOtherCause
<1>1. IInv => ErrorHasOtherCause
  BY DEF IInv
<1> QED
  BY <1>1, Invariance, PTL

\* A grounded answer was written for the query and the retrieved context it is
\* returned with, also when the degraded-mode cache supplied it.
THEOREM AnswersFitContext == Spec => []AnswerFitsContext
<1>1. IInv => AnswerFitsContext
  BY DEF IInv
<1> QED
  BY <1>1, Invariance, PTL

\* The rag_only and sql_only flags, the payload and the outcomes of the branches
\* agree in every hybrid answer (HybridAgent.run).
THEOREM PartialAnswersSaySo == Spec => []PartialMeansPartial
<1>1. IInv => PartialMeansPartial
  BY DEF IInv
<1> QED
  BY <1>1, Invariance, PTL

LEMMA CacheStep ==
  ASSUME IInv, IInv', Next, NEW p \in Prompts, cache[p] # NoReply
  PROVE  cache'[p] # NoReply /\ cache'[p].prompt = p
<1>0. TypeOK /\ CacheInv /\ CacheInv'
  BY DEF IInv
<1>1. SUFFICES cache'[p] # NoReply
  BY <1>0 DEF CacheInv
<1>2. CASE cache' = cache
  BY <1>2
<1>3. CASE Generate
  <2>1. cache' = cache \/ \E reply \in Replies :
          cache' = [cache EXCEPT ![CacheKey(RagPrompt)] = [reply |-> reply, prompt |-> RagPrompt]]
    BY <1>3 DEF Generate
  <2>2. \A reply \in Replies : [reply |-> reply, prompt |-> RagPrompt] # NoReply
    <3>1. RagPrompt \in Prompts
      BY <1>0 DEF TypeOK, RagPrompt, Prompts
    <3> QED
      BY <3>1, NoReplyAssumption DEF Entry
  <2> QED
    BY <1>0, <2>1, <2>2 DEF TypeOK
<1> QED
  BY <1>2, <1>3 DEF Next, Arrive, Classify, Retrieve, GenerateSql, Validate, Execute, Merge,
                    CorpusChanges, DatabaseChanges

\* What DegradedModeService once stored for a prompt is never lost, and never
\* replaced by an answer to another prompt.
THEOREM CacheKeepsAnswers == Spec => AnsweredOnceIsCached
<1>1. IInv /\ IInv' /\ [Next]_vars =>
        [\A p \in Prompts : cache[p] # NoReply => cache'[p] # NoReply /\ cache'[p].prompt = p]_vars
  BY CacheStep
<1> QED
  BY <1>1, Invariance, PTL DEF Spec, AnsweredOnceIsCached
=============================================================================
