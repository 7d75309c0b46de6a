------------------------------ MODULE QueryPath ------------------------------
(***************************************************************************)
(* One query through the API: classify, route, RAG and SQL branches, merge,*)
(* response.                                                               *)
(*                                                                         *)
(* Nothing on this path awaits anything that suspends, so a process runs   *)
(* one query at a time and asyncio.gather runs the RAG branch before the   *)
(* SQL branch.  What moves meanwhile is outside: the providers fail or     *)
(* answer nonsense at any call, the ERP database comes and goes, and the   *)
(* workers change the corpus that retrieval reads.                         *)
(***************************************************************************)
EXTENDS Naturals, FiniteSets

CONSTANTS Queries,    \* masked query texts
          MaxCorpus,  \* bound on the changes of the corpus
          NoReply     \* the degraded-mode cache has no entry

ASSUME CorpusAssumption == MaxCorpus \in Nat

Intents == {"RAG", "SQL", "HYBRID", "BLOCKED"}

\* Confidence as the thresholds see it: below 0.50, below 0.70, the rest.
Confidences == {"low", "medium", "high"}

Roles == {"reporting_analyst", "other"}

\* A provider's reply to a RAG prompt, as parse_llm_json and the schema see it.
Replies == {"grounded", "ungrounded", "malformed"}

\* The first version of the corpus: nothing is embedded yet.
EmptyCorpus == 0

\* The prompt holds the query and the retrieved context: its hash tells both apart.
Prompts == Queries \X (0..MaxCorpus)

\* A cached reply, with the prompt it answered.
Entry == [reply : Replies, prompt : Prompts]

ASSUME NoReplyAssumption == NoReply \notin Entry

\* LLM calls of one query.
Calls == {"classify", "generate", "sql", "merge"}

VARIABLES
  phase,       \* where the query is
  query, role, \* its text and the role in its claims
  path,        \* the use case the router picked
  context,     \* the corpus that retrieval saw
  rag,         \* outcome of RAGAgent.run
  statement,   \* outcome of QueryGenerator.generate
  sql,         \* outcome of SQLAgent.run
  response,    \* of the last query
  cache,       \* DegradedModeService._cache
  corpus,      \* version of the tenant's vectors
  database,    \* the ERP database: not configured, or reachable or not
  answerTo,    \* history: the prompt the RAG answer was written for
  unanswered,  \* history: calls of this query no provider answered
  malformed    \* history: calls of this query whose reply was unusable

branchVars == <<context, rag, statement, sql, answerTo>>
worldVars  == <<corpus, database>>
vars == <<phase, query, role, path, branchVars, response, cache, worldVars, unanswered, malformed>>

RagOutcomes == {"pending", "failed", "ungrounded", "grounded"}
SqlOutcomes == {"pending", "failed", "rows", "errored"}

Response == [status : {200, 403, 500, 503}, intent : {"none", "RAG", "SQL", "HYBRID"},
             rag_only : BOOLEAN, sql_only : BOOLEAN, synthetic : BOOLEAN,
             rag : RagOutcomes, sql : SqlOutcomes]

Phases == {"idle", "classify", "retrieve", "generate", "sql", "validate", "execute", "merge"}

TypeOK ==
  /\ phase \in Phases
  /\ query \in Queries /\ role \in Roles
  /\ path \in {"none", "RAG", "SQL", "HYBRID"}
  /\ context \in 0..MaxCorpus /\ corpus \in 0..MaxCorpus
  /\ answerTo \in Prompts \cup {NoReply}
  /\ rag \in RagOutcomes /\ sql \in SqlOutcomes
  /\ statement \in {"none", "offline", "accepted", "rejected"}
  /\ response \in Response
  /\ cache \in [Prompts -> Entry \cup {NoReply}]
  /\ database \in {"none", "up", "down"}
  /\ unanswered \in SUBSET Calls /\ malformed \in SUBSET Calls

------------------------------------------------------------------------------
\* Responses.  Only BlockedQueryError and HybridAgentError are handled by the route;
\* what else is raised ends in an unhandled 500.

Reply(status, intent, r, s, synthetic, rag_only, sql_only) ==
  [status |-> status, intent |-> intent, rag |-> r, sql |-> s,
   synthetic |-> synthetic, rag_only |-> rag_only, sql_only |-> sql_only]

Refusal(status) == Reply(status, "none", "pending", "pending", FALSE, FALSE, FALSE)

\* QueryExecutor picks its backend once, by whether a database is configured.
Synthetic == database = "none"

RagResponse(r) == Reply(200, "RAG", r, "pending", FALSE, FALSE, FALSE)

SqlResponse(s) == Reply(200, "SQL", "pending", s, Synthetic, FALSE, FALSE)

\* Mutants: a fallback that does not say so, a merged answer whose SQL half is not
\* asked for its provenance.
RagFallbackUnflagged(r) == Reply(200, "HYBRID", r, "pending", FALSE, FALSE, FALSE)

MergedUndeclared(r, s) == Reply(200, "HYBRID", r, s, FALSE, FALSE, FALSE)

\* HybridResult.rag_fallback, HybridResult.sql_fallback and the merged result.
RagFallback(r) == Reply(200, "HYBRID", r, "pending", FALSE, TRUE, FALSE)

SqlFallback(s) == Reply(200, "HYBRID", "pending", s, Synthetic, FALSE, TRUE)

Merged(r, s) == Reply(200, "HYBRID", r, s, Synthetic, FALSE, FALSE)

Respond(r) == phase' = "idle" /\ response' = r

------------------------------------------------------------------------------

Init ==
  /\ phase = "idle"
  /\ query \in Queries /\ role \in Roles
  /\ path = "none"
  /\ context = EmptyCorpus /\ corpus = EmptyCorpus
  /\ answerTo = NoReply
  /\ rag = "pending" /\ sql = "pending" /\ statement = "none"
  /\ response = Refusal(403)
  /\ cache = [p \in Prompts |-> NoReply]
  /\ database \in {"none", "up", "down"}
  /\ unanswered = {} /\ malformed = {}

Arrive(q, r) ==
  /\ phase = "idle"
  /\ phase' = "classify"
  /\ query' = q /\ role' = r
  /\ path' = "none"
  /\ rag' = "pending" /\ sql' = "pending" /\ statement' = "none"
  /\ unanswered' = {} /\ malformed' = {}
  /\ UNCHANGED <<context, answerTo, response, cache, worldVars>>

\* Mutant: only the confidence blocks.
RouteUnblocked(intent, confidence) ==
  IF confidence = "low" THEN "none"
  ELSE IF confidence = "medium" THEN "HYBRID"
  ELSE IF intent = "SQL" /\ role = "reporting_analyst" THEN "RAG"
  ELSE intent

\* The routing table of RouteQueryUseCase.execute.
Route(intent, confidence) ==
  IF intent = "BLOCKED" \/ confidence = "low" THEN "none"
  ELSE IF confidence = "medium" THEN "HYBRID"
  ELSE IF intent = "SQL" /\ role = "reporting_analyst" THEN "RAG"
  ELSE intent

Dispatch(intent, confidence) ==
  LET chosen == Route(intent, confidence) IN
  /\ path' = chosen
  /\ CASE chosen = "none" -> Respond(Refusal(403))
       [] chosen = "SQL"  -> phase' = "sql" /\ UNCHANGED response
       [] OTHER           -> phase' = "retrieve" /\ UNCHANGED response

\* Mutant: no confidence at all in the fallback.
FallbackUnsure == [intent |-> "HYBRID", confidence |-> "low"]

\* _hybrid_fallback: HYBRID at exactly 0.50.
FallbackDecision == [intent |-> "HYBRID", confidence |-> "medium"]

Classify ==
  /\ phase = "classify"
  /\ \/ /\ \E i \in Intents, c \in Confidences : Dispatch(i, c)
        /\ UNCHANGED <<unanswered, malformed>>
     \/ /\ Dispatch(FallbackDecision.intent, FallbackDecision.confidence)
        /\ unanswered' = unanswered \cup {"classify"}
        /\ UNCHANGED malformed
     \/ /\ Respond(Refusal(500))
        /\ malformed' = malformed \cup {"classify"}
        /\ UNCHANGED <<path, unanswered>>
  /\ UNCHANGED <<query, role, branchVars, cache, worldVars>>

\* Without an embedding of the query the retriever finds nothing, as in a corpus that
\* is still empty, and the branch goes on.  Any other exception of it fails the branch;
\* on the RAG path nobody catches it.
Retrieve ==
  /\ phase = "retrieve"
  /\ \/ /\ context' \in {corpus, EmptyCorpus}
        /\ phase' = "generate"
        /\ UNCHANGED <<rag, response>>
     \/ /\ rag' = "failed"
        /\ IF path = "HYBRID" THEN phase' = "sql" /\ UNCHANGED response
                              ELSE Respond(Refusal(500))
        /\ UNCHANGED context
  /\ UNCHANGED <<query, role, path, statement, sql, answerTo, cache, worldVars,
                 unanswered, malformed>>

\* RAGAgent: a reply that does not parse or validate becomes not_grounded().
RagOutcome(reply) == IF reply = "grounded" THEN "grounded" ELSE "ungrounded"

RagPrompt == <<query, context>>

\* Mutant: the cache is keyed by the query alone.
CacheKeyByQuery(prompt) == <<prompt[1], 0>>

\* query_hash: the cache key of a prompt.
CacheKey(prompt) == prompt

\* The providers' answer, which the cache keeps whatever it is worth; in an outage
\* the cached reply to the same prompt, or a placeholder, which fails the schema.
Generate ==
  /\ phase = "generate"
  /\ \/ \E reply \in Replies :
          /\ rag' = RagOutcome(reply)
          /\ answerTo' = RagPrompt
          /\ cache' = [cache EXCEPT ![CacheKey(RagPrompt)] = [reply |-> reply, prompt |-> RagPrompt]]
          /\ malformed' = IF reply = "malformed" THEN malformed \cup {"generate"} ELSE malformed
          /\ UNCHANGED unanswered
     \/ LET entry == cache[CacheKey(RagPrompt)] IN
        /\ IF entry = NoReply
             THEN rag' = "ungrounded" /\ answerTo' = NoReply
             ELSE rag' = RagOutcome(entry.reply) /\ answerTo' = entry.prompt
        /\ unanswered' = unanswered \cup {"generate"}
        /\ UNCHANGED <<cache, malformed>>
  /\ IF path = "HYBRID" THEN phase' = "sql" /\ UNCHANGED response
                        ELSE Respond(RagResponse(rag'))
  /\ UNCHANGED <<query, role, path, context, statement, sql, worldVars>>

\* QueryGenerator.generate: a statement of the model that _reject_unsafe lets
\* through (Stage 2 may still refuse it), or, on any failure, the offline one.
GenerateSql ==
  /\ phase = "sql"
  /\ \/ statement' \in {"accepted", "rejected"} /\ UNCHANGED <<unanswered, malformed>>
     \/ /\ statement' = "offline"
        /\ unanswered' = unanswered \cup {"sql"}
        /\ UNCHANGED malformed
     \/ /\ statement' = "offline"
        /\ malformed' = malformed \cup {"sql"}
        /\ UNCHANGED unanswered
  /\ phase' = "validate"
  /\ UNCHANGED <<query, role, path, context, rag, sql, response, cache, worldVars, answerTo>>

\* Mutant: gather without return_exceptions.
CombineRaising(r, s) ==
  CASE r = "failed" \/ s = "failed" -> Respond(Refusal(500))
    [] OTHER                        -> phase' = "merge" /\ UNCHANGED response

\* HybridAgent.run once both branches have returned or raised.
Combine(r, s) ==
  CASE r = "failed" /\ s = "failed" -> Respond(Refusal(503))
    [] r # "failed" /\ s = "failed" -> Respond(RagFallback(r))
    [] r = "failed" /\ s # "failed" -> Respond(SqlFallback(s))
    [] OTHER                        -> phase' = "merge" /\ UNCHANGED response

\* QueryValidator: can_execute, or SQLAgentError, which only the hybrid path catches.
Validate ==
  /\ phase = "validate"
  /\ IF statement = "rejected"
       THEN /\ sql' = "failed"
            /\ IF path = "HYBRID" THEN Combine(rag, "failed") ELSE Respond(Refusal(500))
       ELSE phase' = "execute" /\ UNCHANGED <<sql, response>>
  /\ UNCHANGED <<query, role, path, context, rag, statement, answerTo, cache, worldVars,
                 unanswered, malformed>>

\* QueryExecutor: a failure of the database, or of a statement it does not like,
\* becomes a result without rows.
Execute ==
  /\ phase = "execute"
  /\ \/ database # "down" /\ sql' = "rows"
     \/ database # "none" /\ sql' = "errored"
  /\ IF path = "HYBRID" THEN Combine(rag, sql') ELSE Respond(SqlResponse(sql'))
  /\ UNCHANGED <<query, role, path, context, rag, statement, answerTo, cache, worldVars,
                 unanswered, malformed>>

\* HybridAgent._merge.  Its prompt holds the fresh query_id of the SQL result, so
\* in an outage the cache never has an answer to it.
Merge ==
  /\ phase = "merge"
  /\ \/ Respond(Merged(rag, sql)) /\ UNCHANGED <<unanswered, malformed>>
     \/ /\ Respond(RagFallback(rag))
        /\ malformed' = malformed \cup {"merge"}
        /\ UNCHANGED unanswered
     \/ /\ Respond(RagFallback(rag))
        /\ unanswered' = unanswered \cup {"merge"}
        /\ UNCHANGED malformed
  /\ UNCHANGED <<query, role, path, branchVars, cache, worldVars>>

\* A worker adds vectors; the configured database fails or recovers.
CorpusChanges ==
  /\ corpus < MaxCorpus
  /\ corpus' = corpus + 1
  /\ UNCHANGED <<phase, query, role, path, branchVars, response, cache, database,
                 unanswered, malformed>>

DatabaseChanges ==
  /\ database # "none"
  /\ database' = IF database = "up" THEN "down" ELSE "up"
  /\ UNCHANGED <<phase, query, role, path, branchVars, response, cache, corpus,
                 unanswered, malformed>>

Next ==
  \/ \E q \in Queries, r \in Roles : Arrive(q, r)
  \/ Classify \/ Retrieve \/ Generate \/ GenerateSql \/ Validate \/ Execute \/ Merge
  \/ CorpusChanges \/ DatabaseChanges

Spec == Init /\ [][Next]_vars

------------------------------------------------------------------------------
\* Properties.

Answered == phase = "idle" /\ path # "none"

\* Figures that were invented are declared, and real ones are not disowned, on
\* whichever path the SQL result reached the caller; an answer without SQL figures
\* claims nothing (query_executor.py, query.py).
SyntheticIsDeclared ==
  response.synthetic <=> response.sql # "pending" /\ database = "none"

\* A classifier outage never blocks or fails a query: it is answered, or both of
\* its branches failed for reasons of their own, whatever else happens.
OutageNeverRefuses ==
  phase = "idle" /\ "classify" \in unanswered =>
    \/ response.status = 200
    \/ response.status = 503 /\ rag = "failed" /\ sql = "failed"

\* An unhandled error is never the work of an outage of the model: some reply of this
\* query was malformed, its retrieval failed (the vector store was away, say), or the
\* validator refused its statement.
ErrorHasOtherCause ==
  phase = "idle" /\ response.status = 500 =>
    \/ "classify" \in malformed
    \/ path = "RAG" /\ rag = "failed"
    \/ path = "SQL" /\ statement = "rejected"

\* A grounded answer was written for the query and the context at hand, also when
\* an outage brought it out of the cache after the corpus had changed.
AnswerFitsContext ==
  Answered /\ response.rag = "grounded" => answerTo = RagPrompt

\* A partial answer carries the branch it has, and an answer that is not partial
\* has both: the flags, the payload and what the branches did agree.
PartialMeansPartial ==
  Answered /\ path = "HYBRID" /\ response.status = 200 =>
    /\ response.sql_only <=> rag = "failed"
    /\ sql = "failed" => response.rag_only
    /\ response.rag = (IF response.sql_only THEN "pending" ELSE rag)
    /\ response.sql = (IF response.rag_only THEN "pending" ELSE sql)
    /\ ~(response.rag_only /\ response.sql_only)

\* Between queries nothing of the last one is lost from the cache: in an outage a
\* prompt that was once answered gets a reply, never the placeholder.
AnsweredOnceIsCached ==
  [][\A p \in Prompts : cache[p] # NoReply => cache'[p] # NoReply /\ cache'[p].prompt = p]_vars

------------------------------------------------------------------------------
\* The inductive invariant behind these properties.

\* What a query has behind it and before it in each phase.
PhaseInv ==
  /\ phase = "classify" => path = "none" /\ unanswered = {} /\ malformed = {}
  /\ phase \in {"classify", "retrieve", "generate"} => rag = "pending" /\ sql = "pending"
  /\ phase \in {"retrieve", "generate"} => path \in {"RAG", "HYBRID"}
  /\ phase \in {"sql", "validate", "execute"} =>
       /\ sql = "pending"
       /\ path \in {"SQL", "HYBRID"}
       /\ path = "HYBRID" <=> rag # "pending"
  /\ phase = "merge" => path = "HYBRID" /\ rag \notin {"pending", "failed"} /\ sql \in {"rows", "errored"}

\* Every cached reply answers the prompt it is filed under, and a grounded answer
\* of the running query the prompt of that query.
CacheInv ==
  /\ \A p \in Prompts : cache[p] # NoReply => cache[p].prompt = p
  /\ rag = "grounded" => answerTo = RagPrompt

\* What the last response says is what the branches of its query did, and what
\* ended the query before a use case was picked brought no answer.
ResponseInv ==
  /\ phase = "idle" /\ path = "none" => response.rag = "pending" /\ response.sql = "pending"
  /\ Answered => response.rag \in {"pending", rag}
  /\ Answered /\ path = "RAG" => sql = "pending"

\* A query whose classification nobody answered runs the hybrid path.
OutageInv ==
  "classify" \in unanswered => path = "HYBRID" /\ "classify" \notin malformed

IInv ==
  /\ TypeOK /\ PhaseInv /\ CacheInv /\ ResponseInv /\ OutageInv
  /\ SyntheticIsDeclared /\ OutageNeverRefuses /\ ErrorHasOtherCause
  /\ AnswerFitsContext /\ PartialMeansPartial
==============================================================================
