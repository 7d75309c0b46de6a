---------------------------- MODULE SqlPipeline ----------------------------
(***************************************************************************)
(* The SQL branch of a query: QueryGenerator with ErpSchemaProvider,       *)
(* QueryValidator, QueryExecutor, for the queries of one API process.      *)
(*                                                                         *)
(* A statement is what the two filters and the database tell apart in it:  *)
(* how it begins, the names that follow a FROM or a JOIN, how it names the *)
(* tenant, what Stage 2 would take offence at, and the shape of its        *)
(* aggregates.  The model may write any statement.  PostgreSQL is          *)
(* external: it comes and goes, and refuses a statement that names what    *)
(* it does not have.                                                       *)
(***************************************************************************)
EXTENDS Naturals

CONSTANTS Tables,       \* ALLOWED_TABLES, the tables of the ERP
          DefaultTable  \* erp_records

ASSUME TablesAssumption == DefaultTable \notin Tables

Offences == {"keyword", "pattern", "stacked"}

\* "unknown": a column the table has not, or a table, out of the filter's sight
\* because it comes after a comma or in quotes, that the database has not.
Columns == {"unknown", "total", "department", "month"}
Clauses == {"by_department", "by_month", "top"}

\* tables: the names the regular expressions of _reject_unsafe find.  These are the
\* tables a statement reads, but for those after a comma or in quotes, and with the
\* column of an EXTRACT(... FROM column); DefaultTable stands for any name that is
\* not in ALLOWED_TABLES, such a column included.
Statement == [select : BOOLEAN, tables : SUBSET (Tables \cup {DefaultTable}),
              tenant : SUBSET {"bound", "literal"}, offences : SUBSET Offences,
              semicolon : BOOLEAN, columns : SUBSET Columns, clauses : SUBSET Clauses]

\* What the keyword map can recognise in a question.
Question == [tables : SUBSET Tables, total : BOOLEAN, department : BOOLEAN,
             monthly : BOOLEAN, top : BOOLEAN]

\* The whole of the model's freedom: the shape of its aggregates is its own affair.
Written == {s \in Statement : s.columns \subseteq {"unknown"} /\ s.clauses = {}}

VARIABLES
  phase,
  model,      \* a provider is configured
  question,
  schema,     \* ErpSchemaProvider._cached
  prompt,     \* the schema in the prompt of this query
  statement,  \* the statement of this query
  reply,      \* whether it is the model's
  result,     \* of the SQL agent
  answer,     \* result of the last query that was answered
  database,   \* not configured, or reachable or not
  firstLook   \* history: what the one introspection of this process met

queryVars == <<question, prompt, statement, reply, result>>
vars == <<phase, model, queryVars, schema, answer, database, firstLook>>

Results == {"refused", "rows", "unreachable", "erroneous"}

TypeOK ==
  /\ phase \in {"idle", "classify", "sql", "complete", "validate", "execute"}
  /\ model \in BOOLEAN
  /\ question \in Question
  /\ schema \in {"none", "names", "columns"}
  /\ prompt \in {"none", "names", "columns"}
  /\ statement \in Statement
  /\ reply \in {"pending", "used", "discarded", "none"}
  /\ result \in Results \cup {"pending"}
  /\ answer \in Results \cup {"none"}
  /\ database \in {"none", "up", "down"}
  /\ firstLook \in {"none", "failed", "empty", "found"}

------------------------------------------------------------------------------
\* Stage 1: the deterministic statement.

\* The first table of _TABLE_MAP whose keyword is in the question: some fixed one.
First(T) == CHOOSE t \in T : TRUE

\* Mutant: the months are selected and not grouped.
GroupingByDepartment(q) == IF q.department THEN {"by_department"} ELSE {}

\* group_by is assigned twice: the months win.
Grouping(q) ==
  IF q.monthly THEN {"by_month"} ELSE IF q.department THEN {"by_department"} ELSE {}

\* _offline_generate, without the filters on dates and states.
Offline(q, tenant) ==
  [select |-> TRUE,
   tables |-> {IF q.tables = {} THEN DefaultTable ELSE First(q.tables)},
   tenant |-> tenant,
   offences |-> {},
   semicolon |-> FALSE,
   columns |-> {c \in {"total", "department", "month"} :
                  \/ c = "total" /\ q.total
                  \/ c = "department" /\ q.department
                  \/ c = "month" /\ q.monthly},
   clauses |-> Grouping(q) \cup {c \in {"top"} : q.top}]

\* Mutant: the tenant is interpolated.
OfflineInterpolated(q) == Offline(q, {"literal"})

OfflineStatement(q) == Offline(q, {"bound"})

Blank == Offline([tables |-> {}, total |-> FALSE, department |-> FALSE,
                  monthly |-> FALSE, top |-> FALSE], {"bound"})

------------------------------------------------------------------------------
\* Stage 1: the filters on the model's reply.

\* rstrip(";"), and _sanitize.
Stripped(s) == [s EXCEPT !.semicolon = FALSE]

\* _extract_sql: a JSON object with a statement, or bare text that begins with SELECT.
Extracts(form, s) == form = "json" \/ (form = "bare" /\ s.select)

\* Mutant: the generator trusts Stage 2 with the tenant.
UnsafeButTenant(s) == ~s.select \/ ~(s.tables \subseteq Tables)

\* _reject_unsafe: what it finds must be a table of the ERP, which discards a statement
\* with an EXTRACT and passes one that reads a foreign table after a comma.
Unsafe(s) == ~s.select \/ "bound" \notin s.tenant \/ ~(s.tables \subseteq Tables)

------------------------------------------------------------------------------
\* Stage 2.

\* The errors of QueryValidator.validate, by kind.
Errors(s) ==
  {e \in {"not_select", "no_tenant", "literal_tenant"} \cup Offences :
     \/ e = "not_select" /\ ~s.select
     \/ e \in s.offences
     \/ e = "literal_tenant" /\ "bound" \notin s.tenant /\ "literal" \in s.tenant
     \/ e = "no_tenant" /\ s.tenant = {}}

CanExecute(s) == Errors(s) = {} /\ "bound" \in s.tenant

------------------------------------------------------------------------------

Init ==
  /\ phase = "idle"
  /\ model \in BOOLEAN
  /\ question \in Question
  /\ schema = "none" /\ firstLook = "none"
  /\ prompt = "none"
  /\ statement = Blank /\ reply = "pending"
  /\ result = "pending" /\ answer = "none"
  /\ database \in {"none", "up", "down"}

Arrive(q) ==
  /\ phase = "idle"
  /\ phase' = "classify"
  /\ question' = q
  /\ prompt' = "none"
  /\ statement' = Blank /\ reply' = "pending" /\ result' = "pending"
  /\ UNCHANGED <<model, schema, answer, database, firstLook>>

\* The router picks the SQL path.
Routed ==
  /\ phase = "classify"
  /\ phase' = "sql"
  /\ UNCHANGED <<model, queryVars, schema, answer, database, firstLook>>

\* Mutant: tables without columns are described as they are, by nothing.
IntrospectEmpty(look) == IF look = "empty" THEN "" ELSE IF look = "found" THEN "columns" ELSE "names"

\* _introspect: names, whenever there are no columns to show.
Introspect(look) == IF look = "found" THEN "columns" ELSE "names"

\* Mutant: every prompt looks again.
DescribeAfresh(look) ==
  /\ schema' = IF database = "none" THEN "names" ELSE Introspect(look)
  /\ firstLook' = IF database # "none" /\ firstLook = "none" THEN look ELSE firstLook

\* ErpSchemaProvider.describe: whatever the first call came to stays.
Describe(look) ==
  IF schema # "none" THEN UNCHANGED <<schema, firstLook>>
  ELSE /\ schema' = IF database = "none" THEN "names" ELSE Introspect(look)
       /\ firstLook' = IF database = "none" THEN "none" ELSE look

\* _build_prompt, where there is a model to ask.  A reachable database may have none
\* of the tables yet.
BuildPrompt ==
  /\ phase = "sql" /\ model
  /\ \E look \in IF database = "up" THEN {"empty", "found"} ELSE {"failed"} : Describe(look)
  /\ prompt' = schema'
  /\ phase' = "complete"
  /\ UNCHANGED <<model, question, statement, reply, result, answer, database>>

UseOffline(why) == statement' = OfflineStatement(question) /\ reply' = why

\* There is no model, or none that answers.
NoReply ==
  /\ \/ phase = "sql" /\ ~model
     \/ phase = "complete"
  /\ UseOffline("none")
  /\ phase' = "validate"
  /\ UNCHANGED <<model, question, prompt, schema, result, answer, database, firstLook>>

\* The reply holds a statement the generator lets through, or is thrown away.
Complete ==
  /\ phase = "complete"
  /\ \E form \in {"json", "bare", "neither"}, s \in Written :
       IF Extracts(form, s) /\ ~Unsafe(Stripped(s))
         THEN statement' = Stripped(s) /\ reply' = "used"
         ELSE UseOffline("discarded")
  /\ phase' = "validate"
  /\ UNCHANGED <<model, question, prompt, schema, result, answer, database, firstLook>>

Return(r) == phase' = "idle" /\ result' = r /\ answer' = r

\* SQLAgent.run: a report that cannot be executed raises SQLAgentError.
Validate ==
  /\ phase = "validate"
  /\ IF CanExecute(statement)
       THEN phase' = "execute" /\ UNCHANGED <<statement, result, answer>>
       ELSE Return("refused") /\ UNCHANGED statement
  /\ UNCHANGED <<model, question, prompt, reply, schema, database, firstLook>>

\* PostgreSQL, with the tables and columns of docker/dev-data/erp_seed.sql: what is
\* named exists, what is selected beside an aggregate is grouped by, and the top ten
\* are ordered by the total.
Accepts(s) ==
  /\ s.tables \subseteq Tables /\ "unknown" \notin s.columns
  /\ "top" \in s.clauses => "total" \in s.columns
  /\ "department" \in s.columns => "by_department" \in s.clauses
  /\ "month" \in s.columns => "by_month" \in s.clauses

\* InMemoryExecutor has rows for every statement.
InMemory == "rows"

PostgreSQL(s) ==
  IF database = "down" THEN "unreachable" ELSE IF Accepts(s) THEN "rows" ELSE "erroneous"

\* QueryExecutor._run: an exception becomes a result without rows, its text goes to
\* the query log.
Execute ==
  /\ phase = "execute"
  /\ Return(IF database = "none" THEN InMemory ELSE PostgreSQL(Stripped(statement)))
  /\ UNCHANGED <<model, question, prompt, statement, reply, schema, database, firstLook>>

DatabaseChanges ==
  /\ database # "none"
  /\ database' = IF database = "up" THEN "down" ELSE "up"
  /\ UNCHANGED <<phase, model, queryVars, schema, answer, firstLook>>

\* The process is replaced between two queries; the schema it knew is gone.
Restart ==
  /\ phase = "idle"
  /\ schema' = "none" /\ firstLook' = "none" /\ prompt' = "none"
  /\ UNCHANGED <<phase, model, question, statement, reply, result, answer, database>>

Next ==
  \/ \E q \in Question : Arrive(q)
  \/ Routed \/ BuildPrompt \/ NoReply \/ Complete \/ Validate \/ Execute
  \/ DatabaseChanges \/ Restart

Spec == Init /\ [][Next]_vars

------------------------------------------------------------------------------
\* Properties.

\* The two filters agree: what Stage 2 still refuses is the model's, and it refuses
\* it for a keyword or a pattern.  A statement that is no SELECT, or without the
\* bound tenant, was replaced before (_reject_unsafe), and its replacement passes.
RefusedForOffencesOnly ==
  result = "refused" =>
    /\ reply = "used"
    /\ Errors(statement) # {} /\ Errors(statement) \subseteq Offences

\* One look at the database decides the prompts of a whole process: the model is
\* shown bare names where there are columns only if that look failed or found no
\* table, and columns only if it found some, whatever the database did since.
FirstLookDecides ==
  /\ prompt = "names" => database = "none" \/ firstLook \in {"failed", "empty"}
  /\ prompt = "columns" => database # "none" /\ firstLook = "found"

\* On a reachable database, the offline statement fails, and is shown to the caller
\* as an empty result, for three kinds of question only: no table was recognised,
\* the top ten of no total, departments by month.
OfflineErrorHasCause ==
  result = "erroneous" /\ reply # "used" =>
    \/ question.tables = {}
    \/ question.top /\ ~question.total
    \/ question.department /\ question.monthly

\* QueryPath's view of this branch.
Path == IF reply = "pending" /\ phase \in {"idle", "classify"} THEN "none" ELSE "SQL"

StatementKind ==
  CASE reply = "pending" -> "none"
    [] reply = "used"    -> IF CanExecute(statement) THEN "accepted" ELSE "rejected"
    [] OTHER             -> "offline"

SqlOutcome(r) ==
  CASE r = "refused" -> "failed"
    [] r \in {"unreachable", "erroneous"} -> "errored"
    [] OTHER -> r

ResponseTo(r) ==
  LET answered == r \in {"rows", "unreachable", "erroneous"} IN
  [status |-> IF answered THEN 200 ELSE IF r = "refused" THEN 500 ELSE 403,
   intent |-> IF answered THEN "SQL" ELSE "none",
   rag |-> "pending",
   sql |-> IF answered THEN SqlOutcome(r) ELSE "pending",
   synthetic |-> answered /\ database = "none",
   rag_only |-> FALSE, sql_only |-> FALSE]

Whole == INSTANCE QueryPath
  WITH Queries <- {"question"}, MaxCorpus <- 0, NoReply <- "no reply",
       phase <- IF phase = "complete" THEN "sql" ELSE phase,
       query <- "question", role <- "other", path <- Path,
       context <- 0, rag <- "pending", statement <- StatementKind,
       sql <- SqlOutcome(result), response <- ResponseTo(answer),
       cache <- [p \in {"question"} \X (0..0) |-> "no reply"],
       corpus <- 0, answerTo <- "no reply",
       unanswered <- {c \in {"sql"} : reply = "none"},
       malformed <- {c \in {"sql"} : reply = "discarded"}

\* What QueryPath leaves open about the SQL branch covers all that the stages do:
\* in particular the offline statement is executed, never refused.
ImplementsQueryPath == Whole!Spec

------------------------------------------------------------------------------
\* The inductive invariant behind these properties.

\* A query has its statement once Stage 1 is through, and its result at the end.
StageInv ==
  /\ phase \in {"classify", "sql", "complete"} => reply = "pending" /\ result = "pending"
  /\ phase \in {"validate", "execute"} => reply # "pending" /\ result = "pending"
  /\ phase = "idle" => (reply = "pending" <=> result = "pending")

\* Where a statement is from says what it is.
StatementInv ==
  /\ reply = "used" => ~Unsafe(statement) /\ statement = Stripped(statement)
  /\ reply \in {"discarded", "none"} => statement = OfflineStatement(question)

SchemaInv ==
  /\ schema = "none" => prompt = "none" /\ firstLook = "none"
  /\ schema = "names" => database = "none" \/ firstLook \in {"failed", "empty"}
  /\ schema = "columns" => database # "none" /\ firstLook = "found"
  /\ prompt \in {"none", schema}

IInv ==
  /\ TypeOK /\ StageInv /\ StatementInv /\ SchemaInv
  /\ RefusedForOffencesOnly /\ FirstLookDecides /\ OfflineErrorHasCause
==============================================================================
