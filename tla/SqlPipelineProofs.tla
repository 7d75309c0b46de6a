-------------------------- MODULE SqlPipelineProofs --------------------------
(***************************************************************************)
(* Proofs about SqlPipeline, for any set of tables.                        *)
(***************************************************************************)
EXTENDS SqlPipeline, TLAPS

\* The deterministic statement, field by field.
LEMMA OfflineFields ==
  ASSUME NEW q \in Question
  PROVE  LET s == OfflineStatement(q) IN
         /\ s.select = TRUE /\ s.tenant = {"bound"} /\ s.offences = {} /\ s.semicolon = FALSE
         /\ s.tables = {IF q.tables = {} THEN DefaultTable ELSE First(q.tables)}
         /\ s.columns = {c \in {"total", "department", "month"} :
                           \/ c = "total" /\ q.total
                           \/ c = "department" /\ q.department
                           \/ c = "month" /\ q.monthly}
         /\ s.clauses = Grouping(q) \cup {c \in {"top"} : q.top}
BY DEF OfflineStatement, Offline

LEMMA FirstIsOne ==
  ASSUME NEW T \in SUBSET Tables, T # {}
  PROVE  First(T) \in Tables
BY DEF First

LEMMA OfflineType ==
  ASSUME NEW q \in Question, NEW tenant \in SUBSET {"bound", "literal"}
  PROVE  Offline(q, tenant) \in Statement
<1> DEFINE tables  == {IF q.tables = {} THEN DefaultTable ELSE First(q.tables)}
           columns == {c \in {"total", "department", "month"} :
                         \/ c = "total" /\ q.total
                         \/ c = "department" /\ q.department
                         \/ c = "month" /\ q.monthly}
           clauses == Grouping(q) \cup {c \in {"top"} : q.top}
<1>1. tables \in SUBSET (Tables \cup {DefaultTable})
  BY FirstIsOne DEF Question
<1>2. columns \in SUBSET Columns
  BY DEF Columns
<1>3. clauses \in SUBSET Clauses
  BY DEF Clauses, Grouping
<1> HIDE DEF tables, columns, clauses
<1>4. [select |-> TRUE, tables |-> tables, tenant |-> tenant, offences |-> {},
       semicolon |-> FALSE, columns |-> columns, clauses |-> clauses] \in Statement
  BY <1>1, <1>2, <1>3 DEF Statement
<1> QED
  BY <1>4 DEF Offline, tables, columns, clauses

LEMMA BlankType == Blank \in Statement
<1>1. [tables |-> {}, total |-> FALSE, department |-> FALSE, monthly |-> FALSE, top |-> FALSE]
        \in Question
  BY DEF Question
<1> QED
  BY <1>1, OfflineType DEF Blank

LEMMA StrippedType ==
  ASSUME NEW s \in Statement
  PROVE  /\ Stripped(s) \in Statement /\ Stripped(s) = Stripped(Stripped(s))
         /\ Stripped(s).tables = s.tables /\ Stripped(s).columns = s.columns
         /\ Stripped(s).clauses = s.clauses /\ Stripped(s).select = s.select
         /\ Stripped(s).tenant = s.tenant
BY DEF Stripped, Statement

\* Stage 2 has nothing against the deterministic statement.
LEMMA OfflinePasses ==
  ASSUME NEW q \in Question
  PROVE  CanExecute(OfflineStatement(q))
BY OfflineFields DEF CanExecute, Errors, Offences

\* What is left for Stage 2 to refuse of the model's statements.
LEMMA SafeErrors ==
  ASSUME NEW s \in Statement, ~Unsafe(s), ~CanExecute(s)
  PROVE  Errors(s) # {} /\ Errors(s) \subseteq Offences
BY DEF Unsafe, CanExecute, Errors, Statement, Offences

\* PostgreSQL refuses the deterministic statement for three kinds of question.
LEMMA OfflineRefused ==
  ASSUME NEW q \in Question, ~Accepts(Stripped(OfflineStatement(q)))
  PROVE  \/ q.tables = {}
         \/ q.top /\ ~q.total
         \/ q.department /\ q.monthly
<1> DEFINE s == OfflineStatement(q)
<1>1. s \in Statement
  BY OfflineType DEF OfflineStatement
<1>2. Stripped(s).tables = s.tables /\ Stripped(s).columns = s.columns /\ Stripped(s).clauses = s.clauses
  BY <1>1, StrippedType
<1>3. q.tables \in SUBSET Tables /\ (q.tables # {} => s.tables \subseteq Tables)
  BY OfflineFields, FirstIsOne DEF Question
<1>4. /\ "unknown" \notin s.columns
      /\ "total" \in s.columns <=> q.total
      /\ "department" \in s.columns <=> q.department
      /\ "month" \in s.columns <=> q.monthly
  BY OfflineFields DEF Question
<1>5. /\ "top" \in s.clauses <=> q.top
      /\ "by_month" \in s.clauses <=> q.monthly
      /\ "by_department" \in s.clauses <=> q.department /\ ~q.monthly
  <2>1. s.clauses = Grouping(q) \cup {c \in {"top"} : q.top}
    BY OfflineFields
  <2>2. Grouping(q) = IF q.monthly THEN {"by_month"} ELSE IF q.department THEN {"by_department"} ELSE {}
    BY DEF Grouping
  <2> HIDE DEF s
  <2>3. CASE q.monthly
    BY <2>1, <2>2, <2>3
  <2>4. CASE ~q.monthly /\ q.department
    BY <2>1, <2>2, <2>4
  <2>5. CASE ~q.monthly /\ ~q.department
    BY <2>1, <2>2, <2>5
  <2> QED
    BY <2>3, <2>4, <2>5
<1>6. \/ ~(s.tables \subseteq Tables)
      \/ "unknown" \in s.columns
      \/ "top" \in s.clauses /\ "total" \notin s.columns
      \/ "department" \in s.columns /\ "by_department" \notin s.clauses
      \/ "month" \in s.columns /\ "by_month" \notin s.clauses
  <2>1. ~Accepts(Stripped(s))
    OBVIOUS
  <2> HIDE DEF s
  <2> QED
    BY <1>2, <2>1 DEF Accepts
<1> HIDE DEF s
<1> QED
  BY <1>3, <1>4, <1>5, <1>6

------------------------------------------------------------------------------

LEMMA TypeInductive == TypeOK /\ [Next]_vars => TypeOK'
<1> SUFFICES ASSUME TypeOK, [Next]_vars PROVE TypeOK'
  OBVIOUS
<1>o. OfflineStatement(question) \in Statement
  BY OfflineType DEF TypeOK, OfflineStatement
<1>1. ASSUME NEW q \in Question, Arrive(q) PROVE TypeOK'
  BY <1>1, BlankType DEF TypeOK, Arrive
<1>2. CASE Routed
  BY <1>2 DEF TypeOK, Routed, queryVars
<1>3. CASE BuildPrompt
  <2>1. PICK look \in {"failed", "empty", "found"} : Describe(look)
    BY <1>3 DEF BuildPrompt
  <2>2. schema' \in {"none", "names", "columns"} /\ firstLook' \in {"none", "failed", "empty", "found"}
    BY <2>1 DEF TypeOK, Describe, Introspect
  <2> QED
    BY <1>3, <2>2 DEF TypeOK, BuildPrompt
<1>4. CASE NoReply
  BY <1>4, <1>o DEF TypeOK, NoReply, UseOffline
<1>5. CASE Complete
  <2>1. PICK s \in Written : (statement' = Stripped(s) /\ reply' = "used") \/ UseOffline("discarded")
    BY <1>5 DEF Complete
  <2>2. statement' \in Statement /\ reply' \in {"used", "discarded"}
    BY <1>o, <2>1, StrippedType DEF Written, UseOffline
  <2> QED
    BY <1>5, <2>2 DEF TypeOK, Complete
<1>6. CASE Validate
  BY <1>6 DEF TypeOK, Validate, Return, Results
<1>7. CASE Execute
  <2>1. PICK r \in {"rows", "unreachable", "erroneous"} : Return(r)
    BY <1>7 DEF Execute, InMemory, PostgreSQL
  <2> QED
    BY <1>7, <2>1 DEF TypeOK, Execute, Return, Results
<1>8. CASE DatabaseChanges
  BY <1>8 DEF TypeOK, DatabaseChanges, queryVars
<1>9. CASE Restart
  BY <1>9 DEF TypeOK, Restart
<1>10. CASE UNCHANGED vars
  BY <1>10 DEF TypeOK, vars, queryVars
<1> QED
  BY <1>1, <1>2, <1>3, <1>4, <1>5, <1>6, <1>7, <1>8, <1>9, <1>10 DEF Next

LEMMA StageInductive == TypeOK /\ StageInv /\ [Next]_vars => StageInv'
<1> SUFFICES ASSUME TypeOK, StageInv, [Next]_vars PROVE StageInv'
  OBVIOUS
<1>1. ASSUME NEW q \in Question, Arrive(q) PROVE StageInv'
  BY <1>1 DEF StageInv, Arrive
<1>2. CASE Routed \/ BuildPrompt
  BY <1>2 DEF StageInv, Routed, BuildPrompt, queryVars
<1>3. CASE NoReply
  BY <1>3 DEF StageInv, NoReply, UseOffline
<1>4. CASE Complete
  <2>1. reply' \in {"used", "discarded"}
    BY <1>4 DEF Complete, UseOffline
  <2> QED
    BY <1>4, <2>1 DEF StageInv, Complete
<1>5. CASE Validate
  BY <1>5 DEF StageInv, Validate, Return
<1>6. CASE Execute
  <2>1. PICK r \in {"rows", "unreachable", "erroneous"} : Return(r)
    BY <1>6 DEF Execute, InMemory, PostgreSQL
  <2> QED
    BY <1>6, <2>1 DEF StageInv, Execute, Return
<1>7. CASE DatabaseChanges \/ Restart
  BY <1>7 DEF StageInv, DatabaseChanges, Restart, queryVars
<1>8. CASE UNCHANGED vars
  BY <1>8 DEF StageInv, vars, queryVars
<1> QED
  BY <1>1, <1>2, <1>3, <1>4, <1>5, <1>6, <1>7, <1>8 DEF Next

LEMMA StatementInductive == TypeOK /\ StageInv /\ StatementInv /\ [Next]_vars => StatementInv'
<1> SUFFICES ASSUME TypeOK, StageInv, StatementInv, [Next]_vars PROVE StatementInv'
  OBVIOUS
<1>s. ASSUME UNCHANGED <<question, statement, reply>> PROVE StatementInv'
  BY <1>s DEF StatementInv
<1>1. ASSUME NEW q \in Question, Arrive(q) PROVE StatementInv'
  BY <1>1 DEF StatementInv, Arrive
<1>2. CASE Routed \/ BuildPrompt \/ Validate \/ Execute
  BY <1>2, <1>s DEF Routed, BuildPrompt, Validate, Execute, queryVars
<1>3. CASE NoReply
  BY <1>3 DEF StatementInv, NoReply, UseOffline
<1>4. CASE Complete
  <2>1. PICK s \in Written : \/ ~Unsafe(Stripped(s)) /\ statement' = Stripped(s) /\ reply' = "used"
                             \/ UseOffline("discarded")
    BY <1>4 DEF Complete
  <2>2. question' = question /\ s \in Statement
    BY <1>4 DEF Complete, Written
  <2>3. Stripped(s) = Stripped(Stripped(s))
    BY <2>2, StrippedType
  <2> QED
    BY <2>1, <2>2, <2>3 DEF StatementInv, UseOffline
<1>5. CASE DatabaseChanges \/ Restart \/ UNCHANGED vars
  BY <1>5, <1>s DEF DatabaseChanges, Restart, vars, queryVars
<1> QED
  BY <1>1, <1>2, <1>3, <1>4, <1>5 DEF Next

LEMMA SchemaInductive == TypeOK /\ SchemaInv /\ [Next]_vars => SchemaInv'
<1> SUFFICES ASSUME TypeOK, SchemaInv, [Next]_vars PROVE SchemaInv'
  OBVIOUS
<1>1. CASE BuildPrompt
  <2>1. PICK look \in {"failed", "empty", "found"} : Describe(look)
    BY <1>1 DEF BuildPrompt
  <2>2. prompt' = schema' /\ database' = database
    BY <1>1 DEF BuildPrompt
  <2> QED
    BY <2>1, <2>2 DEF TypeOK, SchemaInv, Describe, Introspect
<1>2. ASSUME NEW q \in Question, Arrive(q) PROVE SchemaInv'
  BY <1>2 DEF SchemaInv, Arrive
<1>3. CASE Routed \/ NoReply \/ Complete \/ Validate \/ Execute
  <2>1. UNCHANGED <<schema, prompt, firstLook, database>>
    BY <1>3 DEF Routed, NoReply, Complete, Validate, Execute, queryVars
  <2> QED
    BY <2>1 DEF SchemaInv
<1>4. CASE DatabaseChanges
  BY <1>4 DEF SchemaInv, DatabaseChanges, queryVars, TypeOK
<1>5. CASE Restart \/ UNCHANGED vars
  BY <1>5 DEF SchemaInv, Restart, vars, queryVars
<1> QED
  BY <1>1, <1>2, <1>3, <1>4, <1>5 DEF Next

------------------------------------------------------------------------------
\* The three properties follow from the stages where a query gets its result.

LEMMA RefusedInductive ==
  TypeOK /\ StageInv /\ StatementInv /\ RefusedForOffencesOnly /\ [Next]_vars
    => RefusedForOffencesOnly'
<1> SUFFICES ASSUME TypeOK, StageInv, StatementInv, RefusedForOffencesOnly, [Next]_vars,
                    result' = "refused"
             PROVE  /\ reply' = "used"
                    /\ Errors(statement)' # {} /\ Errors(statement)' \subseteq Offences
  BY DEF RefusedForOffencesOnly
<1>s. ASSUME UNCHANGED <<result, reply, statement>>
      PROVE  /\ reply' = "used"
             /\ Errors(statement)' # {} /\ Errors(statement)' \subseteq Offences
  BY <1>s DEF RefusedForOffencesOnly
<1>1. CASE Validate
  <2>1. ~CanExecute(statement) /\ UNCHANGED <<reply, statement>>
    BY <1>1 DEF Validate, StageInv
  <2>2. phase = "validate" /\ reply # "pending"
    BY <1>1 DEF Validate, StageInv
  <2>3. reply = "used"
    <3>1. CASE reply \in {"discarded", "none"}
      BY <2>1, <3>1, OfflinePasses DEF StatementInv, TypeOK
    <3> QED
      BY <2>2, <3>1 DEF TypeOK
  <2>4. Errors(statement) # {} /\ Errors(statement) \subseteq Offences
    BY <2>1, <2>3, SafeErrors DEF StatementInv, TypeOK
  <2> QED
    BY <2>1, <2>3, <2>4
<1>2. CASE Execute
  <2>1. PICK r \in {"rows", "unreachable", "erroneous"} : Return(r)
    BY <1>2 DEF Execute, InMemory, PostgreSQL
  <2> QED
    BY <2>1 DEF Return
<1>3. CASE \E q \in Question : Arrive(q)
  BY <1>3 DEF Arrive
<1>4. CASE NoReply \/ Complete
  BY <1>4 DEF NoReply, Complete, StageInv
<1>5. CASE Routed \/ BuildPrompt \/ DatabaseChanges \/ Restart \/ UNCHANGED vars
  <2>1. UNCHANGED <<result, reply, statement>>
    BY <1>5 DEF Routed, BuildPrompt, DatabaseChanges, Restart, vars, queryVars
  <2> QED
    BY <1>s, <2>1
<1> QED
  BY <1>1, <1>2, <1>3, <1>4, <1>5 DEF Next

LEMMA OfflineErrorInductive ==
  TypeOK /\ StageInv /\ StatementInv /\ OfflineErrorHasCause /\ [Next]_vars
    => OfflineErrorHasCause'
<1> SUFFICES ASSUME TypeOK, StageInv, StatementInv, OfflineErrorHasCause, [Next]_vars
             PROVE  OfflineErrorHasCause'
  OBVIOUS
<1>s. ASSUME UNCHANGED <<result, reply, question>> PROVE OfflineErrorHasCause'
  BY <1>s DEF OfflineErrorHasCause
<1>1. CASE Execute
  <2>1. reply \in {"used", "discarded", "none"} /\ question \in Question
    BY <1>1 DEF Execute, StageInv, TypeOK
  <2>2. UNCHANGED <<reply, question>>
    BY <1>1 DEF Execute
  <2>3. result' = "erroneous" => ~Accepts(Stripped(statement))
    BY <1>1 DEF Execute, Return, InMemory, PostgreSQL
  <2>4. CASE reply # "used" /\ result' = "erroneous"
    <3>1. statement = OfflineStatement(question)
      BY <2>1, <2>4 DEF StatementInv
    <3> QED
      BY <2>1, <2>2, <2>3, <2>4, <3>1, OfflineRefused DEF OfflineErrorHasCause
  <2> QED
    BY <2>2, <2>4 DEF OfflineErrorHasCause
<1>2. CASE Validate
  <2>1. result' # "erroneous"
    BY <1>2 DEF Validate, Return, StageInv
  <2> QED
    BY <2>1 DEF OfflineErrorHasCause
<1>3. CASE (\E q \in Question : Arrive(q)) \/ NoReply \/ Complete
  <2>1. result' # "erroneous"
    BY <1>3 DEF Arrive, NoReply, Complete, StageInv
  <2> QED
    BY <2>1 DEF OfflineErrorHasCause
<1>4. CASE Routed \/ BuildPrompt \/ DatabaseChanges \/ Restart \/ UNCHANGED vars
  BY <1>4, <1>s DEF Routed, BuildPrompt, DatabaseChanges, Restart, vars, queryVars
<1> QED
  BY <1>1, <1>2, <1>3, <1>4 DEF Next

LEMMA InitInvariant == Init => IInv
<1> SUFFICES ASSUME Init PROVE IInv
  OBVIOUS
<1>1. TypeOK
  BY BlankType DEF Init, TypeOK
<1>2. StageInv /\ StatementInv /\ SchemaInv
  BY DEF Init, StageInv, StatementInv, SchemaInv
<1>3. RefusedForOffencesOnly /\ FirstLookDecides /\ OfflineErrorHasCause
  BY DEF Init, RefusedForOffencesOnly, FirstLookDecides, OfflineErrorHasCause
<1> QED
  BY <1>1, <1>2, <1>3 DEF IInv

LEMMA StepInvariant == IInv /\ [Next]_vars => IInv'
<1> SUFFICES ASSUME IInv, [Next]_vars PROVE IInv'
  OBVIOUS
<1>i. TypeOK /\ StageInv /\ StatementInv /\ SchemaInv /\ RefusedForOffencesOnly /\ OfflineErrorHasCause
  BY DEF IInv
<1>1. TypeOK' /\ StageInv' /\ StatementInv' /\ SchemaInv'
  BY <1>i, TypeInductive, StageInductive, StatementInductive, SchemaInductive
<1>2. RefusedForOffencesOnly' /\ OfflineErrorHasCause'
  BY <1>i, RefusedInductive, OfflineErrorInductive
<1>3. FirstLookDecides'
  BY <1>1 DEF SchemaInv, FirstLookDecides
<1> QED
  BY <1>1, <1>2, <1>3 DEF IInv

THEOREM Invariant == Spec => []IInv
<1> QED
  BY InitInvariant, StepInvariant, PTL DEF Spec

\* Every variable of the SQL branch keeps its type.
THEOREM TypeCorrect == Spec => []TypeOK
<1>1. IInv => TypeOK
  BY DEF IInv
<1> QED
  BY <1>1, Invariant, PTL

\* Stage 2 refuses only statements of the model, and only for what Stage 1 does not
\* look at.
THEOREM RefusalsAreOffences == Spec => []RefusedForOffencesOnly
<1>1. IInv => RefusedForOffencesOnly
  BY DEF IInv
<1> QED
  BY <1>1, Invariant, PTL

\* What a prompt shows was decided by the first look of the process.
THEOREM FirstLooksDecide == Spec => []FirstLookDecides
<1>1. IInv => FirstLookDecides
  BY DEF IInv
<1> QED
  BY <1>1, Invariant, PTL

\* The deterministic statement fails on a reachable database for three shapes only.
THEOREM OfflineErrorsHaveCause == Spec => []OfflineErrorHasCause
<1>1. IInv => OfflineErrorHasCause
  BY DEF IInv
<1> QED
  BY <1>1, Invariant, PTL

------------------------------------------------------------------------------
\* The SQL branch refines QueryPath, action by action.

\* What QueryPath sees of a state.
Phase == IF phase = "complete" THEN "sql" ELSE phase
Unanswered == {c \in {"sql"} : reply = "none"}
Malformed  == {c \in {"sql"} : reply = "discarded"}

\* A step that changes nothing of that view.
LEMMA ViewStutters ==
  ASSUME UNCHANGED <<Phase, Path, StatementKind, SqlOutcome(result), ResponseTo(answer),
                     Unanswered, Malformed, database>>
  PROVE  UNCHANGED Whole!vars
BY DEF Whole!vars, Whole!branchVars, Whole!worldVars, Phase, Unanswered, Malformed

LEMMA ViewOfStatement ==
  ASSUME UNCHANGED <<reply, statement>>
  PROVE  UNCHANGED <<StatementKind, Unanswered, Malformed>>
BY DEF StatementKind, CanExecute, Errors, Unanswered, Malformed

LEMMA ViewOfAnswer ==
  ASSUME answer' = answer, (database = "none") <=> (database' = "none")
  PROVE  UNCHANGED ResponseTo(answer)
<1>1. CASE answer \in {"rows", "unreachable", "erroneous"} /\ database = "none"
  BY <1>1 DEF ResponseTo, SqlOutcome
<1>2. CASE answer \in {"rows", "unreachable", "erroneous"} /\ database # "none"
  <2>1. answer' \in {"rows", "unreachable", "erroneous"} /\ database' # "none" /\ answer' # "refused"
    BY <1>2
  <2>2. SqlOutcome(answer)' = SqlOutcome(answer)
    BY DEF SqlOutcome
  <2>3. ResponseTo(answer) =
          [status |-> 200, intent |-> "SQL", rag |-> "pending", sql |-> SqlOutcome(answer),
           synthetic |-> FALSE, rag_only |-> FALSE, sql_only |-> FALSE]
    BY <1>2 DEF ResponseTo
  <2>4. ResponseTo(answer)' =
          [status |-> 200, intent |-> "SQL", rag |-> "pending", sql |-> SqlOutcome(answer)',
           synthetic |-> FALSE, rag_only |-> FALSE, sql_only |-> FALSE]
    BY <2>1 DEF ResponseTo
  <2> QED
    BY <2>2, <2>3, <2>4
<1>3. CASE answer \notin {"rows", "unreachable", "erroneous"}
  BY <1>3 DEF ResponseTo, SqlOutcome
<1> QED
  BY <1>1, <1>2, <1>3

LEMMA ViewOfResult ==
  ASSUME result' = result
  PROVE  UNCHANGED SqlOutcome(result)
BY DEF SqlOutcome

LEMMA InitImplements == Init => Whole!Init
<1> SUFFICES ASSUME Init PROVE Whole!Init
  OBVIOUS
<1>1. Phase = "idle" /\ Path = "none" /\ StatementKind = "none" /\ Unanswered = {} /\ Malformed = {}
  BY DEF Init, Phase, Path, StatementKind, Unanswered, Malformed
<1>2. SqlOutcome(result) = "pending" /\ ResponseTo(answer) = Whole!Refusal(403)
  BY DEF Init, SqlOutcome, ResponseTo, Whole!Refusal, Whole!Reply
<1>3. database \in {"none", "up", "down"}
  BY DEF Init
<1> QED
  BY <1>1, <1>2, <1>3 DEF Whole!Init, Whole!EmptyCorpus, Whole!Roles, Whole!Prompts, Phase, Unanswered, Malformed

LEMMA ArriveImplements ==
  ASSUME NEW q \in Question, Arrive(q)
  PROVE  Whole!Arrive("question", "other")
<1>1. Phase = "idle" /\ Phase' = "classify" /\ Path' = "none"
  BY DEF Arrive, Phase, Path
<1>2. StatementKind' = "none" /\ Unanswered' = {} /\ Malformed' = {} /\ SqlOutcome(result)' = "pending"
  BY DEF Arrive, StatementKind, Unanswered, Malformed, SqlOutcome
<1>3. UNCHANGED <<ResponseTo(answer), database>>
  BY ViewOfAnswer DEF Arrive
<1> QED
  BY <1>1, <1>2, <1>3 DEF Whole!Arrive, Whole!worldVars, Phase, Unanswered, Malformed

LEMMA RoutedImplements ==
  ASSUME Routed, StageInv
  PROVE  Whole!Classify
<1>1. Phase = "classify" /\ Phase' = "sql" /\ Path' = "SQL"
  BY DEF Routed, Phase, Path
<1>2. UNCHANGED <<StatementKind, Unanswered, Malformed, SqlOutcome(result), ResponseTo(answer), database>>
  BY ViewOfStatement, ViewOfAnswer, ViewOfResult DEF Routed, queryVars
<1>3. Whole!Dispatch("SQL", "high")
  BY <1>1, <1>2 DEF Whole!Dispatch, Whole!Route, Phase
<1>4. "SQL" \in Whole!Intents /\ "high" \in Whole!Confidences
  BY DEF Whole!Intents, Whole!Confidences
<1> QED
  BY <1>1, <1>2, <1>3, <1>4
     DEF Whole!Classify, Whole!branchVars, Whole!worldVars, Phase, Unanswered, Malformed

\* Whatever Stage 1 does, QueryPath has it as one of the three outcomes.
LEMMA GenerationImplements ==
  ASSUME StageInv, StatementInv, NoReply \/ Complete
  PROVE  Whole!GenerateSql
<1>1. Phase = "sql" /\ Phase' = "validate" /\ Path = "SQL" /\ Path' = "SQL" /\ reply = "pending"
  BY DEF NoReply, Complete, StageInv, Phase, Path
<1>2. Unanswered = {} /\ Malformed = {}
  BY <1>1 DEF Unanswered, Malformed
<1>3. UNCHANGED <<SqlOutcome(result), ResponseTo(answer), database>>
  BY ViewOfAnswer, ViewOfResult DEF NoReply, Complete
<1>4. \/ StatementKind' \in {"accepted", "rejected"} /\ Unanswered' = {} /\ Malformed' = {}
      \/ StatementKind' = "offline" /\ Unanswered' = {"sql"} /\ Malformed' = {}
      \/ StatementKind' = "offline" /\ Unanswered' = {} /\ Malformed' = {"sql"}
  <2>1. reply' \in {"used", "discarded", "none"}
    BY DEF NoReply, Complete, UseOffline
  <2>2. CASE reply' = "used"
    BY <2>2 DEF StatementKind, Unanswered, Malformed
  <2>3. CASE reply' = "discarded"
    BY <2>3 DEF StatementKind, Unanswered, Malformed
  <2>4. CASE reply' = "none"
    BY <2>4 DEF StatementKind, Unanswered, Malformed
  <2> QED
    BY <2>1, <2>2, <2>3, <2>4
<1> QED
  BY <1>1, <1>2, <1>3, <1>4 DEF Whole!GenerateSql, Whole!worldVars, Phase, Unanswered, Malformed

\* Stage 2 refuses the statements of the model only.
LEMMA ValidateImplements ==
  ASSUME TypeOK, StageInv, StatementInv, Validate
  PROVE  Whole!Validate
<1>1. Phase = "validate" /\ reply \in {"used", "discarded", "none"} /\ result = "pending"
  BY DEF Validate, StageInv, TypeOK, Phase
<1>2. Path = "SQL" /\ Path' = "SQL" /\ UNCHANGED <<StatementKind, Unanswered, Malformed, database>>
  <2>1. UNCHANGED <<reply, statement, database>>
    BY DEF Validate
  <2> QED
    BY <1>1, <2>1, ViewOfStatement DEF Path
<1>3. CASE CanExecute(statement)
  <2>1. StatementKind # "rejected"
    BY <1>1, <1>3 DEF StatementKind
  <2>2. Phase' = "execute" /\ UNCHANGED <<SqlOutcome(result), ResponseTo(answer)>>
    BY <1>3, <1>2, ViewOfAnswer, ViewOfResult DEF Validate, Phase
  <2> QED
    BY <1>1, <1>2, <2>1, <2>2 DEF Whole!Validate, Whole!worldVars, Phase, Unanswered, Malformed
<1>4. CASE ~CanExecute(statement)
  <2>1. reply = "used"
    <3>1. CASE reply \in {"discarded", "none"}
      BY <1>4, <3>1, OfflinePasses DEF StatementInv, TypeOK
    <3> QED
      BY <1>1, <3>1
  <2>2. StatementKind = "rejected"
    BY <1>4, <2>1 DEF StatementKind
  <2>3. Phase' = "idle" /\ result' = "refused" /\ answer' = "refused"
    BY <1>4 DEF Validate, Return, Phase
  <2>4. SqlOutcome(result)' = "failed" /\ ResponseTo(answer)' = Whole!Refusal(500)
    BY <2>3 DEF SqlOutcome, ResponseTo, Whole!Refusal, Whole!Reply
  <2>5. Whole!Respond(Whole!Refusal(500))
    BY <2>3, <2>4 DEF Whole!Respond, Phase
  <2> QED
    BY <1>1, <1>2, <2>2, <2>4, <2>5
       DEF Whole!Validate, Whole!worldVars, Phase, Unanswered, Malformed
<1> QED
  BY <1>3, <1>4

LEMMA ExecuteImplements ==
  ASSUME TypeOK, StageInv, Execute
  PROVE  Whole!Execute
<1>1. Phase = "execute" /\ reply \in {"used", "discarded", "none"}
  BY DEF Execute, StageInv, TypeOK, Phase
<1>2. Path = "SQL" /\ Path' = "SQL" /\ UNCHANGED <<StatementKind, Unanswered, Malformed, database>>
  <2>1. UNCHANGED <<reply, statement, database>>
    BY DEF Execute
  <2> QED
    BY <1>1, <2>1, ViewOfStatement DEF Path
<1>3. PICK r \in {"rows", "unreachable", "erroneous"} :
        /\ Return(r)
        /\ r = "rows" => database # "down"
        /\ r # "rows" => database # "none"
  BY DEF Execute, TypeOK, InMemory, PostgreSQL
<1>4. Phase' = "idle" /\ result' = r /\ answer' = r
  BY <1>3 DEF Return, Phase
<1>5. /\ SqlOutcome(result)' \in {"rows", "errored"}
      /\ SqlOutcome(result)' = "rows" => database # "down"
      /\ SqlOutcome(result)' = "errored" => database # "none"
  BY <1>3, <1>4 DEF SqlOutcome
<1>6. ResponseTo(answer)' = Whole!SqlResponse(SqlOutcome(r))
  <2>1. database' = database
    BY <1>2
  <2> QED
    BY <1>4, <2>1 DEF ResponseTo, Whole!SqlResponse, Whole!Reply, Whole!Synthetic
<1>7. SqlOutcome(result)' = SqlOutcome(r)
  BY <1>4 DEF SqlOutcome
<1> QED
  BY <1>1, <1>2, <1>4, <1>5, <1>6, <1>7
     DEF Whole!Execute, Whole!Respond, Whole!worldVars, Phase, Unanswered, Malformed

LEMMA DatabaseImplements ==
  ASSUME TypeOK, DatabaseChanges
  PROVE  Whole!DatabaseChanges
<1>1. database # "none" /\ database' = IF database = "up" THEN "down" ELSE "up"
  BY DEF DatabaseChanges
<1>2. UNCHANGED <<phase, reply, statement, result, answer>>
  BY DEF DatabaseChanges, queryVars
<1>3. UNCHANGED <<Phase, Path>>
  BY <1>2 DEF Phase, Path
<1>4. UNCHANGED <<StatementKind, Unanswered, Malformed, SqlOutcome(result), ResponseTo(answer)>>
  <2>1. (database = "none") <=> (database' = "none")
    BY <1>1
  <2> QED
    BY <1>2, <2>1, ViewOfStatement, ViewOfAnswer, ViewOfResult
<1> QED
  BY <1>1, <1>3, <1>4 DEF Whole!DatabaseChanges, Whole!branchVars, Phase, Unanswered, Malformed

\* Building a prompt, and a restart between queries, are no steps of QueryPath.
LEMMA HiddenSteps ==
  ASSUME TypeOK, StageInv, BuildPrompt \/ Restart \/ UNCHANGED vars
  PROVE  UNCHANGED Whole!vars
<1>1. UNCHANGED <<reply, statement, result, answer, database>>
  BY DEF BuildPrompt, Restart, vars, queryVars
<1>2. UNCHANGED <<Phase, Path>>
  BY <1>1 DEF BuildPrompt, Restart, vars, queryVars, Phase, Path
<1> QED
  BY <1>1, <1>2, ViewStutters, ViewOfStatement, ViewOfAnswer, ViewOfResult

LEMMA StepImplements == IInv /\ [Next]_vars => [Whole!Next]_(Whole!vars)
<1> SUFFICES ASSUME IInv, [Next]_vars PROVE [Whole!Next]_(Whole!vars)
  OBVIOUS
<1>i. TypeOK /\ StageInv /\ StatementInv
  BY DEF IInv
<1>1. CASE \E q \in Question : Arrive(q)
  <2>1. Whole!Arrive("question", "other")
    BY <1>1, ArriveImplements
  <2> QED
    BY <2>1 DEF Whole!Next, Whole!Roles
<1>2. CASE Routed
  BY <1>i, <1>2, RoutedImplements DEF Whole!Next
<1>3. CASE NoReply \/ Complete
  BY <1>i, <1>3, GenerationImplements DEF Whole!Next
<1>4. CASE Validate
  BY <1>i, <1>4, ValidateImplements DEF Whole!Next
<1>5. CASE Execute
  BY <1>i, <1>5, ExecuteImplements DEF Whole!Next
<1>6. CASE DatabaseChanges
  BY <1>i, <1>6, DatabaseImplements DEF Whole!Next
<1>7. CASE BuildPrompt \/ Restart \/ UNCHANGED vars
  BY <1>i, <1>7, HiddenSteps
<1> QED
  BY <1>1, <1>2, <1>3, <1>4, <1>5, <1>6, <1>7 DEF Next

\* The stages implement what QueryPath leaves open about the SQL branch, for any
\* set of tables.
THEOREM Implements == Spec => ImplementsQueryPath
<1> QED
  BY InitImplements, StepImplements, Invariant, PTL DEF Spec, ImplementsQueryPath, Whole!Spec
==============================================================================
