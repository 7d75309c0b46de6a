---------------------------- MODULE LlmResilience ----------------------------
(***************************************************************************)
(* LLM calls of the API process: model selectors, circuit breakers, cache. *)
(*                                                                         *)
(* The factory builds one ModelSelector per use-site (agents, classifier,  *)
(* SQL generator), each with a breaker of its own per provider.  A call    *)
(* goes down the providers in order, skips those whose breaker is open and *)
(* returns the first answer.  The agents' selector is wrapped in           *)
(* DegradedModeLLM, which keeps the last answer to every prompt.           *)
(*                                                                         *)
(* complete() is synchronous inside a coroutine, so the process runs one   *)
(* call at a time; the clock moves while a provider works on its answer.   *)
(***************************************************************************)
EXTENDS Integers, Sequences

CONSTANTS Selectors,     \* use-sites
          AgentSelector, \* the one wrapped in DegradedModeLLM
          NumProviders,  \* length of every selector's provider list
          MaxFailures,   \* max_failures
          OpenDuration,  \* open_duration_s
          Prompts,       \* query hashes
          Never,         \* opened_at is None
          NoCall,        \* no selector is running
          MaxTime        \* bound on the clock

ASSUME SelectorAssumption  == NoCall \notin Selectors
ASSUME ProviderAssumption  == NumProviders \in Nat \ {0}
ASSUME ThresholdAssumption == MaxFailures \in Nat \ {0}
ASSUME DurationAssumption  == OpenDuration \in Nat
ASSUME NeverAssumption     == Never \notin Nat

Providers == 1..NumProviders

\* A breaker belongs to one selector and one of its providers.
Breakers == Selectors \X Providers

VARIABLES
  now,            \* time.monotonic()
  failure_count,  \* per breaker
  opened_at,      \* per breaker
  gauge,          \* CIRCUIT_BREAKER_STATE, one value per provider label
  selector,       \* the selector whose complete() runs
  prompt,         \* its argument
  slot,           \* the provider its loop has reached
  calling,        \* provider.complete() of that slot has been entered
  cache,          \* prompts that have an answer in the degraded-mode cache
  outcome,        \* how the last call ended
  started,        \* history: when the running call began
  failures        \* history: times of the breaker's consecutive failures

breakerVars == <<failure_count, opened_at, gauge>>
callVars    == <<selector, prompt, slot, calling>>
vars == <<now, breakerVars, callVars, cache, outcome, started, failures>>

TypeOK ==
  /\ now \in Nat
  /\ failure_count \in [Breakers -> Nat]
  /\ opened_at \in [Breakers -> Nat \cup {Never}]
  /\ gauge \in [Providers -> {0, 1}]
  /\ selector \in Selectors \cup {NoCall}
  /\ prompt \in Prompts
  /\ slot \in 1..NumProviders + 1
  /\ calling \in BOOLEAN
  /\ cache \in SUBSET Prompts
  /\ outcome \in {"none", "answer", "cached", "placeholder", "unavailable"}
  /\ started \in Nat
  /\ failures \in [Breakers -> Seq(Nat)]

Init ==
  /\ now = 0
  /\ failure_count = [b \in Breakers |-> 0]
  /\ opened_at = [b \in Breakers |-> Never]
  /\ gauge = [p \in Providers |-> 0]
  /\ selector = NoCall
  /\ prompt \in Prompts
  /\ slot = 1
  /\ calling = FALSE
  /\ cache = {}
  /\ outcome = "none"
  /\ started = 0
  /\ failures = [b \in Breakers |-> <<>>]

------------------------------------------------------------------------------

\* The breaker the loop of the running call has reached.
Here == <<selector, slot>>

\* Mutant: an open breaker never cools down.
BlockingForever(b) == opened_at[b] # Never

\* is_open() while the cooldown has not elapsed.
Blocking(b) == opened_at[b] # Never /\ now - opened_at[b] < OpenDuration

\* Mutants: the reset forgets the count, or the gauge.
CloseKeepingCount(b) ==
  /\ opened_at' = [opened_at EXCEPT ![b] = Never]
  /\ gauge' = [gauge EXCEPT ![b[2]] = 0]
  /\ UNCHANGED failure_count

CloseKeepingGauge(b) ==
  /\ failure_count' = [failure_count EXCEPT ![b] = 0]
  /\ opened_at' = [opened_at EXCEPT ![b] = Never]
  /\ UNCHANGED gauge

Close(b) ==
  /\ failure_count' = [failure_count EXCEPT ![b] = 0]
  /\ opened_at' = [opened_at EXCEPT ![b] = Never]
  /\ gauge' = [gauge EXCEPT ![b[2]] = 0]

\* Mutant: the loop starts before the first provider.
BeginAtZero(s, q) ==
  /\ selector = NoCall
  /\ selector' = s
  /\ prompt' = q
  /\ slot' = 0
  /\ started' = now
  /\ UNCHANGED <<now, breakerVars, calling, cache, outcome, failures>>

Begin(s, q) ==
  /\ selector = NoCall
  /\ selector' = s
  /\ prompt' = q
  /\ slot' = 1
  /\ started' = now
  /\ UNCHANGED <<now, breakerVars, calling, cache, outcome, failures>>

InLoop == selector # NoCall /\ slot \in Providers /\ ~calling

\* The loop skips a provider whose breaker is open.
Skip ==
  /\ InLoop
  /\ Blocking(Here)
  /\ slot' = slot + 1
  /\ UNCHANGED <<now, breakerVars, selector, prompt, calling, cache, outcome, started, failures>>

\* Mutant: the breaker is reset without being asked.
AttemptAlways ==
  /\ InLoop
  /\ Close(Here)
  /\ calling' = TRUE
  /\ UNCHANGED <<now, selector, prompt, slot, cache, outcome, started, failures>>

\* is_open() answers no: the breaker is closed, or its cooldown has elapsed and
\* is_open resets it.
Attempt ==
  /\ InLoop
  /\ ~Blocking(Here)
  /\ IF opened_at[Here] # Never THEN Close(Here) ELSE UNCHANGED breakerVars
  /\ calling' = TRUE
  /\ UNCHANGED <<now, selector, prompt, slot, cache, outcome, started, failures>>

\* record_success, and set_cached for the agents.
Succeed ==
  /\ calling
  /\ Close(Here)
  /\ failures' = [failures EXCEPT ![Here] = <<>>]
  /\ cache' = IF selector = AgentSelector THEN cache \cup {prompt} ELSE cache
  /\ outcome' = "answer"
  /\ calling' = FALSE
  /\ selector' = NoCall
  /\ UNCHANGED <<now, prompt, slot, started>>

\* record_failure, for whatever exception; the loop goes on.
Fail ==
  /\ calling
  /\ failure_count' = [failure_count EXCEPT ![Here] = @ + 1]
  /\ IF failure_count[Here] + 1 >= MaxFailures /\ opened_at[Here] = Never
       THEN /\ opened_at' = [opened_at EXCEPT ![Here] = now]
            /\ gauge' = [gauge EXCEPT ![slot] = 1]
       ELSE UNCHANGED <<opened_at, gauge>>
  /\ failures' = [failures EXCEPT ![Here] = Append(@, now)]
  /\ calling' = FALSE
  /\ slot' = slot + 1
  /\ UNCHANGED <<now, selector, prompt, cache, outcome, started>>

\* All providers exhausted: LLMUnavailableError, which DegradedModeService turns
\* into the cached answer or a placeholder.
GiveUp ==
  /\ selector # NoCall
  /\ slot = NumProviders + 1
  /\ outcome' = IF selector # AgentSelector THEN "unavailable"
                ELSE IF prompt \in cache THEN "cached" ELSE "placeholder"
  /\ selector' = NoCall
  /\ UNCHANGED <<now, breakerVars, prompt, slot, calling, cache, started, failures>>

Tick ==
  /\ now < MaxTime
  /\ now' = now + 1
  /\ UNCHANGED <<breakerVars, callVars, cache, outcome, started, failures>>

Next ==
  \/ \E s \in Selectors, q \in Prompts : Begin(s, q)
  \/ Skip \/ Attempt \/ Succeed \/ Fail \/ GiveUp
  \/ Tick

Spec == Init /\ [][Next]_vars

------------------------------------------------------------------------------
\* Properties.

LastFailure(b) == failures[b][Len(failures[b])]

\* A provider that only fails is left alone: any MaxFailures + 1 failures in a
\* row seen by one selector span at least OpenDuration (circuit_breaker.py), no
\* matter how long the calls take and when the cooldown ends.
FailureBudget ==
  \A b \in Breakers : \A i \in 1..Len(failures[b]) - MaxFailures :
    failures[b][i + MaxFailures] - failures[b][i] >= OpenDuration

\* A breaker is open only after MaxFailures failures with no success between
\* them, counted from the last of them: neither the reset after a cooldown nor
\* another selector's successes and failures confuse the count.
OpenIsEarned ==
  \A b \in Breakers :
    opened_at[b] # Never =>
      Len(failures[b]) >= MaxFailures /\ opened_at[b] = LastFailure(b)

\* A call passes over a provider only for a failure during the call or less than
\* OpenDuration before it: no caller is degraded for an old failure.
PassedOverWithCause ==
  selector # NoCall =>
    \A p \in 1..slot - 1 :
      /\ failures[<<selector, p>>] # <<>>
      /\ \/ LastFailure(<<selector, p>>) >= started
         \/ LastFailure(<<selector, p>>) + OpenDuration > started

\* The gauge of a provider, which the selectors share, shows 1 only while one of
\* their breakers is marked open.
GaugeOneMeansOpened ==
  \A p \in Providers : gauge[p] = 1 => \E s \in Selectors : opened_at[<<s, p>>] # Never

\* The breakers, with their timestamps, lazy reset and shared process, come to the
\* automata of CircuitBreaker: a call enters no breaker that rests, its end reaches
\* the breaker it entered and no other, and a rest that is over leaves nothing behind.
\* An open breaker counts as closed again when its rest is over, though is_open()
\* notices only when it is next asked.
Automata == INSTANCE CircuitBreaker WITH
  count <- [b \in Breakers |-> IF opened_at[b] = Never THEN failure_count[b] ELSE 0],
  rest  <- [b \in Breakers |-> IF Blocking(b) THEN OpenDuration - (now - opened_at[b]) ELSE 0],
  busy  <- IF calling THEN {Here} ELSE {}
ImplementsBreakers == Automata!Spec

------------------------------------------------------------------------------
\* The inductive invariant behind these properties.

\* Failures are recorded in the order of the clock.
OrderedFailures ==
  \A b \in Breakers : \A i, j \in 1..Len(failures[b]) :
    i <= j => failures[b][i] <= failures[b][j] /\ failures[b][j] <= now

\* failure_count counts the failures since the breaker was last reset, and the
\* failure before those is OpenDuration old; an open breaker counted to the
\* threshold, and the last failure opened it.
BatchInv ==
  \A b \in Breakers :
    LET f == failures[b]  c == failure_count[b] IN
    /\ c <= Len(f)
    /\ opened_at[b] = Never => c < MaxFailures /\ (c < Len(f) => now - f[Len(f) - c] >= OpenDuration)
    /\ opened_at[b] # Never => c = MaxFailures /\ opened_at[b] = f[Len(f)]

\* A provider is called through a closed breaker only.
CallInv ==
  /\ calling => selector \in Selectors /\ slot \in Providers /\ opened_at[Here] = Never
  /\ started <= now

IInv ==
  /\ TypeOK /\ OrderedFailures /\ BatchInv /\ CallInv
  /\ FailureBudget /\ PassedOverWithCause /\ GaugeOneMeansOpened
==============================================================================
