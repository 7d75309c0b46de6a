------------------------- MODULE LlmResilienceProofs -------------------------
(***************************************************************************)
(* For any number of selectors, providers, failures and seconds: breakers  *)
(* leave failing providers alone, open only for cause, behave as           *)
(* independent automata, and no call passes over a provider for an old     *)
(* failure.                                                                *)
(***************************************************************************)
EXTENDS LlmResilience, TLAPS

USE ProviderAssumption, ThresholdAssumption, DurationAssumption, NeverAssumption,
    SelectorAssumption
USE DEF breakerVars, callVars, Providers

\* Where the loop of a call is, there is a breaker.
LEMMA HereIsBreaker ==
  ASSUME selector \in Selectors, slot \in Providers
  PROVE  Here \in Breakers /\ Here[2] = slot /\ Here[1] = selector
BY DEF Here, Breakers

\* The breakers of two providers are two breakers.
LEMMA OtherBreaker ==
  ASSUME NEW s \in Selectors, NEW p \in Providers, NEW h \in Breakers, p # h[2]
  PROVE  \E d \in Breakers : d = <<s, p>> /\ d # h
<1>1. <<s, p>> \in Breakers
  BY DEF Breakers
<1>2. <<s, p>>[2] = p
  OBVIOUS
<1>3. <<s, p>> # h
  BY <1>2
<1> QED
  BY <1>1, <1>3

\* Every variable keeps its type.
LEMMA TypeInductive == TypeOK /\ CallInv /\ [Next]_vars => TypeOK'
<1> SUFFICES ASSUME TypeOK, CallInv, [Next]_vars PROVE TypeOK'
  OBVIOUS
<1>1. ASSUME NEW s \in Selectors, NEW q \in Prompts, Begin(s, q) PROVE TypeOK'
  BY <1>1 DEF TypeOK, Begin
<1>2. CASE Skip
  BY <1>2 DEF TypeOK, Skip, InLoop
<1>3. CASE Attempt
  <2>1. PICK b \in Breakers : b = Here /\ b[2] \in Providers
    BY <1>3, HereIsBreaker DEF TypeOK, Attempt, InLoop
  <2>2. CASE Close(b)
    <3>1. /\ failure_count' \in [Breakers -> Nat]
          /\ opened_at' \in [Breakers -> Nat \cup {Never}]
          /\ gauge' \in [Providers -> {0, 1}]
      BY <2>1, <2>2 DEF TypeOK, Close
    <3> QED
      BY <1>3, <3>1 DEF TypeOK, Attempt
  <2>3. CASE UNCHANGED breakerVars
    BY <1>3, <2>3 DEF TypeOK, Attempt
  <2> QED
    BY <1>3, <2>1, <2>2, <2>3 DEF Attempt
<1>4. CASE Succeed
  <2>1. PICK b \in Breakers : b = Here /\ b[2] \in Providers
    BY <1>4, HereIsBreaker DEF Succeed, CallInv
  <2>2. Close(b) /\ failures' = [failures EXCEPT ![b] = <<>>]
    BY <1>4, <2>1 DEF Succeed
  <2>3. /\ failure_count' \in [Breakers -> Nat]
        /\ opened_at' \in [Breakers -> Nat \cup {Never}]
        /\ gauge' \in [Providers -> {0, 1}]
        /\ failures' \in [Breakers -> Seq(Nat)]
    BY <2>1, <2>2 DEF TypeOK, Close
  <2> QED
    BY <1>4, <2>3 DEF TypeOK, Succeed
<1>5. CASE Fail
  <2>1. PICK b \in Breakers : b = Here /\ slot \in Providers
    BY <1>5, HereIsBreaker DEF Fail, CallInv
  <2>2. /\ failure_count' = [failure_count EXCEPT ![b] = @ + 1]
        /\ failures' = [failures EXCEPT ![b] = Append(@, now)]
        /\ UNCHANGED opened_at \/ opened_at' = [opened_at EXCEPT ![b] = now]
        /\ UNCHANGED gauge \/ gauge' = [gauge EXCEPT ![slot] = 1]
    BY <1>5, <2>1 DEF Fail
  <2>3. failures[b] \in Seq(Nat) /\ Append(failures[b], now) \in Seq(Nat)
    BY <2>1 DEF TypeOK
  <2>4. failure_count' \in [Breakers -> Nat] /\ failures' \in [Breakers -> Seq(Nat)]
    BY <2>1, <2>2, <2>3 DEF TypeOK
  <2>5. opened_at' \in [Breakers -> Nat \cup {Never}]
    BY <2>1, <2>2 DEF TypeOK
  <2>6. gauge' \in [Providers -> {0, 1}]
    BY <2>1, <2>2 DEF TypeOK
  <2>7. slot' \in 1..NumProviders + 1
    BY <1>5, <2>1 DEF TypeOK, Fail
  <2> QED
    BY <1>5, <2>4, <2>5, <2>6, <2>7 DEF TypeOK, Fail
<1>6. CASE GiveUp
  BY <1>6 DEF TypeOK, GiveUp
<1>7. CASE Tick
  BY <1>7 DEF TypeOK, Tick
<1>8. CASE UNCHANGED vars
  BY <1>8 DEF TypeOK, vars
<1> QED
  BY <1>1, <1>2, <1>3, <1>4, <1>5, <1>6, <1>7, <1>8 DEF Next

\* A call is where the loop says, and began before now.
LEMMA CallInductive == TypeOK /\ CallInv /\ [Next]_vars => CallInv'
<1> SUFFICES ASSUME TypeOK, CallInv, [Next]_vars PROVE CallInv'
  OBVIOUS
<1>1. ASSUME NEW s \in Selectors, NEW q \in Prompts, Begin(s, q) PROVE CallInv'
  BY <1>1 DEF TypeOK, CallInv, Begin
<1>2. CASE Skip
  BY <1>2 DEF TypeOK, CallInv, Skip, InLoop
<1>3. CASE Attempt
  <2>1. PICK b \in Breakers : b = Here /\ b = Here'
    BY <1>3, HereIsBreaker DEF TypeOK, Attempt, InLoop, Here
  <2>2. opened_at'[b] = Never
    BY <1>3, <2>1 DEF TypeOK, Attempt, Close
  <2> QED
    BY <1>3, <2>1, <2>2 DEF TypeOK, CallInv, Attempt, InLoop
<1>4. CASE Succeed
  BY <1>4 DEF TypeOK, CallInv, Succeed
<1>5. CASE Fail
  BY <1>5 DEF TypeOK, CallInv, Fail
<1>6. CASE GiveUp
  BY <1>6 DEF TypeOK, CallInv, GiveUp
<1>7. CASE Tick
  BY <1>7 DEF TypeOK, CallInv, Tick, Here
<1>8. CASE UNCHANGED vars
  BY <1>8 DEF TypeOK, CallInv, vars, Here
<1> QED
  BY <1>1, <1>2, <1>3, <1>4, <1>5, <1>6, <1>7, <1>8 DEF Next

\* What the proof keeps of one breaker: its failures f, its count c, the time o
\* it opened, and the clock t.
Lawful(f, c, o, t) ==
  /\ \A i, j \in 1..Len(f) : i <= j => f[i] <= f[j] /\ f[j] <= t
  /\ c <= Len(f)
  /\ o = Never => c < MaxFailures /\ (c < Len(f) => t - f[Len(f) - c] >= OpenDuration)
  /\ o # Never => c = MaxFailures /\ o = f[Len(f)]
  /\ \A i \in 1..Len(f) - MaxFailures : f[i + MaxFailures] - f[i] >= OpenDuration

BreakerOK(b) == Lawful(failures[b], failure_count[b], opened_at[b], now)

LEMMA BreakersOK ==
  ASSUME TypeOK
  PROVE  OrderedFailures /\ BatchInv /\ FailureBudget <=> \A b \in Breakers : BreakerOK(b)
BY DEF OrderedFailures, BatchInv, FailureBudget, BreakerOK, Lawful

\* Time alone disturbs no breaker.
LEMMA TimePasses ==
  ASSUME TypeOK, NEW b \in Breakers, BreakerOK(b), now' \in Nat, now' >= now,
         failures'[b] = failures[b], failure_count'[b] = failure_count[b],
         opened_at'[b] = opened_at[b]
  PROVE  BreakerOK(b)'
<1>1. failures[b] \in Seq(Nat) /\ Len(failures[b]) \in Nat /\ failure_count[b] \in Nat /\ now \in Nat
  BY DEF TypeOK
<1>2. \A i \in 1..Len(failures[b]) : failures[b][i] \in Nat
  BY <1>1
<1> DEFINE f == failures[b]
           c == failure_count[b]
           o == opened_at[b]
<1>3. Lawful(f, c, o, now)
  BY DEF BreakerOK
<1>4. /\ f \in Seq(Nat) /\ Len(f) \in Nat /\ c \in Nat /\ now \in Nat
      /\ \A i \in 1..Len(f) : f[i] \in Nat
  BY <1>1, <1>2
<1>5. failures'[b] = f /\ failure_count'[b] = c /\ opened_at'[b] = o
  OBVIOUS
<1> HIDE DEF f, c, o
<1>6. \A i, j \in 1..Len(f) : i <= j => f[i] <= f[j] /\ f[j] <= now'
  BY <1>3, <1>4 DEF Lawful
<1>7. ASSUME o = Never, c < Len(f) PROVE now' - f[Len(f) - c] >= OpenDuration
  <2>1. now - f[Len(f) - c] >= OpenDuration
    BY <1>3, <1>7 DEF Lawful
  <2>2. Len(f) - c \in 1..Len(f)
    BY <1>4, <1>7
  <2>3. f[Len(f) - c] \in Nat
    BY <1>4, <2>2
  <2> QED
    BY <1>4, <2>1, <2>3
<1>8. Lawful(f, c, o, now')
  BY <1>3, <1>6, <1>7 DEF Lawful
<1> QED
  BY <1>5, <1>8 DEF BreakerOK

\* The reset after the cooldown leaves the next batch of failures alone.
LEMMA ResetKeeps ==
  ASSUME TypeOK, NEW b \in Breakers, BreakerOK(b), opened_at[b] # Never, ~Blocking(b),
         failure_count'[b] = 0, opened_at'[b] = Never, failures' = failures, now' = now
  PROVE  BreakerOK(b)'
<1>1. failures[b] \in Seq(Nat) /\ Len(failures[b]) \in Nat /\ now \in Nat
  BY DEF TypeOK
<1>2. \A i \in 1..Len(failures[b]) : failures[b][i] \in Nat
  BY <1>1
<1>3. now - failures[b][Len(failures[b])] >= OpenDuration
  BY <1>1, <1>2 DEF BreakerOK, Lawful, Blocking, TypeOK
<1> QED
  BY <1>1, <1>2, <1>3 DEF BreakerOK, Lawful

\* A failure through a closed breaker stays within the budget.
LEMMA FailureKeeps ==
  ASSUME TypeOK, NEW b \in Breakers, BreakerOK(b), opened_at[b] = Never, now' = now,
         failure_count'[b] = failure_count[b] + 1, failures'[b] = Append(failures[b], now),
         opened_at'[b] = IF failure_count[b] + 1 >= MaxFailures THEN now ELSE Never
  PROVE  BreakerOK(b)'
<1> DEFINE f == failures[b]
           n == Len(f)
           c == failure_count[b]
           g == failures'[b]
<1>1. f \in Seq(Nat) /\ n \in Nat /\ now \in Nat /\ c \in Nat
  BY DEF TypeOK
<1>2. /\ Len(g) = n + 1 /\ g[n + 1] = now
      /\ \A i \in 1..n : g[i] = f[i] /\ f[i] \in Nat
  BY <1>1
<1>len. Len(g) = n + 1
  BY <1>2
<1>0. MaxFailures \in Nat /\ OpenDuration \in Nat
  BY ThresholdAssumption, DurationAssumption
<1>3. c <= n /\ c < MaxFailures
  BY DEF BreakerOK, Lawful
<1>order. \A i, j \in 1..n : i <= j => f[i] <= f[j] /\ f[j] <= now
  BY DEF BreakerOK, Lawful
<1>batch. c < n => now - f[n - c] >= OpenDuration
  BY DEF BreakerOK, Lawful
<1>budget. \A i \in 1..n - MaxFailures : f[i + MaxFailures] - f[i] >= OpenDuration
  BY DEF BreakerOK, Lawful
<1>9. /\ failures'[b] = g /\ failure_count'[b] = c + 1 /\ now' = now
      /\ opened_at'[b] = IF c + 1 >= MaxFailures THEN now ELSE Never
  OBVIOUS
<1> HIDE DEF f, n, c, g
<1>4. ASSUME NEW i \in 1..n + 1, NEW j \in 1..n + 1, i <= j
      PROVE  g[i] <= g[j] /\ g[j] <= now
  <2>1. CASE j \in 1..n
    <3>1. i \in 1..n
      BY <1>1, <1>4, <2>1
    <3>2. g[i] = f[i] /\ g[j] = f[j]
      BY <1>2, <2>1, <3>1
    <3>3. f[i] <= f[j] /\ f[j] <= now
      BY <1>order, <1>4, <2>1, <3>1
    <3> QED
      BY <3>2, <3>3
  <2>2. CASE j = n + 1 /\ i \in 1..n
    <3>1. f[i] <= now
      BY <1>1, <1>order, <2>2
    <3> QED
      BY <1>1, <1>2, <2>2, <3>1
  <2>3. CASE j = n + 1 /\ i = n + 1
    BY <1>1, <1>2, <2>3
  <2> QED
    BY <1>1, <2>1, <2>2, <2>3
<1>5. ASSUME NEW i \in 1..n + 1 - MaxFailures
      PROVE  g[i + MaxFailures] - g[i] >= OpenDuration
  <2>0. i \in Nat /\ i >= 1 /\ i + MaxFailures <= n + 1
    BY <1>0, <1>1, <1>5
  <2>1. CASE i + MaxFailures <= n
    <3>1. i \in 1..n /\ i + MaxFailures \in 1..n /\ i \in 1..n - MaxFailures
      BY <1>0, <1>1, <2>0, <2>1
    <3>2. f[i + MaxFailures] - f[i] >= OpenDuration
      BY <1>budget, <3>1
    <3>3. g[i + MaxFailures] = f[i + MaxFailures] /\ g[i] = f[i]
      BY <1>2, <3>1
    <3> QED
      BY <3>2, <3>3
  <2>2. CASE i + MaxFailures = n + 1
    <3>1. i <= n - c /\ n - c \in 1..n /\ c < n /\ i \in 1..n
      BY <1>0, <1>1, <1>3, <2>0, <2>2
    <3>2. f[i] \in Nat /\ f[n - c] \in Nat
      BY <1>2, <3>1
    <3>3. f[i] <= f[n - c]
      BY <1>order, <3>1
    <3>4. now - f[n - c] >= OpenDuration
      BY <1>batch, <3>1
    <3>5. g[i + MaxFailures] = now
      BY <1>2, <2>2
    <3>6. g[i] = f[i]
      BY <1>2, <3>1
    <3>7. now - f[i] >= OpenDuration
      BY <1>0, <1>1, <3>2, <3>3, <3>4
    <3> QED
      BY <3>5, <3>6, <3>7
  <2> QED
    BY <1>0, <1>1, <2>0, <2>1, <2>2
<1>6. ASSUME c < n PROVE now - g[n - c] >= OpenDuration
  <2>1. n - c \in 1..n
    BY <1>1, <1>6
  <2>2. g[n - c] = f[n - c]
    BY <1>2, <2>1
  <2> QED
    BY <1>batch, <1>6, <2>2
<1>7. c + 1 <= n + 1 /\ (c + 1 >= MaxFailures => c + 1 = MaxFailures) /\ now # Never
  BY <1>0, <1>1, <1>3, NeverAssumption
<1>sorted. \A i, j \in 1..n + 1 : i <= j => g[i] <= g[j] /\ g[j] <= now
  BY <1>4
<1>12. \A i, j \in 1..Len(g) : i <= j => g[i] <= g[j] /\ g[j] <= now
  <2>1. 1..Len(g) = 1..n + 1
    BY <1>len
  <2> QED
    BY <1>sorted, <2>1
<1>13. \A i \in 1..Len(g) - MaxFailures : g[i + MaxFailures] - g[i] >= OpenDuration
  <2> SUFFICES ASSUME NEW i \in 1..Len(g) - MaxFailures
               PROVE  g[i + MaxFailures] - g[i] >= OpenDuration
    OBVIOUS
  <2>1. i \in 1..n + 1 - MaxFailures
    BY <1>0, <1>1, <1>len
  <2> QED
    BY <1>5, <2>1, Zenon
<1>14. c + 1 < Len(g) => now - g[Len(g) - (c + 1)] >= OpenDuration
  <2>1. Len(g) - (c + 1) = n - c /\ (c + 1 < Len(g) => c < n)
    BY <1>1, <1>len
  <2> QED
    BY <1>6, <2>1
<1>15. c + 1 <= Len(g)
  BY <1>1, <1>7, <1>len
<1>10. CASE c + 1 >= MaxFailures
  <2>1. c + 1 = MaxFailures /\ now = g[Len(g)] /\ now # Never
    BY <1>2, <1>len, <1>7, <1>10
  <2>2. Lawful(g, c + 1, now, now)
    BY <1>12, <1>13, <1>15, <2>1 DEF Lawful
  <2> QED
    BY <1>9, <1>10, <2>2 DEF BreakerOK
<1>11. CASE ~(c + 1 >= MaxFailures)
  <2>1. c + 1 < MaxFailures
    BY <1>0, <1>1, <1>11
  <2>2. Lawful(g, c + 1, Never, now)
    BY <1>12, <1>13, <1>14, <1>15, <2>1 DEF Lawful
  <2> QED
    BY <1>9, <1>11, <2>2 DEF BreakerOK
<1> QED
  BY <1>10, <1>11

\* No step takes a breaker out of its law.
LEMMA BreakersInductive ==
  ASSUME TypeOK, CallInv, \A b \in Breakers : BreakerOK(b), [Next]_vars
  PROVE  \A b \in Breakers : BreakerOK(b)'
<1> SUFFICES ASSUME NEW b \in Breakers PROVE BreakerOK(b)'
  OBVIOUS
<1>0. BreakerOK(b) /\ now \in Nat
  BY DEF TypeOK
<1>1. ASSUME NEW s \in Selectors, NEW q \in Prompts, Begin(s, q) PROVE BreakerOK(b)'
  BY <1>0, <1>1, TimePasses DEF Begin
<1>2. CASE Skip
  BY <1>0, <1>2, TimePasses DEF Skip
<1>3. CASE Attempt
  <2>1. PICK h \in Breakers : h = Here
    BY <1>3, HereIsBreaker DEF TypeOK, Attempt, InLoop
  <2>2. now' = now /\ failures' = failures /\ ~Blocking(h)
    BY <1>3, <2>1 DEF Attempt
  <2>3. CASE opened_at[h] # Never
    <3>1. /\ failure_count' = [failure_count EXCEPT ![h] = 0]
          /\ opened_at' = [opened_at EXCEPT ![h] = Never]
      BY <1>3, <2>1, <2>3 DEF Attempt, Close
    <3>2. CASE b = h
      <4>1. failure_count'[b] = 0 /\ opened_at'[b] = Never
        BY <3>1, <3>2 DEF TypeOK
      <4> QED
        BY <1>0, <2>2, <2>3, <3>2, <4>1, ResetKeeps
    <3>3. CASE b # h
      <4>1. failure_count'[b] = failure_count[b] /\ opened_at'[b] = opened_at[b]
        BY <3>1, <3>3 DEF TypeOK
      <4> QED
        BY <1>0, <2>2, <4>1, TimePasses
    <3> QED
      BY <3>2, <3>3
  <2>4. CASE opened_at[h] = Never
    <3>1. UNCHANGED breakerVars
      BY <1>3, <2>1, <2>4 DEF Attempt
    <3> QED
      BY <1>0, <2>2, <3>1, TimePasses
  <2> QED
    BY <2>3, <2>4
<1>4. CASE Succeed
  <2>1. PICK h \in Breakers : h = Here
    BY <1>4, HereIsBreaker DEF Succeed, CallInv
  <2>2. /\ now' = now
        /\ failure_count' = [failure_count EXCEPT ![h] = 0]
        /\ opened_at' = [opened_at EXCEPT ![h] = Never]
        /\ failures' = [failures EXCEPT ![h] = <<>>]
    BY <1>4, <2>1 DEF Succeed, Close
  <2>3. CASE b = h
    <3>1. failure_count'[b] = 0 /\ opened_at'[b] = Never /\ failures'[b] = <<>>
      BY <2>2, <2>3 DEF TypeOK
    <3>2. Len(<<>>) = 0
      OBVIOUS
    <3>3. Lawful(<<>>, 0, Never, now')
      BY <3>2 DEF Lawful
    <3> QED
      BY <3>1, <3>3 DEF BreakerOK
  <2>4. CASE b # h
    <3>1. /\ failure_count'[b] = failure_count[b] /\ opened_at'[b] = opened_at[b]
          /\ failures'[b] = failures[b]
      BY <2>2, <2>4 DEF TypeOK
    <3> QED
      BY <1>0, <2>2, <3>1, TimePasses
  <2> QED
    BY <2>3, <2>4
<1>5. CASE Fail
  <2>1. PICK h \in Breakers : h = Here
    BY <1>5, HereIsBreaker DEF Fail, CallInv
  <2>2. /\ now' = now
        /\ opened_at[h] = Never
        /\ failure_count' = [failure_count EXCEPT ![h] = @ + 1]
        /\ failures' = [failures EXCEPT ![h] = Append(@, now)]
    BY <1>5, <2>1 DEF Fail, CallInv
  <2>3. opened_at' = IF failure_count[h] + 1 >= MaxFailures
                       THEN [opened_at EXCEPT ![h] = now] ELSE opened_at
    BY <1>5, <2>1, <2>2 DEF Fail
  <2>4. CASE b = h
    <3>1. /\ failure_count'[b] = failure_count[b] + 1
          /\ failures'[b] = Append(failures[b], now)
      BY <2>2, <2>4 DEF TypeOK
    <3>2. opened_at'[b] = IF failure_count[b] + 1 >= MaxFailures THEN now ELSE Never
      BY <2>2, <2>3, <2>4 DEF TypeOK
    <3> QED
      BY <1>0, <2>2, <2>4, <3>1, <3>2, FailureKeeps
  <2>5. CASE b # h
    <3>1. failure_count'[b] = failure_count[b] /\ failures'[b] = failures[b]
      BY <2>2, <2>5 DEF TypeOK
    <3>2. opened_at'[b] = opened_at[b]
      BY <2>3, <2>5 DEF TypeOK
    <3> QED
      BY <1>0, <2>2, <3>1, <3>2, TimePasses
  <2> QED
    BY <2>4, <2>5
<1>6. CASE GiveUp
  BY <1>0, <1>6, TimePasses DEF GiveUp
<1>7. CASE Tick
  BY <1>0, <1>7, TimePasses DEF Tick
<1>8. CASE UNCHANGED vars
  BY <1>0, <1>8, TimePasses DEF vars
<1> QED
  BY <1>1, <1>2, <1>3, <1>4, <1>5, <1>6, <1>7, <1>8 DEF Next

\* What the proof keeps of one provider p that the call has passed.
PassedOK(p) ==
  /\ failures[<<selector, p>>] # <<>>
  /\ \/ LastFailure(<<selector, p>>) >= started
     \/ LastFailure(<<selector, p>>) + OpenDuration > started

\* An open breaker is one that has failed.
LEMMA OpenHasFailed ==
  ASSUME TypeOK, NEW b \in Breakers, BreakerOK(b), opened_at[b] # Never
  PROVE  failures[b] # <<>> /\ opened_at[b] = LastFailure(b) /\ Len(failures[b]) >= MaxFailures
<1>1. failures[b] \in Seq(Nat) /\ Len(failures[b]) \in Nat
  BY DEF TypeOK
<1>2. MaxFailures <= Len(failures[b]) /\ opened_at[b] = failures[b][Len(failures[b])]
  BY DEF BreakerOK, Lawful
<1> QED
  BY <1>1, <1>2 DEF LastFailure

\* What a breaker appends is the last failure it holds.
LEMMA AppendIsLast ==
  ASSUME NEW s \in Seq(Nat), NEW n \in Nat
  PROVE  Append(s, n) # <<>> /\ Append(s, n)[Len(Append(s, n))] = n
<1>1. Len(Append(s, n)) = Len(s) + 1 /\ Append(s, n)[Len(s) + 1] = n
  OBVIOUS
<1>2. Len(s) + 1 # 0
  OBVIOUS
<1> QED
  BY <1>1, <1>2

\* A call leaves no provider behind without a recent failure of it.
LEMMA PassedOverInductive ==
  ASSUME TypeOK, CallInv, \A b \in Breakers : BreakerOK(b), PassedOverWithCause, [Next]_vars
  PROVE  PassedOverWithCause'
<1> SUFFICES ASSUME selector' # NoCall, NEW p \in 1..slot' - 1 PROVE PassedOK(p)'
  BY DEF PassedOverWithCause, PassedOK
<1>0. ASSUME selector # NoCall, NEW r \in 1..slot - 1 PROVE PassedOK(r)
  BY <1>0 DEF PassedOverWithCause, PassedOK
<1>1. ASSUME NEW s \in Selectors, NEW q \in Prompts, Begin(s, q) PROVE PassedOK(p)'
  BY <1>1 DEF Begin
<1>2. CASE Skip
  <2>1. PICK h \in Breakers : h = Here /\ h = <<selector, slot>>
    BY <1>2, HereIsBreaker DEF TypeOK, Skip, InLoop, Here
  <2>2. UNCHANGED <<selector, started, failures>> /\ slot' = slot + 1 /\ selector # NoCall
    BY <1>2 DEF Skip, InLoop
  <2>3. PassedOK(p)
    <3>1. CASE p \in 1..slot - 1
      BY <1>0, <2>2, <3>1
    <3>2. CASE p = slot
      <4>1. opened_at[h] # Never /\ now - opened_at[h] < OpenDuration
        BY <1>2, <2>1 DEF Skip, Blocking
      <4>2. failures[h] # <<>> /\ opened_at[h] = LastFailure(h)
        BY <4>1, OpenHasFailed
      <4>3. opened_at[h] \in Nat /\ now \in Nat /\ started \in Nat /\ started <= now
        BY <4>1 DEF TypeOK, CallInv
      <4>4. LastFailure(h) + OpenDuration > started
        BY <4>1, <4>2, <4>3
      <4> QED
        BY <2>1, <3>2, <4>2, <4>4 DEF PassedOK
    <3> QED
      BY <2>2, <3>1, <3>2 DEF TypeOK
  <2> QED
    BY <2>2, <2>3 DEF PassedOK, LastFailure
<1>3. CASE Attempt
  <2>1. UNCHANGED <<selector, started, failures, slot>> /\ selector # NoCall
    BY <1>3 DEF Attempt, InLoop
  <2>2. PassedOK(p)
    BY <1>0, <2>1
  <2> QED
    BY <2>1, <2>2 DEF PassedOK, LastFailure
<1>4. CASE Succeed
  BY <1>4 DEF Succeed
<1>5. CASE Fail
  <2>1. PICK h \in Breakers : h = Here /\ h = <<selector, slot>>
    BY <1>5, HereIsBreaker DEF Fail, CallInv, Here
  <2>2. /\ UNCHANGED <<selector, started, now>> /\ slot' = slot + 1
        /\ failures' = [failures EXCEPT ![h] = Append(@, now)]
    BY <1>5, <2>1 DEF Fail
  <2>3. selector \in Selectors /\ selector # NoCall /\ slot \in Providers /\ started <= now
    BY <1>5 DEF Fail, CallInv
  <2>4. CASE p \in 1..slot - 1
    <3>1. PassedOK(p)
      BY <1>0, <2>3, <2>4
    <3>2. failures'[<<selector, p>>] = failures[<<selector, p>>]
      <4>1. PICK d \in Breakers : d = <<selector, p>> /\ d # h
        <5>1. p \in Providers /\ p # h[2]
          BY <2>1, <2>3, <2>4
        <5> QED
          BY <2>3, <5>1, OtherBreaker
      <4> QED
        BY <2>2, <4>1 DEF TypeOK
    <3> QED
      BY <2>2, <3>1, <3>2 DEF PassedOK, LastFailure
  <2>5. CASE p = slot
    <3>1. failures'[h] = Append(failures[h], now)
      BY <2>2 DEF TypeOK
    <3>2. failures[h] \in Seq(Nat) /\ now \in Nat /\ started \in Nat
      BY DEF TypeOK
    <3>3. failures'[h] # <<>> /\ failures'[h][Len(failures'[h])] = now
      BY <3>1, <3>2, AppendIsLast
    <3>4. failures'[<<selector', p>>] = failures'[h] /\ started' <= now
      BY <2>1, <2>2, <2>3, <2>5
    <3>5. LastFailure(<<selector, p>>)' = now
      BY <2>1, <2>2, <2>5, <3>3 DEF LastFailure
    <3> QED
      BY <3>2, <3>3, <3>4, <3>5 DEF PassedOK
  <2> QED
    BY <2>2, <2>3, <2>4, <2>5
<1>6. CASE GiveUp
  BY <1>6 DEF GiveUp
<1>7. CASE Tick
  <2>1. UNCHANGED <<selector, started, failures, slot>>
    BY <1>7 DEF Tick
  <2>2. PassedOK(p)
    BY <1>0, <2>1
  <2> QED
    BY <2>1, <2>2 DEF PassedOK, LastFailure
<1>8. CASE UNCHANGED vars
  <2>1. UNCHANGED <<selector, started, failures, slot>>
    BY <1>8 DEF vars
  <2>2. PassedOK(p)
    BY <1>0, <2>1
  <2> QED
    BY <2>1, <2>2 DEF PassedOK, LastFailure
<1> QED
  BY <1>1, <1>2, <1>3, <1>4, <1>5, <1>6, <1>7, <1>8 DEF Next

\* Closing a breaker clears the gauge of its provider and leaves the others'.
LEMMA CloseKeepsGauge ==
  ASSUME TypeOK, GaugeOneMeansOpened, NEW h \in Breakers, Close(h)
  PROVE  GaugeOneMeansOpened'
<1> SUFFICES ASSUME NEW p \in Providers, gauge'[p] = 1
             PROVE  \E s \in Selectors : opened_at'[<<s, p>>] # Never
  BY DEF GaugeOneMeansOpened
<1>1. h[2] \in Providers
  BY DEF Breakers
<1>2. p # h[2] /\ gauge[p] = 1
  BY <1>1 DEF Close, TypeOK
<1>3. PICK s \in Selectors : opened_at[<<s, p>>] # Never
  BY <1>2 DEF GaugeOneMeansOpened
<1>4. PICK d \in Breakers : d = <<s, p>> /\ d # h
  BY <1>2, OtherBreaker
<1>5. opened_at'[d] = opened_at[d]
  BY <1>4 DEF Close, TypeOK
<1> QED
  BY <1>3, <1>4, <1>5

\* The gauge shows 1 only for a breaker that is marked open.
LEMMA GaugeInductive ==
  ASSUME TypeOK, CallInv, GaugeOneMeansOpened, [Next]_vars
  PROVE  GaugeOneMeansOpened'
<1>0. ASSUME UNCHANGED <<gauge, opened_at>> PROVE GaugeOneMeansOpened'
  BY <1>0 DEF GaugeOneMeansOpened
<1>1. ASSUME NEW s \in Selectors, NEW q \in Prompts, Begin(s, q) PROVE GaugeOneMeansOpened'
  BY <1>0, <1>1 DEF Begin
<1>2. CASE Skip
  BY <1>0, <1>2 DEF Skip
<1>3. CASE Attempt
  <2>1. PICK h \in Breakers : h = Here
    BY <1>3, HereIsBreaker DEF TypeOK, Attempt, InLoop
  <2>2. CASE Close(h)
    BY <2>2, CloseKeepsGauge
  <2>3. CASE UNCHANGED breakerVars
    BY <1>0, <2>3
  <2> QED
    BY <1>3, <2>1, <2>2, <2>3 DEF Attempt
<1>4. CASE Succeed
  <2>1. PICK h \in Breakers : h = Here
    BY <1>4, HereIsBreaker DEF Succeed, CallInv
  <2> QED
    BY <1>4, <2>1, CloseKeepsGauge DEF Succeed
<1>5. CASE Fail
  <2>1. PICK h \in Breakers : h = Here /\ h = <<selector, slot>>
    BY <1>5, HereIsBreaker DEF Fail, CallInv, Here
  <2>2. CASE opened_at' = [opened_at EXCEPT ![h] = now] /\ gauge' = [gauge EXCEPT ![slot] = 1]
    <3> SUFFICES ASSUME NEW p \in Providers, gauge'[p] = 1
                 PROVE  \E s \in Selectors : opened_at'[<<s, p>>] # Never
      BY DEF GaugeOneMeansOpened
    <3>1. opened_at'[h] = now /\ now # Never /\ selector \in Selectors
      BY <1>5, <2>2 DEF TypeOK, CallInv, Fail
    <3>2. CASE p = slot
      BY <2>1, <3>1, <3>2
    <3>3. CASE p # slot
      <4>1. gauge[p] = 1
        BY <2>2, <3>3 DEF TypeOK
      <4>2. PICK s \in Selectors : opened_at[<<s, p>>] # Never
        BY <4>1 DEF GaugeOneMeansOpened
      <4>3. PICK d \in Breakers : d = <<s, p>> /\ d # h
        <5>1. p # h[2]
          BY <2>1, <3>3
        <5> QED
          BY <5>1, OtherBreaker
      <4>4. opened_at'[d] = opened_at[d]
        BY <2>2, <4>3 DEF TypeOK
      <4> QED
        BY <4>2, <4>3, <4>4
    <3> QED
      BY <3>2, <3>3
  <2>3. CASE UNCHANGED <<opened_at, gauge>>
    BY <1>0, <2>3
  <2> QED
    BY <1>5, <2>1, <2>2, <2>3 DEF Fail
<1>6. CASE GiveUp
  BY <1>0, <1>6 DEF GiveUp
<1>7. CASE Tick
  BY <1>0, <1>7 DEF Tick
<1>8. CASE UNCHANGED vars
  BY <1>0, <1>8 DEF vars
<1> QED
  BY <1>1, <1>2, <1>3, <1>4, <1>5, <1>6, <1>7, <1>8 DEF Next

LEMMA InitInvariant == Init => IInv
<1> SUFFICES ASSUME Init PROVE IInv
  OBVIOUS
<1>1. TypeOK
  <2>1. slot \in 1..NumProviders + 1 /\ <<>> \in Seq(Nat) /\ now \in Nat /\ started \in Nat
    BY DEF Init
  <2>2. failures \in [Breakers -> Seq(Nat)] /\ failure_count \in [Breakers -> Nat]
    BY <2>1 DEF Init
  <2> QED
    BY <2>1, <2>2 DEF Init, TypeOK
<1>2. \A b \in Breakers : BreakerOK(b)
  <2> SUFFICES ASSUME NEW b \in Breakers PROVE BreakerOK(b)
    OBVIOUS
  <2>1. failures[b] = <<>> /\ failure_count[b] = 0 /\ opened_at[b] = Never /\ Len(<<>>) = 0
    BY DEF Init
  <2>2. Lawful(<<>>, 0, Never, now)
    BY <2>1 DEF Lawful
  <2> QED
    BY <2>1, <2>2 DEF BreakerOK
<1>3. CallInv /\ PassedOverWithCause /\ GaugeOneMeansOpened
  BY DEF Init, CallInv, PassedOverWithCause, GaugeOneMeansOpened
<1> QED
  BY <1>1, <1>2, <1>3, BreakersOK DEF IInv

LEMMA StepInvariant == IInv /\ [Next]_vars => IInv'
<1> SUFFICES ASSUME IInv, [Next]_vars PROVE IInv'
  OBVIOUS
<1>1. /\ TypeOK /\ CallInv /\ PassedOverWithCause /\ GaugeOneMeansOpened
      /\ \A b \in Breakers : BreakerOK(b)
  BY BreakersOK DEF IInv
<1>2. TypeOK'
  BY <1>1, TypeInductive
<1>3. CallInv'
  BY <1>1, CallInductive
<1>4. (\A b \in Breakers : BreakerOK(b))'
  <2>1. \A b \in Breakers : BreakerOK(b)'
    BY <1>1, BreakersInductive
  <2> QED
    BY <2>1 DEF Breakers
<1>5. (OrderedFailures /\ BatchInv /\ FailureBudget)'
  BY <1>2, <1>4, BreakersOK, PTL
<1>6. PassedOverWithCause' /\ GaugeOneMeansOpened'
  BY <1>1, PassedOverInductive, GaugeInductive
<1> QED
  BY <1>2, <1>3, <1>5, <1>6 DEF IInv

\* In every reachable state the inductive invariant holds (circuit_breaker.py
\* with model_selector.py's loop).
THEOREM Invariance == Spec => []IInv
  BY InitInvariant, StepInvariant, PTL DEF Spec

\* Every variable keeps its type.
THEOREM TypeCorrectness == Spec => []TypeOK
<1>1. IInv => TypeOK
  BY DEF IInv
<1> QED
  BY <1>1, Invariance, PTL

\* max_failures and open_duration_s bound the rate at which a selector calls a
\* provider that only fails, whatever the calls and the clock do between.
THEOREM FailuresAreBudgeted == Spec => []FailureBudget
<1>1. IInv => FailureBudget
  BY DEF IInv
<1> QED
  BY <1>1, Invariance, PTL

\* A breaker is open only for a full run of failures that ended at opened_at.
THEOREM OpeningIsEarned == Spec => []OpenIsEarned
<1>1. IInv => OpenIsEarned
  <2> SUFFICES ASSUME IInv, NEW b \in Breakers, opened_at[b] # Never
               PROVE  Len(failures[b]) >= MaxFailures /\ opened_at[b] = LastFailure(b)
    BY DEF OpenIsEarned
  <2>1. TypeOK /\ BreakerOK(b)
    BY BreakersOK DEF IInv
  <2> QED
    BY <2>1, OpenHasFailed
<1> QED
  BY <1>1, Invariance, PTL

\* complete() passes over a provider only for a recent failure of it.
THEOREM PassingOverHasCause == Spec => []PassedOverWithCause
<1>1. IInv => PassedOverWithCause
  BY DEF IInv
<1> QED
  BY <1>1, Invariance, PTL

\* CIRCUIT_BREAKER_STATE raises no false alarm.
THEOREM GaugeIsNoFalseAlarm == Spec => []GaugeOneMeansOpened
<1>1. IInv => GaugeOneMeansOpened
  BY DEF IInv
<1> QED
  BY <1>1, Invariance, PTL

------------------------------------------------------------------------------
\* The breakers against the automata of CircuitBreaker.

\* What the refinement mapping makes of one breaker.
Count(b) == IF opened_at[b] = Never THEN failure_count[b] ELSE 0
Rest(b)  == IF Blocking(b) THEN OpenDuration - (now - opened_at[b]) ELSE 0

Counts == [b \in Breakers |-> Count(b)]
Rests  == [b \in Breakers |-> Rest(b)]
Busy   == IF calling THEN {Here} ELSE {}

\* The actions of the automata, read through the mapping.
LEMMA MappedActions ==
  ASSUME NEW h \in Breakers
  PROVE  /\ Automata!Enter(h) <=> /\ Busy = {} /\ Rests[h] = 0 /\ Busy' = {h}
                                 /\ Counts' = Counts /\ Rests' = Rests
         /\ Automata!Success(h) <=> /\ h \in Busy /\ Counts' = [Counts EXCEPT ![h] = 0]
                                   /\ Busy' = {} /\ Rests' = Rests
         /\ Automata!Failure(h) <=>
              /\ h \in Busy
              /\ \/ /\ Counts[h] + 1 < MaxFailures
                    /\ Counts' = [Counts EXCEPT ![h] = @ + 1]
                    /\ Rests' = Rests
                 \/ /\ Counts[h] + 1 >= MaxFailures
                    /\ Counts' = [Counts EXCEPT ![h] = 0]
                    /\ Rests' = [Rests EXCEPT ![h] = OpenDuration]
              /\ Busy' = {}
BY DEF Automata!Enter, Automata!Success, Automata!Failure, Counts, Rests, Busy, Count, Rest

LEMMA MappedSecond ==
  Automata!Second <=> /\ Rests' = [b \in Breakers |-> IF Rests[b] = 0 THEN 0 ELSE Rests[b] - 1]
                      /\ Counts' = Counts /\ Busy' = Busy
  BY DEF Automata!Second, Counts, Rests, Busy, Count, Rest

LEMMA MappedVars ==
  UNCHANGED Automata!breakers <=> Counts' = Counts /\ Rests' = Rests /\ Busy' = Busy
  BY DEF Automata!breakers, Counts, Rests, Busy, Count, Rest

\* Whoever touches no breaker and no clock leaves the automata alone.
LEMMA AutomataRest ==
  ASSUME UNCHANGED <<now, breakerVars>>
  PROVE  Counts' = Counts /\ Rests' = Rests
BY DEF Counts, Rests, Count, Rest, Blocking, Breakers

\* Whoever touches one breaker leaves the others' automata alone.
LEMMA OthersRest ==
  ASSUME NEW h \in Breakers, now' = now,
         \A b \in Breakers \ {h} : failure_count'[b] = failure_count[b] /\ opened_at'[b] = opened_at[b]
  PROVE  \A b \in Breakers \ {h} : Counts'[b] = Counts[b] /\ Rests'[b] = Rests[b]
<1> SUFFICES ASSUME NEW b \in Breakers \ {h}
             PROVE  Counts'[b] = Counts[b] /\ Rests'[b] = Rests[b]
  OBVIOUS
<1>1. failure_count'[b] = failure_count[b] /\ opened_at'[b] = opened_at[b]
  OBVIOUS
<1>2. Counts'[b] = Counts[b]
  BY <1>1 DEF Counts, Count, Breakers
<1>3. Rests'[b] = Rests[b]
  BY <1>1 DEF Rests, Rest, Blocking, Breakers
<1> QED
  BY <1>2, <1>3

\* Functions on the breakers that agree but on h, in the form the automata use.
LEMMA Updated ==
  ASSUME NEW F, NEW G, NEW h \in Breakers, NEW x,
         F = [b \in Breakers |-> F[b]], G = [b \in Breakers |-> G[b]],
         G[h] = x, \A b \in Breakers \ {h} : G[b] = F[b]
  PROVE  G = [F EXCEPT ![h] = x]
OBVIOUS

LEMMA MappedTyped ==
  /\ Counts = [b \in Breakers |-> Counts[b]] /\ Rests = [b \in Breakers |-> Rests[b]]
  /\ Counts' = [b \in Breakers |-> Counts'[b]] /\ Rests' = [b \in Breakers |-> Rests'[b]]
BY DEF Counts, Rests, Breakers

LEMMA MappedAt ==
  ASSUME NEW b \in Breakers
  PROVE  Counts[b] = Count(b) /\ Rests[b] = Rest(b) /\ Counts'[b] = Count(b)' /\ Rests'[b] = Rest(b)'
BY DEF Counts, Rests, Count, Rest, Blocking, Breakers

\* A call enters a breaker that does not rest.
LEMMA AttemptEnters == TypeOK /\ CallInv /\ Attempt => \E b \in Breakers : Automata!Enter(b)
<1> SUFFICES ASSUME TypeOK, CallInv, Attempt PROVE \E b \in Breakers : Automata!Enter(b)
  OBVIOUS
<1>1. PICK h \in Breakers : h = Here /\ h = Here'
  BY HereIsBreaker DEF TypeOK, Attempt, InLoop, Here
<1>2. Busy = {} /\ Busy' = {h} /\ now' = now
  BY <1>1 DEF Busy, Attempt, InLoop
<1>3. ~Blocking(h)
  BY <1>1 DEF Attempt
<1>4. Rests[h] = 0
  BY <1>3 DEF Rests, Rest
<1>5. CASE opened_at[h] # Never
  <2>1. Close(h)
    BY <1>1, <1>5 DEF Attempt
  <2>2. /\ failure_count'[h] = 0 /\ opened_at'[h] = Never
        /\ \A b \in Breakers \ {h} : failure_count'[b] = failure_count[b] /\ opened_at'[b] = opened_at[b]
    BY <2>1 DEF Close, TypeOK
  <2>3. Counts'[h] = 0 /\ Rests'[h] = 0 /\ Counts[h] = 0
    BY <1>5, <2>2, MappedAt DEF Count, Rest, Blocking
  <2>4. \A b \in Breakers \ {h} : Counts'[b] = Counts[b] /\ Rests'[b] = Rests[b]
    BY <1>2, <2>2, OthersRest
  <2>5. \A b \in Breakers : Counts'[b] = Counts[b] /\ Rests'[b] = Rests[b]
    BY <1>4, <2>3, <2>4
  <2> QED
    BY <1>2, <1>4, <2>5, MappedActions, MappedTyped
<1>6. CASE opened_at[h] = Never
  <2>1. UNCHANGED <<now, breakerVars>>
    BY <1>1, <1>2, <1>6 DEF Attempt
  <2> QED
    BY <1>2, <1>4, <2>1, AutomataRest, MappedActions
<1> QED
  BY <1>5, <1>6

\* An answer closes the breaker the call went through, and no other.
LEMMA SucceedCloses == TypeOK /\ CallInv /\ Succeed => \E b \in Breakers : Automata!Success(b)
<1> SUFFICES ASSUME TypeOK, CallInv, Succeed PROVE \E b \in Breakers : Automata!Success(b)
  OBVIOUS
<1>1. PICK h \in Breakers : h = Here
  BY HereIsBreaker DEF Succeed, CallInv
<1>2. h \in Busy /\ Busy' = {} /\ now' = now /\ opened_at[h] = Never /\ Close(h)
  BY <1>1 DEF Busy, Succeed, CallInv
<1>3. /\ failure_count'[h] = 0 /\ opened_at'[h] = Never
      /\ \A b \in Breakers \ {h} : failure_count'[b] = failure_count[b] /\ opened_at'[b] = opened_at[b]
  BY <1>2 DEF Close, TypeOK
<1>4. Counts'[h] = 0 /\ Rests'[h] = 0 /\ Rests[h] = 0
  BY <1>2, <1>3, MappedAt DEF Count, Rest, Blocking
<1>5. \A b \in Breakers \ {h} : Counts'[b] = Counts[b] /\ Rests'[b] = Rests[b]
  BY <1>2, <1>3, OthersRest
<1>6. Counts' = [Counts EXCEPT ![h] = 0]
  BY <1>4, <1>5, Updated, MappedTyped
<1>7. Rests' = Rests
  <2>1. \A b \in Breakers : Rests'[b] = Rests[b]
    BY <1>4, <1>5
  <2> QED
    BY <2>1, MappedTyped
<1> QED
  BY <1>2, <1>6, <1>7, MappedActions

\* A failure counts against the breaker the call went through, and opens it for
\* OpenDuration when it is the MaxFailures-th.
LEMMA FailCounts == TypeOK /\ CallInv /\ Fail => \E b \in Breakers : Automata!Failure(b)
<1> SUFFICES ASSUME TypeOK, CallInv, Fail PROVE \E b \in Breakers : Automata!Failure(b)
  OBVIOUS
<1>1. PICK h \in Breakers : h = Here
  BY HereIsBreaker DEF Fail, CallInv
<1>2. /\ h \in Busy /\ Busy' = {} /\ now' = now /\ opened_at[h] = Never
      /\ failure_count' = [failure_count EXCEPT ![h] = @ + 1]
  BY <1>1 DEF Busy, Fail, CallInv
<1>3. opened_at' = IF failure_count[h] + 1 >= MaxFailures
                     THEN [opened_at EXCEPT ![h] = now] ELSE opened_at
  BY <1>1, <1>2 DEF Fail
<1>4. /\ failure_count'[h] = failure_count[h] + 1
      /\ opened_at'[h] = IF failure_count[h] + 1 >= MaxFailures THEN now ELSE Never
      /\ \A b \in Breakers \ {h} : failure_count'[b] = failure_count[b] /\ opened_at'[b] = opened_at[b]
  BY <1>2, <1>3 DEF TypeOK
<1>5. failure_count[h] \in Nat /\ now \in Nat /\ now # Never /\ MaxFailures \in Nat /\ OpenDuration \in Nat
  BY DEF TypeOK
<1>6. Counts[h] = failure_count[h] /\ Rests[h] = 0
  BY <1>2, MappedAt DEF Count, Rest, Blocking
<1>7. \A b \in Breakers \ {h} : Counts'[b] = Counts[b] /\ Rests'[b] = Rests[b]
  BY <1>2, <1>4, OthersRest
<1>8. CASE failure_count[h] + 1 >= MaxFailures
  <2>1. opened_at'[h] = now
    BY <1>4, <1>8
  <2>2. Counts'[h] = 0
    BY <1>5, <2>1, MappedAt DEF Count
  <2>3. Rests'[h] = OpenDuration
    <3>1. Rests'[h] = IF now - now < OpenDuration THEN OpenDuration - (now - now) ELSE 0
      BY <1>2, <1>5, <2>1, MappedAt DEF Rest, Blocking
    <3> QED
      BY <1>5, <3>1
  <2>4. Counts' = [Counts EXCEPT ![h] = 0]
    BY <1>7, <2>2, Updated, MappedTyped
  <2>5. Rests' = [Rests EXCEPT ![h] = OpenDuration]
    BY <1>7, <2>3, Updated, MappedTyped
  <2> QED
    BY <1>2, <1>6, <1>8, <2>4, <2>5, MappedActions
<1>9. CASE ~(failure_count[h] + 1 >= MaxFailures)
  <2>1. opened_at'[h] = Never
    BY <1>4, <1>9
  <2>2. Counts'[h] = Counts[h] + 1 /\ Rests'[h] = Rests[h]
    BY <1>4, <1>6, <2>1, MappedAt DEF Count, Rest, Blocking
  <2>3. Counts' = [Counts EXCEPT ![h] = @ + 1]
    BY <1>7, <2>2, Updated, MappedTyped
  <2>4. \A b \in Breakers : Rests'[b] = Rests[b]
    BY <1>7, <2>2
  <2>5. Rests' = Rests
    BY <2>4, MappedTyped
  <2>6. Counts[h] + 1 < MaxFailures
    BY <1>5, <1>6, <1>9
  <2> QED
    BY <1>2, <2>3, <2>5, <2>6, MappedActions
<1> QED
  BY <1>8, <1>9

\* A second of the clock is a second of every rest.
LEMMA TickRests == TypeOK /\ Tick => Automata!Second
<1> SUFFICES ASSUME TypeOK, Tick PROVE Automata!Second
  OBVIOUS
<1>1. now' = now + 1 /\ UNCHANGED <<failure_count, opened_at, calling, selector, slot>> /\ now \in Nat
  BY DEF Tick, TypeOK
<1>2. Counts' = Counts /\ Busy' = Busy
  BY <1>1 DEF Counts, Count, Busy, Here, Breakers
<1>3. ASSUME NEW b \in Breakers
      PROVE  Rests'[b] = IF Rests[b] = 0 THEN 0 ELSE Rests[b] - 1
  <2>1. /\ Rests[b] = IF Blocking(b) THEN OpenDuration - (now - opened_at[b]) ELSE 0
        /\ Rests'[b] = IF Blocking(b)' THEN OpenDuration - (now' - opened_at[b]) ELSE 0
    BY <1>1, MappedAt DEF Rest
  <2>2. /\ Blocking(b) <=> opened_at[b] # Never /\ now - opened_at[b] < OpenDuration
        /\ Blocking(b)' <=> opened_at[b] # Never /\ now' - opened_at[b] < OpenDuration
    BY <1>1 DEF Blocking
  <2>3. CASE opened_at[b] = Never
    BY <2>1, <2>2, <2>3
  <2>4. CASE opened_at[b] # Never
    <3>1. PICK o \in Nat : o = opened_at[b]
      BY <2>4 DEF TypeOK
    <3>2. PICK n \in Nat : n = now /\ now' = n + 1
      BY <1>1
    <3>3. Rests[b] = IF n - o < OpenDuration THEN OpenDuration - (n - o) ELSE 0
      BY <2>1, <2>2, <2>4, <3>1, <3>2
    <3>4. Rests'[b] = IF n + 1 - o < OpenDuration THEN OpenDuration - (n + 1 - o) ELSE 0
      BY <2>1, <2>2, <2>4, <3>1, <3>2
    <3> QED
      BY <3>3, <3>4
  <2> QED
    BY <2>3, <2>4
<1>4. Rests' = [b \in Breakers |-> IF Rests[b] = 0 THEN 0 ELSE Rests[b] - 1]
  BY <1>3, MappedTyped
<1> QED
  BY <1>2, <1>4, MappedSecond

\* What the loop does between calls is nothing to the automata.
LEMMA LoopStutters ==
  ASSUME TypeOK, CallInv,
         \/ \E s \in Selectors, q \in Prompts : Begin(s, q)
         \/ Skip \/ GiveUp \/ UNCHANGED vars
  PROVE  UNCHANGED Automata!breakers
<1>1. UNCHANGED <<now, breakerVars>>
  BY DEF Begin, Skip, GiveUp, vars
<1>2. Busy' = Busy
  <2>1. CASE UNCHANGED vars
    BY <2>1 DEF vars, Busy, Here
  <2>2. CASE ~calling /\ calling' = calling
    BY <2>2 DEF Busy
  <2>3. ASSUME NEW s \in Selectors, NEW q \in Prompts, Begin(s, q) PROVE ~calling /\ calling' = calling
    BY <2>3 DEF Begin, CallInv
  <2>4. CASE Skip
    BY <2>2, <2>4 DEF Skip, InLoop
  <2>5. CASE GiveUp
    BY <2>2, <2>5 DEF GiveUp, CallInv
  <2> QED
    BY <2>1, <2>2, <2>3, <2>4, <2>5
<1> QED
  BY <1>1, <1>2, AutomataRest, MappedVars

\* The breakers of all selectors, sharing one loop, a clock and their providers'
\* gauges, behave as so many independent automata (circuit_breaker.py).
THEOREM BreakersImplementAutomata == Spec => ImplementsBreakers
<1>1. Init => Automata!Init
  <2> SUFFICES ASSUME Init PROVE Automata!Init
    OBVIOUS
  <2>1. \A b \in Breakers : opened_at[b] = Never /\ failure_count[b] = 0 /\ ~Blocking(b)
    BY DEF Init, Blocking
  <2> QED
    BY <2>1 DEF Init, Automata!Init
<1>2. IInv /\ [Next]_vars => [Automata!Next]_(Automata!breakers)
  <2> SUFFICES ASSUME TypeOK, CallInv, [Next]_vars PROVE [Automata!Next]_(Automata!breakers)
    BY DEF IInv
  <2>1. CASE Attempt
    BY <2>1, AttemptEnters DEF Automata!Next
  <2>2. CASE Succeed
    BY <2>2, SucceedCloses DEF Automata!Next
  <2>3. CASE Fail
    BY <2>3, FailCounts DEF Automata!Next
  <2>4. CASE Tick
    BY <2>4, TickRests DEF Automata!Next
  <2> QED
    BY <2>1, <2>2, <2>3, <2>4, LoopStutters DEF Next
<1> QED
  BY <1>1, <1>2, Invariance, PTL DEF Spec, ImplementsBreakers, Automata!Spec
==============================================================================
