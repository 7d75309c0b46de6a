--------------------------- MODULE RateLimitProofs ---------------------------
(***************************************************************************)
(* For any limits, window, users and addresses: no window of either        *)
(* counter lets more through than its limit, no user is refused for        *)
(* requests that are not theirs or not recent, no address is refused for   *)
(* what one user sent, and every decision is that of SlidingLog.           *)
(***************************************************************************)
EXTENDS RateLimit, FiniteSetTheorems, TLAPS

USE LimitAssumption

\* The requests of one user, and those of one address, that the budgets are about.
PassedOf(u) == {q \in passed : q.user = u}
AdmittedAt(a) == {q \in admitted : q.ip = a}

WithinBudget(P, limit) == \A t \in Int : Cardinality(InWindow(P, t)) <= limit

\* The budgets of every window, also of those that begin between two requests.
UserBudgetByKey == \A u \in Users : WithinBudget(PassedOf(u), UserLimit)
IpBudgetByKey == \A a \in Addresses : WithinBudget(AdmittedAt(a), IpLimit)

LEMMA BudgetsByKey == TypeOK /\ UserBudgetByKey /\ IpBudgetByKey => Budgets
<1> SUFFICES ASSUME TypeOK, UserBudgetByKey, IpBudgetByKey
             PROVE  UserBudget /\ IpBudget
  BY DEF Budgets
<1>1. \A q \in passed : q.user \in Users /\ q.at \in Int
  BY DEF TypeOK, Request
<1>2. \A q \in admitted : q.ip \in Addresses /\ q.at \in Int
  BY DEF TypeOK, Request
<1>3. UserBudget
  BY <1>1 DEF UserBudget, UserBudgetByKey, WithinBudget, PassedOf
<1>4. IpBudget
  BY <1>2 DEF IpBudget, IpBudgetByKey, WithinBudget, AdmittedAt
<1> QED
  BY <1>3, <1>4

\* A counter that holds every request of the last window, and counts no more than
\* the limit with the new one, keeps the budget.
LEMMA NewestFits ==
  ASSUME NEW P, NEW H, NEW r, NEW limit \in Nat,
         IsFiniteSet(H), Cardinality(H) <= limit,
         r.at \in Nat, \A q \in P : q.at \in Nat /\ q.at <= r.at,
         \A q \in P \cup {r} : q.at >= r.at - Window => q \in H,
         WithinBudget(P, limit)
  PROVE  WithinBudget(P \cup {r}, limit)
<1> DEFINE Q == P \cup {r}
<1> SUFFICES ASSUME NEW t \in Int PROVE Cardinality(InWindow(Q, t)) <= limit
  BY DEF WithinBudget
<1>1. CASE t >= r.at - Window
  <2>1. InWindow(Q, t) \in SUBSET H
    BY <1>1 DEF InWindow
  <2>2. /\ IsFiniteSet(InWindow(Q, t))
        /\ Cardinality(InWindow(Q, t)) <= Cardinality(H)
    BY <2>1, FS_Subset
  <2>3. Cardinality(InWindow(Q, t)) \in Nat /\ Cardinality(H) \in Nat
    BY <2>2, FS_CardinalityType
  <2> QED
    BY <2>2, <2>3
<1>2. CASE ~(t >= r.at - Window)
  <2>1. t + Window < r.at
    BY <1>2
  <2>2. InWindow(Q, t) = InWindow(P, t)
    BY <2>1 DEF InWindow
  <2> QED
    BY <2>2 DEF WithinBudget
<1> QED
  BY <1>1, <1>2

\* What the proofs use of one dispatched request.
NewRequest(u, a) == [id |-> arrivals, at |-> now, user |-> u, ip |-> a]

LEMMA DispatchCases ==
  ASSUME TypeOK, NEW u \in Users, NEW a \in Addresses, Dispatch(u, a),
         NEW r, r = NewRequest(u, a)
  PROVE  /\ r \in Request /\ r.id = arrivals /\ r.at = now /\ r.user = u /\ r.ip = a
         /\ userHits'[u] = Recorded(userHits[u], r)
         /\ \A v \in Users \ {u} : userHits'[v] = userHits[v]
         /\ RejectUser(r) \/ RejectIp(r) \/ Admit(r)
         /\ arrivals' = arrivals + 1 /\ requests' = requests \cup {r} /\ now' = now
<1>1. /\ userHits' = [userHits EXCEPT ![u] = Recorded(@, r)]
      /\ RejectUser(r) \/ RejectIp(r) \/ Admit(r)
      /\ arrivals' = arrivals + 1 /\ requests' = requests \cup {r} /\ now' = now
  BY DEF Dispatch, NewRequest
<1>2. r \in Request /\ r.id = arrivals /\ r.at = now /\ r.user = u /\ r.ip = a
  BY DEF NewRequest, Request, TypeOK
<1>3. userHits'[u] = Recorded(userHits[u], r) /\ \A v \in Users \ {u} : userHits'[v] = userHits[v]
  BY <1>1 DEF TypeOK
<1> QED
  BY <1>1, <1>2, <1>3

\* Either the request stops at the user's check, or it is counted for the address.
LEMMA IpCases ==
  ASSUME TypeOK, NEW r \in Request, RejectUser(r) \/ RejectIp(r) \/ Admit(r)
  PROVE  \/ /\ OverLimit(userHits'[r.user], UserLimit)
            /\ UNCHANGED <<ipHits, passed, admitted>>
         \/ /\ ~OverLimit(userHits'[r.user], UserLimit)
            /\ ipHits'[r.ip] = Recorded(ipHits[r.ip], r)
            /\ \A b \in Addresses \ {r.ip} : ipHits'[b] = ipHits[b]
            /\ ipHits' \in [Addresses -> SUBSET Request]
            /\ passed' = passed \cup {r}
            /\ \/ OverLimit(ipHits'[r.ip], IpLimit) /\ admitted' = admitted
               \/ ~OverLimit(ipHits'[r.ip], IpLimit) /\ admitted' = admitted \cup {r}
<1>1. r.ip \in Addresses
  BY DEF Request
<1>2. CASE RejectUser(r)
  BY <1>2 DEF RejectUser
<1>3. ASSUME ipHits' = [ipHits EXCEPT ![r.ip] = Recorded(@, r)]
      PROVE  /\ ipHits'[r.ip] = Recorded(ipHits[r.ip], r)
             /\ \A b \in Addresses \ {r.ip} : ipHits'[b] = ipHits[b]
             /\ ipHits' \in [Addresses -> SUBSET Request]
  <2>1. Recorded(ipHits[r.ip], r) \in SUBSET Request
    BY <1>1 DEF Recorded, TypeOK
  <2> QED
    BY <1>1, <1>3, <2>1 DEF TypeOK
<1>4. CASE RejectIp(r)
  BY <1>3, <1>4 DEF RejectIp
<1>5. CASE Admit(r)
  BY <1>3, <1>5 DEF Admit
<1> QED
  BY <1>2, <1>4, <1>5

\* Each part of the invariant survives a dispatched request.
LEMMA TypeDispatch ==
  ASSUME TypeOK, NEW u \in Users, NEW a \in Addresses, Dispatch(u, a)
  PROVE  TypeOK'
<1>1. PICK r : r = NewRequest(u, a)
  OBVIOUS
<1>2. r \in Request /\ (RejectUser(r) \/ RejectIp(r) \/ Admit(r))
  BY <1>1, DispatchCases
<1>3. now' \in Nat /\ arrivals' \in Nat /\ requests' \in SUBSET Request /\ requests' = requests \cup {r}
  BY <1>1, <1>2, DispatchCases DEF TypeOK
<1>4. userHits' \in [Users -> SUBSET Request]
  <2>1. userHits' = [userHits EXCEPT ![u] = Recorded(@, r)]
    BY <1>1 DEF Dispatch, NewRequest
  <2>2. Recorded(userHits[u], r) \in SUBSET Request
    BY <1>2 DEF Recorded, TypeOK
  <2> QED
    BY <2>1, <2>2 DEF TypeOK
<1>5. /\ ipHits' \in [Addresses -> SUBSET Request]
      /\ passed' \in SUBSET requests' /\ admitted' \in SUBSET passed'
  BY <1>2, <1>3, IpCases DEF TypeOK
<1> QED
  BY <1>3, <1>4, <1>5 DEF TypeOK

LEMMA HistoryDispatch ==
  ASSUME TypeOK, HistoryInv, NEW u \in Users, NEW a \in Addresses, Dispatch(u, a)
  PROVE  HistoryInv'
<1>1. PICK r : r = NewRequest(u, a)
  OBVIOUS
<1>2. /\ r \in Request /\ r.id = arrivals /\ r.at = now
      /\ arrivals' = arrivals + 1 /\ requests' = requests \cup {r} /\ now' = now
  BY <1>1, DispatchCases
<1>3. IsFiniteSet(requests')
  BY <1>2, FS_AddElement DEF HistoryInv
<1>4. \A q \in requests : q.id \in Nat /\ q.at \in Nat /\ arrivals \in Nat /\ now \in Nat
  BY DEF TypeOK, Request
<1>5. ASSUME NEW q \in requests' PROVE q.id < arrivals' /\ q.at <= now'
  <2>1. CASE q \in requests
    BY <1>2, <1>4, <2>1 DEF HistoryInv
  <2>2. CASE q = r
    BY <1>2, <2>2 DEF TypeOK
  <2> QED
    BY <1>2, <1>5, <2>1, <2>2
<1>6. ASSUME NEW p \in requests', NEW q \in requests', p.id = q.id PROVE p = q
  <2>1. \A o \in requests : o.id # r.id
    BY <1>2, <1>4 DEF HistoryInv
  <2> QED
    BY <1>2, <1>6, <2>1 DEF HistoryInv
<1> QED
  BY <1>3, <1>5, <1>6 DEF HistoryInv

LEMMA CountersDispatch ==
  ASSUME TypeOK, CountersInv, NEW u \in Users, NEW a \in Addresses, Dispatch(u, a)
  PROVE  CountersInv'
<1>1. PICK r : r = NewRequest(u, a)
  OBVIOUS
<1>2. /\ r \in Request /\ r.at = now /\ r.user = u /\ r.ip = a
      /\ RejectUser(r) \/ RejectIp(r) \/ Admit(r)
      /\ userHits'[u] = Recorded(userHits[u], r)
      /\ \A v \in Users \ {u} : userHits'[v] = userHits[v]
      /\ requests' = requests \cup {r} /\ now' = now
  BY <1>1, DispatchCases
<1>3. passed' = passed \/ passed' = passed \cup {r}
  BY <1>2, IpCases
<1>4. ASSUME NEW q \in requests', q.at >= now' - Window PROVE q \in userHits'[q.user]
  <2>1. CASE q = r
    BY <1>2, <2>1 DEF Recorded
  <2>2. CASE q \in requests
    <3>1. q \in userHits[q.user] /\ q.user \in Users
      BY <1>2, <1>4, <2>2 DEF CountersInv, TypeOK, Request
    <3>2. CASE q.user = u
      BY <1>2, <1>4, <3>1, <3>2 DEF Recorded
    <3>3. CASE q.user # u
      BY <1>2, <3>1, <3>3
    <3> QED
      BY <3>2, <3>3
  <2> QED
    BY <1>2, <1>4, <2>1, <2>2
<1>5. ASSUME NEW v \in Users, NEW q \in userHits'[v] PROVE q \in requests' /\ q.user = v
  <2>1. CASE v = u
    BY <1>2, <1>5, <2>1 DEF Recorded, CountersInv
  <2>2. CASE v # u
    BY <1>2, <1>5, <2>2 DEF CountersInv
  <2> QED
    BY <2>1, <2>2
<1>6. CASE UNCHANGED <<ipHits, passed>>
  <2>1. \A q \in passed' : q.at >= now' - Window => q \in ipHits'[q.ip]
    BY <1>2, <1>6 DEF CountersInv
  <2>2. \A b \in Addresses : \A q \in ipHits'[b] : q \in passed' /\ q.ip = b
    BY <1>6 DEF CountersInv
  <2> QED
    BY <1>4, <1>5, <2>1, <2>2 DEF CountersInv
<1>7. CASE /\ ipHits'[a] = Recorded(ipHits[a], r)
           /\ \A b \in Addresses \ {a} : ipHits'[b] = ipHits[b]
           /\ passed' = passed \cup {r}
  <2>1. ASSUME NEW q \in passed', q.at >= now' - Window PROVE q \in ipHits'[q.ip]
    <3>1. CASE q = r
      BY <1>2, <1>7, <3>1 DEF Recorded
    <3>2. CASE q \in passed
      <4>1. q \in ipHits[q.ip] /\ q.ip \in Addresses
        BY <1>2, <2>1, <3>2 DEF CountersInv, TypeOK, Request
      <4>2. CASE q.ip = a
        BY <1>2, <1>7, <2>1, <4>1, <4>2 DEF Recorded
      <4>3. CASE q.ip # a
        BY <1>7, <4>1, <4>3
      <4> QED
        BY <4>2, <4>3
    <3> QED
      BY <1>7, <2>1, <3>1, <3>2
  <2>2. ASSUME NEW b \in Addresses, NEW q \in ipHits'[b] PROVE q \in passed' /\ q.ip = b
    <3>1. CASE b = a
      BY <1>2, <1>7, <2>2, <3>1 DEF Recorded, CountersInv
    <3>2. CASE b # a
      BY <1>7, <2>2, <3>2 DEF CountersInv
    <3> QED
      BY <3>1, <3>2
  <2> QED
    BY <1>4, <1>5, <2>1, <2>2 DEF CountersInv
<1> QED
  BY <1>2, <1>6, <1>7, IpCases

\* What a counter keeps is part of a finite history.
FiniteCounters ==
  /\ \A u \in Users : IsFiniteSet(userHits[u])
  /\ \A a \in Addresses : IsFiniteSet(ipHits[a])

LEMMA CountersFinite == TypeOK /\ HistoryInv /\ CountersInv => FiniteCounters
<1> SUFFICES ASSUME TypeOK, HistoryInv, CountersInv PROVE FiniteCounters
  OBVIOUS
<1>1. \A u \in Users : userHits[u] \in SUBSET requests
  BY DEF CountersInv
<1>2. \A a \in Addresses : ipHits[a] \in SUBSET requests
  BY DEF CountersInv, TypeOK
<1> QED
  BY <1>1, <1>2, FS_Subset DEF HistoryInv, FiniteCounters

\* A count that does not exceed its limit is a budget kept.
LEMMA UserBudgetDispatch ==
  ASSUME TypeOK, HistoryInv, UserBudgetByKey, TypeOK', CountersInv', FiniteCounters',
         NEW u \in Users, NEW a \in Addresses, Dispatch(u, a)
  PROVE  UserBudgetByKey'
<1>1. PICK r : r = NewRequest(u, a)
  OBVIOUS
<1>2. /\ r \in Request /\ r.at = now /\ r.user = u /\ now' = now
      /\ RejectUser(r) \/ RejectIp(r) \/ Admit(r)
  BY <1>1, DispatchCases
<1>3. CASE passed' = passed
  BY <1>3 DEF UserBudgetByKey, PassedOf
<1>4. CASE ~OverLimit(userHits'[u], UserLimit) /\ passed' = passed \cup {r}
  <2> SUFFICES ASSUME NEW v \in Users PROVE WithinBudget(PassedOf(v)', UserLimit)
    BY DEF UserBudgetByKey, WithinBudget
  <2>1. WithinBudget(PassedOf(v), UserLimit)
    BY DEF UserBudgetByKey
  <2>2. CASE v # u
    <3>1. PassedOf(v)' = PassedOf(v)
      BY <1>2, <1>4, <2>2 DEF PassedOf
    <3> QED
      BY <2>1, <3>1
  <2>3. CASE v = u
    <3>1. PassedOf(v)' = PassedOf(v) \cup {r}
      BY <1>2, <1>4, <2>3 DEF PassedOf
    <3>2. \A q \in PassedOf(v) \cup {r} : q.at >= r.at - Window => q \in userHits'[u]
      BY <1>2, <1>4, <2>3 DEF CountersInv, PassedOf, TypeOK
    <3>3. \A q \in PassedOf(v) : q.at \in Nat /\ q.at <= r.at
      BY <1>2 DEF PassedOf, TypeOK, HistoryInv, Request
    <3>4. IsFiniteSet(userHits'[u]) /\ Cardinality(userHits'[u]) <= UserLimit /\ r.at \in Nat
      <4>1. IsFiniteSet(userHits'[u]) /\ r.at \in Nat
        BY <1>2 DEF FiniteCounters, TypeOK
      <4>2. Cardinality(userHits'[u]) \in Nat
        BY <4>1, FS_CardinalityType
      <4> QED
        BY <1>4, <4>1, <4>2 DEF OverLimit
    <3>5. WithinBudget(PassedOf(v) \cup {r}, UserLimit)
      BY <2>1, <3>2, <3>3, <3>4, NewestFits
    <3> QED
      BY <3>1, <3>5
  <2> QED
    BY <2>2, <2>3
<1> QED
  BY <1>2, <1>3, <1>4, IpCases

LEMMA IpBudgetDispatch ==
  ASSUME TypeOK, HistoryInv, IpBudgetByKey, TypeOK', CountersInv', FiniteCounters',
         NEW u \in Users, NEW a \in Addresses, Dispatch(u, a)
  PROVE  IpBudgetByKey'
<1>1. PICK r : r = NewRequest(u, a)
  OBVIOUS
<1>2. /\ r \in Request /\ r.at = now /\ r.ip = a /\ now' = now
      /\ RejectUser(r) \/ RejectIp(r) \/ Admit(r)
  BY <1>1, DispatchCases
<1>3. CASE admitted' = admitted
  BY <1>3 DEF IpBudgetByKey, AdmittedAt
<1>4. CASE ~OverLimit(ipHits'[a], IpLimit) /\ admitted' = admitted \cup {r}
  <2> SUFFICES ASSUME NEW b \in Addresses PROVE WithinBudget(AdmittedAt(b)', IpLimit)
    BY DEF IpBudgetByKey, WithinBudget
  <2>1. WithinBudget(AdmittedAt(b), IpLimit)
    BY DEF IpBudgetByKey
  <2>2. CASE b # a
    <3>1. AdmittedAt(b)' = AdmittedAt(b)
      BY <1>2, <1>4, <2>2 DEF AdmittedAt
    <3> QED
      BY <2>1, <3>1
  <2>3. CASE b = a
    <3>1. AdmittedAt(b)' = AdmittedAt(b) \cup {r}
      BY <1>2, <1>4, <2>3 DEF AdmittedAt
    <3>2. \A q \in AdmittedAt(b) \cup {r} : q.at >= r.at - Window => q \in ipHits'[a]
      BY <1>2, <1>4, <2>3 DEF CountersInv, AdmittedAt, TypeOK
    <3>3. \A q \in AdmittedAt(b) : q.at \in Nat /\ q.at <= r.at
      BY <1>2 DEF AdmittedAt, TypeOK, HistoryInv, Request
    <3>4. IsFiniteSet(ipHits'[a]) /\ Cardinality(ipHits'[a]) <= IpLimit /\ r.at \in Nat
      <4>1. IsFiniteSet(ipHits'[a]) /\ r.at \in Nat
        BY <1>2 DEF FiniteCounters, TypeOK
      <4>2. Cardinality(ipHits'[a]) \in Nat
        BY <4>1, FS_CardinalityType
      <4> QED
        BY <1>4, <4>1, <4>2 DEF OverLimit
    <3>5. WithinBudget(AdmittedAt(b) \cup {r}, IpLimit)
      BY <2>1, <3>2, <3>3, <3>4, NewestFits
    <3> QED
      BY <3>1, <3>5
  <2> QED
    BY <2>2, <2>3
<1> QED
  BY <1>2, <1>3, <1>4, IpCases

\* The requests that justify a rejection.
Cause(S, r) == {q \in S : q.user = r.user /\ q.id < r.id /\ q.at >= r.at - Window}

\* The counter of the newest request holds nothing but that request and its cause.
LEMMA CauseDispatch ==
  ASSUME TypeOK, HistoryInv, CountersInv, UserRejectedWithCause, FiniteCounters',
         NEW u \in Users, NEW a \in Addresses, Dispatch(u, a)
  PROVE  UserRejectedWithCause'
<1>1. PICK r : r = NewRequest(u, a)
  OBVIOUS
<1>2. /\ r \in Request /\ r.id = arrivals /\ r.at = now /\ r.user = u /\ now' = now
      /\ RejectUser(r) \/ RejectIp(r) \/ Admit(r)
      /\ userHits'[u] = Recorded(userHits[u], r) /\ requests' = requests \cup {r}
  BY <1>1, DispatchCases
<1> SUFFICES ASSUME NEW p \in requests' \ passed'
             PROVE  Cardinality(Cause(requests', p)) >= UserLimit
  BY DEF UserRejectedWithCause, Cause
<1>3. \A q \in requests \cup {r} : q.id \in Nat /\ q.at \in Nat
  BY <1>2 DEF TypeOK, Request
<1>4. CASE p = r
  <2>1. OverLimit(userHits'[u], UserLimit)
    BY <1>2, <1>4, IpCases
  <2> DEFINE H == userHits'[u]
             C == Cause(requests', r)
  <2>2. IsFiniteSet(H) /\ IsFiniteSet(H \ {r})
    BY FS_RemoveElement DEF FiniteCounters
  <2>3. Cardinality(H) \in Nat /\ Cardinality(H \ {r}) \in Nat
    BY <2>2, FS_CardinalityType
  <2>4. Cardinality(H \ {r}) >= Cardinality(H) - 1
    BY <2>2, <2>3, FS_RemoveElement
  <2>5. H \ {r} \in SUBSET C
    BY <1>2, <1>3 DEF Recorded, CountersInv, HistoryInv, Cause
  <2>6. IsFiniteSet(C)
    <3>1. IsFiniteSet(requests')
      BY <1>2, FS_AddElement DEF HistoryInv
    <3>2. C \in SUBSET requests'
      BY DEF Cause
    <3> QED
      BY <3>1, <3>2, FS_Subset
  <2>7. Cardinality(C) \in Nat /\ Cardinality(H \ {r}) <= Cardinality(C)
    BY <2>5, <2>6, FS_Subset, FS_CardinalityType
  <2>8. Cardinality(H) > UserLimit
    BY <2>1 DEF OverLimit
  <2> HIDE DEF H, C
  <2>9. Cardinality(C) >= UserLimit
    BY <2>3, <2>4, <2>7, <2>8
  <2> QED
    BY <1>4, <2>9 DEF C
<1>5. CASE p # r
  <2>1. p \in requests \ passed
    BY <1>2, <1>5, IpCases
  <2>2. Cause(requests', p) = Cause(requests, p)
    BY <1>2, <1>3, <2>1 DEF Cause, HistoryInv
  <2> QED
    BY <2>1, <2>2 DEF UserRejectedWithCause, Cause
<1> QED
  BY <1>4, <1>5

\* Requests of which no user has more than the limit are of so many users.
LEMMA Pigeonhole ==
  ASSUME NEW W, IsFiniteSet(W), NEW limit \in Nat,
         \A q \in W : q.id \in Nat,
         \A p, q \in W : p.id = q.id => p = q,
         \A q \in W : Cardinality({p \in W : p.user = q.user}) <= limit
  PROVE  /\ Cardinality({q.user : q \in W}) \in Nat
         /\ Cardinality(W) <= Cardinality({q.user : q \in W}) * limit
<1> DEFINE U == {q.user : q \in W}
           Upto(q) == {p \in W : p.user = q.user /\ p.id <= q.id}
           rank == [q \in W |-> <<q.user, Cardinality(Upto(q))>>]
<1>1. ASSUME NEW q \in W
      PROVE  IsFiniteSet(Upto(q)) /\ Cardinality(Upto(q)) \in 1..limit
  <2> DEFINE Mine == {p \in W : p.user = q.user}
  <2>1. IsFiniteSet(Mine) /\ Cardinality(Mine) \in Nat /\ Cardinality(Mine) <= limit
    BY FS_Subset, FS_CardinalityType
  <2>2. Upto(q) \in SUBSET Mine
    OBVIOUS
  <2>3. IsFiniteSet(Upto(q)) /\ Cardinality(Upto(q)) <= Cardinality(Mine)
    BY <2>1, <2>2, FS_Subset
  <2>4. q \in Upto(q)
    OBVIOUS
  <2>5. Cardinality(Upto(q)) \in Nat /\ Cardinality(Upto(q)) # 0
    BY <2>3, <2>4, FS_EmptySet, FS_CardinalityType
  <2> HIDE DEF Mine, Upto
  <2> QED
    BY <2>1, <2>3, <2>5
<1>2. rank \in [W -> U \X (1..limit)]
  BY <1>1
<1>3. ASSUME NEW p \in W, NEW q \in W, p.user = q.user, p.id < q.id
      PROVE  Cardinality(Upto(p)) # Cardinality(Upto(q))
  <2>1. Upto(p) \in SUBSET Upto(q)
    BY <1>3
  <2>2. q \in Upto(q) /\ q \notin Upto(p)
    BY <1>3
  <2> HIDE DEF Upto
  <2> QED
    BY <1>1, <2>1, <2>2, FS_Subset
<1>4. ASSUME NEW p \in W, NEW q \in W, rank[p] = rank[q] PROVE p = q
  <2>1. p.user = q.user /\ Cardinality(Upto(p)) = Cardinality(Upto(q))
    BY <1>4
  <2>2. p.id = q.id
    BY <1>3, <2>1
  <2> QED
    BY <2>2
<1>5. rank \in Injection(W, U \X (1..limit))
  BY <1>2, <1>4 DEF Injection, IsInjective
<1>6. IsFiniteSet(U)
  <2>1. [q \in W |-> q.user] \in Surjection(W, U)
    BY DEF Surjection
  <2> QED
    BY <2>1, FS_Surjection
<1>7. IsFiniteSet(1..limit) /\ Cardinality(1..limit) = limit
  BY FS_Interval
<1>8. IsFiniteSet(U \X (1..limit)) /\ Cardinality(U \X (1..limit)) = Cardinality(U) * limit
  BY <1>6, <1>7, FS_Product
<1>9. Cardinality(W) <= Cardinality(U \X (1..limit))
  BY <1>5, <1>8, FS_Injection
<1> HIDE DEF U
<1>10. Cardinality(U) \in Nat /\ Cardinality(W) <= Cardinality(U) * limit
  BY <1>6, <1>8, <1>9, FS_CardinalityType
<1> QED
  BY <1>10 DEF U

\* The requests that used up an address before and with r.
Last(S, r) == {q \in S : q.ip = r.ip /\ q.id <= r.id /\ q.at >= r.at - Window}

\* The counter of a refused address holds requests of its last window only, and of
\* each user no more than passed the user's check.
LEMMA NeighboursDispatch ==
  ASSUME TypeOK, HistoryInv, NeighboursCannotStarve, TypeOK', HistoryInv', CountersInv',
         UserBudgetByKey', NEW u \in Users, NEW a \in Addresses, Dispatch(u, a)
  PROVE  NeighboursCannotStarve'
<1>1. PICK r : r = NewRequest(u, a)
  OBVIOUS
<1>2. /\ r \in Request /\ r.id = arrivals /\ r.at = now /\ r.ip = a /\ now' = now
      /\ RejectUser(r) \/ RejectIp(r) \/ Admit(r)
      /\ arrivals' = arrivals + 1 /\ requests' = requests \cup {r}
  BY <1>1, DispatchCases
<1> SUFFICES ASSUME NEW p \in passed' \ admitted'
             PROVE  Cardinality({q.user : q \in Last(passed', p)}) * UserLimit > IpLimit
  BY DEF NeighboursCannotStarve, Last
<1>3. \A q \in requests \cup {r} : q.id \in Nat /\ q.at \in Nat /\ q.user \in Users
  BY <1>2 DEF TypeOK, Request
<1>4. arrivals \in Nat /\ now \in Nat /\ passed' \in SUBSET requests'
  BY DEF TypeOK
<1>5. CASE p = r
  <2> DEFINE W == Last(passed', r)
             H == ipHits'[a]
  <2>1. r \notin passed
    BY <1>2, <1>4 DEF HistoryInv, TypeOK
  <2>2. OverLimit(H, IpLimit) /\ H = Recorded(ipHits[a], r)
    BY <1>2, <1>5, <2>1, IpCases
  <2>3. \A q \in H : q \in passed' /\ q.ip = a /\ q.at >= r.at - Window
    BY <1>2, <1>3, <2>2 DEF CountersInv, Recorded
  <2>4. \A q \in passed' : q.id <= r.id /\ q.at <= r.at
    BY <1>2, <1>3, <1>4 DEF HistoryInv
  <2>5. H \in SUBSET W
    BY <1>2, <2>3, <2>4 DEF Last
  <2>6. IsFiniteSet(W) /\ W \in SUBSET passed'
    <3>1. IsFiniteSet(requests')
      BY DEF HistoryInv
    <3>2. W \in SUBSET requests' /\ W \in SUBSET passed'
      BY <1>4 DEF Last
    <3> QED
      BY <3>1, <3>2, FS_Subset
  <2>7. Cardinality(H) > IpLimit /\ Cardinality(H) <= Cardinality(W)
    BY <2>2, <2>5, <2>6, FS_Subset DEF OverLimit
  <2>8. Cardinality(H) \in Nat /\ Cardinality(W) \in Nat
    BY <2>5, <2>6, FS_Subset, FS_CardinalityType
  <2>9. ASSUME NEW q \in W PROVE Cardinality({o \in W : o.user = q.user}) <= UserLimit
    <3> DEFINE Mine == {o \in W : o.user = q.user}
               All == InWindow({o \in passed' : o.user = q.user}, r.at - Window)
    <3>1. q.user \in Users /\ r.at - Window \in Int
      BY <1>2, <1>3, <1>4, <2>6, <2>9
    <3>2. Cardinality(All) <= UserLimit
      BY <3>1 DEF UserBudgetByKey, WithinBudget, PassedOf
    <3>3. Mine \in SUBSET All
      BY <1>2, <1>3, <1>4, <2>4, <2>6 DEF InWindow, Last
    <3>4. IsFiniteSet(All)
      <4>1. All \in SUBSET requests' /\ IsFiniteSet(requests')
        BY <1>4 DEF InWindow, HistoryInv
      <4> QED
        BY <4>1, FS_Subset
    <3>5. Cardinality(Mine) <= Cardinality(All) /\ Cardinality(Mine) \in Nat /\ Cardinality(All) \in Nat
      BY <3>3, <3>4, FS_Subset, FS_CardinalityType
    <3> HIDE DEF Mine, All
    <3>6. Cardinality(Mine) <= UserLimit
      BY <3>2, <3>5
    <3> QED
      BY <3>6 DEF Mine
  <2>10. /\ \A q \in W : q.id \in Nat
         /\ \A o, q \in W : o.id = q.id => o = q
    BY <1>2, <1>3, <1>4, <2>6 DEF HistoryInv
  <2> HIDE DEF W, H
  <2>11. /\ Cardinality({q.user : q \in W}) \in Nat
         /\ Cardinality(W) <= Cardinality({q.user : q \in W}) * UserLimit
    BY <2>6, <2>9, <2>10, Pigeonhole
  <2>12. Cardinality({q.user : q \in W}) * UserLimit > IpLimit
    BY <2>7, <2>8, <2>11
  <2> QED
    BY <1>5, <2>12 DEF W
<1>6. CASE p # r
  <2>1. p \in passed \ admitted /\ (passed' = passed \/ passed' = passed \cup {r})
    BY <1>2, <1>6, IpCases
  <2>2. p \in requests
    BY <2>1 DEF TypeOK
  <2>3. ~(r.id <= p.id)
    BY <1>2, <1>3, <1>4, <2>2 DEF HistoryInv
  <2>4. Last(passed', p) = Last(passed, p)
    BY <2>1, <2>3 DEF Last
  <2>5. Cardinality({q.user : q \in Last(passed, p)}) * UserLimit > IpLimit
    BY <2>1 DEF NeighboursCannotStarve, Last
  <2> QED
    BY <2>4, <2>5
<1> QED
  BY <1>5, <1>6

\* The inductive invariant, with the budgets of every window.
SInv == IInv /\ UserBudgetByKey /\ IpBudgetByKey

\* The clock moves nothing out of the invariant.
LEMMA TickKeeps ==
  ASSUME SInv, Tick \/ UNCHANGED vars
  PROVE  SInv'
<1> USE DEF SInv
<1>1. /\ UNCHANGED <<userHits, ipHits, arrivals, requests, passed, admitted>>
      /\ now' \in Nat /\ now' >= now /\ now \in Nat
  BY DEF Tick, vars, IInv, TypeOK
<1>2. TypeOK'
  BY <1>1 DEF IInv, TypeOK
<1>3. \A q \in requests : q.at \in Nat
  BY DEF IInv, TypeOK, Request
<1>4. HistoryInv'
  BY <1>1, <1>3 DEF IInv, HistoryInv
<1>5. CountersInv'
  <2>1. \A q \in requests : q.at >= now' - Window => q.at >= now - Window
    BY <1>1, <1>3
  <2>2. passed \in SUBSET requests
    BY DEF IInv, TypeOK
  <2> QED
    BY <1>1, <2>1, <2>2 DEF IInv, CountersInv
<1>6. UserRejectedWithCause' /\ NeighboursCannotStarve'
  BY <1>1 DEF IInv, UserRejectedWithCause, NeighboursCannotStarve
<1>7. UserBudgetByKey' /\ IpBudgetByKey'
  BY <1>1 DEF UserBudgetByKey, IpBudgetByKey, PassedOf, AdmittedAt
<1>8. Budgets'
  BY <1>1 DEF IInv, Budgets, UserBudget, IpBudget, InWindow
<1> QED
  BY <1>2, <1>4, <1>5, <1>6, <1>7, <1>8 DEF IInv

LEMMA InitInvariant == Init => SInv
<1> SUFFICES ASSUME Init PROVE SInv
  OBVIOUS
<1>1. IsFiniteSet({}) /\ Cardinality({}) = 0
  BY FS_EmptySet
<1>2. TypeOK /\ CountersInv /\ HistoryInv /\ UserRejectedWithCause /\ NeighboursCannotStarve
  BY <1>1 DEF Init, TypeOK, CountersInv, HistoryInv, UserRejectedWithCause, NeighboursCannotStarve
<1>3. UserBudgetByKey /\ IpBudgetByKey
  <2>1. \A t \in Int : InWindow({}, t) = {}
    BY DEF InWindow
  <2>2. \A u \in Users : PassedOf(u) = {}
    BY DEF Init, PassedOf
  <2>3. \A a \in Addresses : AdmittedAt(a) = {}
    BY DEF Init, AdmittedAt
  <2> QED
    BY <1>1, <2>1, <2>2, <2>3 DEF UserBudgetByKey, IpBudgetByKey, WithinBudget
<1> QED
  BY <1>2, <1>3, BudgetsByKey DEF SInv, IInv

LEMMA StepInvariant == SInv /\ [Next]_vars => SInv'
<1> DEFINE SomeDispatch == \E u \in Users, a \in Addresses : Dispatch(u, a)
<1>1. SInv /\ SomeDispatch => TypeOK' /\ HistoryInv' /\ CountersInv'
  BY TypeDispatch, HistoryDispatch, CountersDispatch DEF SInv, IInv
<1>2. TypeOK' /\ HistoryInv' /\ CountersInv' => FiniteCounters'
  BY CountersFinite, PTL
<1>3. TypeOK' /\ UserBudgetByKey' /\ IpBudgetByKey' => Budgets'
  BY BudgetsByKey, PTL
<1>4. SInv /\ SomeDispatch => UserBudgetByKey' /\ IpBudgetByKey' /\ UserRejectedWithCause'
  BY <1>1, <1>2, UserBudgetDispatch, IpBudgetDispatch, CauseDispatch DEF SInv, IInv
<1>5. SInv /\ SomeDispatch => NeighboursCannotStarve'
  BY <1>1, <1>2, <1>4, NeighboursDispatch DEF SInv, IInv
<1>6. SInv /\ SomeDispatch => SInv'
  BY <1>1, <1>3, <1>4, <1>5 DEF SInv, IInv
<1> QED
  BY <1>6, TickKeeps DEF Next

\* In every reachable state the inductive invariant holds (RateLimitMiddleware).
THEOREM Invariance == Spec => []IInv
<1>1. Spec => []SInv
  BY InitInvariant, StepInvariant, PTL DEF Spec
<1>2. SInv => IInv
  BY DEF SInv
<1> QED
  BY <1>1, <1>2, PTL

\* Every variable keeps its type.
THEOREM TypeCorrectness == Spec => []TypeOK
<1>1. IInv => TypeOK
  BY DEF IInv
<1> QED
  BY <1>1, Invariance, PTL

\* _USER_LIMIT_PER_MIN and _IP_LIMIT_PER_MIN hold in every window of
\* _WINDOW_SECONDS, not only in those that end at an eviction.
THEOREM BudgetsAreKept == Spec => []Budgets
<1>1. IInv => Budgets
  BY DEF IInv
<1> QED
  BY <1>1, Invariance, PTL

\* A 429 for a user is the user's own doing, and recent.
THEOREM RejectionHasCause == Spec => []UserRejectedWithCause
<1>1. IInv => UserRejectedWithCause
  BY DEF IInv
<1> QED
  BY <1>1, Invariance, PTL

\* Who is refused at an address shares it with enough other users to fill it.
THEOREM NeighboursAreSafe == Spec => []NeighboursCannotStarve
<1>1. IInv => NeighboursCannotStarve
  BY DEF IInv
<1> QED
  BY <1>1, Invariance, PTL
------------------------------------------------------------------------------
\* The counters against the log of everything.

LEMMA SpecInvariance == Spec => []SInv
  BY InitInvariant, StepInvariant, PTL DEF Spec

\* What a counter holds once it has recorded the newest request is that request
\* and what the log holds against it, when the counter misses nothing recent.
LEMMA RecordedCounts ==
  ASSUME NEW hits, NEW C, NEW r, NEW limit \in Nat,
         IsFiniteSet(C), r \notin C,
         C = {q \in hits : q.at >= r.at - Window}
  PROVE  OverLimit(Recorded(hits, r), limit) <=> ~(Cardinality(C) < limit)
<1>1. Recorded(hits, r) = C \cup {r}
  BY DEF Recorded
<1>2. Cardinality(C \cup {r}) = Cardinality(C) + 1
  BY FS_AddElement
<1>3. Cardinality(C) \in Nat
  BY FS_CardinalityType
<1>4. Cardinality(C) + 1 > limit <=> ~(Cardinality(C) < limit)
  BY <1>3
<1> QED
  BY <1>1, <1>2, <1>4 DEF OverLimit

\* The log counts with the same Cardinality.
LEMMA SameCount == ASSUME NEW S PROVE Log!Cardinality(S) = Cardinality(S)
  BY DEF Log!Cardinality, Cardinality

\* The user's counter decides as the log does.
LEMMA UserCheckIsLogs ==
  ASSUME TypeOK, HistoryInv, CountersInv, NEW r \in Request, r.id = arrivals, r.at = now
  PROVE  OverLimit(Recorded(userHits[r.user], r), UserLimit) <=> ~Log!WithinUserLimit(r)
<1> DEFINE H == userHits[r.user]
           C == {q \in H : q.at >= r.at - Window}
<1>1. r.user \in Users
  BY DEF Request
<1>2. \A q \in requests : q.user \in Users /\ q.at \in Nat /\ q.id \in Nat
  BY DEF TypeOK, Request
<1>3. \A q \in H : q \in requests /\ q.user = r.user
  BY <1>1 DEF CountersInv
<1>4. \A q \in requests : q.user = r.user /\ q.at >= r.at - Window => q \in H
  BY <1>2 DEF CountersInv
<1>5. C = Log!Asked(r)
  BY <1>3, <1>4 DEF Log!Asked
<1>6. IsFiniteSet(C) /\ r \notin C
  <2>1. C \in SUBSET requests /\ IsFiniteSet(requests)
    BY <1>3 DEF HistoryInv
  <2>2. r \notin requests
    BY <1>2 DEF HistoryInv
  <2> QED
    BY <2>1, <2>2, FS_Subset
<1>7. OverLimit(Recorded(H, r), UserLimit) <=> ~(Cardinality(C) < UserLimit)
  BY <1>6, RecordedCounts
<1> QED
  BY <1>5, <1>7, SameCount DEF Log!WithinUserLimit

\* The address's counter decides as the log does.
LEMMA IpCheckIsLogs ==
  ASSUME TypeOK, HistoryInv, CountersInv, NEW r \in Request, r.id = arrivals, r.at = now
  PROVE  OverLimit(Recorded(ipHits[r.ip], r), IpLimit) <=> ~Log!WithinIpLimit(r)
<1> DEFINE H == ipHits[r.ip]
           C == {q \in H : q.at >= r.at - Window}
<1>1. r.ip \in Addresses /\ passed \in SUBSET requests
  BY DEF Request, TypeOK
<1>2. \A q \in requests : q.ip \in Addresses /\ q.at \in Nat /\ q.id \in Nat
  BY DEF TypeOK, Request
<1>3. \A q \in H : q \in passed /\ q.ip = r.ip
  BY <1>1 DEF CountersInv
<1>4. \A q \in passed : q.ip = r.ip /\ q.at >= r.at - Window => q \in H
  BY <1>1, <1>2 DEF CountersInv
<1>5. C = Log!Heard(r)
  BY <1>3, <1>4 DEF Log!Heard
<1>6. IsFiniteSet(C) /\ r \notin C
  <2>1. C \in SUBSET requests /\ IsFiniteSet(requests)
    BY <1>1, <1>3 DEF HistoryInv
  <2>2. r \notin requests
    BY <1>2 DEF HistoryInv
  <2> QED
    BY <2>1, <2>2, FS_Subset
<1>7. OverLimit(Recorded(H, r), IpLimit) <=> ~(Cardinality(C) < IpLimit)
  BY <1>6, RecordedCounts
<1> QED
  BY <1>5, <1>7, SameCount DEF Log!WithinIpLimit

\* A dispatched request is an arrival at the log.
LEMMA DispatchArrives ==
  ASSUME TypeOK, HistoryInv, CountersInv, NEW u \in Users, NEW a \in Addresses, Dispatch(u, a)
  PROVE  Log!Arrive(u, a)
<1>1. PICK r : r = NewRequest(u, a)
  OBVIOUS
<1>2. /\ r \in Request /\ r.id = arrivals /\ r.at = now /\ r.user = u /\ r.ip = a
      /\ RejectUser(r) \/ RejectIp(r) \/ Admit(r)
      /\ userHits'[u] = Recorded(userHits[u], r)
      /\ arrivals' = arrivals + 1 /\ requests' = requests \cup {r} /\ now' = now
  BY <1>1, DispatchCases
<1>3. OverLimit(userHits'[u], UserLimit) <=> ~Log!WithinUserLimit(r)
  BY <1>2, UserCheckIsLogs
<1>4. OverLimit(Recorded(ipHits[a], r), IpLimit) <=> ~Log!WithinIpLimit(r)
  BY <1>2, IpCheckIsLogs
<1>5. CASE Log!WithinUserLimit(r)
  <2>1. /\ passed' = passed \cup {r}
        /\ admitted' = IF Log!WithinIpLimit(r) THEN admitted \cup {r} ELSE admitted
    BY <1>2, <1>3, <1>4, <1>5, IpCases
  <2> QED
    BY <1>1, <1>2, <1>5, <2>1 DEF Log!Arrive, NewRequest
<1>6. CASE ~Log!WithinUserLimit(r)
  <2>1. passed' = passed /\ admitted' = admitted
    BY <1>2, <1>3, <1>6, IpCases
  <2> QED
    BY <1>1, <1>2, <1>6, <2>1 DEF Log!Arrive, NewRequest
<1> QED
  BY <1>5, <1>6

\* RateLimitMiddleware decides every request as if it had kept and counted all of
\* them, whatever its deques have evicted and whenever.
THEOREM CountersImplementLog == Spec => ImplementsLog
<1>1. Init => Log!Init
  BY DEF Init, Log!Init
<1>2. SInv /\ [Next]_vars => [Log!Next]_(Log!logVars)
  <2> SUFFICES ASSUME SInv, [Next]_vars PROVE [Log!Next]_(Log!logVars)
    OBVIOUS
  <2>1. ASSUME NEW u \in Users, NEW a \in Addresses, Dispatch(u, a) PROVE Log!Next
    BY <2>1, DispatchArrives DEF SInv, IInv, Log!Next
  <2>2. CASE Tick
    BY <2>2 DEF Tick, Log!Next, Log!Pass
  <2>3. CASE UNCHANGED vars
    BY <2>3 DEF vars, Log!logVars
  <2> QED
    BY <2>1, <2>2, <2>3 DEF Next
<1> QED
  BY <1>1, <1>2, SpecInvariance, PTL DEF Spec, ImplementsLog, Log!Spec

\* A user, or an address, all of whose counted requests have left the window.
UserWaited(u) == \A q \in requests : q.user = u => q.at < now - Window
AddressWaited(a) == \A q \in passed : q.ip = a => q.at < now - Window

\* The 429 answers name _WINDOW_SECONDS as Retry-After: who has asked for nothing in
\* more than that time passes, and gets in if that is true of the address as well.
RetryAfterSuffices ==
  [][\A u \in Users, a \in Addresses :
       Dispatch(u, a) /\ UserLimit > 0 /\ UserWaited(u) =>
         /\ NewRequest(u, a) \in passed'
         /\ IpLimit > 0 /\ AddressWaited(a) => NewRequest(u, a) \in admitted']_vars

THEOREM WaitingSuffices == Spec => RetryAfterSuffices
<1> DEFINE Served(u, a) ==
             Dispatch(u, a) /\ UserLimit > 0 /\ UserWaited(u) =>
               /\ NewRequest(u, a) \in passed'
               /\ IpLimit > 0 /\ AddressWaited(a) => NewRequest(u, a) \in admitted'
<1>1. SInv /\ [Next]_vars => \A u \in Users, a \in Addresses : Served(u, a)
  <2> SUFFICES ASSUME SInv, NEW u \in Users, NEW a \in Addresses,
                      Dispatch(u, a), UserLimit > 0, UserWaited(u)
               PROVE  /\ NewRequest(u, a) \in passed'
                      /\ IpLimit > 0 /\ AddressWaited(a) => NewRequest(u, a) \in admitted'
    OBVIOUS
  <2>1. PICK r : r = NewRequest(u, a)
    OBVIOUS
  <2>2. r.at = now /\ r.user = u /\ r.ip = a /\ now \in Nat
    BY <2>1 DEF NewRequest, SInv, IInv, TypeOK
  <2>3. /\ passed' = IF Log!WithinUserLimit(r) THEN passed \cup {r} ELSE passed
        /\ admitted' = IF Log!WithinUserLimit(r) /\ Log!WithinIpLimit(r)
                         THEN admitted \cup {r} ELSE admitted
    BY <2>1, DispatchArrives DEF SInv, IInv, Log!Arrive, NewRequest
  <2>4. \A q \in requests : q.at \in Nat
    BY DEF SInv, IInv, TypeOK, Request
  <2>5. Log!WithinUserLimit(r)
    <3>1. Log!Asked(r) = {}
      BY <2>2, <2>4 DEF Log!Asked, UserWaited
    <3> QED
      BY <3>1, SameCount, FS_EmptySet DEF Log!WithinUserLimit
  <2>6. ASSUME IpLimit > 0, AddressWaited(a) PROVE Log!WithinIpLimit(r)
    <3>1. passed \in SUBSET requests
      BY DEF SInv, IInv, TypeOK
    <3>2. Log!Heard(r) = {}
      BY <2>2, <2>4, <2>6, <3>1 DEF Log!Heard, AddressWaited
    <3> QED
      BY <2>6, <3>2, SameCount, FS_EmptySet DEF Log!WithinIpLimit
  <2> QED
    BY <2>1, <2>3, <2>5, <2>6
<1> QED
  BY <1>1, SpecInvariance, PTL DEF Spec, RetryAfterSuffices
==============================================================================
