------------------------------ MODULE RateLimit ------------------------------
(***************************************************************************)
(* RateLimitMiddleware: two sliding windows in front of every route.       *)
(*                                                                         *)
(* A request is counted for its user first; over the user's limit it is    *)
(* answered 429 and its address never hears of it.  Otherwise it is        *)
(* counted for its address.  dispatch() awaits nothing before both checks  *)
(* are made, so one request is one step.  Rejected requests stay in the    *)
(* window they were counted in.                                            *)
(***************************************************************************)
EXTENDS Integers, FiniteSets

CONSTANTS Users,       \* user ids, "anonymous" among them
          Addresses,   \* client IPs
          UserLimit,   \* _USER_LIMIT_PER_MIN
          IpLimit,     \* _IP_LIMIT_PER_MIN
          Window,      \* _WINDOW_SECONDS
          MaxTime,     \* bound on the clock
          MaxRequests  \* bound on the requests

ASSUME LimitAssumption == UserLimit \in Nat /\ IpLimit \in Nat /\ Window \in Nat

VARIABLES
  now,        \* time.monotonic()
  userHits,   \* _user_counter._counts: the requests whose times it keeps
  ipHits,     \* _ip_counter._counts
  arrivals,   \* history: number of requests so far
  requests,   \* history: every throttled request
  passed,     \* history: those within their user's limit
  admitted    \* history: those handed to the rest of the stack

vars == <<now, userHits, ipHits, arrivals, requests, passed, admitted>>

Request == [id : Nat, at : Nat, user : Users, ip : Addresses]

TypeOK ==
  /\ now \in Nat
  /\ userHits \in [Users -> SUBSET Request]
  /\ ipHits \in [Addresses -> SUBSET Request]
  /\ arrivals \in Nat
  /\ requests \in SUBSET Request
  /\ passed \in SUBSET requests
  /\ admitted \in SUBSET passed

Init ==
  /\ now = 0
  /\ userHits = [u \in Users |-> {}]
  /\ ipHits = [a \in Addresses |-> {}]
  /\ arrivals = 0
  /\ requests = {} /\ passed = {} /\ admitted = {}

\* Mutants: the start of the window is recorded in place of the hit; a hit on the
\* edge of the window is evicted.
RecordedAtStart(hits, r) ==
  {q \in hits : q.at >= r.at - Window} \cup {[r EXCEPT !.at = @ - Window]}

RecordedStrict(hits, r) == {q \in hits : q.at > r.at - Window} \cup {r}

\* increment(): evict what has left the window, record the hit.  The length of the
\* result is the count.
Recorded(hits, r) == {q \in hits : q.at >= r.at - Window} \cup {r}

\* Mutants: the limit is off by one either way.
OverLimitEarly(hits, limit) == Cardinality(hits) >= limit

OverLimitLate(hits, limit) == Cardinality(hits) > limit + 1

OverLimit(hits, limit) == Cardinality(hits) > limit

\* Mutant: a request over its user's limit is counted for the address too.
RejectUserCounted(r) ==
  /\ OverLimit(userHits'[r.user], UserLimit)
  /\ ipHits' = [ipHits EXCEPT ![r.ip] = Recorded(@, r)]
  /\ UNCHANGED <<passed, admitted>>

RejectUser(r) ==
  /\ OverLimit(userHits'[r.user], UserLimit)
  /\ UNCHANGED <<ipHits, passed, admitted>>

RejectIp(r) ==
  /\ ~OverLimit(userHits'[r.user], UserLimit)
  /\ ipHits' = [ipHits EXCEPT ![r.ip] = Recorded(@, r)]
  /\ OverLimit(ipHits'[r.ip], IpLimit)
  /\ passed' = passed \cup {r}
  /\ UNCHANGED admitted

Admit(r) ==
  /\ ~OverLimit(userHits'[r.user], UserLimit)
  /\ ipHits' = [ipHits EXCEPT ![r.ip] = Recorded(@, r)]
  /\ ~OverLimit(ipHits'[r.ip], IpLimit)
  /\ passed' = passed \cup {r}
  /\ admitted' = admitted \cup {r}

Dispatch(u, a) ==
  LET r == [id |-> arrivals, at |-> now, user |-> u, ip |-> a] IN
  /\ arrivals < MaxRequests
  /\ userHits' = [userHits EXCEPT ![u] = Recorded(@, r)]
  /\ RejectUser(r) \/ RejectIp(r) \/ Admit(r)
  /\ arrivals' = arrivals + 1
  /\ requests' = requests \cup {r}
  /\ UNCHANGED now

Tick ==
  /\ now < MaxTime
  /\ now' = now + 1
  /\ UNCHANGED <<userHits, ipHits, arrivals, requests, passed, admitted>>

Next == (\E u \in Users, a \in Addresses : Dispatch(u, a)) \/ Tick

Spec == Init /\ [][Next]_vars

------------------------------------------------------------------------------
\* Properties.

\* The requests of S in the window that begins at time t.
InWindow(S, t) == {q \in S : t <= q.at /\ q.at <= t + Window}

\* No window of Window seconds, wherever it begins, sees more than UserLimit
\* requests of one user pass.
UserBudget ==
  \A r \in passed :
    Cardinality(InWindow({q \in passed : q.user = r.user}, r.at)) <= UserLimit

\* The same for what one address gets through, whichever users share it.
IpBudget ==
  \A r \in admitted :
    Cardinality(InWindow({q \in admitted : q.ip = r.ip}, r.at)) <= IpLimit

\* Eviction, which runs only when the same user or address asks again, never forgets
\* a request that still counts, whatever the other counter lets through.
Budgets == UserBudget /\ IpBudget

\* A user is rejected only after UserLimit requests of their own within the last
\* Window seconds: neither old requests nor other users' count against them.
UserRejectedWithCause ==
  \A r \in requests \ passed :
    Cardinality({q \in requests : q.user = r.user /\ q.id < r.id /\ q.at >= r.at - Window})
      >= UserLimit

\* One user alone cannot use up the limit of an address they share: when an address
\* is refused, its last window holds requests of more than IpLimit / UserLimit
\* users, because a user over their own limit no longer counts for the address.
NeighboursCannotStarve ==
  \A r \in passed \ admitted :
    LET window == {q \in passed : q.ip = r.ip /\ q.id <= r.id /\ q.at >= r.at - Window} IN
    Cardinality({q.user : q \in window}) * UserLimit > IpLimit

\* Keeping two pruned counters comes to the same, request by request, as counting
\* in the log of everything that was ever asked: no answer depends on when a deque
\* was last evicted, and a limit is used in full before anyone is refused.
Log == INSTANCE SlidingLog
ImplementsLog == Log!Spec

------------------------------------------------------------------------------
\* The inductive invariant behind these properties, but for the budgets of windows
\* that begin between two requests.

\* The counters keep every request that is in the window now, and only requests
\* of their key.
CountersInv ==
  /\ \A q \in requests : q.at >= now - Window => q \in userHits[q.user]
  /\ \A q \in passed : q.at >= now - Window => q \in ipHits[q.ip]
  /\ \A u \in Users : \A q \in userHits[u] : q \in requests /\ q.user = u
  /\ \A a \in Addresses : \A q \in ipHits[a] : q \in passed /\ q.ip = a

\* Requests are numbered in the order of the clock.
HistoryInv ==
  /\ IsFiniteSet(requests)
  /\ \A q \in requests : q.id < arrivals /\ q.at <= now
  /\ \A p, q \in requests : p.id = q.id => p = q

IInv ==
  /\ TypeOK /\ CountersInv /\ HistoryInv
  /\ Budgets /\ UserRejectedWithCause /\ NeighboursCannotStarve
==============================================================================
