----------------------------- MODULE SlidingLog -----------------------------
(***************************************************************************)
(* What RateLimitMiddleware promises its callers, with no counter in       *)
(* sight: every request is remembered, and a request goes through if fewer *)
(* of its user's requests, and then fewer of the requests its address has  *)
(* got past their users' limits, lie in the Window seconds before it than  *)
(* the limits allow.                                                       *)
(***************************************************************************)
EXTENDS Integers, FiniteSets

CONSTANTS Users, Addresses, UserLimit, IpLimit, Window

VARIABLES
  now,       \* the time of day
  arrivals,  \* number of requests so far, the name of the next
  requests,  \* every request
  passed,    \* those within their user's limit
  admitted   \* those within both limits

logVars == <<now, arrivals, requests, passed, admitted>>

Init ==
  /\ now = 0
  /\ arrivals = 0
  /\ requests = {} /\ passed = {} /\ admitted = {}

\* What counts against the user of a request, and against its address.
Asked(r) == {q \in requests : q.user = r.user /\ q.at >= r.at - Window}
Heard(r) == {q \in passed : q.ip = r.ip /\ q.at >= r.at - Window}

WithinUserLimit(r) == Cardinality(Asked(r)) < UserLimit
WithinIpLimit(r) == Cardinality(Heard(r)) < IpLimit

Arrive(u, a) ==
  LET r == [id |-> arrivals, at |-> now, user |-> u, ip |-> a] IN
  /\ arrivals' = arrivals + 1
  /\ requests' = requests \cup {r}
  /\ passed' = IF WithinUserLimit(r) THEN passed \cup {r} ELSE passed
  /\ admitted' = IF WithinUserLimit(r) /\ WithinIpLimit(r) THEN admitted \cup {r} ELSE admitted
  /\ UNCHANGED now

Pass == now' = now + 1 /\ UNCHANGED <<arrivals, requests, passed, admitted>>

Next == (\E u \in Users, a \in Addresses : Arrive(u, a)) \/ Pass

Spec == Init /\ [][Next]_logVars
==============================================================================
