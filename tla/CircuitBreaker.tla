--------------------------- MODULE CircuitBreaker ---------------------------
(***************************************************************************)
(* What the methods of CircuitBreaker come to, without clock, timestamps   *)
(* and loop: a breaker counts the failures since it closed, opens at the   *)
(* threshold for OpenDuration seconds, lets no call through while they     *)
(* last, and then starts afresh, which is what the code has in the place   *)
(* of the half-open state of its docstring.                                *)
(***************************************************************************)
EXTENDS Integers

CONSTANTS Breakers, MaxFailures, OpenDuration

VARIABLES
  count,  \* failures in a row since a breaker closed
  rest,   \* seconds an open breaker stays open; a closed one has none
  busy    \* the breaker a call has entered and not left, if any

breakers == <<count, rest, busy>>

Init ==
  /\ count = [b \in Breakers |-> 0]
  /\ rest = [b \in Breakers |-> 0]
  /\ busy = {}

Enter(b) ==
  /\ busy = {}
  /\ rest[b] = 0
  /\ busy' = {b}
  /\ UNCHANGED <<count, rest>>

Success(b) ==
  /\ b \in busy
  /\ count' = [count EXCEPT ![b] = 0]
  /\ busy' = {}
  /\ UNCHANGED rest

Failure(b) ==
  /\ b \in busy
  /\ \/ /\ count[b] + 1 < MaxFailures
        /\ count' = [count EXCEPT ![b] = @ + 1]
        /\ UNCHANGED rest
     \/ /\ count[b] + 1 >= MaxFailures
        /\ count' = [count EXCEPT ![b] = 0]
        /\ rest' = [rest EXCEPT ![b] = OpenDuration]
  /\ busy' = {}

Second ==
  /\ rest' = [b \in Breakers |-> IF rest[b] = 0 THEN 0 ELSE rest[b] - 1]
  /\ UNCHANGED <<count, busy>>

Next == (\E b \in Breakers : Enter(b) \/ Success(b) \/ Failure(b)) \/ Second

Spec == Init /\ [][Next]_breakers
==============================================================================
