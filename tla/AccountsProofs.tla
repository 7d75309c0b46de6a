---------------------------- MODULE AccountsProofs ----------------------------
(***************************************************************************)
(* Proofs about Accounts: for any number of processes, names, passwords,   *)
(* roles and reset tokens.                                                 *)
(***************************************************************************)
EXTENDS Accounts, TLAPS

\* What a request carries.
LEMMA JobFields ==
  ASSUME NEW j \in Job
  PROVE  /\ j # None /\ j.name \in Names /\ j.kind \in {"rehash", "attach", "reset"}
         /\ j.kind = "rehash" => j.password \in Passwords /\ j.role \in Roles
         /\ j.kind = "attach" => j.token \in ResetTokens
         /\ j.kind = "reset" => j.password \in Passwords /\ j.token \in ResetTokens
BY NoneAssumption DEF Job

\* The three updates of an account, the third of which is AfterReset.
Renewed(a, w) == [a EXCEPT !.password = w, !.scheme = "scrypt"]
Carrying(a, t) == [a EXCEPT !.reset_token = t]

LEMMA RehashFields ==
  ASSUME NEW a \in Account, NEW w \in Passwords
  PROVE  LET b == Renewed(a, w)
         IN  /\ b \in Account /\ b # None
             /\ b.scheme = "scrypt" /\ b.role = a.role /\ b.reset_token = a.reset_token /\ b.born = a.born
BY NoneAssumption DEF Account, Schemes, Renewed

LEMMA AttachFields ==
  ASSUME NEW a \in Account, NEW t \in ResetTokens
  PROVE  LET b == Carrying(a, t)
         IN  /\ b \in Account /\ b # None
             /\ b.password = a.password /\ b.scheme = a.scheme /\ b.role = a.role
             /\ b.reset_token = t /\ b.chosen = a.chosen /\ b.born = a.born
BY NoneAssumption DEF Account, Carrying

LEMMA ResetFields ==
  ASSUME NEW a \in Account, NEW w \in Passwords
  PROVE  LET b == AfterReset(a, w)
         IN  /\ b \in Account /\ b # None
             /\ b.password = w /\ b.scheme = "scrypt" /\ b.role = a.role
             /\ b.reset_token = None /\ b.chosen = w /\ b.born = a.born
BY NoneAssumption DEF Account, Schemes, AfterReset

\* A store is one of the stores, and a process's own table is not MongoDB.
LEMMA StoreTypes ==
  ASSUME NEW p \in Processes
  PROVE  StoreOf(p) \in Stores /\ p \in Stores /\ p # Mongo /\ Mongo \in Stores
BY MongoAssumption DEF StoreOf, Stores

\* A write reaches one account of one store.
LEMMA WriteReaches ==
  ASSUME TypeOK, NEW p \in Processes, NEW n \in Names, NEW a \in Account, Write(p, n, a)
  PROVE  /\ users' \in [Stores -> [Names -> Account \cup {None}]]
         /\ users'[StoreOf(p)][n] = a
         /\ \A s \in Stores, m \in Names :
              s # StoreOf(p) \/ m # n => users'[s][m] = users[s][m]
BY StoreTypes DEF TypeOK, Write

\* A request that has begun is on an account of its process's store.
LEMMA JobAccount ==
  ASSUME TypeOK, JobsInv, NEW p \in Processes, job[p] # None
  PROVE  /\ job[p] \in Job /\ job[p].name \in Names /\ running[p]
         /\ AccountAt(p, job[p].name) \in Account
BY JobFields, StoreTypes DEF TypeOK, JobsInv, AccountAt

\* A write that ends the job of p, and changes no account's role or birth, keeps JobsInv.
LEMMA JobsFrame ==
  ASSUME TypeOK, JobsInv, NEW p \in Processes, UNCHANGED <<durable, running>>,
         \A s \in Stores, m \in Names :
           /\ users'[s][m] # None <=> users[s][m] # None
           /\ users[s][m] # None => /\ users'[s][m].role = users[s][m].role
                                    /\ users'[s][m].born = users[s][m].born,
         \A q \in Processes : job'[q] = IF q = p THEN None ELSE job[q]
  PROVE  JobsInv'
<1> SUFFICES ASSUME NEW q \in Processes, job'[q] # None
             PROVE  /\ running'[q]
                    /\ AccountAt(q, job[q].name)' # None
                    /\ job'[q].kind = "rehash" => /\ AccountAt(q, job[q].name)'.born = "sha256_crypt"
                                                  /\ AccountAt(q, job[q].name)'.role = job'[q].role
  BY DEF JobsInv
<1>1. job'[q] = job[q] /\ job[q] # None
  OBVIOUS
<1>2. job[q].name \in Names /\ running[q] /\ AccountAt(q, job[q].name) # None
  BY <1>1, JobAccount DEF JobsInv
<1>3. PICK s \in Stores : s = StoreOf(q) /\ StoreOf(q)' = s
  BY StoreTypes DEF StoreOf
<1>4. PICK m \in Names : m = job[q].name
  BY <1>2
<1>5. users[s][m] # None /\ users'[s][m] # None
  BY <1>2, <1>3, <1>4 DEF AccountAt
<1>6. users'[s][m].role = users[s][m].role /\ users'[s][m].born = users[s][m].born
  BY <1>5
<1>7. AccountAt(q, job[q].name)' = users'[s][m] /\ AccountAt(q, job[q].name) = users[s][m]
  BY <1>1, <1>3, <1>4 DEF AccountAt
<1>8. job[q].kind = "rehash" => users[s][m].born = "sha256_crypt" /\ users[s][m].role = job[q].role
  BY <1>1, <1>7 DEF JobsInv
<1> QED
  BY <1>1, <1>2, <1>5, <1>6, <1>7, <1>8

\* The next start is within its bound.
LEMMA StartCount == ASSUME TypeOK, starts < MaxStarts
                    PROVE  /\ starts + 1 \in 0..MaxStarts /\ starts + 1 \in 1..(starts + 1)
                           /\ \A k \in 1..starts : k \in 1..(starts + 1) /\ k # starts + 1
BY BoundsAssumption DEF TypeOK

------------------------------------------------------------------------------
\* Every step keeps the inductive invariant.

LEMMA InitEstablishes == Init => IInv
<1> SUFFICES ASSUME Init PROVE IInv
  OBVIOUS
<1>1. PICK stored \in [Names -> {a \in Account : a.reset_token = None /\ a.chosen = a.password /\ a.born = a.scheme}
                                \cup {None}] :
        users = [s \in Stores |-> IF s = Mongo THEN stored ELSE Empty]
  BY DEF Init
<1>2. /\ users \in [Stores -> [Names -> Account \cup {None}]]
      /\ \A s \in Stores, n \in Names :
           users[s][n] # None => /\ users[s][n].reset_token = None
                                 /\ users[s][n].chosen = users[s][n].password
                                 /\ users[s][n].born = users[s][n].scheme
  BY <1>1 DEF Empty
<1>3. TypeOK
  BY <1>2, BoundsAssumption DEF Init, TypeOK
<1>4. KeysInv /\ KnownInv /\ JobsInv
  BY DEF Init, KeysInv, KnownInv, JobsInv
<1>5. DigestsInv
  BY <1>2 DEF DigestsInv
<1>6. TokensInv
  BY <1>2, NoneAssumption DEF Init, TokensInv, Carries, Attaches, Spends
<1> QED
  BY <1>3, <1>4, <1>5, <1>6 DEF IInv

LEMMA StartKeeps == ASSUME IInv, NEW p \in Processes, Start(p) PROVE IInv'
<1> USE DEF IInv
<1>1. TypeOK'
  <2>1. KeyOf(starts + 1) \in 0..MaxStarts
    BY StartCount, BoundsAssumption DEF Start, KeyOf
  <2> QED
    BY <2>1, StartCount DEF TypeOK, Start, resetVars
<1>2. KeysInv'
  <2>1. CASE configured
    BY <2>1 DEF TypeOK, Start, KeyOf, KeysInv
  <2>2. CASE ~configured
    <3>1. /\ \A q \in Processes : running'[q] => key'[q] \in 1..(starts + 1)
          /\ token # None => token.key \in 1..(starts + 1)
      BY <2>2, StartCount DEF TypeOK, Start, KeyOf, KeysInv
    <3>2. \A q, r \in Processes : running'[q] /\ running'[r] /\ key'[q] = key'[r] => q = r
      BY <2>2, StartCount DEF TypeOK, Start, KeyOf, KeysInv
    <3> QED
      BY <2>2, <3>1, <3>2 DEF Start, KeysInv
  <2> QED
    BY <2>1, <2>2 DEF TypeOK
<1>3. KnownInv'
  BY StartCount DEF TypeOK, Start, KeyOf, KeysInv, KnownInv, AccountAt, StoreOf
<1>4. DigestsInv' /\ JobsInv'
  BY DEF TypeOK, Start, DigestsInv, JobsInv, AccountAt, StoreOf
<1>5. TokensInv'
  BY DEF Start, resetVars, TokensInv, Carries, Attaches, Spends, StoreOf
<1> QED
  BY <1>1, <1>2, <1>3, <1>4, <1>5

\* A process that ends leaves nothing of its own; in MongoDB everything stays.
LEMMA StopKeeps == ASSUME IInv, NEW p \in Processes, Stop(p) PROVE IInv'
<1> USE DEF IInv
<1>1. TypeOK'
  BY StoreTypes DEF TypeOK, Stop, Empty, resetVars
<1>2. /\ \A s \in Stores, n \in Names : users'[s][n] = IF s = p THEN None ELSE users[s][n]
      /\ \A q \in Processes : job'[q] = IF q = p THEN None ELSE job[q]
      /\ \A q \in Processes : running'[q] <=> q # p /\ running[q]
  BY StoreTypes DEF TypeOK, Stop, Empty
<1>3. \A q \in Processes : durable \/ q # p => StoreOf(q) \in Stores /\ StoreOf(q) # p
  BY StoreTypes DEF StoreOf
<1>4. KeysInv'
  BY <1>2 DEF TypeOK, Stop, KeysInv
<1>5. KnownInv'
  BY <1>2, <1>3 DEF TypeOK, Stop, KnownInv, AccountAt, StoreOf, Token
<1>6. DigestsInv'
  BY <1>2 DEF DigestsInv
<1>7. JobsInv'
  BY <1>2, <1>3, JobAccount DEF Stop, JobsInv, AccountAt, StoreOf
<1>8. TokensInv'
  BY <1>2 DEF Stop, resetVars, TokensInv, Carries, Attaches, Spends, StoreOf
<1> QED
  BY <1>1, <1>4, <1>5, <1>6, <1>7, <1>8

LEMMA DatabaseErrorKeeps == ASSUME IInv, NEW p \in Processes, DatabaseError(p) PROVE IInv'
<1> USE DEF IInv
<1>1. TypeOK'
  BY DEF TypeOK, DatabaseError, Done, processVars, resetVars
<1>2. \A q \in Processes : job'[q] = IF q = p THEN None ELSE job[q]
  BY DEF TypeOK, DatabaseError, Done
<1>3. KeysInv' /\ KnownInv' /\ DigestsInv'
  BY DEF DatabaseError, processVars, KeysInv, KnownInv, DigestsInv, AccountAt, StoreOf
<1>4. JobsInv'
  BY <1>2 DEF DatabaseError, processVars, JobsInv, AccountAt, StoreOf
<1>5. TokensInv'
  BY <1>2 DEF DatabaseError, resetVars, TokensInv, Carries, Attaches, Spends, StoreOf
<1> QED
  BY <1>1, <1>3, <1>4, <1>5

LEMMA RequestResetKeeps ==
  ASSUME IInv, NEW p \in Processes, NEW n \in Names, NEW t \in ResetTokens, RequestReset(p, n, t)
  PROVE  IInv'
<1> USE DEF IInv
<1> DEFINE j == [kind |-> "attach", name |-> n, token |-> t]
<1>1. /\ j \in Job /\ j # None /\ j.kind = "attach" /\ j.name = n /\ j.token = t
      /\ n # None
  BY NoneAssumption DEF Job
<1>2. \A q \in Processes : job'[q] = IF q = p THEN j ELSE job[q]
  BY DEF TypeOK, RequestReset
<1>3. \A u \in ResetTokens : holder'[u] = IF u = t THEN n ELSE holder[u]
  BY DEF TypeOK, RequestReset
<1>4. TypeOK'
  BY <1>1 DEF TypeOK, RequestReset, processVars
<1>5. KeysInv' /\ KnownInv' /\ DigestsInv'
  BY DEF RequestReset, processVars, KeysInv, KnownInv, DigestsInv, AccountAt, StoreOf
<1>6. JobsInv'
  BY <1>1, <1>2 DEF RequestReset, processVars, Idle, JobsInv, AccountAt, StoreOf
<1>7. /\ t \notin spent
      /\ \A s \in Stores, m \in Names : ~Carries(s, m, t)
      /\ \A q \in Processes : ~Attaches(q, t) /\ ~Spends(q, t)
  <2>1. holder[t] = None /\ \A m \in Names : m # None
    BY NoneAssumption DEF RequestReset
  <2>2. \A q \in Processes : job[q] # None => job[q].name \in Names
    BY JobFields DEF TypeOK
  <2> QED
    BY <2>1, <2>2 DEF TokensInv, Attaches, Spends
<1>8. TokensInv'
  <2> SUFFICES ASSUME NEW u \in ResetTokens
               PROVE  /\ u \in spent' => holder'[u] # None
                      /\ \A s \in Stores, m \in Names : Carries(s, m, u)' => holder'[u] = m /\ u \notin spent'
                      /\ \A s, r \in Stores, m, o \in Names : Carries(s, m, u)' /\ Carries(r, o, u)' => s = r
                      /\ \A q \in Processes : Attaches(q, u)' =>
                           /\ holder'[u] = job'[q].name /\ u \notin spent'
                           /\ \A s \in Stores, m \in Names : ~Carries(s, m, u)'
                           /\ \A r \in Processes : Attaches(r, u)' => r = q
                      /\ \A q \in Processes : Spends(q, u)' =>
                           /\ holder'[u] = job'[q].name
                           /\ \A r \in Processes : ~Attaches(r, u)'
                           /\ \A s \in Stores, m \in Names : Carries(s, m, u)' => s = StoreOf(q)'
    BY DEF TokensInv
  <2>1. /\ spent' = spent
        /\ \A s \in Stores, m \in Names : Carries(s, m, u)' <=> Carries(s, m, u)
        /\ \A q \in Processes : Attaches(q, u)' <=> IF q = p THEN u = t ELSE Attaches(q, u)
        /\ \A q \in Processes : Spends(q, u)' <=> q # p /\ Spends(q, u)
        /\ \A q \in Processes : StoreOf(q)' = StoreOf(q)
    BY <1>1, <1>2 DEF RequestReset, processVars, Carries, Attaches, Spends, StoreOf
  <2>2. CASE u = t
    BY <1>1, <1>2, <1>3, <1>7, <2>1, <2>2
  <2>3. CASE u # t
    BY <1>2, <1>3, <2>1, <2>3 DEF TokensInv
  <2> QED
    BY <2>2, <2>3
<1> QED
  BY <1>4, <1>5, <1>6, <1>8

LEMMA ResetPasswordKeeps ==
  ASSUME IInv, NEW p \in Processes, NEW n \in Names, NEW t \in ResetTokens, NEW w \in Passwords,
         ResetPassword(p, n, t, w)
  PROVE  IInv'
<1> USE DEF IInv
<1> DEFINE j == [kind |-> "reset", name |-> n, password |-> w, token |-> t]
<1>1. /\ j \in Job /\ j # None /\ j.kind = "reset" /\ j.name = n /\ j.token = t
  BY NoneAssumption DEF Job
<1>2. \A q \in Processes : job'[q] = IF q = p THEN j ELSE job[q]
  BY DEF TypeOK, ResetPassword
<1>3. TypeOK'
  BY <1>1 DEF TypeOK, ResetPassword, processVars, resetVars
<1>4. KeysInv' /\ KnownInv' /\ DigestsInv'
  BY DEF ResetPassword, processVars, KeysInv, KnownInv, DigestsInv, AccountAt, StoreOf
<1>5. JobsInv'
  BY <1>1, <1>2 DEF ResetPassword, processVars, Idle, Holds, JobsInv, AccountAt, StoreOf
<1>6. Carries(StoreOf(p), n, t) /\ StoreOf(p) \in Stores
  BY StoreTypes DEF ResetPassword, Holds, AccountAt, Carries
<1>7. TokensInv'
  <2>1. /\ spent' = spent /\ holder' = holder
        /\ \A u \in ResetTokens, s \in Stores, m \in Names : Carries(s, m, u)' <=> Carries(s, m, u)
        /\ \A u \in ResetTokens, q \in Processes : Attaches(q, u)' <=> q # p /\ Attaches(q, u)
        /\ \A u \in ResetTokens, q \in Processes : Spends(q, u)' <=> IF q = p THEN u = t ELSE Spends(q, u)
        /\ \A q \in Processes : StoreOf(q)' = StoreOf(q)
    BY <1>1, <1>2 DEF ResetPassword, processVars, resetVars, Carries, Attaches, Spends, StoreOf
  <2>2. holder[t] = n /\ \A q \in Processes : ~Attaches(q, t)
    BY <1>6 DEF TokensInv
  <2> QED
    BY <1>1, <1>2, <1>6, <2>1, <2>2 DEF TokensInv
<1> QED
  BY <1>3, <1>4, <1>5, <1>7

LEMMA TickKeeps == ASSUME IInv, Tick PROVE IInv'
<1> USE DEF IInv
<1>1. TypeOK'
  BY BoundsAssumption DEF TypeOK, Tick, processVars, resetVars
<1>2. KeysInv' /\ KnownInv' /\ DigestsInv' /\ JobsInv'
  BY DEF Tick, processVars, KeysInv, KnownInv, DigestsInv, JobsInv, AccountAt, StoreOf
<1>3. TokensInv'
  BY DEF Tick, resetVars, TokensInv, Carries, Attaches, Spends, StoreOf
<1> QED
  BY <1>1, <1>2, <1>3

------------------------------------------------------------------------------
\* The steps that write an account or issue a bearer token.

\* A client goes on with its token, or has one of this process for the account.
LEMMA IssueGives ==
  ASSUME TypeOK, KeysInv, NEW p \in Processes, NEW n \in Names, NEW role \in Roles,
         running[p], Issue(p, n, role)
  PROVE  /\ token' \in Token \cup {None}
         /\ \/ token' = token
            \/ /\ token' # None /\ token'.name = n /\ token'.role = role /\ token'.key = key[p]
               /\ configured => token'.key = 0
               /\ ~configured => token'.key \in 1..starts
<1> DEFINE fresh == [name |-> n, role |-> role, key |-> key[p], exp |-> clock + Expiry]
<1>1. clock + Expiry \in Nat
  BY BoundsAssumption DEF TypeOK
<1>2. fresh \in Token /\ fresh # None
  BY <1>1, NoneAssumption DEF TypeOK, Token
<1>3. CASE token' = token
  BY <1>3 DEF TypeOK
<1>4. CASE token' = fresh
  BY <1>2, <1>4 DEF KeysInv
<1> QED
  BY <1>3, <1>4 DEF Issue

LEMMA LoginKeeps ==
  ASSUME IInv, NEW p \in Processes, NEW n \in Names, NEW w \in Passwords, Login(p, n, w)
  PROVE  IInv'
<1> USE DEF IInv
<1> DEFINE a == AccountAt(p, n)
           j == [kind |-> "rehash", name |-> n, password |-> w, role |-> a.role]
<1>1. a \in Account /\ a # None /\ a.role \in Roles /\ running[p]
  BY StoreTypes DEF TypeOK, Login, Idle, AccountAt, Account
<1>2. CASE NeedsUpdate(a.scheme)
  <2>1. /\ j \in Job /\ j # None /\ j.kind = "rehash" /\ j.name = n /\ j.role = a.role
    BY <1>1, NoneAssumption DEF Job
  <2>2. job' = [job EXCEPT ![p] = j] /\ token' = token
    BY <1>2 DEF Login
  <2>3. \A q \in Processes : job'[q] = IF q = p THEN j ELSE job[q]
    BY <2>2 DEF TypeOK
  <2>4. TypeOK'
    BY <2>1, <2>2 DEF TypeOK, Login, processVars, resetVars
  <2>5. KeysInv' /\ KnownInv' /\ DigestsInv'
    BY <2>2 DEF Login, processVars, KeysInv, KnownInv, DigestsInv, AccountAt, StoreOf
  <2>6. a.born = "sha256_crypt"
    BY <1>1, <1>2, StoreTypes DEF DigestsInv, NeedsUpdate, AccountAt
  <2>7. JobsInv'
    BY <1>1, <2>1, <2>3, <2>6 DEF Login, processVars, JobsInv, AccountAt, StoreOf
  <2>8. TokensInv'
    BY <2>1, <2>3 DEF Login, Idle, resetVars, TokensInv, Carries, Attaches, Spends, StoreOf
  <2> QED
    BY <2>4, <2>5, <2>7, <2>8
<1>3. CASE ~NeedsUpdate(a.scheme)
  <2>1. Issue(p, n, a.role) /\ job' = job
    BY <1>3 DEF Login
  <2>2. TypeOK'
    BY <1>1, <2>1, IssueGives DEF TypeOK, Login, processVars, resetVars
  <2>3. KeysInv'
    BY <1>1, <2>1, IssueGives DEF Login, processVars, KeysInv
  <2>4. KnownInv'
    <3>1. CASE token' = token
      BY <3>1 DEF Login, processVars, KnownInv, AccountAt, StoreOf
    <3>2. CASE token' # token
      <4>1. token'.name = n /\ token'.role = a.role /\ token'.key = key[p]
        BY <1>1, <2>1, <3>2, IssueGives
      <4> QED
        BY <1>1, <4>1 DEF Login, processVars, KeysInv, KnownInv, AccountAt, StoreOf
    <3> QED
      BY <3>1, <3>2
  <2>5. DigestsInv' /\ JobsInv'
    BY <2>1 DEF Login, processVars, DigestsInv, JobsInv, AccountAt, StoreOf
  <2>6. TokensInv'
    BY <2>1 DEF Login, resetVars, TokensInv, Carries, Attaches, Spends, StoreOf
  <2> QED
    BY <2>2, <2>3, <2>4, <2>5, <2>6
<1> QED
  BY <1>2, <1>3

LEMMA RegisterKeeps ==
  ASSUME IInv, NEW p \in Processes, NEW n \in Names, NEW w \in Passwords, NEW role \in Roles,
         Register(p, n, w, role)
  PROVE  IInv'
<1> USE DEF IInv
<1> DEFINE b == [password |-> w, scheme |-> "scrypt", role |-> role, reset_token |-> None,
                 chosen |-> w, born |-> "scrypt"]
<1>1. /\ b \in Account /\ b # None /\ b.password = w /\ b.chosen = w
      /\ b.scheme = "scrypt" /\ b.born = "scrypt" /\ b.reset_token = None
  BY NoneAssumption DEF Account, Schemes
<1>2. Write(p, n, b) /\ AccountAt(p, n) = None
  BY DEF Register
<1>3. /\ users' \in [Stores -> [Names -> Account \cup {None}]]
      /\ users'[StoreOf(p)][n] = b
      /\ \A s \in Stores, m \in Names : s # StoreOf(p) \/ m # n => users'[s][m] = users[s][m]
  BY <1>1, <1>2, WriteReaches
<1>4. \A s \in Stores, m \in Names : users[s][m] # None => users'[s][m] = users[s][m]
  BY <1>2, <1>3 DEF AccountAt
<1>5. TypeOK'
  BY <1>3 DEF TypeOK, Register, processVars, resetVars
<1>6. KeysInv'
  BY DEF Register, processVars, KeysInv
<1>7. KnownInv'
  BY <1>4, StoreTypes DEF TypeOK, Token, Register, processVars, KnownInv, AccountAt, StoreOf
<1>8. DigestsInv'
  BY <1>1, <1>3 DEF DigestsInv
<1>9. JobsInv'
  BY <1>4, JobAccount, StoreTypes DEF Register, processVars, JobsInv, AccountAt, StoreOf
<1>10. TokensInv'
  <2>1. \A s \in Stores, m \in Names, t \in ResetTokens : Carries(s, m, t)' => Carries(s, m, t)
    BY <1>1, <1>3, NoneAssumption DEF Carries
  <2> QED
    BY <2>1 DEF Register, resetVars, TokensInv, Attaches, Spends, StoreOf
<1> QED
  BY <1>5, <1>6, <1>7, <1>8, <1>9, <1>10

LEMMA RehashKeeps == ASSUME IInv, NEW p \in Processes, Rehash(p) PROVE IInv'
<1> USE DEF IInv
<1>1. PICK j \in Job, a \in Account :
      /\ j = job[p] /\ a = AccountAt(p, j.name) /\ j.name \in Names /\ j.kind = "rehash" /\ j.password \in Passwords
      /\ j.role \in Roles /\ running[p]
      /\ a # None /\ a.born = "sha256_crypt" /\ a.role = j.role
  BY JobAccount, JobFields DEF Rehash, JobsInv
<1>2. PICK b \in Account :
      /\ b = Renewed(a, j.password)
      /\ b # None /\ b.scheme = "scrypt" /\ b.role = a.role
      /\ b.reset_token = a.reset_token /\ b.born = a.born
  BY <1>1, RehashFields
<1>3. Write(p, j.name, b) /\ Issue(p, j.name, j.role)
  BY <1>1, <1>2 DEF Rehash, Renewed
<1>4. /\ users' \in [Stores -> [Names -> Account \cup {None}]]
      /\ users'[StoreOf(p)][j.name] = b /\ a = users[StoreOf(p)][j.name]
      /\ \A s \in Stores, m \in Names : s # StoreOf(p) \/ m # j.name => users'[s][m] = users[s][m]
  BY <1>1, <1>2, <1>3, WriteReaches DEF AccountAt
<1>5. \A s \in Stores, m \in Names :
        /\ users'[s][m] # None <=> users[s][m] # None
        /\ users[s][m] # None => /\ users'[s][m].role = users[s][m].role
                                 /\ users'[s][m].reset_token = users[s][m].reset_token
                                 /\ users'[s][m].born = users[s][m].born
  <2> SUFFICES ASSUME NEW s \in Stores, NEW m \in Names
               PROVE  /\ users'[s][m] # None <=> users[s][m] # None
                      /\ users[s][m] # None => /\ users'[s][m].role = users[s][m].role
                                               /\ users'[s][m].reset_token = users[s][m].reset_token
                                               /\ users'[s][m].born = users[s][m].born
    OBVIOUS
  <2>1. CASE s = StoreOf(p) /\ m = j.name
    BY <1>1, <1>2, <1>4, <2>1
  <2>2. CASE s # StoreOf(p) \/ m # j.name
    BY <1>4, <2>2
  <2> QED
    BY <2>1, <2>2
<1>6. \A q \in Processes : job'[q] = IF q = p THEN None ELSE job[q]
  BY DEF TypeOK, Rehash, Done
<1>7. TypeOK'
  BY <1>1, <1>3, <1>4, IssueGives DEF TypeOK, Rehash, Done, processVars, resetVars
<1>8. KeysInv'
  BY <1>1, <1>3, IssueGives DEF Rehash, processVars, KeysInv
<1>9. KnownInv'
  <2>1. CASE token' = token
    BY <1>5, <2>1, StoreTypes DEF TypeOK, Token, Rehash, processVars, KnownInv, AccountAt, StoreOf
  <2>2. CASE token' # token
    <3>1. token'.name = j.name /\ token'.role = j.role /\ token'.key = key[p]
      BY <1>1, <1>3, <2>2, IssueGives
    <3>2. users'[StoreOf(p)][j.name] # None /\ users'[StoreOf(p)][j.name].role = j.role
      BY <1>1, <1>2, <1>4
    <3> QED
      BY <1>1, <3>1, <3>2 DEF Rehash, processVars, KeysInv, KnownInv, AccountAt, StoreOf
  <2> QED
    BY <2>1, <2>2
<1>10. DigestsInv'
  <2> SUFFICES ASSUME NEW s \in Stores, NEW m \in Names,
                      users'[s][m] # None,
                      users'[s][m].scheme = "sha256_crypt" \/ users'[s][m].password # users'[s][m].chosen
               PROVE  /\ users'[s][m].born = "sha256_crypt"
                      /\ users'[s][m].scheme = "sha256_crypt" => users'[s][m].password = users'[s][m].chosen
    BY DEF DigestsInv
  <2>1. CASE s = StoreOf(p) /\ m = j.name
    BY <1>1, <1>2, <1>4, <2>1
  <2>2. CASE s # StoreOf(p) \/ m # j.name
    BY <1>4, <2>2 DEF DigestsInv
  <2> QED
    BY <2>1, <2>2
<1>11. JobsInv'
  BY <1>5, <1>6, JobsFrame DEF Rehash, processVars
<1>12. TokensInv'
  BY <1>5, <1>6 DEF Rehash, resetVars, TokensInv, Carries, Attaches, Spends, StoreOf
<1> QED
  BY <1>7, <1>8, <1>9, <1>10, <1>11, <1>12

LEMMA AttachTokenKeeps == ASSUME IInv, NEW p \in Processes, AttachToken(p) PROVE IInv'
<1> USE DEF IInv
<1>1. PICK j \in Job, a \in Account :
      /\ j = job[p] /\ a = AccountAt(p, j.name) /\ j.name \in Names /\ j.kind = "attach" /\ j.token \in ResetTokens
      /\ a # None /\ Attaches(p, j.token)
  BY JobAccount, JobFields DEF AttachToken, JobsInv, Attaches
<1>2. PICK b \in Account :
      /\ b = Carrying(a, j.token)
      /\ b # None /\ b.password = a.password /\ b.scheme = a.scheme
      /\ b.role = a.role /\ b.reset_token = j.token /\ b.chosen = a.chosen /\ b.born = a.born
  BY <1>1, AttachFields
<1>3. /\ users' \in [Stores -> [Names -> Account \cup {None}]]
      /\ users'[StoreOf(p)][j.name] = b /\ a = users[StoreOf(p)][j.name]
      /\ \A s \in Stores, m \in Names : s # StoreOf(p) \/ m # j.name => users'[s][m] = users[s][m]
  BY <1>1, <1>2, WriteReaches DEF AttachToken, AccountAt, Carrying
<1>4. \A s \in Stores, m \in Names :
        /\ users'[s][m] # None <=> users[s][m] # None
        /\ users[s][m] # None => /\ users'[s][m].role = users[s][m].role
                                 /\ users'[s][m].born = users[s][m].born
  BY <1>1, <1>2, <1>3
<1>5. \A q \in Processes : job'[q] = IF q = p THEN None ELSE job[q]
  BY DEF TypeOK, AttachToken, Done
<1>6. TypeOK'
  BY <1>3 DEF TypeOK, AttachToken, Done, processVars, resetVars
<1>7. KeysInv'
  BY DEF AttachToken, processVars, KeysInv
<1>8. KnownInv'
  <2>1. token # None => token.name \in Names
    BY DEF TypeOK, Token
  <2>2. \A q \in Processes : StoreOf(q) \in Stores
    BY StoreTypes
  <2> QED
    BY <1>4, <2>1, <2>2 DEF AttachToken, processVars, KnownInv, AccountAt, StoreOf
<1>9. DigestsInv'
  <2> SUFFICES ASSUME NEW s \in Stores, NEW m \in Names,
                      users'[s][m] # None,
                      users'[s][m].scheme = "sha256_crypt" \/ users'[s][m].password # users'[s][m].chosen
               PROVE  /\ users'[s][m].born = "sha256_crypt"
                      /\ users'[s][m].scheme = "sha256_crypt" => users'[s][m].password = users'[s][m].chosen
    BY DEF DigestsInv
  <2>1. CASE s = StoreOf(p) /\ m = j.name
    <3>1. users[s][m] = a /\ users'[s][m] = b
      BY <1>3, <2>1
    <3>2. a.scheme = "sha256_crypt" \/ a.password # a.chosen
      BY <1>2, <3>1
    <3> QED
      BY <1>1, <1>2, <2>1, <3>1, <3>2, StoreTypes DEF DigestsInv
  <2>2. CASE s # StoreOf(p) \/ m # j.name
    BY <1>3, <2>2 DEF DigestsInv
  <2> QED
    BY <2>1, <2>2
<1>10. JobsInv'
  BY <1>4, <1>5, JobsFrame DEF AttachToken, processVars
<1>11. TokensInv'
  <2>1. \A s \in Stores, m \in Names, t \in ResetTokens :
          Carries(s, m, t)' <=> IF s = StoreOf(p) /\ m = j.name THEN t = j.token ELSE Carries(s, m, t)
    BY <1>2, <1>3 DEF Carries
  <2>2. /\ spent' = spent /\ holder' = holder
        /\ \A q \in Processes : StoreOf(q)' = StoreOf(q)
        /\ \A q \in Processes, t \in ResetTokens :
             /\ Attaches(q, t)' <=> q # p /\ Attaches(q, t)
             /\ Spends(q, t)' <=> q # p /\ Spends(q, t)
    BY <1>5 DEF AttachToken, resetVars, StoreOf, Attaches, Spends
  <2>3. /\ holder[j.token] = j.name /\ j.token \notin spent
        /\ \A s \in Stores, m \in Names : ~Carries(s, m, j.token)
        /\ \A q \in Processes : Attaches(q, j.token) => q = p
        /\ \A q \in Processes : ~Spends(q, j.token)
    BY <1>1 DEF TokensInv
  <2> SUFFICES ASSUME NEW t \in ResetTokens
               PROVE  /\ t \in spent => holder[t] # None
                      /\ \A s \in Stores, n \in Names : Carries(s, n, t)' => holder[t] = n /\ t \notin spent
                      /\ \A s, r \in Stores, n, m \in Names : Carries(s, n, t)' /\ Carries(r, m, t)' => s = r
                      /\ \A q \in Processes : q # p /\ Attaches(q, t) =>
                           /\ holder[t] = job[q].name /\ t \notin spent
                           /\ \A s \in Stores, n \in Names : ~Carries(s, n, t)'
                           /\ \A r \in Processes : Attaches(r, t) => r = q
                      /\ \A q \in Processes : q # p /\ Spends(q, t) =>
                           /\ holder[t] = job[q].name
                           /\ \A r \in Processes : ~Attaches(r, t)
                           /\ \A s \in Stores, n \in Names : Carries(s, n, t)' => s = StoreOf(q)
    BY <1>5, <2>2 DEF TokensInv
  <2>4. CASE t = j.token
    BY <2>1, <2>3, <2>4 DEF TokensInv
  <2>5. CASE t # j.token
    BY <2>1, <2>5 DEF TokensInv
  <2> QED
    BY <2>4, <2>5
<1> QED
  BY <1>6, <1>7, <1>8, <1>9, <1>10, <1>11

LEMMA SetPasswordKeeps == ASSUME IInv, NEW p \in Processes, SetPassword(p) PROVE IInv'
<1> USE DEF IInv
<1>1. PICK j \in Job, a \in Account :
      /\ j = job[p] /\ a = AccountAt(p, j.name) /\ j.name \in Names /\ j.kind = "reset" /\ j.token \in ResetTokens
      /\ j.password \in Passwords /\ a # None /\ Spends(p, j.token)
  BY JobAccount, JobFields DEF SetPassword, JobsInv, Spends
<1>2. PICK b \in Account :
      /\ b = AfterReset(a, j.password)
      /\ b # None /\ b.password = j.password /\ b.scheme = "scrypt"
      /\ b.role = a.role /\ b.reset_token = None /\ b.chosen = j.password /\ b.born = a.born
  BY <1>1, ResetFields
<1>3. /\ users' \in [Stores -> [Names -> Account \cup {None}]]
      /\ users'[StoreOf(p)][j.name] = b /\ a = users[StoreOf(p)][j.name]
      /\ \A s \in Stores, m \in Names : s # StoreOf(p) \/ m # j.name => users'[s][m] = users[s][m]
  BY <1>1, <1>2, WriteReaches DEF SetPassword, AccountAt
<1>4. \A s \in Stores, m \in Names :
        /\ users'[s][m] # None <=> users[s][m] # None
        /\ users[s][m] # None => /\ users'[s][m].role = users[s][m].role
                                 /\ users'[s][m].born = users[s][m].born
  BY <1>1, <1>2, <1>3
<1>5. \A q \in Processes : job'[q] = IF q = p THEN None ELSE job[q]
  BY DEF TypeOK, SetPassword, Done
<1>6. TypeOK'
  BY <1>1, <1>3 DEF TypeOK, SetPassword, Done, processVars
<1>7. KeysInv'
  BY DEF SetPassword, processVars, KeysInv
<1>8. KnownInv'
  BY <1>4, StoreTypes DEF TypeOK, Token, SetPassword, processVars, KnownInv, AccountAt, StoreOf
<1>9. DigestsInv'
  BY <1>1, <1>2, <1>3, StoreTypes DEF DigestsInv
<1>10. JobsInv'
  BY <1>4, <1>5, JobsFrame DEF SetPassword, processVars
<1>11. TokensInv'
  <2>1. \A s \in Stores, m \in Names, t \in ResetTokens :
          Carries(s, m, t)' <=> ~(s = StoreOf(p) /\ m = j.name) /\ Carries(s, m, t)
    BY <1>2, <1>3, NoneAssumption DEF Carries
  <2>2. /\ spent' = spent \cup {j.token} /\ holder' = holder
        /\ \A q \in Processes : StoreOf(q)' = StoreOf(q)
        /\ \A q \in Processes, t \in ResetTokens :
             /\ Attaches(q, t)' <=> q # p /\ Attaches(q, t)
             /\ Spends(q, t)' <=> q # p /\ Spends(q, t)
    BY <1>1, <1>5 DEF SetPassword, StoreOf, Attaches, Spends
  <2>3. /\ holder[j.token] = j.name /\ j.name # None
        /\ \A q \in Processes : ~Attaches(q, j.token)
        /\ \A s \in Stores, m \in Names : ~Carries(s, m, j.token)'
    BY <1>1, <2>1, NoneAssumption DEF TokensInv
  <2>4. \A t \in ResetTokens : t \in spent' <=> t \in spent \/ t = j.token
    BY <2>2
  <2> QED
    BY <1>5, <2>1, <2>2, <2>3, <2>4 DEF TokensInv
<1> QED
  BY <1>6, <1>7, <1>8, <1>9, <1>10, <1>11

------------------------------------------------------------------------------
\* The theorems.

\* Every step keeps the inductive invariant, for any number of processes, names,
\* passwords, roles and reset tokens.
LEMMA StepKeeps == IInv /\ [Next]_vars => IInv'
<1> SUFFICES ASSUME IInv, [Next]_vars PROVE IInv'
  OBVIOUS
<1>1. CASE Tick
  BY <1>1, TickKeeps
<1>2. ASSUME NEW p \in Processes,
             Start(p) \/ Stop(p) \/ Rehash(p) \/ AttachToken(p) \/ SetPassword(p) \/ DatabaseError(p)
      PROVE  IInv'
  BY <1>2, StartKeeps, StopKeeps, RehashKeeps, AttachTokenKeeps, SetPasswordKeeps, DatabaseErrorKeeps
<1>3. ASSUME NEW p \in Processes, NEW n \in Names, NEW t \in ResetTokens, RequestReset(p, n, t)
      PROVE  IInv'
  BY <1>3, RequestResetKeeps
<1>4. ASSUME NEW p \in Processes, NEW n \in Names, NEW w \in Passwords, Login(p, n, w)
      PROVE  IInv'
  BY <1>4, LoginKeeps
<1>5. ASSUME NEW p \in Processes, NEW n \in Names, NEW w \in Passwords, NEW role \in Roles,
             Register(p, n, w, role)
      PROVE  IInv'
  BY <1>5, RegisterKeeps
<1>6. ASSUME NEW p \in Processes, NEW n \in Names, NEW t \in ResetTokens, NEW w \in Passwords,
             ResetPassword(p, n, t, w)
      PROVE  IInv'
  BY <1>6, ResetPasswordKeeps
<1>7. CASE UNCHANGED vars
  BY <1>7 DEF vars, processVars, resetVars, IInv, TypeOK, KeysInv, KnownInv, DigestsInv, JobsInv, TokensInv,
              AccountAt, StoreOf, Carries, Attaches, Spends
<1> QED
  BY <1>1, <1>2, <1>3, <1>4, <1>5, <1>6, <1>7 DEF Next

\* The inductive invariant holds always.
THEOREM Invariance == Spec => []IInv
<1>1. Init => IInv
  BY InitEstablishes
<1>2. IInv /\ [Next]_vars => IInv'
  BY StepKeeps
<1> QED
  BY <1>1, <1>2, PTL DEF Spec

\* Every variable keeps its type.
THEOREM TypeCorrectness == Spec => []TypeOK
<1>1. IInv => TypeOK
  BY DEF IInv
<1> QED
  BY <1>1, Invariance, PTL

\* Whoever a process lets in is known to it, in the role that was claimed.
THEOREM TheAdmittedAreKnown == Spec => []AdmittedIsKnown
<1>1. IInv => AdmittedIsKnown
  <2> SUFFICES ASSUME IInv, NEW p \in Processes, NEW path \in Paths \ {"public"},
                      running[p], durable \/ ~configured, Status(p, path) = 200
               PROVE  /\ AccountAt(p, token.name) # None
                      /\ AccountAt(p, token.name).role = token.role
                      /\ path = "admin" => token.role = "SUPER_ADMIN"
    BY DEF AdmittedIsKnown
  <2>1. Verifies(p) /\ Permitted(token.role, path)
    BY DEF Status
  <2> QED
    BY <2>1 DEF IInv, KnownInv, Verifies, Permitted
<1> QED
  BY <1>1, Invariance, PTL

\* With configured keys a token opens every process, without them one at most.
THEOREM SessionsHaveScope == Spec => []SessionScope
<1>1. IInv => SessionScope
  <2> SUFFICES ASSUME IInv PROVE SessionScope
    OBVIOUS
  <2>1. ASSUME configured, token # None, clock < token.exp, NEW p \in Processes, running[p]
        PROVE  Status(p, "other") = 200
    <3>1. Verifies(p) /\ Permitted(token.role, "other")
      BY <2>1 DEF IInv, KeysInv, Verifies, Permitted
    <3> QED
      BY <3>1 DEF Status
  <2>2. ASSUME ~configured, NEW p \in Processes, NEW q \in Processes,
               running[p], running[q], Verifies(p), Verifies(q)
        PROVE  p = q
    BY <2>2 DEF IInv, KeysInv, Verifies
  <2> QED
    BY <2>1, <2>2 DEF SessionScope
<1> QED
  BY <1>1, Invariance, PTL

\* A reset is lost by no account but one from before scrypt.
THEOREM ResetsAreKept == Spec => []ResetsStick
<1>1. IInv => ResetsStick
  BY DEF IInv, TypeOK, DigestsInv, ResetsStick, Account, Schemes
<1> QED
  BY <1>1, Invariance, PTL

\* A spent reset token is on no account.
THEOREM SpentTokensStayDead == Spec => []SpentTokensAreDead
<1>1. IInv => SpentTokensAreDead
  <2> SUFFICES ASSUME IInv, NEW s \in Stores, NEW n \in Names, users[s][n] # None,
                      users[s][n].reset_token \in spent
               PROVE  FALSE
    BY DEF SpentTokensAreDead
  <2>1. users[s][n].reset_token \in ResetTokens /\ Carries(s, n, users[s][n].reset_token)
    BY DEF IInv, TypeOK, Carries
  <2> QED
    BY <2>1 DEF IInv, TokensInv
<1> QED
  BY <1>1, Invariance, PTL

\* A reset under way is one of the account its token was issued for.
THEOREM ResetsReachTheHolder == Spec => []ResetReachesHolder
<1>1. IInv => ResetReachesHolder
  <2> SUFFICES ASSUME IInv, NEW p \in Processes, job[p] # None, job[p].kind = "reset"
               PROVE  holder[job[p].token] = job[p].name
    BY DEF ResetReachesHolder
  <2>1. job[p].token \in ResetTokens /\ Spends(p, job[p].token)
    BY JobFields DEF IInv, TypeOK, Spends
  <2> QED
    BY <2>1 DEF IInv, TokensInv
<1> QED
  BY <1>1, Invariance, PTL
==============================================================================
