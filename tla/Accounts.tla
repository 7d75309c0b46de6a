------------------------------- MODULE Accounts -------------------------------
(***************************************************************************)
(* Accounts, sign-in tokens and password resets of the API processes.      *)
(*                                                                         *)
(* A handler awaits nothing, so a process serves one request at a time; a  *)
(* request that reads an account and later writes it is interleaved with   *)
(* those of the other processes when they share the collection in MongoDB. *)
(* Without MONGODB_URI each process has a table of its own, without the    *)
(* JWT_*_KEY variables a signing key of its own; both die with it.         *)
(***************************************************************************)
EXTENDS FiniteSets, Naturals

CONSTANTS Processes, Names, Passwords, Roles,
          ResetTokens,        \* the reset tokens that will be issued
          Mongo,              \* the shared store: collection erp_rag.users
          None,               \* no account, request or token
          Expiry,             \* _DEFAULT_EXPIRY_SECONDS
          MaxStarts, MaxTime, \* bounds on the starts of processes and on the clock
          MaxAccounts         \* bound on the accounts of all stores together

ASSUME MongoAssumption == Mongo \notin Processes
ASSUME BoundsAssumption == Expiry \in Nat /\ MaxStarts \in Nat /\ MaxTime \in Nat /\ MaxAccounts \in Nat

Stores == Processes \cup {Mongo}

\* _pwd_context: the current scheme and the deprecated one.
Schemes == {"scrypt", "sha256_crypt"}

\* UserRecord.  Names are unique and no account is ever deleted, so a name stands
\* for its user_id; a hash is the password it verifies with its scheme.
\* chosen (history) is the password its owner set last, and born the scheme of its
\* first hash.
Account == [password : Passwords, scheme : Schemes, role : Roles, reset_token : ResetTokens \cup {None},
            chosen : Passwords, born : Schemes]

\* A request between its read of an account and its write.
Job == [kind : {"rehash"}, name : Names, password : Passwords, role : Roles]
       \cup [kind : {"attach"}, name : Names, token : ResetTokens]
       \cup [kind : {"reset"}, name : Names, password : Passwords, token : ResetTokens]

\* A JWT: claims, signing key and expiry.  Key 0 is the configured pair.
Token == [name : Names, role : Roles, key : 0..MaxStarts, exp : Nat]

ASSUME NoneAssumption == None \notin Account \cup Job \cup Token \cup ResetTokens \cup Names

VARIABLES
  durable, configured, \* MONGODB_URI is set; both halves of a key pair are
  running, key,        \* per process: serving, and the key of its JWTHandler
  starts,              \* processes started so far
  users,               \* the accounts in each store
  job,                 \* the request each process is in the middle of
  token,               \* the bearer token a client presents
  holder,              \* history: the name each reset token was issued for, if it was
  spent,               \* history: reset tokens that set a password
  clock

processVars == <<running, key, starts>>
resetVars   == <<holder, spent>>
vars == <<durable, configured, processVars, users, job, token, resetVars, clock>>

TypeOK ==
  /\ durable \in BOOLEAN /\ configured \in BOOLEAN
  /\ running \in [Processes -> BOOLEAN] /\ key \in [Processes -> 0..MaxStarts]
  /\ starts \in 0..MaxStarts
  /\ users \in [Stores -> [Names -> Account \cup {None}]]
  /\ job \in [Processes -> Job \cup {None}]
  /\ token \in Token \cup {None}
  /\ holder \in [ResetTokens -> Names \cup {None}] /\ spent \in SUBSET ResetTokens
  /\ clock \in 0..MaxTime

------------------------------------------------------------------------------

Empty == [n \in Names |-> None]

\* _select_user_repository: MongoUserRepository or InMemoryUserRepository.
StoreOf(p) == IF durable THEN Mongo ELSE p

AccountAt(p, n) == users[StoreOf(p)][n]

Write(p, n, account) ==
  users' = [users EXCEPT ![StoreOf(p)] = [@ EXCEPT ![n] = account]]

Idle(p) == running[p] /\ job[p] = None

\* MongoDB may hold accounts from before scrypt, the tables of the processes not.
Init ==
  /\ durable \in BOOLEAN /\ configured \in BOOLEAN
  /\ running = [p \in Processes |-> FALSE] /\ key = [p \in Processes |-> 0]
  /\ starts = 0
  /\ \E stored \in [Names -> {a \in Account : a.reset_token = None /\ a.chosen = a.password /\ a.born = a.scheme}
                             \cup {None}] :
       users = [s \in Stores |-> IF s = Mongo THEN stored ELSE Empty]
  /\ job = [p \in Processes |-> None]
  /\ token = None
  /\ holder = [t \in ResetTokens |-> None] /\ spent = {}
  /\ clock = 0

\* Mutant: the key pair is generated even if one is configured.
KeyAlwaysFresh(start) == start

\* JWTHandler.__init__.
KeyOf(start) == IF configured THEN 0 ELSE start

\* lifespan, build_container.  With MONGODB_URI set and the server away
\* _connect_mongo raises and the process does not come up.
Start(p) ==
  /\ ~running[p] /\ starts < MaxStarts
  /\ starts' = starts + 1
  /\ running' = [running EXCEPT ![p] = TRUE]
  /\ key' = [key EXCEPT ![p] = KeyOf(starts + 1)]
  /\ UNCHANGED <<durable, configured, users, job, token, resetVars, clock>>

\* A process ends, by a restart or a crash, in the middle of whatever it was doing.
Stop(p) ==
  /\ running[p]
  /\ running' = [running EXCEPT ![p] = FALSE]
  /\ job' = [job EXCEPT ![p] = None]
  /\ users' = [users EXCEPT ![p] = Empty]
  /\ UNCHANGED <<durable, configured, key, starts, token, resetVars, clock>>

------------------------------------------------------------------------------
\* POST /auth/register, /auth/login, /auth/request-password-reset and
\* /auth/reset-password.  A request that is refused changes nothing.

\* Mutant: no unique index on the name.
RegisterAgain(p, n, password, role) ==
  /\ Idle(p)
  /\ Write(p, n, [password |-> password, scheme |-> "scrypt", role |-> role, reset_token |-> None,
                  chosen |-> password, born |-> "scrypt"])
  /\ UNCHANGED <<durable, configured, processVars, job, token, resetVars, clock>>

\* insert_one under the unique index, or the look-up in the table.
Register(p, n, password, role) ==
  /\ Idle(p)
  /\ AccountAt(p, n) = None
  /\ Cardinality({sn \in Stores \X Names : users[sn[1]][sn[2]] # None}) < MaxAccounts
  /\ Write(p, n, [password |-> password, scheme |-> "scrypt", role |-> role, reset_token |-> None,
                  chosen |-> password, born |-> "scrypt"])
  /\ UNCHANGED <<durable, configured, processVars, job, token, resetVars, clock>>

\* JWTHandler.issue.  A client may go on with a token it already has.
Issue(p, n, role) ==
  token' \in {token, [name |-> n, role |-> role, key |-> key[p], exp |-> clock + Expiry]}

\* Mutant: every hash is renewed.
NeedsUpdateAlways(scheme) == TRUE

NeedsUpdate(scheme) == scheme = "sha256_crypt"

\* verify_password up to the re-hash of a deprecated digest.
Login(p, n, password) ==
  /\ Idle(p)
  /\ AccountAt(p, n) # None /\ AccountAt(p, n).password = password
  /\ IF NeedsUpdate(AccountAt(p, n).scheme)
       THEN /\ job' = [job EXCEPT ![p] = [kind |-> "rehash", name |-> n, password |-> password,
                                          role |-> AccountAt(p, n).role]]
            /\ UNCHANGED token
       ELSE Issue(p, n, AccountAt(p, n).role) /\ UNCHANGED job
  /\ UNCHANGED <<durable, configured, processVars, users, resetVars, clock>>

Done(p) == job' = [job EXCEPT ![p] = None]

\* update_one by the name alone, with the password that was verified.
Rehash(p) ==
  /\ job[p] # None /\ job[p].kind = "rehash"
  /\ Write(p, job[p].name, [AccountAt(p, job[p].name) EXCEPT !.password = job[p].password,
                                                             !.scheme = "scrypt"])
  /\ Issue(p, job[p].name, job[p].role)
  /\ Done(p)
  /\ UNCHANGED <<durable, configured, processVars, resetVars, clock>>

\* request_password_reset: secrets.token_urlsafe never repeats itself.
RequestReset(p, n, t) ==
  /\ Idle(p)
  /\ AccountAt(p, n) # None
  /\ holder[t] = None
  /\ holder' = [holder EXCEPT ![t] = n]
  /\ job' = [job EXCEPT ![p] = [kind |-> "attach", name |-> n, token |-> t]]
  /\ UNCHANGED <<durable, configured, processVars, users, token, spent, clock>>

\* save_reset_token.
AttachToken(p) ==
  /\ job[p] # None /\ job[p].kind = "attach"
  /\ Write(p, job[p].name, [AccountAt(p, job[p].name) EXCEPT !.reset_token = job[p].token])
  /\ Done(p)
  /\ UNCHANGED <<durable, configured, processVars, token, resetVars, clock>>

\* Mutant: any outstanding token opens any account.
HoldsSome(p, n, t) == AccountAt(p, n) # None /\ AccountAt(p, n).reset_token # None

\* find_one by the token.
Holds(p, n, t) == AccountAt(p, n) # None /\ AccountAt(p, n).reset_token = t

ResetPassword(p, n, t, password) ==
  /\ Idle(p)
  /\ Holds(p, n, t)
  /\ job' = [job EXCEPT ![p] = [kind |-> "reset", name |-> n, password |-> password, token |-> t]]
  /\ UNCHANGED <<durable, configured, processVars, users, token, resetVars, clock>>

\* Mutants: the token is blanked, or not cleared.
AfterResetBlank(account, password) ==
  [account EXCEPT !.password = password, !.scheme = "scrypt", !.chosen = password, !.reset_token = ""]

AfterResetReusable(account, password) ==
  [account EXCEPT !.password = password, !.scheme = "scrypt", !.chosen = password]

AfterReset(account, password) ==
  [account EXCEPT !.password = password, !.scheme = "scrypt", !.chosen = password, !.reset_token = None]

\* update_one by the user_id that was read.
SetPassword(p) ==
  /\ job[p] # None /\ job[p].kind = "reset"
  /\ Write(p, job[p].name, AfterReset(AccountAt(p, job[p].name), job[p].password))
  /\ spent' = spent \cup {job[p].token}
  /\ Done(p)
  /\ UNCHANGED <<durable, configured, processVars, token, holder, clock>>

\* A call to MongoDB raises, an unhandled 500, before the write is made.  If it raises
\* afterwards, the step is that of the request, of whose outcome a client sees nothing.
DatabaseError(p) ==
  /\ durable /\ job[p] # None
  /\ Done(p)
  /\ UNCHANGED <<durable, configured, processVars, users, token, resetVars, clock>>

Tick ==
  /\ clock < MaxTime
  /\ clock' = clock + 1
  /\ UNCHANGED <<durable, configured, processVars, users, job, token, resetVars>>

Next ==
  \/ \E p \in Processes :
       \/ Start(p) \/ Stop(p)
       \/ Rehash(p) \/ AttachToken(p) \/ SetPassword(p) \/ DatabaseError(p)
       \/ \E n \in Names, t \in ResetTokens : RequestReset(p, n, t)
       \/ \E n \in Names, password \in Passwords : Login(p, n, password)
       \/ \E n \in Names, password \in Passwords, role \in Roles : Register(p, n, password, role)
       \/ \E n \in Names, t \in ResetTokens, password \in Passwords : ResetPassword(p, n, t, password)
  \/ Tick

Spec == Init /\ [][Next]_vars

------------------------------------------------------------------------------
\* The way of any other request through AuthMiddleware and RBACMiddleware.  Nothing
\* sets erp_module or erp_table on a request, so the module guards stay silent.

Paths == {"public", "admin", "erp_query", "other"}

\* JWTHandler.verify: signed by this process's key, and not expired.
Verifies(p) == token # None /\ token.key = key[p] /\ clock < token.exp

Permitted(role, path) ==
  /\ path = "admin" => role = "SUPER_ADMIN"
  /\ path = "erp_query" => role # "REPORTING_ANALYST"

Status(p, path) ==
  CASE path = "public"               -> 200
    [] ~Verifies(p)                  -> 401
    [] ~Permitted(token.role, path)  -> 403
    [] OTHER                         -> 200

------------------------------------------------------------------------------
\* Properties.

\* Whoever a process lets in, it knows: the account of the token is in its store with
\* the role the token claims, and /admin is for super admins.  Restarts, with
\* tables and keys that do or do not survive them, do not change that; the one
\* exception is a configured key beside tables in memory (AuthMiddleware,
\* RBACMiddleware, user_repository.py).
AdmittedIsKnown ==
  \A p \in Processes, path \in Paths \ {"public"} :
    running[p] /\ (durable \/ ~configured) /\ Status(p, path) = 200 =>
      /\ AccountAt(p, token.name) # None
      /\ AccountAt(p, token.name).role = token.role
      /\ path = "admin" => token.role = "SUPER_ADMIN"

\* With a configured key pair an unexpired token is good in every process, also in
\* those started after the one that issued it; without, in one process at most
\* (the warning of JWTHandler.__init__).
SessionScope ==
  /\ configured /\ token # None /\ clock < token.exp =>
       \A p \in Processes : running[p] => Status(p, "other") = 200
  /\ ~configured =>
       \A p, q \in Processes : running[p] /\ running[q] /\ Verifies(p) /\ Verifies(q) => p = q

\* The password of an account is the one its owner set last.  Only an account from
\* before scrypt can lose a reset, to a login that had read the old digest and
\* renews it after the reset (MongoUserRepository.verify_password).
ResetsStick ==
  \A s \in Stores, n \in Names :
    users[s][n] # None /\ users[s][n].password # users[s][n].chosen =>
      users[s][n].born = "sha256_crypt" /\ users[s][n].scheme = "scrypt"

\* A reset token that set a password opens no further reset: no account carries it,
\* whatever resets and requests for another token overlapped.
SpentTokensAreDead ==
  \A s \in Stores, n \in Names : users[s][n] # None => users[s][n].reset_token \notin spent

\* A reset under way changes the account its token was issued for.
ResetReachesHolder ==
  \A p \in Processes :
    job[p] # None /\ job[p].kind = "reset" => holder[job[p].token] = job[p].name

------------------------------------------------------------------------------
\* The inductive invariant of the proofs.

\* The account of name n in store s carries reset token t; p is about to attach it,
\* or to spend it.
Carries(s, n, t) == users[s][n] # None /\ users[s][n].reset_token = t
Attaches(p, t) == job[p] # None /\ job[p].kind = "attach" /\ job[p].token = t
Spends(p, t) == job[p] # None /\ job[p].kind = "reset" /\ job[p].token = t

\* Generated keys are numbered by the start that made them, so no two processes
\* share one and a later start has a later key.
KeysInv ==
  /\ configured => /\ \A p \in Processes : running[p] => key[p] = 0
                   /\ token # None => token.key = 0
  /\ ~configured => /\ \A p \in Processes : running[p] => key[p] \in 1..starts
                    /\ \A p, q \in Processes : running[p] /\ running[q] /\ key[p] = key[q] => p = q
                    /\ token # None => token.key \in 1..starts

\* The token's account is in MongoDB, or in the table of the process whose key signed it.
KnownInv ==
  token # None =>
    \A p \in Processes :
      durable \/ (~configured /\ running[p] /\ token.key = key[p]) =>
        /\ AccountAt(p, token.name) # None
        /\ AccountAt(p, token.name).role = token.role

\* An old digest is that of the chosen password.
DigestsInv ==
  \A s \in Stores, n \in Names :
    users[s][n] # None /\ (users[s][n].scheme = "sha256_crypt" \/ users[s][n].password # users[s][n].chosen) =>
      /\ users[s][n].born = "sha256_crypt"
      /\ users[s][n].scheme = "sha256_crypt" => users[s][n].password = users[s][n].chosen

\* What a request has read still holds where it matters.
JobsInv ==
  \A p \in Processes :
    job[p] # None =>
      /\ running[p]
      /\ AccountAt(p, job[p].name) # None
      /\ job[p].kind = "rehash" => /\ AccountAt(p, job[p].name).born = "sha256_crypt"
                                   /\ AccountAt(p, job[p].name).role = job[p].role

\* A reset token goes one way: issued, attached to one account, spent.
TokensInv ==
  \A t \in ResetTokens :
    /\ t \in spent => holder[t] # None
    /\ \A s \in Stores, n \in Names : Carries(s, n, t) => holder[t] = n /\ t \notin spent
    /\ \A s, r \in Stores, n, m \in Names : Carries(s, n, t) /\ Carries(r, m, t) => s = r
    /\ \A p \in Processes : Attaches(p, t) =>
         /\ holder[t] = job[p].name /\ t \notin spent
         /\ \A s \in Stores, n \in Names : ~Carries(s, n, t)
         /\ \A q \in Processes : Attaches(q, t) => q = p
    /\ \A p \in Processes : Spends(p, t) =>
         /\ holder[t] = job[p].name
         /\ \A q \in Processes : ~Attaches(q, t)
         /\ \A s \in Stores, n \in Names : Carries(s, n, t) => s = StoreOf(p)

IInv == TypeOK /\ KeysInv /\ KnownInv /\ DigestsInv /\ JobsInv /\ TokensInv
==============================================================================
