------------------------------ MODULE ServiceState ------------------------------
(***************************************************************************)
(* The state the handlers of auth-service share: the users table           *)
(* (internal/repository/postgres/user_repo.go), the Redis keys             *)
(* (internal/repository/redis/session_repo.go) and the requests in flight. *)
(*                                                                         *)
(* No transaction and no lock spans two store calls, so a request is a     *)
(* record that one action per store call moves from one call to the next;  *)
(* everything between two calls touches only the request's own memory.     *)
(***************************************************************************)

CONSTANTS
    Workers,     \* requests that may be in flight at once, over all replicas
    Users,       \* the values uuid.New returns
    Tenants,     \* the rows of the tenants table
    Emails,      \* addresses as a client writes them
    Clean,       \* utils.ValidateAndCleanEmail, over Emails
    Passwords,   \* passwords that pass utils.ValidatePassword
    Secrets,     \* the values TOTPManager.GenerateSecret returns
    Tokens,      \* the values utils.GenerateSecureToken returns
    Providers,   \* OAuth providers ("google", "github" in the code)
    Subjects,    \* the provider's own user ids
    Nil,         \* no row, no key, the empty string
    InitialUsers,\* the users table when observation starts
    Ops,         \* endpoints the clients of this instance call
    MayFail      \* store commands that may return an error

Kinds == {"refresh_token", "mfa_challenge", "email_verify", "pwd_reset", "oauth_state"}

\* The commands whose error a handler can meet after it has done something.
Commands == {"SELECT", "INSERT", "UPDATE", "SET", "DEL"}

AllOps == {"Register", "Login", "VerifyMFAChallenge", "RefreshToken", "Logout",
           "SetupMFA", "ConfirmMFASetup", "RequestEmailVerification",
           "ConfirmEmailVerification", "RequestPasswordReset", "ConfirmPasswordReset",
           "OAuthLoginURL", "HandleOAuthCallback",
           "SCIMCreateUser", "SCIMUpdateUser", "SCIMDeleteUser"}

\* domain.User without the columns no modelled handler reads: role,
\* external_id and the two timestamps.  password Nil is the hash of random
\* bytes nobody has seen; secret Nil is the empty mfa_secret.
Row == [tenant : Tenants, email : Emails, password : Passwords \cup {Nil},
        active : BOOLEAN, mfaOn : BOOLEAN, secret : Secrets \cup {Nil},
        verified : BOOLEAN, oauth : (Providers \X Subjects) \cup {Nil}]

\* The store call a request is about to make.
Calls == {"idle", "GetByID", "Revoke", "GetByOAuth", "Create", "StoreToken", "Update"}

\* key: the token the client presented; val: the value Redis holds for it,
\* later the id of the account; row: the handler's own *domain.User.
Request == [op : AllOps \cup {Nil}, pc : Calls, key : Tokens \cup {Nil},
            val : Users \cup Providers \cup {Nil}, row : Row \cup {Nil}]

\* What a client was told about a token: its kind, the account (or provider)
\* it stands for, and the token it was exchanged for.
Grant == [kind : Kinds, owner : Users \cup Providers, from : Tokens \cup {Nil}]

SameEmail(r, s) == r.tenant = s.tenant /\ r.email = s.email

ASSUME NilIsNoValue ==
    /\ Nil \notin Users /\ Nil \notin Tokens /\ Nil \notin Row /\ Nil \notin Grant
    /\ Nil \notin Passwords /\ Nil \notin Secrets /\ Nil \notin Providers
    /\ Nil \notin AllOps /\ Nil \notin Providers \X Subjects
    /\ Users \cap Providers = {}

ASSUME InstanceIsLegal ==
    /\ Ops \subseteq AllOps /\ MayFail \subseteq Commands
    /\ Clean \in [Emails -> Emails]
    /\ \A e \in Emails : Clean[Clean[e]] = Clean[e]

ASSUME InitialUsersAreLegal ==
    /\ InitialUsers \in [Users -> Row \cup {Nil}]
    /\ \A u, v \in Users : u # v /\ InitialUsers[u] # Nil /\ InitialUsers[v] # Nil
                              => ~SameEmail(InitialUsers[u], InitialUsers[v])

VARIABLES
    users,    \* the users table, by id
    redis,    \* redis[k][t]: the value under "k:t"
    req,      \* the requests in flight
    issued,   \* history: what clients were told about each token they received
    spent,    \* history: tokens whose use was answered with success
    deleted   \* history: ids deleted; uuid.New never returns one again

vars == <<users, redis, req, issued, spent, deleted>>

IdleRequest == [op |-> Nil, pc |-> "idle", key |-> Nil, val |-> Nil, row |-> Nil]

Init ==
    /\ users = InitialUsers
    /\ redis = [k \in Kinds |-> [t \in Tokens |-> Nil]]
    /\ req = [w \in Workers |-> IdleRequest]
    /\ issued = [t \in Tokens |-> Nil]
    /\ spent = {}
    /\ deleted = {}

(***************************************************************************)
(* Requests.  A handler that returns before its first effect changes       *)
(* nothing, so arrival is one step with the first store call that succeeds.*)
(* Data of a request body is chosen at the step that first reads it.       *)
(***************************************************************************)
Arrives(w, op) == op \in Ops /\ req[w].pc = "idle"

At(w, call) == req[w].pc = call

Standing(op, pc, key, val, row) ==
    [op |-> op, pc |-> pc, key |-> key, val |-> val, row |-> row]

Becomes(w, r) == req' = [req EXCEPT ![w] = r]

Returns(w) == Becomes(w, IdleRequest)

\* Goes on to the next call, with account val and copy row in hand.
GoesOn(w, call, val, row) == Becomes(w, Standing(req[w].op, call, req[w].key, val, row))

Advances(w, call) == GoesOn(w, call, req[w].val, req[w].row)

(***************************************************************************)
(* user_repo.go                                                            *)
(***************************************************************************)
Exists(u) == users[u] # Nil

\* Mutant of EmailFree: the global index is dropped and no other created.
EmailNeverChecked(u, r) == TRUE

\* idx_users_tenant_email: the address is free for row r, u's own row aside.
EmailFree(u, r) == \A v \in Users \ {u} : Exists(v) => ~SameEmail(users[v], r)

FreshIds == {u \in Users : ~Exists(u) /\ u \notin deleted}

Inserted(u, r) == [users EXCEPT ![u] = r]

\* Mutant of Updated: an upsert instead of an UPDATE.
Upserted(u, r) == [users EXCEPT ![u] = r]

\* UPDATE ... WHERE id: every column but tenant_id and the identity, from the
\* handler's copy; a row that is gone is zero rows and no error.
Written(u, r) == [r EXCEPT !.tenant = users[u].tenant, !.oauth = users[u].oauth]

Updated(u, r) == IF Exists(u) THEN [users EXCEPT ![u] = Written(u, r)] ELSE users

Updatable(u, r) == Exists(u) => EmailFree(u, Written(u, r))

\* Mutant of ByOAuth: the WHERE clause forgets oauth_provider.
BySubject(tenant, identity) ==
    {u \in Users : /\ Exists(u) /\ users[u].tenant = tenant /\ users[u].oauth # Nil
                  /\ users[u].oauth[2] = identity[2]}

\* GetByEmail and GetByOAuth return at most one row: the first by the unique
\* index, the second whichever row the scan meets first.
ByEmail(tenant, email) ==
    {u \in Users : Exists(u) /\ users[u].tenant = tenant /\ users[u].email = email}

ByOAuth(tenant, identity) ==
    {u \in Users : Exists(u) /\ users[u].tenant = tenant /\ users[u].oauth = identity}

(***************************************************************************)
(* session_repo.go                                                         *)
(***************************************************************************)
Live(k, t) == redis[k][t] # Nil

\* GenerateSecureToken draws 192 or 256 random bits: never a value in use.
Fresh(t) == issued[t] = Nil /\ \A k \in Kinds : ~Live(k, t)

WithKey(k, t, v) == [redis EXCEPT ![k][t] = v]

WithoutKey(k, t) == [redis EXCEPT ![k][t] = Nil]

Granted(k) == {t \in Tokens : issued[t] # Nil /\ issued[t].kind = k}

Grants(t, k, u, from) ==
    issued' = [issued EXCEPT ![t] = [kind |-> k, owner |-> u, from |-> from]]

\* A command that may fail reports an error whether or not it took effect.
Fails(command) == command \in MayFail

\* The error of a DEL is dropped, by the use case or (Logout) by the handler.
Deletes(k, t) ==
    \/ redis' = WithoutKey(k, t)
    \/ Fails("DEL") /\ UNCHANGED redis

\* Callers that drop the error of a SET hand the token out all the same.
StoresBestEffort(k, t, v) ==
    \/ redis' = WithKey(k, t, v)
    \/ Fails("SET") /\ UNCHANGED redis

TypeOK ==
    /\ users \in [Users -> Row \cup {Nil}]
    /\ redis \in [Kinds -> [Tokens -> Users \cup Providers \cup {Nil}]]
    /\ req \in [Workers -> Request]
    /\ issued \in [Tokens -> Grant \cup {Nil}]
    /\ spent \subseteq Tokens
    /\ deleted \subseteq Users
================================================================================
