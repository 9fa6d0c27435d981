-------------------------------- MODULE Credentials --------------------------------
(***************************************************************************)
(* Access tokens over replicas, restarts and time: pkg/utils/jwt.go,       *)
(* middleware/auth_middleware.go and rbac_middleware.go, domain/role.go    *)
(* and permission.go.  A token is never looked up: what it is worth        *)
(* depends on the key the process that reads it was started with, on that  *)
(* process's clock, and on the role its account had when it was signed.    *)
(* Downstream services that verify with a cached JWKS are external.        *)
(***************************************************************************)
EXTENDS Totp, FiniteSets

CONSTANTS
    Replicas,   \* processes of the service
    Verifiers,  \* downstream services
    Accounts,   \* rows of the users table
    Roles,      \* what their column role may hold: a VARCHAR nothing checks
    AccessTTL,  \* seconds; 15 minutes in the code
    MaxSkew,    \* seconds between the clocks of two hosts, at most
    Drifts,     \* how far from a replica's clock clients compute their codes
    Began, MaxTime,      \* bounds of the time observed
    MaxKeys, MaxTokens   \* bounds of the keys generated and tokens signed

ASSUME RolesAreKnown == {"ADMIN", "USER"} \subseteq Roles

ASSUME TimesAreNatural ==
    /\ Drifts \subseteq Int /\ AccessTTL \in Nat \ {0} /\ MaxSkew \in Nat /\ Began \in Nat
    /\ MaxTime \in Nat /\ MaxKeys \in Nat /\ MaxTokens \in Nat

Parties == Replicas \cup Verifiers

Permissions == {"read:profile", "update:profile", "delete:user", "manage:system"}

\* Keys are numbered as they come into being.
NoKey == 0

NoCopy == [user |-> "none", role |-> "none"]

Token == [user : Accounts, role : Roles, key : Nat, exp : Nat]

VARIABLES
    path,      \* RSA_PRIVATE_KEY_PATH is set, for all replicas
    file,      \* the key in the file, NoKey if it cannot be read or parsed
    minted,    \* keys that exist
    known,     \* KeyManager of a replica that runs; the JWKS a verifier cached
    role,      \* the users table, its column role
    copy,      \* the account a handler of the replica holds a copy of
    tokens,    \* the access tokens clients hold
    skew, now, \* the clocks of the hosts, and the slowest of them
    lastAdmin  \* history: when a row or copy last said ADMIN of an account

vars == <<path, file, minted, known, role, copy, tokens, skew, now, lastAdmin>>

Clock(p) == now + skew[p]

SaysAdmin(u, roles, copies) ==
    \/ roles[u] = "ADMIN"
    \/ \E r \in Replicas : copies[r].user = u /\ copies[r].role = "ADMIN"

Init ==
    /\ path \in BOOLEAN /\ file \in {NoKey, 1} /\ minted = file
    /\ known = [p \in Parties |-> NoKey]
    /\ role \in [Accounts -> Roles]
    /\ copy = [r \in Replicas |-> NoCopy]
    /\ tokens = {}
    /\ skew \in [Parties -> 0..MaxSkew] /\ now = Began
    /\ lastAdmin = [u \in Accounts |-> Began]

Remembers ==
    lastAdmin' = [u \in Accounts |-> IF SaysAdmin(u, role, copy)' THEN now' ELSE lastAdmin[u]]

Runs(p) == known[p] # NoKey

(***************************************************************************)
(* NewKeyManager, and the life of a process around it.                     *)
(***************************************************************************)

\* Mutant of LoadedKey: the development fallback is taken in any case.
GeneratedKey == minted + 1

\* The key in the file or, without a path, one generated in memory.
LoadedKey == IF path THEN file ELSE minted + 1

\* A file that does not yield a key stops the process from coming up.
Starts(r) ==
    /\ ~Runs(r)
    /\ LoadedKey # NoKey /\ LoadedKey <= MaxKeys
    /\ known' = [known EXCEPT ![r] = LoadedKey]
    /\ minted' = IF LoadedKey > minted THEN LoadedKey ELSE minted
    /\ UNCHANGED <<path, file, role, copy, tokens, skew, now>> /\ Remembers

Stops(r) ==
    /\ Runs(r)
    /\ known' = [known EXCEPT ![r] = NoKey]
    /\ copy' = [copy EXCEPT ![r] = NoCopy]
    /\ UNCHANGED <<path, file, minted, role, tokens, skew, now>> /\ Remembers

\* The operator puts another key in the file, or spoils it; processes that run
\* keep what they read.
FileChanges ==
    /\ path
    /\ \/ file' = NoKey /\ UNCHANGED minted
       \/ minted < MaxKeys /\ file' = minted + 1 /\ minted' = minted + 1
    /\ UNCHANGED <<path, known, role, copy, tokens, skew, now>> /\ Remembers

\* GetJWKS, cached by a downstream service.
Fetches(v, r) ==
    /\ Runs(r)
    /\ known' = [known EXCEPT ![v] = known[r]]
    /\ UNCHANGED <<path, file, minted, role, copy, tokens, skew, now>> /\ Remembers

(***************************************************************************)
(* Handlers: they read the row, then sign what they read or write it back. *)
(***************************************************************************)
Reads(r) ==
    /\ Runs(r) /\ copy[r] = NoCopy
    /\ \E u \in Accounts : copy' = [copy EXCEPT ![r] = [user |-> u, role |-> role[u]]]
    /\ UNCHANGED <<path, file, minted, known, role, tokens, skew, now>> /\ Remembers

\* Mutant of GenerateAccessToken: the time to live of a refresh token.
GenerateLongToken(r) ==
    [user |-> copy[r].user, role |-> copy[r].role, key |-> known[r],
     exp |-> Clock(r) + 2 * AccessTTL]

\* GenerateAccessToken; the signature is that of known[r], told apart by kid.
GenerateAccessToken(r) ==
    [user |-> copy[r].user, role |-> copy[r].role, key |-> known[r], exp |-> Clock(r) + AccessTTL]

\* generateSession.
Signs(r) ==
    /\ copy[r] # NoCopy /\ Cardinality(tokens) < MaxTokens
    /\ tokens' = tokens \cup {GenerateAccessToken(r)}
    /\ copy' = [copy EXCEPT ![r] = NoCopy]
    /\ UNCHANGED <<path, file, minted, known, role, skew, now>> /\ Remembers

\* user_repo.Update: role = $2, from the copy.
WritesBack(r) ==
    /\ copy[r] # NoCopy
    /\ role' = [role EXCEPT ![copy[r].user] = copy[r].role]
    /\ copy' = [copy EXCEPT ![r] = NoCopy]
    /\ UNCHANGED <<path, file, minted, known, tokens, skew, now>> /\ Remembers

\* The handler returns without either.
Returns(r) ==
    /\ copy[r] # NoCopy
    /\ copy' = [copy EXCEPT ![r] = NoCopy]
    /\ UNCHANGED <<path, file, minted, known, role, tokens, skew, now>> /\ Remembers

\* No endpoint changes a role: the operator does, in the table.
RoleChanges(u) ==
    /\ \E x \in Roles : role' = [role EXCEPT ![u] = x]
    /\ UNCHANGED <<path, file, minted, known, copy, tokens, skew, now>> /\ Remembers

TimePasses ==
    /\ now < MaxTime /\ now' = now + 1
    /\ UNCHANGED <<path, file, minted, known, role, copy, tokens, skew>> /\ Remembers

Next ==
    \/ \E r \in Replicas : \/ Starts(r) \/ Stops(r) \/ Reads(r) \/ Signs(r)
                          \/ WritesBack(r) \/ Returns(r)
                          \/ \E v \in Verifiers : Fetches(v, r)
    \/ FileChanges \/ TimePasses
    \/ \E u \in Accounts : RoleChanges(u)

Spec == Init /\ [][Next]_vars

(***************************************************************************)
(* A request with a token changes nothing: what it is answered is a        *)
(* function of the state.                                                  *)
(***************************************************************************)
RolePermissions ==
    [ADMIN |-> Permissions, USER |-> {"read:profile", "update:profile"}]

HasPermission(r, required) ==
    r \in DOMAIN RolePermissions /\ required \in RolePermissions[r]

\* Mutant of ValidateAccessToken: the expiry is not looked at.
ValidateSignature(p, t) == known[p] = t.key

\* Signature and expiry, by the key and the clock of the party asked.
ValidateAccessToken(p, t) == known[p] = t.key /\ Clock(p) < t.exp

\* By the role of the claims; the row is not read.
RequirePermission(t, required) ==
    IF HasPermission(t.role, required) THEN "OK" ELSE "Forbidden"

\* AuthMiddleware, and RequirePermission behind it.
Answer(p, t, required) ==
    IF ValidateAccessToken(p, t) THEN RequirePermission(t, required) ELSE "Unauthorized"

TypeOK ==
    /\ path \in BOOLEAN /\ file \in Nat /\ minted \in Nat
    /\ known \in [Parties -> Nat]
    /\ role \in [Accounts -> Roles]
    /\ copy \in [Replicas -> [user : Accounts, role : Roles] \cup {NoCopy}]
    /\ tokens \subseteq Token
    /\ skew \in [Parties -> 0..MaxSkew] /\ now \in Nat
    /\ lastAdmin \in [Accounts -> Nat]

\* Demotion takes hold: once neither the row nor any handler's copy - which may
\* be signed late, or written back - says ADMIN of an account, no party lets
\* its tokens manage the system after AccessTTL and the skew of the clocks.
DemotionTakesHold ==
    \A p \in Parties, t \in tokens :
       Runs(p) /\ Answer(p, t, "manage:system") = "OK" =>
          now < lastAdmin[t.user] + AccessTTL + MaxSkew

\* With one key file, never replaced, every replica and every cached JWKS takes
\* the tokens of every replica until they expire, whatever was restarted since.
OneKey == path /\ file = 1
SharedKeyServesAll ==
    OneKey => \A p \in Parties, t \in tokens :
                 Runs(p) /\ Clock(p) < t.exp => Answer(p, t, "read:profile") # "Unauthorized"

\* By the clock of any replica, a code computed up to Period seconds before or
\* after is taken, and none of twice Period.
CodesInWindow ==
    \A r \in Replicas, d \in Drifts : InWindow(Clock(r) + d, Clock(r))

(***************************************************************************)
(* The inductive invariant.                                                *)
(***************************************************************************)
PresentAdmins ==
    \A u \in Accounts : /\ lastAdmin[u] <= now
                        /\ SaysAdmin(u, role, copy) => lastAdmin[u] = now

AdminTokensExpire ==
    \A t \in tokens : t.role = "ADMIN" => t.exp <= lastAdmin[t.user] + AccessTTL + MaxSkew

KeysAreMinted ==
    /\ OneKey => minted = 1
    /\ file <= minted /\ \A p \in Parties : known[p] <= minted
    /\ \A t \in tokens : t.key \in 1..minted
    /\ \A r \in Replicas : copy[r] # NoCopy => Runs(r)

CredentialsIInv == TypeOK /\ PresentAdmins /\ AdminTokensExpire /\ KeysAreMinted
================================================================================
