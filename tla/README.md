# Verification of auth-service

TLA+ modules, TLC runs and TLAPS proofs about `src/auth-service`, a Go service for
registration, sign-in (password, TOTP, Google/GitHub), refresh-token sessions, mailed tokens and
SCIM provisioning over PostgreSQL and Redis.

The service keeps no state of its own between requests. Everything that can go wrong goes wrong
*between store calls*: no transaction and no lock spans two of them, several replicas run the same
handlers, and almost every handler is read – decide – delete a token – write a whole row or a
key. That is what the project models first.

## 1. Inventory

Paths are relative to `src/auth-service`.

| Component | State | Operations | Talks to |
| --- | --- | --- | --- |
| Account store `internal/repository/postgres/user_repo.go`, `migrations/` | table `users`, unique (tenant, e-mail) | Create, GetByEmail, GetByID, GetByOAuth, Update (whole row), Delete, List | PostgreSQL |
| Session store `internal/repository/redis/session_repo.go` | keys `refresh_token:`, `mfa_challenge:`, `email_verify:`, `pwd_reset:`, `oauth_state:` with TTL | SET, GET, DEL | Redis |
| Sign-in and sessions `internal/usecase/auth_usecase.go` | none; a request's own copy of a row | Login, VerifyMFAChallenge, RefreshToken, Logout, generateSession | both stores, keys, TOTP |
| Enrolment and mails, same file | as above | SetupMFA, ConfirmMFASetup, Request/ConfirmEmailVerification, Request/ConfirmPasswordReset | both stores, mail sender |
| Registration and social login, same file, `internal/infrastructure/oauth` | as above | Register, OAuthLoginURL, HandleOAuthCallback | both stores, provider |
| Directory `internal/usecase/scim_usecase.go`, `scim_handler.go` | as above | Create, Get, Update, Delete, List | account store |
| TOTP `pkg/utils/totp.go` | clock | GenerateSecret, GenerateCode, ValidateCode | – |
| Access tokens `pkg/utils/jwt.go` | RSA key pair per process | NewKeyManager, GenerateAccessToken, ValidateAccessToken, GetJWKS | key file |
| Authorization `middleware/auth_middleware.go`, `rbac_middleware.go`, `domain/permission.go` | none; the claims | AuthMiddleware, RequirePermission | access tokens |
| Rate limiter `middleware/ratelimit_middleware.go` | one Redis counter per client address | Lua script: get, INCRBY, EXPIRE | Redis |
| Pipeline `router.go`, `middleware/` | request context, metrics gauge | request id, tracing, CORS, rate limit, log, metrics, tenant, auth, permission | handlers |
| User queries `user_usecase.go`, `user_handler.go`, `List` | none | profile, pages | account store |
| Server `cmd/server/main.go`, `health_handler.go` | listener, pools | start, shutdown within 15 s, probes | all |

`PROJECT.json` lists every component with its status, and every hazard at its line.

What is hard here:

* **interleaving** – GET and DEL of a token are two commands; so are read and UPDATE of a row;
* **stale copies** – `UPDATE` writes every column from a copy read earlier;
* **partial failure** – the error of a DEL is always dropped, that of a SET sometimes; an error of
  a command does not say whether it took effect; a cancelled request stops between two calls;
* **expiry** – any key may vanish between two calls;
* **long sequences** – a session is rotated any number of times and must keep its account;
* **start and stop** – requests meet pools that are not open yet or closed already, deadlines that
  cut them off, and a gauge that must come out even on every way;
* **clocks and keys** – a token is judged by the clock and key of whoever reads it, a code by a
  window of time, a limit by a window that starts with its first request;
* **lists that move** – a page is two statements, a list is many requests.

What makes the components correct: a token means one thing, for one account, and once used up it
stays dead; a session is opened only by someone the account's *current* row lets in (active, MFA);
a deleted account stays deleted; an address belongs to one account of a tenant; a client is refused
only for what it did within a window, and let in again; a stop ends, and not under a request; a
demotion takes hold; a list shows what is there.

## 2. Modules

```
ServiceState    users, redis, requests in flight; one operator per store command
  AuthSessions    Login, challenge, refresh rotation, logout, generateSession
    AuthAccounts    MFA enrolment, verification and reset mails, Update
      Provisioning    Register, social login, SCIM
        AuthService     Expire, Dies, Next, Spec, properties, inductive invariant
          MCAuthService         instances for TLC
          AuthService_proofs    theorems about types and tokens
            Accounts_proofs       theorems about accounts and the copies of their rows
              SignIn_proofs         exchanges of tokens, MFA, deactivation, social login
            Lifecycle_proofs      AuthService implements TokenLifecycle
TokenLifecycle  abstract: what clients may rely on about tokens

RateLimiter     the script, its keys and their age
  RateLimiter_proofs
  Server          one process: start, requests through the middlewares, stop
    MCServer, Server_proofs

Totp            the window of one-time codes
  Credentials     keys, access tokens, roles, clocks, replicas
    MCCredentials, Credentials_proofs

Listing         pages of accounts and a client that reads them
  MCListing, Listing_proofs
```

### AuthService

**State.** `users` is the table by id (role, external_id and timestamps are left out: no modelled
handler decides on them). `redis[k][t]` is the value under `k:t`. `req[w]` is a request in flight:
the handler (`op`), the store call it is about to make (`pc`), the token it redeems (`key`), the
value found under it (`val`, later the account) and the handler's own `*domain.User` (`row`).
Three history variables are read by no handler: `issued` (what clients were told about a token, and
which token a session was exchanged for), `spent` (tokens whose use was answered with success) and
`deleted`.

**Actions.** One per store call. A handler that returns before its first effect leaves no trace, so
arrival is one step with the first call that succeeds, and everything turned down earlier is
`NoEffect`. `Redeem` is the GET with which five handlers start, `LoadForSession`/`LoadForConfirm`
the GetByID with the checks after it, `Revoke` the DEL, then `GenerateSession`, `Update` or the
social-login steps. Handlers of a single command (`Logout`, `SCIMCreateUser`, `SCIMDeleteUser`,
`OAuthLoginURL`) are one action. `Expire` removes any key, at any time. `Dies` ends a request
between two calls: a crash, a shutdown past its 15 s, or a client that hung up (the request's
context cancels the next call).

**Data.** A six-digit code is represented by the secret it was computed from (`Nil`: the code of
the empty secret, which the code accepts like any other). Fresh tokens, secrets and ids are values
not in use: the code draws at least 122 random bits. Random passwords nobody has seen are `Nil`.
`Clean` is `ValidateAndCleanEmail` as an idempotent function. What ExchangeCode returns, and
everything else in a request body, is chosen with `\E`. A client that may call an authenticated
route is one whose account once had a session (`Authenticated`), which is what a JWT shows;
directory calls come from an administrator, a role only the database gives out.
`RequestEmailVerification` is modelled and proved about, but no route reaches it, so no run calls it.

**Failures.** `MayFail` names the commands that may report an error; the command may still have
taken effect. A failed first read is `NoEffect`.

### TokenLifecycle

What a client may rely on about the opaque tokens, with no requests, store calls or failures in
sight: a token is told once (`Tell`), may end at any time (`End`), never lives again, and a session
told in exchange for a token is told when that token is dead, for its owner (or, from an OAuth
state, for whoever the provider named). `AuthService` implements it under the mapping `grant <-
issued`, `alive <-` the tokens told to a client that live under some prefix in Redis
(`AuthService!Lifecycle`). That an exchange happens once is *not* part of it, because the code does
not keep it (`double_refresh`).

### RateLimiter and Server

`counter` and `ttl` are the Redis key of a client; `age` is a history: how long ago each of its
latest charges was, capped at the window. Time is relative, so nothing grows. `Charge` is what the
script does when it lets a request through, `Tick` the clock of Redis. `Server` is one process:
`phase` is where `main` stands, `listener` and `pools` what it has open, `at` where each request is
(in front of the limiter's answer, or behind it in metrics and handler), `gauge` the metric. Its
actions are the calls of `main` in order with their failures (`Fatal` is `os.Exit`: `Exits` runs no
deferred Close), the goroutine of `ListenAndServe`, `Signal` once `signal.Notify` was called and
`Killed` before it or by SIGKILL, the two ends of `Shutdown`, the deferred Closes in their order,
and `Restart` by the supervisor. The limiter's middleware may be answered, answered no more
(`LimiterLosesAnswer`: the script ran and go-redis runs it again) or fail, which lets the request
through. `RedisChanges` lets Redis go and come back at any time. What a handler does to the stores
is `AuthService`; that it may be cut off here is `Dies` there.

### Credentials and Totp

A key is a number, 0 the absence of one; `known[p]` is the key a replica was started with, or the
JWKS a downstream service cached. `copy[r]` is the row a handler of replica `r` holds, which it may
sign (`Signs`), write back (`WritesBack`: `UPDATE ... role = $2`) or drop. Only the operator changes
roles, in the table. A request with a token changes nothing: what it is answered is the operator
`Answer` (AuthMiddleware, then RequirePermission). `lastAdmin` is a history. Every host's clock is
ahead of the slowest by at most `MaxSkew`. `Totp` compares windows of 30 s as ValidateCode does; a
code stands for the counter its HMAC is computed from.

### Listing

One client reads one list, the admin's or the directory's, from its first page to its last while
others insert and delete. COUNT and SELECT are two actions; `ORDER BY created_at DESC` leaves the
order of ties open (`Orders`); a lost connection shortens a page without an error, because `rows.Err`
is not asked (`Scanned`). `Follows` is the client: the admin's reads until a page is not full, a
SCIM client asks for the index after the last resource it was given, as RFC 7644 has it. `seen`
counts how often each account was shown, `witness` is the accounts that were there all the time, and
`meanwhile` what happened beside the reader; no handler reads them. `Rank` is an account's place in
a list without ties, `Position` the number of rows a reader has left behind.

## 3. Runs

| Run | Instance | States | Question |
| --- | --- | --- | --- |
| `tokens` | alice, bob (MFA on); 3 tokens; SELECT, SET, UPDATE may fail | 62 k | Do used-up tokens stay dead (`SpentTokensStayDead`, `NoTokenRevives`), do sessions keep their account (`Lineage`), how often is a token exchanged (`ExchangesAreBounded`, `ExchangesRunOut`), is `IInv` an invariant, is `TokenLifecycle` implemented? |
| `accounts` | alice; 2 secrets; 3 tokens; UPDATE may fail | 1.3 M | Does MFA hold against every stale copy (`MFAStepUp`), and when does an UPDATE change another handler's columns (`OwnColumnsOnly`)? |
| `directory` | bob with MFA, a free id, 2 addresses; INSERT, DEL may fail | 630 k | Does deactivation hold (`DeactivationHolds`), is deletion final (`DeletionIsFinal`)? |
| `signup` | alice who came by social login, 2 free ids, 2 tokens, 2 providers, an address in two spellings; INSERT, UPDATE may fail | 770 k | `OneAccountPerAddress`, `SocialSessions`, `TypeOK` |
| `lifecycle` | 3 requests of 2 clients, limit 2, window of 3 ticks | 66 k | Bounds of the limiter, pools and gauge under start, stop, kill and Redis outages; that limiter, start and stop come to an end |
| `pages` | 4 ids, one of another tenant; 3 times of creation, ties included; pages of 1, 2, 3 and 9 | 760 k | What a list skips, repeats and counts while others write; which sizes of page read a quiet list once (`EachOnce`, `OnePageIsAll`); what a lost connection hides (`NoGaps`); is `ListingIInv` an invariant? |
| `credentials` | 2 replicas, 1 downstream service, 1 account, 3 keys, 1 token, lifetime and skew of 1, three seconds around the change of a code window | 550 k | Demotion, tokens across replicas and restarts, code windows |
| `double_refresh` | 2 requests, Login and RefreshToken | – | violation of `SingleUse` |
| `logout_race` | 1 request and Logout | – | violation of `NothingFollowsLogout` |
| `stale_write` | reset against SetupMFA | – | violation of `PasswordStaysReset` |
| `mfa_undone` | ConfirmMFASetup against a directory update | – | violation of `MFAStaysOn` |
| `scim_pages` | as `pages` | – | violation of `DirectoryReadsAll` |

**Bounds of the AuthService runs.** `Workers` is the number of requests in flight at once, over all
replicas; two are enough for every pair of handlers to interleave, and single-command handlers act
beside them. Three tokens let a session be rotated twice or let two clients hold one each, two are
a social login's state and its session; an issued token is never issued again, so `Tokens` bounds
the length of a behaviour. Symmetry permutes requests and tokens, and in `signup` the ids of
accounts still to come. The runs have one tenant; more of them are covered by the proofs, which are
for any number. `Row` in these runs has no role: `Credentials` has.

**Bounds of the others.** With a limit of 2 and a window of 3 ticks, a burst around the end of a key
of 2 * 2 - 1 charges does happen; the second client has one request, to show that clients do not
share a counter, and the first two, to show that a gauge counts. Nothing else is bounded: ages are
capped at the window, so behaviours of `lifecycle` are infinite. In `credentials` the run stops at `MaxTime`
(it says so with `CHECK_DEADLOCK FALSE`; the other runs check deadlock): one token with a lifetime
of one second is signed late, expires and outlives its key within three seconds, and 59 to 61 is a
change of window, so that drifts of 0, 1, 30, 31, 59 and 60 s either way meet both sides of it;
three keys are two replicas without a file and a restart, or a file replaced twice.
`DefaultLimit` 2 and `MaxLimit` 3 stand for 10 and 100, and a client may ask for less, for more than
the maximum, and for nothing; three accounts make a full page, a last page that is not full and an
empty one. Symmetry permutes replicas and accounts of one tenant, and only in runs without
liveness.

**Statements that hold, and why they are not stronger.** `DeactivationHolds` and `MFAStepUp` speak
from the moment no request holds an older copy of the row, since such a copy undoes the change;
`DemotionTakesHold` does the same through `lastAdmin`. Social login reads neither `is_active` nor
`mfa_enabled`: `DeactivationHolds` excepts it by name, and `MFAStepUp` is about sessions opened
without a token to exchange. `SpentTokensStayDead` and `ImplementsLifecycle` need a DEL that does
what it reports, so no run that checks them lets DEL fail. `AtMostTwiceTheLimit` is what a fixed
window keeps: `README.md:92` calls the limiter sliding and `README.md:109` says 100 requests a
minute, but 199 may pass within one minute around the end of a key. `SharedKeyServesAll` is for
a key file that is set and not replaced. `NoneSkipped`, `NoneTwice` and `TotalsAgree` each name the
writes that would break them, and the first two leave out ties of `created_at`; `NoneTwice` holds at
every page, of either list, and `TotalsAgree` with ties as well. A page cut short by a lost connection
looks like the last one, so an administrator may miss the end of a list; that it is the end only,
never accounts before one that was shown, is `NoGaps`. Nothing is promised of totals when a write
falls between COUNT and SELECT. `accounts` has one password and one address, so `OwnColumnsOnly` is
exercised there for `active`, MFA and secret; its theorem is for every column.

**What is left of the violated statements** is stated, checked and proved, too. A token is not
single-use, but `ExchangesAreBounded` by the number of requests in flight at once, as long as DEL
works; and `ExchangesRunOut`, whatever fails: no request takes up a dead token, and each session
still exchanged for it ends one of the requests that had looked it up. A session that goes on after
a logout is one of these, so there can be none once they are done. A reset password is undone, and
MFA switched off, only by way of a copy older than the row: `OwnColumnsOnly` says that
while every copy of an account is current, an UPDATE changes no column but those its handler is
about, and that it takes such an UPDATE, with another copy under way, for a copy to grow old;
`MFAStepUp` says that with MFA on and no older copy held it stays on. A directory's client is shown
everything if it asks for one resource at a time (`EachOnce`) or for no fewer than there are
(`OnePageIsAll`); what happens with a count in between the run `scim_pages` shows.

`RequestsHavePools` is about requests that are in flight while `main` closes the pools; a kill, or
`Fatal` after the 15 s, takes both at once.

**The five violations** are disagreements with what the repository says of itself, quoted under
"findings": refresh tokens are "single-use" (`README.md:86`), yet two concurrent refreshes both get
a session, because GET and DEL are two commands; a logged-out session (`README.md:374`) goes on
through a refresh under way; a reset password ("has been updated successfully",
`auth_handler.go:159`) is undone by a whole-row UPDATE from an older copy; MFA that was "successfully
enrolled and activated" (`auth_handler.go:123`), so that "subsequent logins will return an MFA
challenge" (`README.md:468`), is switched off by the UPDATE of a directory update that read the row
before; and the SCIM listing
(`README.md:90`, `:385`) takes `startIndex` for a page number, so a directory that reads on from
where it stopped never sees some accounts.

**Liveness and fairness.** `Server` alone is a system that waits, and states fairness only where the
code has a deadline: `TimePasses` (the clock of Redis), `Connecting` (the 10 s start context, after
which `Fatal` ends the process), `Stopping` (the 15 s of `Shutdown`), and the limiter's decision on
each request (the client's time-outs, then fail-open; the middleware's 500 ms bound the wait for a
connection, but go-redis applies them to the read of an answer only with `ContextTimeoutEnabled`,
which the code leaves unset). All are weak: each stays enabled until it is taken. Handlers
get none, since nothing bounds a query PostgreSQL does not answer, so a stop may have to cut them
off, and `StopSettles` holds all the same. Neither the return of Redis nor the supervisor gets any: `LimiterNeverHolds` and `StartSettles` hold
even if Redis never comes back. Handlers of `AuthService` are loop-free and end in at most five
calls; nothing in them retries or waits, so no liveness is stated there.

## 4. Proofs

`tlapm` checks, for every number of requests, accounts, tenants, tokens, replicas, clients, limits
and clocks, and every set of commands that may fail:

| Theorem | States |
| --- | --- |
| `TypeCorrect` | `TypeOK`, `KeysWellFormed` and `RequestsWellFormed` always hold |
| `InvariantHolds` | the inductive invariant `IInv` always holds |
| `LineageHolds` | `Lineage` |
| `SpentTokens` | `SpentTokensStayDead`, if DEL works |
| `NoRevival` | `NoTokenRevives`, even if DEL fails |
| `OneAccount` | `OneAccountPerAddress` |
| `DeletionHolds` | `DeletionIsFinal` |
| `UpdatesKeepToTheirColumns` | `OwnColumnsOnly` |
| `DeadTokensRunOut` | `ExchangesRunOut`, even if DEL fails |
| `FewSessionsPerToken` | `ExchangesAreBounded`, if DEL works |
| `StepUpHolds` | `MFAStepUp` |
| `DeactivationIsFinal` | `DeactivationHolds` |
| `SocialLoginsAgree` | `SocialSessions` |
| `Refinement` | `ImplementsLifecycle`, if DEL works |
| `LimiterInvariant`, `RefusalsDeserved`, `BurstBound` | `LimiterIInv`, `BlockedOnlyAfterLimit`, `AtMostTwiceTheLimit` of the limiter alone |
| `ServerImplementsLimiter` | every behaviour of `Server` is one of the limiter, and with it `ServerRefusalsDeserved`, `ServerBurstBound` |
| `PoolsOutliveRequests`, `GaugeExact`, `ServerInvariant` | `RequestsHavePools`, `GaugeIsExact`, `ServerIInv` |
| `CodeWindow`, `CodesTaken` | the window of codes for all times, and by every replica's clock (`CodesInWindow`) |
| `CredentialsInvariant`, `DemotionEnds`, `SharedKey` | `CredentialsIInv`, `DemotionTakesHold`, `SharedKeyServesAll` |
| `ListingInvariant`, `ListingTypes` | `ListingIInv`, `TypeOK` of `Listing` |
| `NoneIsSkipped`, `NoneIsRepeated`, `TotalsHold` | `NoneSkipped`, `NoneTwice`, `TotalsAgree` |
| `OnePageHolds`, `EachOnceHolds`, `NoGapsInAList` | `OnePageIsAll`, `EachOnce`, `NoGaps` |

**Assumptions.** In `ServiceState`: `Nil` is no value and ids are no providers (`NilIsNoValue`);
operations, commands and `Clean` are legal (`InstanceIsLegal`); the first users table respects the
unique index (`InitialUsersAreLegal`). In `AuthService`: requests in flight are finitely many
(`WorkersAreFinite`), which only `FewSessionsPerToken` uses. `LimitsArePositive`,
`RequestsHaveOrigins`, `RolesAreKnown`, `TimesAreNatural` and `NumbersAreLegal` say that limits,
windows and times are numbers, that the two roles of the code exist, that requests are finitely many
and come from somewhere, and that a table has finitely many accounts and a default page no larger
than the maximum. TLC evaluates each of them in the runs of its module.

**The argument about tokens.** `Lineage` is not inductive: `GenerateSession` tells the client a
session continues token `key` for account `val`, and both come from the request. So `IInv` adds
what a request holds: `RequestWellFormed` (where it stands tells which fields are set),
`HoldsGrant` (its token was issued for that use, and for that account), `RevokedStayDead` (past its
DEL the token is dead, and so is every spent one). The step from "the DEL removed `refresh_token:t`" to "t is
dead under every prefix" is `Lineage` again. The proof splits a step into what it does to keys and
grants (`StoreStep`, `Exchange`) and what it does to the request (`Continues`, `Moves`); each
property then needs one lemma about those rather than one per action.

**The argument about exchanges.** `CopySteps` follows the memory of a request through a step: a key at
hand was there before or was live, so nobody takes up a dead token (`HoldersOfTheDead`).
`WhoOpens` says which request opens a session and that it ends with it. For `ExchangesAreBounded`,
`Bounded` is inductive relative to `IInv`: the first exchange of a token finds it dead
(`RevokedStayDead`) with at most as many holders as there are requests, and each exchange adds one
session and takes one holder away; that a step tells one token at most is `OneTokenTold`.

**The refinement** rests on that split: a `StoreStep` tells nothing (then keys only disappear:
`End`), or tells one token (`Tell`). When the new session names the token it was exchanged for,
`IInv` says the request that told it had revoked that token and held a grant of the same account.

**The argument about accounts.** `TableSteps` reduces every step to an insert, an update, a delete or
none; `OneAccountPerAddress` and "no deleted id has a row" are inductive over those, the former
because both writes are guarded by the index. `TellsForACopy`: whoever issues a token for an account
holds a copy of its row. Two more facts follow a request from its read to its effect: `WhoOpens`
(a new session of an account comes of a request at its last step that names it) and `RowChange` (a row
changes only by the copy of a request whose UPDATE ends it). `OwnColumnsOnly` is `RowChange` with the
other half of `CopySteps`: a copy at hand was there before, or was read from the row in this step and
changed in the handler's own columns. With `WhoOpens` and `RowChange` `MFAStepUp` is a matter of one step, and
`DeactivationHolds` needs the invariant `ActiveCopies`: whoever has passed the check of IsActive holds a copy that
says so. `SocialSessions` needs `CallbacksAgree` (a callback past its look-up holds an account, or a
row to insert, of the provider of its state) and `SocialOwners`, which speaks of deleted accounts as
well: without "an id is not given away again" it would not be inductive.

**The argument about the limiter.** `BurstBound` cannot be seen in one key: it is about the charges
of two. `KeyIsAsOldAsItsFirst` ties a key's remaining life to the age of its first charge,
`EarlierKeyIsPast` says that the charge `Limit` places before the first of this key is a window old,
which the end of the earlier key establishes and time preserves. `Server` then takes part only through
`ServerImplementsLimiter`: each of its steps is a charge, a tick or a stutter of the limiter.

**The argument about the server.** What is open is a function of the phase (`PoolsFollowPhase`,
`ListenerFollowsPhase`), and requests exist only in phases that have both pools (`OnlyWhileServing`);
the gauge follows by counting.

**The argument about credentials.** `AdminTokensExpire` bounds the expiry of every token that
carries ADMIN by the last moment at which a row or a copy said so; signing keeps it because the
signer's copy is then such a moment, and its clock is at most `MaxSkew` ahead. `KeysAreMinted` says
that, with one file, 1 is the only key there ever was.

**The argument about lists.** In an order without ties an account's place is its `Rank`, the number of
accounts no older (`Listing_proofs` proves it of every order ORDER BY allows, from the cardinality of
the set of places), so a page shows exactly the ranks from `Position` + 1 on. An insert only raises
ranks and a delete only lowers them. `UnseenAreAhead` (what was there throughout and was not shown yet
has a rank beyond `Position`) therefore survives inserts, and `SeenAreBehind` survives deletes and
pages cut short; the end of the list turns the one into `NoneSkipped`, and every page keeps
`NoneTwice` by the other. `Steady` names the readers whose `Position` moves on by what they were
shown: the administrator's, as its pages are full up to the last, and a directory's that asks for one
at a time. `PagesWereFull` counts the pages of a quiet list, which makes TotalPages, a division that
rounds up, the number of pages that are not empty. `NoGaps` needs no
ranks to survive inserts and deletes, as it compares times of creation, but a page keeps it by
`UnseenAreAhead`, and that is at hand because an administrator takes a page cut short for the last
(`CutPageIsLast`). All of them together are `ListingIInv`.

**Only model-checked:** liveness (`LetInAgain`, `LimiterNeverHolds`, `StartSettles`, `StopSettles`),
which the prover does not reach, and the violations. Every invariant and action property of the
passing runs is a theorem.

## 5. Not modelled, and why

Headers, CORS, request ids, trace spans, log lines and the mail sender (it writes a log line and
never fails) carry no state a handler decides on; an OPTIONS request is answered before the limiter
and leaves no trace. The tenant of a request is whatever its header says, so the models choose it
freely. From which header `extractClientIP` takes an address is left out: an address is a value.
Configuration and connection parameters are read once. Migrations are a library call: the schema
they end in is in `ServiceState`, their place in the start and their failure in `Server`. Input
checks that refuse a request are `NoEffect`. Probes read and answer. Redis keeps what it
acknowledged: a restart from an older snapshot of `docker-compose.yml`'s volume is not modelled. The
HMAC of a code and the RSA signature of a token are taken as injective.

## 6. What could come next

1. A model of Redis persistence (a restart from a snapshot that still has used tokens) under
   `AuthService`, to say which of its properties need an append-only file.
2. An account-level specification with one step per request, implemented when the requests of an
   account do not overlap.
3. `Server` composed with the handlers of `AuthService` instead of a request "in the handler", with
   the pool of 25 connections as a resource.
