------------------------------ MODULE AuthService -------------------------------
(***************************************************************************)
(* The service: every handler of the router over the shared stores, keys   *)
(* that expire, and requests that die between two store calls.             *)
(***************************************************************************)
EXTENDS Provisioning, FiniteSets, Naturals

\* Requests are served by a finite number of processes, each with finite memory.
ASSUME WorkersAreFinite == IsFiniteSet(Workers)

\* A TTL runs out (5 minutes to 7 days in the code); the model has no clock.
Expire ==
    /\ \E k \in Kinds, t \in Tokens : Live(k, t) /\ redis' = WithoutKey(k, t)
    /\ UNCHANGED <<users, req, issued, spent, deleted>>

\* The process stops, or the client hangs up and the request's context is
\* cancelled: no further store call takes effect.
Dies(w) ==
    /\ ~At(w, "idle")
    /\ Returns(w)
    /\ UNCHANGED <<users, redis, issued, spent, deleted>>

\* Answered without an effect: a request turned down (bad input, wrong
\* password, unknown token) or one that only reads (profile, listings, probes).
NoEffect(w) == At(w, "idle") /\ UNCHANGED vars

Next ==
    \/ \E w \in Workers : \/ SessionStep(w) \/ AccountStep(w) \/ ProvisioningStep(w)
                         \/ Dies(w) \/ NoEffect(w)
    \/ Logout \/ SCIMCreateUser \/ SCIMDeleteUser \/ OAuthLoginURL
    \/ Expire

Spec == Init /\ [][Next]_vars

(***************************************************************************)
(* Tokens                                                                  *)
(***************************************************************************)

\* A token whose use was answered with success - a rotated refresh token, a
\* met MFA challenge, a redeemed mail, a session logged out - is never live
\* again, whatever the requests still in flight do.  Needs DEL to work: every
\* handler drops its error (auth_usecase.go:165, 233, 268, 368).
SpentTokensStayDead == \A t \in spent, k \in Kinds : ~Live(k, t)

\* No key comes back: once a client's token is dead - revoked, expired or
\* overtaken by a concurrent redemption - no later step makes it live.
Dead(t) == issued[t] # Nil /\ \A k \in Kinds : ~Live(k, t)
NoTokenRevives == [][\A t \in Tokens : Dead(t) => Dead(t)']_vars

\* The session u receives in this step, if any, is exchanged for token from.
SessionFor(u, from) ==
    \E t \in Tokens : /\ issued[t] = Nil /\ issued'[t] # Nil
                      /\ issued'[t].kind = "refresh_token"
                      /\ issued'[t].owner = u /\ issued'[t].from = from

\* However late they run, requests find a dead token too late: no new request
\* takes it up, and each session still exchanged for it ends one of the
\* requests that had looked it up while it was live.
Holders(t) == {w \in Workers : req[w].key = t}
ExchangesRunOut ==
    [][\A t \in Tokens : Dead(t) =>
          /\ Holders(t)' \subseteq Holders(t)
          /\ \A u \in Users : SessionFor(u, t) => Holders(t)' # Holders(t)]_vars

\* Not single-use, but nearly: as long as DEL works a token is exchanged for no
\* more sessions than there can be requests in flight at once.
ExchangedFor(t) == {s \in Tokens : issued[s] # Nil /\ issued[s].from = t}
ExchangesAreBounded ==
    "DEL" \notin MayFail =>
       \A t \in Tokens : ExchangedFor(t) # {} =>
          /\ Dead(t)
          /\ Cardinality(ExchangedFor(t)) + Cardinality(Holders(t)) <= Cardinality(Workers)

\* Redis and the clients agree on what a token is for, and a session continues
\* for the account of the token it was exchanged for, through any number of
\* rotations (an OAuth state stands for a provider, not an account).
Lineage ==
    \A t \in Tokens : issued[t] # Nil =>
       /\ \A k \in Kinds : Live(k, t) => issued[t].kind = k /\ issued[t].owner = redis[k][t]
       /\ LET from == issued[t].from IN
             from # Nil => /\ issued[t].kind = "refresh_token"
                           /\ issued[from] # Nil
                           /\ \/ issued[from].kind = "oauth_state"
                              \/ /\ issued[from].kind \in {"refresh_token", "mfa_challenge"}
                                 /\ issued[from].owner = issued[t].owner

\* A session opened by social login belongs to an account of the provider the
\* client was sent to: the state it brought back, the code exchange and the
\* account found or created agree, and no later update breaks the tie.
SocialSessions ==
    \A t \in Granted("refresh_token") :
       LET from == issued[t].from
           u    == issued[t].owner IN
       from # Nil /\ issued[from].kind = "oauth_state" /\ Exists(u) =>
          /\ users[u].oauth # Nil
          /\ users[u].oauth[1] = issued[from].owner

\* Whatever the requests in flight do, clients see the life of tokens that
\* TokenLifecycle promises; DEL must work, as for SpentTokensStayDead.
Lifecycle == INSTANCE TokenLifecycle
                WITH grant <- issued,
                     alive <- {t \in Tokens : issued[t] # Nil /\ \E k \in Kinds : Live(k, t)}
ImplementsLifecycle == Lifecycle!Spec

(***************************************************************************)
(* Accounts                                                                *)
(***************************************************************************)

\* A request holding its own copy of account u.
HasCopy(w, u) == req[w].row # Nil /\ req[w].val = u

\* An account that is inactive, with no request holding a copy that says
\* otherwise, stays inactive and opens no session: not by password, not by a
\* challenge issued before, not by a refresh token issued before.  Social
\* login is the exception: HandleOAuthCallback does not read IsActive.
Deactivated(u) ==
    /\ Exists(u) /\ ~users[u].active
    /\ \A w \in Workers : HasCopy(w, u) => ~req[w].row.active
OpenedByOAuth(u) ==
    \E t \in Granted("oauth_state") : SessionFor(u, t)
DeactivationHolds ==
    [][\A u \in Users : Deactivated(u) =>
          /\ users'[u] # Nil => ~users'[u].active
          /\ \A from \in Tokens \cup {Nil} : SessionFor(u, from) => OpenedByOAuth(u)]_vars

\* With MFA on, and no sign-in under way that read it off, a password alone
\* opens no session: every session is exchanged for a token.
SecondFactorAsked(u) ==
    /\ Exists(u) /\ users[u].mfaOn
    /\ \A w \in Workers : HasCopy(w, u) => req[w].row.mfaOn
MFAStepUp ==
    [][\A u \in Users : SecondFactorAsked(u) =>
          /\ users'[u] # Nil => users'[u].mfaOn
          /\ ~SessionFor(u, Nil)]_vars

\* A deleted account does not come back through a request that still holds a
\* copy of its row, and once those are done nothing is issued for it.
DeletionIsFinal ==
    [][\A u \in deleted :
          /\ users'[u] = Nil
          /\ (\A w \in Workers : ~HasCopy(w, u)) =>
                \A t \in Tokens : issued[t] = Nil /\ issued'[t] # Nil => issued'[t].owner # u]_vars

\* The columns each handler is about; the rest of its copy it only carries.
Columns == {"tenant", "email", "password", "active", "mfaOn", "secret", "verified", "oauth"}
OwnColumns(op) ==
    {c \in Columns :
       \/ op = "SetupMFA" /\ c = "secret"
       \/ op = "ConfirmMFASetup" /\ c = "mfaOn"
       \/ op = "ConfirmEmailVerification" /\ c = "verified"
       \/ op = "ConfirmPasswordReset" /\ c = "password"
       \/ op = "SCIMUpdateUser" /\ c \in {"email", "active"}}
Differ(r, s) == {c \in Columns : r[c] # s[c]}

\* An UPDATE writes the whole row, yet as long as every copy of the account
\* under way is current, handlers change no columns but their own - password
\* resets change passwords only - and copies grow old only by such an UPDATE.
\* PasswordStaysReset and MFAStaysOn, below, fail from there.
Current(u) ==
    /\ Exists(u)
    /\ \A w \in Workers :
          HasCopy(w, u) => Differ(users[u], req[w].row) \subseteq OwnColumns(req[w].op)
OwnColumnsOnly ==
    [][\A u \in Users : Current(u) /\ users'[u] # Nil =>
          \/ users'[u] = users[u] /\ Current(u)'
          \/ \E w \in Workers :
                /\ At(w, "Update") /\ req[w].val = u /\ req'[w] = IdleRequest
                /\ Differ(users[u], users'[u]) \subseteq OwnColumns(req[w].op)]_vars

\* One account per tenant and address, whoever writes: registration, the
\* directory, social login and the updates that carry an address along.
OneAccountPerAddress ==
    \A u, v \in Users : Exists(u) /\ Exists(v) /\ u # v => ~SameEmail(users[u], users[v])

(***************************************************************************)
(* The inductive invariant.                                                *)
(***************************************************************************)

\* An OAuth state holds a provider, every other key the id of an account.
KeysWellFormed ==
    \A k \in Kinds, t \in Tokens :
       Live(k, t) => redis[k][t] \in IF k = "oauth_state" THEN Providers ELSE Users

\* Where a request stands tells what it holds.
RequestWellFormed(r) ==
    /\ r.pc = "idle" => r = IdleRequest
    /\ r.pc \in {"GetByID", "Revoke", "GetByOAuth", "Create"} => r.op \in DOMAIN RedeemedKind
    /\ r.pc = "GetByID" => r.op # "HandleOAuthCallback"
    /\ r.pc \in {"GetByOAuth", "Create"} => r.op = "HandleOAuthCallback"
    /\ r.pc = "Update" => r.op # "HandleOAuthCallback"
    /\ r.op \in DOMAIN RedeemedKind <=> r.key # Nil
    /\ r.pc # "idle" =>
          r.val \in IF r.op = "HandleOAuthCallback" /\ r.pc # "StoreToken"
                   THEN Providers ELSE Users
    /\ r.pc \in {"Create", "StoreToken", "Update"} => r.row # Nil
    /\ r.pc = "Revoke" /\ r.op # "HandleOAuthCallback" => r.row # Nil

RequestsWellFormed == \A w \in Workers : RequestWellFormed(req[w])

\* A request redeems a token some client was given for that use, on behalf of
\* the account or provider the token stands for.
HoldsGrant(r) ==
    r.key # Nil =>
       /\ issued[r.key] # Nil
       /\ issued[r.key].kind = RedeemedKind[r.op]
       /\ \/ issued[r.key].owner = r.val
          \/ r.pc = "StoreToken" /\ r.op = "HandleOAuthCallback"

RequestsHoldGrants == \A w \in Workers : HoldsGrant(req[w])

\* Past its DEL, a request's token is dead - as long as DEL works.
PastRevoke(r) == r.key # Nil /\ r.pc \in {"GetByOAuth", "Create", "StoreToken", "Update"}

RevokedStayDead ==
    "DEL" \notin MayFail =>
       /\ \A w \in Workers : PastRevoke(req[w]) => Dead(req[w].key)
       /\ \A t \in spent : Dead(t)

IInv == /\ TypeOK /\ KeysWellFormed /\ RequestsWellFormed
        /\ Lineage /\ RequestsHoldGrants /\ RevokedStayDead

(***************************************************************************)
(* What the documents and the handlers' answers say, and the code does not *)
(* keep.  Runs that expect a violation check these.                        *)
(***************************************************************************)

\* A refresh token is exchanged for at most one session ("single-use", README).
SingleUse ==
    \A s, t \in Granted("refresh_token") :
       issued[s].from = issued[t].from /\ issued[s].from \in Granted("refresh_token") => s = t

\* "session revoked": no session continues from a token that was logged out.
NothingFollowsLogout == [][\A t \in spent, u \in Users : ~SessionFor(u, t)]_vars

\* "password has been updated successfully" stays true until the next reset:
\* no other handler changes a password.
PasswordStaysReset ==
    [][\A u \in Users : Exists(u) /\ users'[u] # Nil /\ users'[u].password # users[u].password =>
          \E w \in Workers : req[w].op = "ConfirmPasswordReset" /\ req[w].val = u
                             /\ req'[w] = IdleRequest]_vars

\* "mfa successfully enrolled and activated", and "subsequent logins will return an
\* MFA challenge": once a confirmation has turned MFA on, no handler turns it off.
MFAStaysOn ==
    [][\A u \in Users : Exists(u) /\ users[u].mfaOn /\ users'[u] # Nil => users'[u].mfaOn]_vars
================================================================================
