------------------------------ MODULE AuthSessions ------------------------------
(***************************************************************************)
(* Sign-in, the MFA challenge, refresh-token rotation and logout           *)
(* (internal/usecase/auth_usecase.go).                                     *)
(***************************************************************************)
EXTENDS ServiceState

\* Handlers that start by looking a token up, and under which prefix.
RedeemedKind ==
    [VerifyMFAChallenge |-> "mfa_challenge", RefreshToken |-> "refresh_token",
     ConfirmEmailVerification |-> "email_verify", ConfirmPasswordReset |-> "pwd_reset",
     HandleOAuthCallback |-> "oauth_state"]

\* Mutant of Redeem: the lookup is answered by a cache that no DEL reaches.
RedeemCached(w, op) ==
    /\ Arrives(w, op)
    /\ \E t \in Granted(RedeemedKind[op]) :
          Becomes(w, Standing(op, IF op = "HandleOAuthCallback" THEN "Revoke" ELSE "GetByID",
                              t, issued[t].owner, Nil))
    /\ UNCHANGED <<users, redis, issued, spent, deleted>>

\* The GET those handlers start with.  An OAuth state goes on to its DEL, the
\* other values are ids of accounts to load.
Redeem(w, op) ==
    /\ Arrives(w, op)
    /\ \E t \in Granted(RedeemedKind[op]) :
          /\ Live(RedeemedKind[op], t)
          /\ Becomes(w, Standing(op, IF op = "HandleOAuthCallback" THEN "Revoke" ELSE "GetByID",
                                 t, redis[RedeemedKind[op]][t], Nil))
    /\ UNCHANGED <<users, redis, issued, spent, deleted>>

\* Mutant of Login: the user id does not make it into the challenge or session.
LoginWithoutId(w) ==
    /\ Arrives(w, "Login")
    /\ \E u \in Users :
          /\ Exists(u) /\ users[u].active
          /\ Becomes(w, Standing("Login", "StoreToken", Nil, Nil, users[u]))
    /\ UNCHANGED <<users, redis, issued, spent, deleted>>

\* GetByEmail, the IsActive and password checks, and the branch on MFA.
Login(w) ==
    /\ Arrives(w, "Login")
    /\ \E tenant \in Tenants, email \in Emails, password \in Passwords :
          \E u \in ByEmail(tenant, Clean[email]) :
             /\ users[u].active
             /\ users[u].password = password
             /\ Becomes(w, Standing("Login", "StoreToken", Nil, u, users[u]))
    /\ UNCHANGED <<users, redis, issued, spent, deleted>>

IssuesChallenge(w) == req[w].op = "Login" /\ req[w].row.mfaOn

\* StoreMFAToken: the challenge goes to the client whatever Redis answered.
IssueChallenge(w) ==
    /\ At(w, "StoreToken") /\ IssuesChallenge(w)
    /\ \E t \in Tokens :
          /\ Fresh(t)
          /\ StoresBestEffort("mfa_challenge", t, req[w].val)
          /\ Grants(t, "mfa_challenge", req[w].val, Nil)
    /\ Returns(w)
    /\ UNCHANGED <<users, spent, deleted>>

\* A six-digit code is represented by the secret of the authenticator that
\* showed it: within the window ValidateCode accepts exactly that.
ValidateCode(secret, code) == code = secret

\* Nil is the code of the empty secret, which ValidateCode treats like any other.
Codes == Secrets \cup {Nil}

\* Mutant of LoadForSession: the MFA challenge skips the IsActive check.
LoadWithoutActive(w) ==
    /\ At(w, "GetByID")
    /\ req[w].op \in {"RefreshToken", "VerifyMFAChallenge"}
    /\ LET u == req[w].val IN
          IF Exists(u) /\ (users[u].active \/ req[w].op = "VerifyMFAChallenge")
          THEN GoesOn(w, "Revoke", u, users[u])
          ELSE Returns(w)
    /\ UNCHANGED <<users, redis, issued, spent, deleted>>

\* GetByID and the checks between it and the DEL.
LoadForSession(w) ==
    /\ At(w, "GetByID")
    /\ req[w].op \in {"RefreshToken", "VerifyMFAChallenge"}
    /\ LET u == req[w].val IN
          \/ /\ Exists(u) /\ users[u].active
             /\ \/ req[w].op = "RefreshToken"
                \/ \E code \in Codes : ValidateCode(users[u].secret, code)
             /\ GoesOn(w, "Revoke", u, users[u])
          \/ /\ \/ ~Exists(u)
                \/ Exists(u) /\ ~users[u].active
                \/ req[w].op = "VerifyMFAChallenge"       \* a wrong code
                \/ Fails("SELECT")
             /\ Returns(w)
    /\ UNCHANGED <<users, redis, issued, spent, deleted>>

\* The call each handler makes after the DEL.
AfterRevoke ==
    [VerifyMFAChallenge |-> "StoreToken", RefreshToken |-> "StoreToken",
     ConfirmEmailVerification |-> "Update", ConfirmPasswordReset |-> "Update",
     HandleOAuthCallback |-> "GetByOAuth"]

\* Mutant of Revoke: every handler deletes under the refresh-token prefix.
RevokeWrongPrefix(w) ==
    /\ At(w, "Revoke")
    /\ Deletes("refresh_token", req[w].key)
    /\ Advances(w, AfterRevoke[req[w].op])
    /\ UNCHANGED <<users, issued, spent, deleted>>

\* The DEL of the presented token, its error dropped.
Revoke(w) ==
    /\ At(w, "Revoke")
    /\ Deletes(RedeemedKind[req[w].op], req[w].key)
    /\ Advances(w, AfterRevoke[req[w].op])
    /\ UNCHANGED <<users, issued, spent, deleted>>

\* Mutant of OpensSession: Login goes on after handing out the challenge.
OpensSessionAnyway(w) ==
    req[w].op \in {"Login", "RefreshToken", "VerifyMFAChallenge", "HandleOAuthCallback"}

OpensSession(w) ==
    \/ req[w].op \in {"RefreshToken", "VerifyMFAChallenge", "HandleOAuthCallback"}
    \/ req[w].op = "Login" /\ ~req[w].row.mfaOn

\* Mutant of GenerateSession: rotation stores the old token again.
GenerateSessionKeepingToken(w) ==
    /\ At(w, "StoreToken") /\ OpensSession(w)
    /\ \E t \in Tokens :
          /\ IF req[w].op = "RefreshToken" THEN t = req[w].key ELSE Fresh(t)
          /\ redis' = WithKey("refresh_token", t, req[w].val)
          /\ Grants(t, "refresh_token", req[w].val, req[w].key)
    /\ Returns(w)
    /\ UNCHANGED <<users, spent, deleted>>

\* Mutant of GenerateSession: the session is stored under the challenge prefix.
GenerateSessionWrongPrefix(w) ==
    /\ At(w, "StoreToken") /\ OpensSession(w)
    /\ \E t \in Tokens :
          /\ Fresh(t)
          /\ redis' = WithKey("mfa_challenge", t, req[w].val)
          /\ Grants(t, "refresh_token", req[w].val, req[w].key)
          /\ spent' = spent \cup ({req[w].key} \ {Nil})
    /\ Returns(w)
    /\ UNCHANGED <<users, deleted>>

\* generateSession, the last call of every sign-in.
GenerateSession(w) ==
    /\ At(w, "StoreToken") /\ OpensSession(w)
    /\ \E t \in Tokens :
          /\ Fresh(t)
          /\ redis' = WithKey("refresh_token", t, req[w].val)
          /\ Grants(t, "refresh_token", req[w].val, req[w].key)
          /\ spent' = spent \cup ({req[w].key} \ {Nil})
    /\ Returns(w)
    /\ UNCHANGED <<users, deleted>>

\* The SET reported an error: no session for the client, yet the key may be
\* there, and a redeemed token is gone.
GenerateSessionFails(w) ==
    /\ At(w, "StoreToken") /\ OpensSession(w)
    /\ Fails("SET")
    /\ \/ \E t \in Tokens : Fresh(t) /\ redis' = WithKey("refresh_token", t, req[w].val)
       \/ UNCHANGED redis
    /\ Returns(w)
    /\ UNCHANGED <<users, issued, spent, deleted>>

\* One DEL; the handler answers "session revoked" whatever came of it.
Logout ==
    /\ "Logout" \in Ops
    /\ \E t \in Granted("refresh_token") :
          /\ Deletes("refresh_token", t)
          /\ spent' = spent \cup {t}
    /\ UNCHANGED <<users, req, issued, deleted>>

SessionStep(w) ==
    \/ \E op \in {"RefreshToken", "VerifyMFAChallenge"} : Redeem(w, op)
    \/ Login(w) \/ IssueChallenge(w)
    \/ LoadForSession(w) \/ Revoke(w)
    \/ GenerateSession(w) \/ GenerateSessionFails(w)
================================================================================
