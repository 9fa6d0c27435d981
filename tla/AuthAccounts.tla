------------------------------ MODULE AuthAccounts ------------------------------
(***************************************************************************)
(* MFA enrolment, email verification and password reset                    *)
(* (internal/usecase/auth_usecase.go).  Each is a read of the account, a   *)
(* change of the handler's copy, and an UPDATE of the whole row.           *)
(***************************************************************************)
EXTENDS AuthSessions

\* Accounts some client holds a JWT of: generateSession made one, or the
\* account had a session before observation started.  JWTs outlive everything
\* the store knows about the account.
Authenticated(u) ==
    \/ InitialUsers[u] # Nil
    \/ \E t \in Granted("refresh_token") : issued[t].owner = u

\* GenerateSecret draws 160 random bits: never a secret in use.
FreshSecret(s) ==
    /\ \A u \in Users : Exists(u) => users[u].secret # s
    /\ \A w \in Workers : req[w].row # Nil => req[w].row.secret # s

\* The UPDATE a handler ends with: r is its copy of row u.
GoesToUpdate(w, op, u, r) ==
    Becomes(w, Standing(op, "Update", Nil, u, r))

\* Mutant of SetupMFA: MFA is off until the new secret is confirmed.
SetupMFATurnsOff(w) ==
    /\ Arrives(w, "SetupMFA")
    /\ \E u \in Users, s \in Secrets :
          /\ Authenticated(u) /\ Exists(u) /\ FreshSecret(s)
          /\ GoesToUpdate(w, "SetupMFA", u, [users[u] EXCEPT !.secret = s, !.mfaOn = FALSE])
    /\ UNCHANGED <<users, redis, issued, spent, deleted>>

\* GetByID, then a new secret in the copy; MFAEnabled is neither read nor changed.
SetupMFA(w) ==
    /\ Arrives(w, "SetupMFA")
    /\ \E u \in Users, s \in Secrets :
          /\ Authenticated(u) /\ Exists(u) /\ FreshSecret(s)
          /\ GoesToUpdate(w, "SetupMFA", u, [users[u] EXCEPT !.secret = s])
    /\ UNCHANGED <<users, redis, issued, spent, deleted>>

\* GetByID and the code check; the copy now has MFA on.
ConfirmMFASetup(w) ==
    /\ Arrives(w, "ConfirmMFASetup")
    /\ \E u \in Users, code \in Codes :
          /\ Authenticated(u) /\ Exists(u)
          /\ ValidateCode(users[u].secret, code)
          /\ GoesToUpdate(w, "ConfirmMFASetup", u, [users[u] EXCEPT !.mfaOn = TRUE])
    /\ UNCHANGED <<users, redis, issued, spent, deleted>>

\* Mailed tokens: which handler asks for which kind.
MailedKind == [op \in {"Register", "RequestEmailVerification", "RequestPasswordReset"} |->
                  IF op = "RequestPasswordReset" THEN "pwd_reset" ELSE "email_verify"]

\* GetByEmail with the address as typed.
RequestMail(w, op) ==
    /\ Arrives(w, op)
    /\ \E tenant \in Tenants, email \in Emails :
          \E u \in ByEmail(tenant, email) :
             Becomes(w, Standing(op, "StoreToken", Nil, u, users[u]))
    /\ UNCHANGED <<users, redis, issued, spent, deleted>>

\* SET, its error dropped, then the mail with the token.
StoreMailedToken(w) ==
    /\ At(w, "StoreToken") /\ req[w].op \in DOMAIN MailedKind
    /\ \E t \in Tokens :
          /\ Fresh(t)
          /\ StoresBestEffort(MailedKind[req[w].op], t, req[w].val)
          /\ Grants(t, MailedKind[req[w].op], req[w].val, Nil)
    /\ Returns(w)
    /\ UNCHANGED <<users, spent, deleted>>

\* GetByID and the change of the copy, before the DEL of the mailed token.
\* IsActive is not read.
LoadForConfirm(w) ==
    /\ At(w, "GetByID")
    /\ LET u == req[w].val IN
          \/ /\ Exists(u)
             /\ \/ /\ req[w].op = "ConfirmEmailVerification"
                   /\ GoesOn(w, "Revoke", u, [users[u] EXCEPT !.verified = TRUE])
                \/ /\ req[w].op = "ConfirmPasswordReset"
                   /\ \E newPassword \in Passwords :
                         GoesOn(w, "Revoke", u, [users[u] EXCEPT !.password = newPassword])
          \/ /\ req[w].op \in {"ConfirmEmailVerification", "ConfirmPasswordReset"}
             /\ ~Exists(u) \/ Fails("SELECT")
             /\ Returns(w)
    /\ UNCHANGED <<users, redis, issued, spent, deleted>>

\* The UPDATE every copy ends in.  A redeemed token is used once it is answered.
Update(w) ==
    /\ At(w, "Update") /\ Updatable(req[w].val, req[w].row)
    /\ users' = Updated(req[w].val, req[w].row)
    /\ spent' = spent \cup ({req[w].key} \ {Nil})
    /\ Returns(w)
    /\ UNCHANGED <<redis, issued, deleted>>

\* 23505, or an error that hides whether the row was written.
UpdateFails(w) ==
    /\ At(w, "Update")
    /\ \/ ~Updatable(req[w].val, req[w].row) /\ UNCHANGED users
       \/ Fails("UPDATE") /\ UNCHANGED users
       \/ /\ Fails("UPDATE") /\ Updatable(req[w].val, req[w].row)
          /\ users' = Updated(req[w].val, req[w].row)
    /\ Returns(w)
    /\ UNCHANGED <<redis, issued, spent, deleted>>

AccountStep(w) ==
    \/ SetupMFA(w) \/ ConfirmMFASetup(w)
    \/ \E op \in {"RequestEmailVerification", "RequestPasswordReset"} : RequestMail(w, op)
    \/ \E op \in {"ConfirmEmailVerification", "ConfirmPasswordReset"} : Redeem(w, op)
    \/ StoreMailedToken(w) \/ LoadForConfirm(w)
    \/ Update(w) \/ UpdateFails(w)
================================================================================
