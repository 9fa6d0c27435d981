------------------------------ MODULE Provisioning ------------------------------
(***************************************************************************)
(* Where accounts come from and go: registration, social login             *)
(* (internal/usecase/auth_usecase.go) and the SCIM endpoints               *)
(* (internal/usecase/scim_usecase.go).                                     *)
(***************************************************************************)
EXTENDS AuthAccounts

\* Mutant of NewRow: mfa_enabled is left NULL.
NewRowWithNull(tenant, email, password, active, verified, oauth) ==
    [tenant |-> tenant, email |-> email, password |-> password, active |-> active,
     mfaOn |-> Nil, secret |-> Nil, verified |-> verified, oauth |-> oauth]

\* The row of a new account: MFA off, no secret.
NewRow(tenant, email, password, active, verified, oauth) ==
    [tenant |-> tenant, email |-> email, password |-> password, active |-> active,
     mfaOn |-> FALSE, secret |-> Nil, verified |-> verified, oauth |-> oauth]

\* user_repo.Create: the unique index decides between concurrent inserts.
Inserts(u, r) == u \in FreshIds /\ EmailFree(u, r) /\ users' = Inserted(u, r)

\* The INSERT; StoreMailedToken sends the verification mail.
Register(w) ==
    /\ Arrives(w, "Register")
    /\ \E u \in FreshIds, tenant \in Tenants, email \in Emails, password \in Passwords :
          LET r == NewRow(tenant, Clean[email], password, TRUE, FALSE, Nil) IN
             /\ Inserts(u, r)
             /\ \/ Becomes(w, Standing("Register", "StoreToken", Nil, u, r))
                \/ Fails("INSERT") /\ UNCHANGED req     \* written, reported as an error
    /\ UNCHANGED <<redis, issued, spent, deleted>>

\* The INSERT is all of it; the address is stored as the directory wrote it.
SCIMCreateUser ==
    /\ "SCIMCreateUser" \in Ops
    /\ \E u \in FreshIds, tenant \in Tenants, email \in Emails, active \in BOOLEAN :
          Inserts(u, NewRow(tenant, email, Nil, active, TRUE, Nil))
    /\ UNCHANGED <<redis, req, issued, spent, deleted>>

\* GetByID, not scoped to the tenant; e-mail only if the request has one.
SCIMUpdateUser(w) ==
    /\ Arrives(w, "SCIMUpdateUser")
    /\ \E u \in Users, active \in BOOLEAN :
          /\ Exists(u)
          /\ \E email \in Emails \cup {users[u].email} :
                GoesToUpdate(w, "SCIMUpdateUser", u,
                             [users[u] EXCEPT !.email = email, !.active = active])
    /\ UNCHANGED <<users, redis, issued, spent, deleted>>

\* One DELETE; the keys that name the account stay in Redis.
SCIMDeleteUser ==
    /\ "SCIMDeleteUser" \in Ops
    /\ \E u \in Users :
          /\ Exists(u)
          /\ users' = [users EXCEPT ![u] = Nil]
          /\ deleted' = deleted \cup {u}
    /\ UNCHANGED <<redis, req, issued, spent>>

\* The state parameter of an authorization request.  A SET that reports an
\* error keeps the state from the client.
OAuthLoginURL ==
    /\ "OAuthLoginURL" \in Ops
    /\ \E t \in Tokens, provider \in Providers :
          /\ Fresh(t)
          /\ redis' = WithKey("oauth_state", t, provider)
          /\ \/ Grants(t, "oauth_state", provider, Nil)
             \/ Fails("SET") /\ UNCHANGED issued
    /\ UNCHANGED <<users, req, spent, deleted>>

\* What an ExchangeCode that reports no error may say: an id and an address.
\* A userinfo that could not be decoded is no error; its zero id ("" from
\* google, "0" from github) is among Subjects like any other, its address ("",
\* or the one made up from the id) among Emails.
ExchangeCode == [Subject : Subjects, Email : Emails]

\* GetByOAuth finds the account for the subject, whose IsActive and MFAEnabled
\* are not read, or there is one to create.
LoadByOAuth(w) ==
    /\ At(w, "GetByOAuth")
    /\ \/ \E tenant \in Tenants, userInfo \in ExchangeCode :
             LET identity == <<req[w].val, userInfo.Subject>>
                 found    == ByOAuth(tenant, identity) IN
             \/ \E u \in found : GoesOn(w, "StoreToken", u, users[u])
             \/ /\ found = {}
                /\ GoesOn(w, "Create", req[w].val,
                          NewRow(tenant, userInfo.Email, Nil, TRUE, TRUE, identity))
       \/ Returns(w)       \* the code exchange, or the SELECT, failed
    /\ UNCHANGED <<users, redis, issued, spent, deleted>>

CreateOAuthUser(w) ==
    /\ At(w, "Create")
    /\ \E u \in FreshIds :
          /\ Inserts(u, req[w].row)
          /\ \/ GoesOn(w, "StoreToken", u, req[w].row)
             \/ Fails("INSERT") /\ Returns(w)
    /\ UNCHANGED <<redis, issued, spent, deleted>>

\* ErrConflict: the address belongs to another account, which is not linked.
CreateOAuthUserFails(w) ==
    /\ At(w, "Create")
    /\ \/ \E u \in Users : Exists(u) /\ SameEmail(users[u], req[w].row)
       \/ Fails("INSERT")
    /\ Returns(w)
    /\ UNCHANGED <<users, redis, issued, spent, deleted>>

ProvisioningStep(w) ==
    \/ Register(w) \/ SCIMUpdateUser(w)
    \/ Redeem(w, "HandleOAuthCallback") \/ LoadByOAuth(w)
    \/ CreateOAuthUser(w) \/ CreateOAuthUserFails(w)
================================================================================
