------------------------------ MODULE Accounts_proofs ------------------------------
(***************************************************************************)
(* What AuthService guarantees about accounts, for every number of         *)
(* requests, accounts and tokens, and whichever store commands fail.       *)
(***************************************************************************)
EXTENDS AuthService_proofs

(***************************************************************************)
(* What a step may do to the users table.                                  *)
(***************************************************************************)
InsertStep == \E u \in Users, r \in Row : Inserts(u, r) /\ UNCHANGED deleted

UpdateStep ==
  \E w \in Workers :
     /\ At(w, "Update") /\ Returns(w)
     /\ req[w].val \in Users /\ req[w].row \in Row
     /\ Updatable(req[w].val, req[w].row)
     /\ users' = Updated(req[w].val, req[w].row)
     /\ UNCHANGED deleted

DeleteStep ==
  \E u \in Users : users' = [users EXCEPT ![u] = Nil] /\ deleted' = deleted \cup {u}

TableStep == InsertStep \/ UpdateStep \/ DeleteStep \/ UNCHANGED <<users, deleted>>

\* Every step is one of those.
LEMMA TableSteps == Typed /\ [Next]_vars => TableStep
  <1> SUFFICES ASSUME Typed, [Next]_vars PROVE TableStep
    OBVIOUS
  <1>1. ASSUME NEW w \in Workers, SessionStep(w) PROVE TableStep
    BY <1>1 DEF SessionStep, Redeem, Login, IssueChallenge, LoadForSession, Revoke,
                GenerateSession, GenerateSessionFails, TableStep
  <1>2. ASSUME NEW w \in Workers, AccountStep(w) PROVE TableStep
    <2>1. CASE Update(w)
      <3>1. req[w].val \in Users /\ req[w].row \in Row
        BY <2>1, Beneficiary DEF Update, At
      <3> QED  BY <2>1, <3>1 DEF Update, TableStep, UpdateStep
    <2>2. CASE UpdateFails(w)
      <3>1. req[w].val \in Users /\ req[w].row \in Row
        BY <2>2, Beneficiary DEF UpdateFails, At
      <3> QED  BY <2>2, <3>1 DEF UpdateFails, TableStep, UpdateStep
    <2>3. CASE ~Update(w) /\ ~UpdateFails(w)
      BY <1>2, <2>3 DEF AccountStep, SetupMFA, ConfirmMFASetup, RequestMail, Redeem,
                        StoreMailedToken, LoadForConfirm, TableStep
    <2> QED  BY <2>1, <2>2, <2>3
  <1>3. ASSUME NEW w \in Workers, ProvisioningStep(w) PROVE TableStep
    <2>1. CASE Register(w)
      <3>1. PICK u \in FreshIds, tenant \in Tenants, email \in Emails, password \in Passwords :
               Inserts(u, NewRow(tenant, Clean[email], password, TRUE, FALSE, Nil))
        BY <2>1 DEF Register
      <3>2. NewRow(tenant, Clean[email], password, TRUE, FALSE, Nil) \in Row
        BY InstanceIsLegal, NewRowType
      <3> QED  BY <2>1, <3>1, <3>2 DEF Register, FreshIds, TableStep, InsertStep
    <2>2. CASE CreateOAuthUser(w)
      <3>1. req[w].row \in Row
        BY <2>2, RequestFields DEF CreateOAuthUser, At, RequestWellFormed
      <3> QED  BY <2>2, <3>1 DEF CreateOAuthUser, FreshIds, TableStep, InsertStep
    <2>3. CASE ~Register(w) /\ ~CreateOAuthUser(w)
      BY <1>3, <2>3 DEF ProvisioningStep, SCIMUpdateUser, Redeem, LoadByOAuth,
                        CreateOAuthUserFails, TableStep
    <2> QED  BY <2>1, <2>2, <2>3
  <1>4. CASE SCIMCreateUser
    <2>1. PICK u \in FreshIds, tenant \in Tenants, email \in Emails, active \in BOOLEAN :
             Inserts(u, NewRow(tenant, email, Nil, active, TRUE, Nil))
      BY <1>4 DEF SCIMCreateUser
    <2>2. NewRow(tenant, email, Nil, active, TRUE, Nil) \in Row
      BY NewRowType
    <2> QED  BY <1>4, <2>1, <2>2 DEF SCIMCreateUser, FreshIds, TableStep, InsertStep
  <1>5. CASE SCIMDeleteUser
    BY <1>5 DEF SCIMDeleteUser, TableStep, DeleteStep
  <1>6. CASE \/ Logout \/ OAuthLoginURL \/ Expire \/ UNCHANGED vars
             \/ \E w \in Workers : Dies(w) \/ NoEffect(w)
    BY <1>6 DEF Logout, OAuthLoginURL, Expire, vars, Dies, NoEffect, TableStep
  <1> QED  BY <1>1, <1>2, <1>3, <1>4, <1>5, <1>6 DEF Next

\* What becomes of a row that is there: nothing, or an UPDATE from a copy.
LEMMA RowChange ==
  ASSUME Typed, TableStep, NEW u \in Users, Exists(u), users'[u] # Nil
  PROVE  \/ users'[u] = users[u]
         \/ \E w \in Workers : /\ At(w, "Update") /\ Returns(w)
                               /\ HasCopy(w, u) /\ req[w].row \in Row
                               /\ users'[u] = Written(u, req[w].row)
  <1>1. CASE InsertStep
    BY <1>1 DEF InsertStep, Inserts, Inserted, FreshIds, Exists, Typed, TypeOK
  <1>2. CASE UpdateStep
    <2>1. PICK w \in Workers : /\ At(w, "Update") /\ Returns(w)
                               /\ req[w].val \in Users /\ req[w].row \in Row
                               /\ users' = Updated(req[w].val, req[w].row)
      BY <1>2 DEF UpdateStep
    <2>2. CASE req[w].val = u
      <3>1. HasCopy(w, u)
        BY <2>1, <2>2, NilIsNoValue DEF HasCopy
      <3>2. users'[u] = Written(u, req[w].row)
        BY <2>1, <2>2 DEF Updated, Exists, Typed, TypeOK
      <3> QED  BY <2>1, <3>1, <3>2
    <2>3. CASE req[w].val # u
      BY <2>1, <2>3 DEF Updated, Typed, TypeOK
    <2> QED  BY <2>2, <2>3
  <1>3. CASE DeleteStep
    BY <1>3 DEF DeleteStep, Typed, TypeOK
  <1>4. CASE UNCHANGED <<users, deleted>>
    BY <1>4
  <1> QED  BY <1>1, <1>2, <1>3, <1>4 DEF TableStep

(***************************************************************************)
(* One account per tenant and address.                                     *)
(***************************************************************************)

\* A row whose address is free may be written.
LEMMA OneAccountWrite ==
  ASSUME Typed, OneAccountPerAddress, NEW u \in Users, NEW r \in Row, EmailFree(u, r),
         users' = [users EXCEPT ![u] = r]
  PROVE  OneAccountPerAddress'
  <1> SUFFICES ASSUME NEW a \in Users, NEW b \in Users, users'[a] # Nil, users'[b] # Nil,
                      a # b, SameEmail(users'[a], users'[b])
               PROVE  FALSE
    BY DEF OneAccountPerAddress, Exists, SameEmail
  <1>1. \A x \in Users : users'[x] = IF x = u THEN r ELSE users[x]
    BY DEF Typed, TypeOK
  <1>2. CASE a = u
    BY <1>1, <1>2 DEF EmailFree, Exists, SameEmail
  <1>3. CASE b = u
    BY <1>1, <1>3 DEF EmailFree, Exists, SameEmail
  <1>4. CASE a # u /\ b # u
    BY <1>1, <1>4 DEF OneAccountPerAddress, Exists
  <1> QED  BY <1>2, <1>3, <1>4

\* Every step keeps addresses apart.
LEMMA OneAccountNext ==
  ASSUME Typed, OneAccountPerAddress, TableStep
  PROVE  OneAccountPerAddress'
  <1>1. CASE InsertStep
    BY <1>1, OneAccountWrite DEF InsertStep, Inserts, Inserted
  <1>2. CASE UpdateStep
    <2>1. PICK w \in Workers : /\ req[w].val \in Users /\ req[w].row \in Row
                               /\ Updatable(req[w].val, req[w].row)
                               /\ users' = Updated(req[w].val, req[w].row)
      BY <1>2 DEF UpdateStep
    <2>2. CASE Exists(req[w].val)
      <3> DEFINE u == req[w].val
                 r == Written(u, req[w].row)
      <3>1. users[u] \in Row
        BY <2>1, <2>2 DEF Exists, Typed, TypeOK
      <3>2. r \in Row
        BY <2>1, <3>1 DEF Written, Row
      <3>3. EmailFree(u, r) /\ users' = [users EXCEPT ![u] = r]
        BY <2>1, <2>2 DEF Updatable, Updated
      <3> QED  BY <2>1, <3>2, <3>3, OneAccountWrite
    <2>3. CASE ~Exists(req[w].val)
      BY <2>1, <2>3 DEF Updated, OneAccountPerAddress, Exists
    <2> QED  BY <2>2, <2>3
  <1>3. CASE DeleteStep
    <2>1. PICK u \in Users : users' = [users EXCEPT ![u] = Nil]
      BY <1>3 DEF DeleteStep
    <2>2. \A x \in Users : users'[x] = Nil \/ users'[x] = users[x]
      BY <2>1 DEF Typed, TypeOK
    <2> QED  BY <2>2 DEF OneAccountPerAddress, Exists
  <1>4. CASE UNCHANGED users
    BY <1>4 DEF OneAccountPerAddress, Exists
  <1> QED  BY <1>1, <1>2, <1>3, <1>4 DEF TableStep

\* However registrations, the directory, social logins and updates race, two
\* accounts of a tenant never share an address.
THEOREM OneAccount == Spec => []OneAccountPerAddress
  <1>1. Init => OneAccountPerAddress
    BY InitialUsersAreLegal DEF Init, OneAccountPerAddress, Exists
  <1>2. Typed /\ OneAccountPerAddress /\ [Next]_vars => OneAccountPerAddress'
    BY TableSteps, OneAccountNext
  <1>3. TypeOK /\ KeysWellFormed /\ RequestsWellFormed => Typed
    BY DEF Typed
  <1> QED  BY <1>1, <1>2, <1>3, TypeCorrect, PTL DEF Spec

(***************************************************************************)
(* A deleted account stays deleted.                                        *)
(***************************************************************************)
Gone == \A u \in deleted : users[u] = Nil

\* A token is told on behalf of a provider or of an account some request holds
\* a copy of.
LEMMA TellsForACopy ==
  ASSUME Typed, [Next]_vars, NEW t \in Tokens, issued[t] = Nil, issued'[t] # Nil
  PROVE  issued'[t].owner \in Providers \/ \E w \in Workers : HasCopy(w, issued'[t].owner)
  <1>a. ASSUME NEW x \in Tokens, NEW k, NEW v, NEW from, Grants(x, k, v, from)
        PROVE  issued'[t].owner = v
    BY <1>a DEF Grants, Typed, TypeOK
  <1>b. ASSUME NEW w \in Workers, At(w, "StoreToken") PROVE HasCopy(w, req[w].val)
    BY <1>b, Beneficiary, NilIsNoValue DEF At, HasCopy
  <1>c. ~UNCHANGED issued
    OBVIOUS
  <1>1. ASSUME NEW w \in Workers, SessionStep(w)
        PROVE  \E x \in Workers : HasCopy(x, issued'[t].owner)
    <2>1. CASE IssueChallenge(w)
      BY <2>1, <1>a, <1>b DEF IssueChallenge
    <2>2. CASE GenerateSession(w)
      BY <2>2, <1>a, <1>b DEF GenerateSession
    <2>3. CASE ~IssueChallenge(w) /\ ~GenerateSession(w)
      BY <1>1, <1>c, <2>3 DEF SessionStep, Redeem, Login, LoadForSession, Revoke,
                              GenerateSessionFails
    <2> QED  BY <2>1, <2>2, <2>3
  <1>2. ASSUME NEW w \in Workers, AccountStep(w)
        PROVE  \E x \in Workers : HasCopy(x, issued'[t].owner)
    <2>1. CASE StoreMailedToken(w)
      BY <2>1, <1>a, <1>b DEF StoreMailedToken
    <2>2. CASE ~StoreMailedToken(w)
      BY <1>2, <1>c, <2>2 DEF AccountStep, SetupMFA, ConfirmMFASetup, RequestMail, Redeem,
                              LoadForConfirm, Update, UpdateFails
    <2> QED  BY <2>1, <2>2
  <1>3. CASE OAuthLoginURL
    BY <1>3, <1>a, <1>c DEF OAuthLoginURL
  <1>4. ASSUME \/ \E w \in Workers : ProvisioningStep(w) \/ Dies(w) \/ NoEffect(w)
               \/ Logout \/ SCIMCreateUser \/ SCIMDeleteUser \/ Expire \/ UNCHANGED vars
        PROVE  FALSE
    BY <1>4, <1>c DEF ProvisioningStep, Register, SCIMUpdateUser, Redeem, LoadByOAuth,
                      CreateOAuthUser, CreateOAuthUserFails, Dies, NoEffect, Logout,
                      SCIMCreateUser, SCIMDeleteUser, Expire, vars
  <1> QED  BY <1>1, <1>2, <1>3, <1>4 DEF Next

\* No step brings a deleted row back.
LEMMA GoneNext ==
  ASSUME Typed, Gone, TableStep
  PROVE  Gone' /\ \A u \in deleted : users'[u] = Nil
  <1>0. deleted \subseteq Users
    BY DEF Typed, TypeOK
  <1>1. CASE InsertStep
    BY <1>0, <1>1 DEF InsertStep, Inserts, Inserted, FreshIds, Gone, Typed, TypeOK
  <1>2. CASE UpdateStep
    BY <1>0, <1>2 DEF UpdateStep, Updated, Exists, Gone, Typed, TypeOK
  <1>3. CASE DeleteStep
    BY <1>0, <1>3 DEF DeleteStep, Gone, Typed, TypeOK
  <1>4. CASE UNCHANGED <<users, deleted>>
    BY <1>4 DEF Gone
  <1> QED  BY <1>1, <1>2, <1>3, <1>4 DEF TableStep

\* An UPDATE from a copy read before the DELETE does not bring the account back,
\* and once the requests holding a copy are done, no session, challenge or mail
\* is issued for it, whatever keys still name it.
THEOREM DeletionHolds == Spec => DeletionIsFinal
  <1> DEFINE Final ==
        \A u \in deleted :
           /\ users'[u] = Nil
           /\ (\A w \in Workers : ~HasCopy(w, u)) =>
                 \A t \in Tokens : issued[t] = Nil /\ issued'[t] # Nil => issued'[t].owner # u
  <1>1. Init => Gone
    BY DEF Init, Gone
  <1>2. Typed /\ Gone /\ [Next]_vars => Gone' /\ Final
    <2> SUFFICES ASSUME Typed, Gone, [Next]_vars PROVE Gone' /\ Final
      OBVIOUS
    <2>1. Gone' /\ \A u \in deleted : users'[u] = Nil
      BY TableSteps, GoneNext
    <2>2. ASSUME NEW u \in deleted, \A w \in Workers : ~HasCopy(w, u),
                 NEW t \in Tokens, issued[t] = Nil, issued'[t] # Nil
          PROVE  issued'[t].owner # u
      <3>1. u \in Users /\ u \notin Providers
        BY NilIsNoValue DEF Typed, TypeOK
      <3> QED  BY <2>2, <3>1, TellsForACopy
    <2> QED  BY <2>1, <2>2
  <1>3. Typed /\ Gone /\ [Next]_vars => [Final]_vars
    BY <1>2
  <1>4. TypeOK /\ KeysWellFormed /\ RequestsWellFormed => Typed
    BY DEF Typed
  <1>5. [][Final]_vars => DeletionIsFinal
    BY DEF DeletionIsFinal
  <1> HIDE DEF Final
  <1> QED  BY <1>1, <1>2, <1>3, <1>4, <1>5, TypeCorrect, PTL DEF Spec

(***************************************************************************)
(* What becomes of the copies and the keys of requests in a step.          *)
(***************************************************************************)

\* The record a request becomes when it goes on.
LEMMA GoesOnFields ==
  ASSUME Typed, NEW w \in Workers, NEW pc, NEW val, NEW row, GoesOn(w, pc, val, row)
  PROVE  /\ req'[w].op = req[w].op /\ req'[w].pc = pc /\ req'[w].key = req[w].key
         /\ req'[w].val = val /\ req'[w].row = row
  <1> DEFINE r == Standing(req[w].op, pc, req[w].key, val, row)
  <1>1. r.op = req[w].op /\ r.pc = pc /\ r.key = req[w].key /\ r.val = val /\ r.row = row
    BY DEF Standing
  <1>2. Becomes(w, r)
    BY DEF GoesOn
  <1> HIDE DEF r
  <1> QED  BY <1>1, <1>2, BecomesMoves

\* Becoming idle.
LEMMA ReturnsFields ==
  ASSUME Typed, NEW w \in Workers, Returns(w)
  PROVE  req'[w].pc = "idle" /\ req'[w].op = Nil
  BY BecomesMoves DEF Returns, IdleRequest


\* A copy at hand after a step was at hand before, is of an account that was
\* not there, or was read in the step and changed in the handler's own columns.
CopyStep(x) ==
  \/ req'[x].row = Nil
  \/ req'[x].row = req[x].row /\ req'[x].val = req[x].val /\ req'[x].op = req[x].op
  \/ req'[x].val \in Providers
  \/ ~Exists(req'[x].val)
  \/ Differ(users[req'[x].val], req'[x].row) \subseteq OwnColumns(req'[x].op)

\* A key at hand after a step was at hand before or was live.
KeyStep(x) ==
  \/ req'[x].key = req[x].key \/ req'[x].key = Nil
  \/ \E k \in Kinds : Live(k, req'[x].key)

\* Each handler changes its own columns in its copy.
LEMMA OwnCopies ==
  ASSUME NEW r \in Row, NEW v, NEW b
  PROVE  /\ Differ(r, r) = {}
         /\ Differ(r, [r EXCEPT !.secret = v]) \subseteq OwnColumns("SetupMFA")
         /\ Differ(r, [r EXCEPT !.mfaOn = v]) \subseteq OwnColumns("ConfirmMFASetup")
         /\ Differ(r, [r EXCEPT !.verified = v]) \subseteq OwnColumns("ConfirmEmailVerification")
         /\ Differ(r, [r EXCEPT !.password = v]) \subseteq OwnColumns("ConfirmPasswordReset")
         /\ Differ(r, [r EXCEPT !.email = v, !.active = b]) \subseteq OwnColumns("SCIMUpdateUser")
  <1>1. Differ(r, r) = {}
    BY DEF Differ
  <1>2. Differ(r, [r EXCEPT !.secret = v]) \subseteq OwnColumns("SetupMFA")
    BY DEF Differ, OwnColumns, Columns, Row
  <1>3. Differ(r, [r EXCEPT !.mfaOn = v]) \subseteq OwnColumns("ConfirmMFASetup")
    BY DEF Differ, OwnColumns, Columns, Row
  <1>4. Differ(r, [r EXCEPT !.verified = v]) \subseteq OwnColumns("ConfirmEmailVerification")
    BY DEF Differ, OwnColumns, Columns, Row
  <1>5. Differ(r, [r EXCEPT !.password = v]) \subseteq OwnColumns("ConfirmPasswordReset")
    BY DEF Differ, OwnColumns, Columns, Row
  <1>6. Differ(r, [r EXCEPT !.email = v, !.active = b]) \subseteq OwnColumns("SCIMUpdateUser")
    BY DEF Differ, OwnColumns, Columns, Row
  <1> QED  BY <1>1, <1>2, <1>3, <1>4, <1>5, <1>6

\* A request put to stand for a copy of its own, with the key it had, none, or
\* a live one.
LEMMA StandingCopies ==
  ASSUME Typed, NEW w \in Workers, NEW op, NEW pc, NEW key, NEW val, NEW row,
         Becomes(w, Standing(op, pc, key, val, row)),
         key \in {Nil, req[w].key} \/ \E k \in Kinds : Live(k, key),
         \/ row = Nil
         \/ row = req[w].row /\ val = req[w].val /\ op = req[w].op
         \/ val \in Providers \/ ~Exists(val)
         \/ Differ(users[val], row) \subseteq OwnColumns(op)
  PROVE  \A x \in Workers : CopyStep(x) /\ KeyStep(x)
  <1> DEFINE r == Standing(op, pc, key, val, row)
  <1>1. r.op = op /\ r.key = key /\ r.val = val /\ r.row = row
    BY DEF Standing
  <1>2. Becomes(w, r)
    OBVIOUS
  <1> HIDE DEF r
  <1>3. req'[w] = r /\ \A x \in Workers \ {w} : req'[x] = req[x]
    BY <1>2, BecomesMoves
  <1>4. CopyStep(w) /\ KeyStep(w)
    BY <1>1, <1>3 DEF CopyStep, KeyStep
  <1>5. \A x \in Workers \ {w} : CopyStep(x) /\ KeyStep(x)
    BY <1>3 DEF CopyStep, KeyStep
  <1> QED  BY <1>4, <1>5

\* Every step keeps to that.
LEMMA CopySteps == Typed /\ [Next]_vars => \A x \in Workers : CopyStep(x) /\ KeyStep(x)
  <1> DEFINE All == \A x \in Workers : CopyStep(x) /\ KeyStep(x)
  <1> SUFFICES ASSUME Typed, [Next]_vars PROVE All
    OBVIOUS
  <1>a. ASSUME NEW w \in Workers, Returns(w) PROVE All
    <2>1. IdleRequest.row = Nil /\ IdleRequest.key = Nil
      BY DEF IdleRequest
    <2>2. req'[w] = IdleRequest /\ \A x \in Workers \ {w} : req'[x] = req[x]
      BY <1>a, BecomesMoves DEF Returns
    <2> QED  BY <2>1, <2>2 DEF CopyStep, KeyStep
  <1>b. UNCHANGED req => All
    BY DEF CopyStep, KeyStep
  <1>c. ASSUME NEW w \in Workers, NEW op \in DOMAIN RedeemedKind, Redeem(w, op) PROVE All
    <2>1. PICK t \in Granted(RedeemedKind[op]) :
             /\ Live(RedeemedKind[op], t)
             /\ Becomes(w, Standing(op, IF op = "HandleOAuthCallback" THEN "Revoke" ELSE "GetByID",
                                    t, redis[RedeemedKind[op]][t], Nil))
      BY <1>c DEF Redeem
    <2>2. RedeemedKind[op] \in Kinds
      BY RedeemedKindType
    <2> QED  BY <2>1, <2>2, StandingCopies
  <1>d. ASSUME NEW w \in Workers, NEW op, NEW pc, NEW u \in Users, Exists(u),
               Becomes(w, Standing(op, pc, Nil, u, users[u])) \/ GoesOn(w, pc, u, users[u])
        PROVE  All
    <2>1. Differ(users[u], users[u]) = {}
      BY <1>d, OwnCopies DEF Exists, Typed, TypeOK
    <2> QED  BY <1>d, <2>1, StandingCopies DEF GoesOn
  <1>e. ASSUME NEW w \in Workers, NEW op, NEW u \in Users, NEW r,
               GoesToUpdate(w, op, u, r), Differ(users[u], r) \subseteq OwnColumns(op)
        PROVE  All
    BY <1>e, StandingCopies DEF GoesToUpdate
  <1>1. ASSUME NEW w \in Workers, SessionStep(w) PROVE All
    <2>1. CASE Login(w)
      BY <2>1, <1>d DEF Login, ByEmail
    <2>2. CASE LoadForSession(w)
      <3>1. CASE Returns(w)
        BY <3>1, <1>a
      <3>2. CASE Exists(req[w].val) /\ GoesOn(w, "Revoke", req[w].val, users[req[w].val])
        <4>1. req[w].op # "HandleOAuthCallback" /\ req[w].pc = "GetByID"
          BY <2>2 DEF LoadForSession, At
        <4>2. req[w].val \in Users
          BY <4>1, RequestFields DEF RequestWellFormed
        <4> QED  BY <3>2, <4>2, <1>d
      <3> QED  BY <2>2, <3>1, <3>2 DEF LoadForSession
    <2>3. CASE Revoke(w)
      BY <2>3, StandingCopies DEF Revoke, Advances, GoesOn
    <2> QED
      BY <1>1, <1>a, <1>c, <2>1, <2>2, <2>3, RedeemedKindType
         DEF SessionStep, IssueChallenge, GenerateSession, GenerateSessionFails
  <1>2. ASSUME NEW w \in Workers, AccountStep(w) PROVE All
    <2>1. CASE SetupMFA(w)
      BY <2>1, <1>e, OwnCopies DEF SetupMFA, Exists, Typed, TypeOK
    <2>2. CASE ConfirmMFASetup(w)
      BY <2>2, <1>e, OwnCopies DEF ConfirmMFASetup, Exists, Typed, TypeOK
    <2>3. ASSUME NEW op, RequestMail(w, op) PROVE All
      BY <2>3, <1>d DEF RequestMail, ByEmail
    <2>4. CASE LoadForConfirm(w)
      <3>1. CASE Returns(w)
        BY <3>1, <1>a
      <3> DEFINE u == req[w].val
      <3>2. u \in Users
        BY <2>4, RequestFields DEF LoadForConfirm, At, RequestWellFormed
      <3>3. ASSUME NEW r, GoesOn(w, "Revoke", u, r), Exists(u),
                   Differ(users[u], r) \subseteq OwnColumns(req[w].op)
            PROVE  All
        BY <3>3, StandingCopies DEF GoesOn
      <3>4. Exists(u) => users[u] \in Row
        BY <3>2 DEF Exists, Typed, TypeOK
      <3> HIDE DEF u
      <3>5. CASE /\ Exists(u) /\ req[w].op = "ConfirmEmailVerification"
                 /\ GoesOn(w, "Revoke", u, [users[u] EXCEPT !.verified = TRUE])
        BY <3>3, <3>4, <3>5, OwnCopies
      <3>6. ASSUME NEW newPassword, Exists(u), req[w].op = "ConfirmPasswordReset",
                   GoesOn(w, "Revoke", u, [users[u] EXCEPT !.password = newPassword])
            PROVE  All
        BY <3>3, <3>4, <3>6, OwnCopies
      <3> QED  BY <2>4, <3>1, <3>5, <3>6 DEF LoadForConfirm, u
    <2> QED
      BY <1>2, <1>a, <1>c, <2>1, <2>2, <2>3, <2>4, RedeemedKindType
         DEF AccountStep, StoreMailedToken, Update, UpdateFails
  <1>3. ASSUME NEW w \in Workers, ProvisioningStep(w) PROVE All
    <2>1. CASE Register(w)
      BY <2>1, <1>b, StandingCopies DEF Register, FreshIds
    <2>2. CASE SCIMUpdateUser(w)
      BY <2>2, <1>e, OwnCopies DEF SCIMUpdateUser, Exists, Typed, TypeOK
    <2>3. CASE LoadByOAuth(w)
      <3>1. req[w].val \in Providers
        BY <2>3, RequestFields DEF LoadByOAuth, At, RequestWellFormed
      <3>2. ASSUME NEW row, GoesOn(w, "Create", req[w].val, row) PROVE All
        BY <3>1, <3>2, StandingCopies DEF GoesOn
      <3> QED  BY <2>3, <3>2, <1>a, <1>d DEF LoadByOAuth, ByOAuth
    <2>4. CASE CreateOAuthUser(w)
      <3>1. ASSUME NEW u \in FreshIds, GoesOn(w, "StoreToken", u, req[w].row) PROVE All
        BY <3>1, StandingCopies DEF GoesOn, FreshIds
      <3> QED  BY <2>4, <3>1, <1>a DEF CreateOAuthUser
    <2> QED
      BY <1>3, <1>a, <1>c, <2>1, <2>2, <2>3, <2>4, RedeemedKindType
         DEF ProvisioningStep, CreateOAuthUserFails
  <1>4. ASSUME NEW w \in Workers, Dies(w) PROVE All
    BY <1>4, <1>a DEF Dies
  <1>5. ASSUME \/ Logout \/ SCIMCreateUser \/ SCIMDeleteUser \/ OAuthLoginURL \/ Expire
               \/ UNCHANGED vars \/ \E w \in Workers : NoEffect(w)
        PROVE  All
    BY <1>5, <1>b DEF Logout, SCIMCreateUser, SCIMDeleteUser, OAuthLoginURL, Expire, vars, NoEffect
  <1> HIDE DEF All
  <1> QED  BY <1>1, <1>2, <1>3, <1>4, <1>5 DEF Next

(***************************************************************************)
(* An UPDATE changes the columns its handler is about.                     *)
(***************************************************************************)

\* Whatever interleaves, an account whose copies are all current changes in the
\* columns of the handler that updates it only, and it is by such an UPDATE
\* only that the other copies grow old.
THEOREM UpdatesKeepToTheirColumns == Spec => OwnColumnsOnly
  <1> DEFINE OwnOnly ==
        \A u \in Users : Current(u) /\ users'[u] # Nil =>
           \/ users'[u] = users[u] /\ Current(u)'
           \/ \E w \in Workers :
                 /\ At(w, "Update") /\ req[w].val = u /\ req'[w] = IdleRequest
                 /\ Differ(users[u], users'[u]) \subseteq OwnColumns(req[w].op)
  <1>1. Typed /\ [Next]_vars => OwnOnly
    <2> SUFFICES ASSUME Typed, [Next]_vars, NEW u \in Users, Current(u), users'[u] # Nil
                 PROVE  \/ users'[u] = users[u] /\ Current(u)'
                        \/ \E w \in Workers :
                              /\ At(w, "Update") /\ req[w].val = u /\ req'[w] = IdleRequest
                              /\ Differ(users[u], users'[u]) \subseteq OwnColumns(req[w].op)
      OBVIOUS
    <2>1. CASE users'[u] = users[u]
      <3>1. u \notin Providers
        BY NilIsNoValue
      <3>2. ASSUME NEW x \in Workers, req'[x].row # Nil, req'[x].val = u
            PROVE  Differ(users[u], req'[x].row) \subseteq OwnColumns(req'[x].op)
        BY <3>1, <3>2, CopySteps DEF CopyStep, Current, HasCopy
      <3> QED  BY <2>1, <3>2 DEF Current, Exists, HasCopy
    <2>2. ASSUME NEW w \in Workers, At(w, "Update"), Returns(w), HasCopy(w, u),
                 req[w].row \in Row, users'[u] = Written(u, req[w].row)
          PROVE  /\ At(w, "Update") /\ req[w].val = u /\ req'[w] = IdleRequest
                 /\ Differ(users[u], users'[u]) \subseteq OwnColumns(req[w].op)
      <3>1. Differ(users[u], Written(u, req[w].row)) \subseteq Differ(users[u], req[w].row)
        BY <2>2 DEF Differ, Written, Columns, Row
      <3> QED  BY <2>2, <3>1, BecomesMoves DEF Current, HasCopy, Returns
    <2> QED  BY <2>1, <2>2, RowChange, TableSteps DEF Current
  <1>2. Typed /\ [Next]_vars => [OwnOnly]_vars
    BY <1>1
  <1>3. TypeOK /\ KeysWellFormed /\ RequestsWellFormed => Typed
    BY DEF Typed
  <1>4. [][OwnOnly]_vars => OwnColumnsOnly
    BY DEF OwnColumnsOnly
  <1> HIDE DEF OwnOnly
  <1> QED  BY <1>2, <1>3, <1>4, TypeCorrect, PTL DEF Spec

====================================================================================
