-------------------------------- MODULE SignIn_proofs --------------------------------
(***************************************************************************)
(* Who may be signed in, and how often: exchanges of tokens, MFA,          *)
(* deactivation and social login, for every number of requests, accounts   *)
(* and tokens, whichever store commands fail.                              *)
(***************************************************************************)
EXTENDS Accounts_proofs, FiniteSetTheorems

(***************************************************************************)
(* Sessions are opened for the account of a handler's copy.                *)
(***************************************************************************)

\* A session is opened by generateSession, for the account of the copy in hand
\* and in exchange for the token that was presented, if one was.
LEMMA WhoOpens ==
  ASSUME Typed, [Next]_vars, NEW u, NEW from \in Tokens \cup {Nil}, SessionFor(u, from)
  PROVE  \E w \in Workers : /\ At(w, "StoreToken") /\ OpensSession(w) /\ Returns(w)
                            /\ req[w].val = u /\ req[w].key = from
  <1>0. PICK t \in Tokens : /\ issued[t] = Nil /\ issued'[t] # Nil
                            /\ issued'[t].kind = "refresh_token"
                            /\ issued'[t].owner = u /\ issued'[t].from = from
    BY DEF SessionFor
  <1>a. ASSUME NEW x \in Tokens, NEW k, NEW v, NEW f, Grants(x, k, v, f)
        PROVE  k = "refresh_token" /\ v = u /\ f = from
    BY <1>0, <1>a DEF Grants, Typed, TypeOK
  <1>b. ~UNCHANGED issued
    BY <1>0
  <1>1. ASSUME NEW w \in Workers, SessionStep(w)
        PROVE  /\ At(w, "StoreToken") /\ OpensSession(w) /\ Returns(w)
               /\ req[w].val = u /\ req[w].key = from
    <2>1. CASE IssueChallenge(w)
      BY <2>1, <1>a DEF IssueChallenge
    <2>2. CASE GenerateSession(w)
      BY <2>2, <1>a DEF GenerateSession
    <2>3. CASE ~IssueChallenge(w) /\ ~GenerateSession(w)
      BY <1>1, <1>b, <2>3 DEF SessionStep, Redeem, Login, LoadForSession, Revoke,
                              GenerateSessionFails
    <2> QED  BY <2>1, <2>2, <2>3
  <1>2. ASSUME NEW w \in Workers, AccountStep(w) PROVE FALSE
    <2>1. CASE StoreMailedToken(w)
      <3>1. MailedKind[req[w].op] \in {"pwd_reset", "email_verify"}
        BY <2>1 DEF StoreMailedToken, MailedKind
      <3> QED  BY <2>1, <3>1, <1>a DEF StoreMailedToken
    <2>2. CASE ~StoreMailedToken(w)
      BY <1>2, <1>b, <2>2 DEF AccountStep, SetupMFA, ConfirmMFASetup, RequestMail, Redeem,
                              LoadForConfirm, Update, UpdateFails
    <2> QED  BY <2>1, <2>2
  <1>3. ASSUME OAuthLoginURL PROVE FALSE
    BY <1>3, <1>a, <1>b DEF OAuthLoginURL
  <1>4. ASSUME \/ \E w \in Workers : ProvisioningStep(w) \/ Dies(w) \/ NoEffect(w)
               \/ Logout \/ SCIMCreateUser \/ SCIMDeleteUser \/ Expire \/ UNCHANGED vars
        PROVE  FALSE
    BY <1>4, <1>b DEF ProvisioningStep, Register, SCIMUpdateUser, Redeem, LoadByOAuth,
                      CreateOAuthUser, CreateOAuthUserFails, Dies, NoEffect, Logout,
                      SCIMCreateUser, SCIMDeleteUser, Expire, vars
  <1> QED  BY <1>1, <1>2, <1>3, <1>4 DEF Next

(***************************************************************************)
(* What a dead token may still be exchanged for.                           *)
(***************************************************************************)

\* The keys of requests after the death of their token.
LEMMA HoldersOfTheDead ==
  ASSUME Typed, [Next]_vars, NEW t \in Tokens, Dead(t)
  PROVE  Holders(t)' \subseteq Holders(t)
  <1>1. ASSUME NEW x \in Workers, req'[x].key = t PROVE req[x].key = t
    BY <1>1, CopySteps, NilIsNoValue DEF KeyStep, Dead
  <1> QED  BY <1>1 DEF Holders

\* After its death no request takes a token up, and each session exchanged for
\* it ends one of the requests that had: SingleUse and NothingFollowsLogout
\* fail by those only, so their number bounds the sessions to come.
THEOREM DeadTokensRunOut == Spec => ExchangesRunOut
  <1> DEFINE RunOut ==
        \A t \in Tokens : Dead(t) =>
           /\ Holders(t)' \subseteq Holders(t)
           /\ \A u \in Users : SessionFor(u, t) => Holders(t)' # Holders(t)
  <1>1. Typed /\ [Next]_vars => RunOut
    <2> SUFFICES ASSUME Typed, [Next]_vars, NEW t \in Tokens, Dead(t)
                 PROVE  /\ Holders(t)' \subseteq Holders(t)
                        /\ \A u \in Users : SessionFor(u, t) => Holders(t)' # Holders(t)
      OBVIOUS
    <2>1. Holders(t)' \subseteq Holders(t)
      BY HoldersOfTheDead
    <2>2. ASSUME NEW u \in Users, SessionFor(u, t) PROVE Holders(t)' # Holders(t)
      <3>1. PICK w \in Workers : Returns(w) /\ req[w].key = t
        BY <2>2, WhoOpens
      <3>2. req'[w].key = Nil
        BY <3>1, BecomesMoves DEF Returns, IdleRequest
      <3>3. w \in Holders(t) /\ w \notin Holders(t)'
        BY <3>1, <3>2, NilIsNoValue DEF Holders
      <3> QED  BY <3>3
    <2> QED  BY <2>1, <2>2
  <1>2. Typed /\ [Next]_vars => [RunOut]_vars
    BY <1>1
  <1>3. TypeOK /\ KeysWellFormed /\ RequestsWellFormed => Typed
    BY DEF Typed
  <1>4. [][RunOut]_vars => ExchangesRunOut
    BY DEF ExchangesRunOut
  <1> HIDE DEF RunOut
  <1> QED  BY <1>2, <1>3, <1>4, TypeCorrect, PTL DEF Spec

\* A step tells clients of one token at most.
LEMMA OneTokenTold ==
  ASSUME Typed, [Next]_vars
  PROVE  \A s, t \in Tokens : issued'[s] # issued[s] /\ issued'[t] # issued[t] => s = t
  <1> DEFINE OneTold ==
        \A s, t \in Tokens : issued'[s] # issued[s] /\ issued'[t] # issued[t] => s = t
  <1>a. ASSUME NEW t \in Tokens, NEW k, NEW v, NEW from, Grants(t, k, v, from) PROVE OneTold
    BY <1>a DEF Grants, Typed, TypeOK
  <1>b. UNCHANGED issued => OneTold
    OBVIOUS
  <1> HIDE DEF OneTold
  <1>1. ASSUME NEW w \in Workers, SessionStep(w), ~UNCHANGED issued PROVE OneTold
    BY <1>1, <1>a DEF SessionStep, Redeem, Login, IssueChallenge, LoadForSession, Revoke,
                      GenerateSession, GenerateSessionFails
  <1>2. ASSUME NEW w \in Workers, AccountStep(w), ~UNCHANGED issued PROVE OneTold
    BY <1>2, <1>a DEF AccountStep, SetupMFA, ConfirmMFASetup, RequestMail, Redeem,
                      StoreMailedToken, LoadForConfirm, Update, UpdateFails
  <1>3. ASSUME OAuthLoginURL, ~UNCHANGED issued PROVE OneTold
    BY <1>3, <1>a DEF OAuthLoginURL
  <1>4. ASSUME \/ \E w \in Workers : ProvisioningStep(w) \/ Dies(w) \/ NoEffect(w)
               \/ Logout \/ SCIMCreateUser \/ SCIMDeleteUser \/ Expire \/ UNCHANGED vars
        PROVE  UNCHANGED issued
    BY <1>4 DEF ProvisioningStep, Register, SCIMUpdateUser, Redeem, LoadByOAuth,
                CreateOAuthUser, CreateOAuthUserFails, Dies, NoEffect, Logout,
                SCIMCreateUser, SCIMDeleteUser, Expire, vars
  <1> QED  BY <1>b, <1>1, <1>2, <1>3, <1>4 DEF Next, OneTold

\* One session more is one request less.
LEMMA OneMoreOneLess ==
  ASSUME NEW E, NEW F, NEW s, NEW H, NEW K, NEW w, NEW n \in Nat,
         IsFiniteSet(E), IsFiniteSet(H), F = E \cup {s}, K \subseteq H \ {w}, w \in H,
         Cardinality(E) + Cardinality(H) <= n
  PROVE  IsFiniteSet(F) /\ Cardinality(F) + Cardinality(K) <= n
  <1>1. IsFiniteSet(F) /\ Cardinality(F) <= Cardinality(E) + 1
    <2>1. /\ IsFiniteSet(E \cup {s}) /\ Cardinality(E) \in Nat
          /\ Cardinality(E \cup {s}) = IF s \in E THEN Cardinality(E) ELSE Cardinality(E) + 1
      BY FS_AddElement, FS_CardinalityType
    <2> QED  BY <2>1
  <1>2. IsFiniteSet(H \ {w}) /\ Cardinality(H \ {w}) = Cardinality(H) - 1
    BY FS_RemoveElement
  <1>3. Cardinality(K) <= Cardinality(H \ {w}) /\ IsFiniteSet(K)
    BY <1>2, FS_Subset
  <1>4. /\ Cardinality(E) \in Nat /\ Cardinality(F) \in Nat /\ Cardinality(H) \in Nat
        /\ Cardinality(K) \in Nat
    BY <1>1, <1>3, FS_CardinalityType
  <1> QED  BY <1>1, <1>2, <1>3, <1>4

\* ExchangesAreBounded for one token, with what its step needs.
Bounded(t) ==
  /\ IsFiniteSet(ExchangedFor(t))
  /\ ExchangedFor(t) # {} =>
        /\ Dead(t)
        /\ Cardinality(ExchangedFor(t)) + Cardinality(Holders(t)) <= Cardinality(Workers)

\* There are never more holders than requests.
LEMMA HoldersAreFew ==
  ASSUME NEW t
  PROVE  /\ IsFiniteSet(Holders(t)) /\ Cardinality(Holders(t)) <= Cardinality(Workers)
         /\ Cardinality(Holders(t)) \in Nat /\ Cardinality(Workers) \in Nat
  <1>1. Holders(t) \subseteq Workers
    BY DEF Holders
  <1> QED  BY <1>1, WorkersAreFinite, FS_Subset, FS_CardinalityType

LEMMA BoundedNext ==
  ASSUME IInv, "DEL" \notin MayFail, [Next]_vars, NEW t \in Tokens, Bounded(t)
  PROVE  Bounded(t)'
  <1>1. Typed /\ Lineage /\ Held /\ StoreStep /\ ExchangesOK
    BY IInvParts, StoreSteps DEF Held
  <1>2. issued' \in [Tokens -> Grant \cup {Nil}]
    BY <1>1, TypedNext DEF Typed, TypeOK
  <1>3. ExchangedFor(t) \subseteq ExchangedFor(t)'
    BY <1>1, NilIsNoValue DEF ExchangedFor, StoreStep
  <1>4. CASE ExchangedFor(t)' = ExchangedFor(t)
    <2>1. CASE ExchangedFor(t) = {}
      BY <1>4, <2>1, FS_EmptySet DEF Bounded
    <2>2. CASE ExchangedFor(t) # {}
      <3>1. Dead(t)' /\ Holders(t)' \subseteq Holders(t)
        BY <1>1, <2>2, DeadStays, HoldersOfTheDead DEF Bounded
      <3>2. Cardinality(Holders(t)') <= Cardinality(Holders(t)) /\ IsFiniteSet(Holders(t)')
        BY <3>1, HoldersAreFew, FS_Subset
      <3>3. Cardinality(ExchangedFor(t)) \in Nat /\ Cardinality(Holders(t)') \in Nat
        BY <3>2, FS_CardinalityType DEF Bounded
      <3> QED  BY <1>4, <2>2, <3>1, <3>2, <3>3, HoldersAreFew DEF Bounded
    <2> QED  BY <2>1, <2>2
  <1>5. ASSUME NEW s \in Tokens, s \in ExchangedFor(t)', s \notin ExchangedFor(t)
        PROVE  Bounded(t)'
    <2>1. issued[s] = Nil /\ issued'[s] # Nil /\ issued'[s].from = t
      BY <1>1, <1>5, NilIsNoValue DEF ExchangedFor, StoreStep
    <2>2. issued'[s].kind = "refresh_token"
      BY <1>1, <2>1, NilIsNoValue DEF ExchangesOK, Exchange
    <2>3. PICK w \in Workers : At(w, "StoreToken") /\ Returns(w) /\ req[w].key = t
      BY <1>1, <2>1, <2>2, WhoOpens DEF SessionFor
    <2>4. Dead(t)
      BY <1>1, <2>3, NilIsNoValue DEF At, Held, RevokedStayDead, PastRevoke
    <2>5. w \in Holders(t) /\ Holders(t)' \subseteq Holders(t) \ {w}
      <3>1. req'[w].key # t
        BY <1>1, <2>3, BecomesMoves, NilIsNoValue DEF Returns, IdleRequest
      <3> QED  BY <1>1, <2>3, <2>4, <3>1, HoldersOfTheDead DEF Holders
    <2>6. ExchangedFor(t)' = ExchangedFor(t) \cup {s}
      <3>1. ASSUME NEW r \in Tokens, r # s PROVE issued'[r] = issued[r]
        BY <1>1, <2>1, <3>1, OneTokenTold
      <3> QED  BY <1>5, <1>3, <3>1 DEF ExchangedFor
    <2>7. Cardinality(ExchangedFor(t)) + Cardinality(Holders(t)) <= Cardinality(Workers)
      <3>1. CASE ExchangedFor(t) = {}
        BY <3>1, HoldersAreFew, FS_EmptySet
      <3>2. CASE ExchangedFor(t) # {}
        BY <3>2 DEF Bounded
      <3> QED  BY <3>1, <3>2
    <2>8. /\ IsFiniteSet(ExchangedFor(t)')
          /\ Cardinality(ExchangedFor(t)') + Cardinality(Holders(t)') <= Cardinality(Workers)
      <3>1. /\ IsFiniteSet(ExchangedFor(t)) /\ IsFiniteSet(Holders(t))
            /\ Cardinality(Workers) \in Nat
        BY HoldersAreFew DEF Bounded
      <3> QED  BY <2>5, <2>6, <2>7, <3>1, OneMoreOneLess
    <2> QED  BY <1>1, <2>4, <2>8, DeadStays DEF Bounded
  <1>6. ExchangedFor(t)' \subseteq Tokens
    BY DEF ExchangedFor
  <1> QED  BY <1>3, <1>4, <1>5, <1>6

\* As long as DEL works, no token is exchanged for more sessions than there can
\* be requests in flight at once, however they interleave.
THEOREM FewSessionsPerToken == Spec => []ExchangesAreBounded
  <1> DEFINE Inv == "DEL" \notin MayFail => \A t \in Tokens : Bounded(t)
  <1>1. Init => Inv
    <2> SUFFICES ASSUME Init, NEW t \in Tokens PROVE Bounded(t)
      OBVIOUS
    <2>1. ExchangedFor(t) = {}
      BY DEF Init, ExchangedFor
    <2> QED  BY <2>1, FS_EmptySet DEF Bounded
  <1>2. IInv /\ Inv /\ [Next]_vars => Inv'
    <2> SUFFICES ASSUME IInv, Inv, [Next]_vars, "DEL" \notin MayFail, NEW t \in Tokens
                 PROVE  Bounded(t)'
      OBVIOUS
    <2> QED  BY BoundedNext
  <1>3. Inv => ExchangesAreBounded
    BY DEF ExchangesAreBounded, Bounded
  <1> HIDE DEF Inv
  <1> QED  BY <1>1, <1>2, <1>3, InvariantHolds, PTL DEF Spec

(***************************************************************************)
(* MFA                                                                     *)
(***************************************************************************)

\* With MFA on, and no sign-in under way that read it off, no step turns it off
\* and no session is opened by password alone.
THEOREM StepUpHolds == Spec => MFAStepUp
  <1> DEFINE StepUp ==
        \A u \in Users : SecondFactorAsked(u) =>
           /\ users'[u] # Nil => users'[u].mfaOn
           /\ ~SessionFor(u, Nil)
  <1>1. Typed /\ [Next]_vars => StepUp
    <2> SUFFICES ASSUME Typed, [Next]_vars, NEW u \in Users, SecondFactorAsked(u)
                 PROVE  (users'[u] # Nil => users'[u].mfaOn) /\ ~SessionFor(u, Nil)
      OBVIOUS
    <2>1. ASSUME users'[u] # Nil PROVE users'[u].mfaOn
      <3>1. CASE users'[u] = users[u]
        BY <3>1 DEF SecondFactorAsked
      <3>2. ASSUME NEW w \in Workers, HasCopy(w, u), req[w].row \in Row,
                   users'[u] = Written(u, req[w].row)
            PROVE  users'[u].mfaOn
        BY <3>2 DEF SecondFactorAsked, Written, Row
      <3> QED  BY <2>1, <3>1, <3>2, RowChange, TableSteps DEF SecondFactorAsked
    <2>2. ASSUME SessionFor(u, Nil) PROVE FALSE
      <3>1. PICK w \in Workers : /\ At(w, "StoreToken") /\ OpensSession(w)
                                 /\ req[w].val = u /\ req[w].key = Nil
        BY <2>2, WhoOpens
      <3>2. req[w].op \notin DOMAIN RedeemedKind
        BY <3>1, RequestFields DEF RequestWellFormed
      <3>3. ~req[w].row.mfaOn
        BY <3>1, <3>2, RedeemedKindType DEF OpensSession
      <3>4. HasCopy(w, u)
        BY <3>1, Beneficiary, NilIsNoValue DEF At, HasCopy
      <3> QED  BY <3>3, <3>4 DEF SecondFactorAsked
    <2> QED  BY <2>1, <2>2
  <1>2. Typed /\ [Next]_vars => [StepUp]_vars
    BY <1>1
  <1>3. TypeOK /\ KeysWellFormed /\ RequestsWellFormed => Typed
    BY DEF Typed
  <1>4. [][StepUp]_vars => MFAStepUp
    BY DEF MFAStepUp
  <1> HIDE DEF StepUp
  <1> QED  BY <1>2, <1>3, <1>4, TypeCorrect, PTL DEF Spec

(***************************************************************************)
(* What becomes of a request in a step.                                    *)
(***************************************************************************)
SessionOps == {"Login", "RefreshToken", "VerifyMFAChallenge"}

\* The request rests, ends, stays with its first call, serves another handler
\* than those of sign-in, or makes one of the steps of sign-in.
Moved(x) ==
  \/ req'[x] = req[x]
  \/ req'[x].pc \in {"idle", "GetByID"}
  \/ req'[x].op = "HandleOAuthCallback" /\ req'[x].pc = "Revoke"
  \/ req'[x].op \notin SessionOps \cup {"HandleOAuthCallback"}
  \/ Login(x) \/ LoadForSession(x) \/ Revoke(x) \/ LoadByOAuth(x) \/ CreateOAuthUser(x)

LEMMA RequestsMove == Typed /\ [Next]_vars => \A x \in Workers : Moved(x)
  <1> SUFFICES ASSUME Typed, [Next]_vars, NEW x \in Workers PROVE Moved(x)
    OBVIOUS
  <1>a. ASSUME NEW w \in Workers, Returns(w) PROVE Moved(x)
    BY <1>a, BecomesMoves DEF Returns, IdleRequest, Moved
  <1>b. ASSUME NEW w \in Workers, NEW op, NEW pc, NEW key, NEW val, NEW row,
               Becomes(w, Standing(op, pc, key, val, row)),
               op \notin SessionOps \cup {"HandleOAuthCallback"} \/ pc = "GetByID"
               \/ (op = "HandleOAuthCallback" /\ pc = "Revoke")
        PROVE  Moved(x)
    <2> DEFINE r == Standing(op, pc, key, val, row)
    <2>1. r.op = op /\ r.pc = pc
      BY DEF Standing
    <2>2. Becomes(w, r)
      BY <1>b
    <2> HIDE DEF r
    <2>3. req'[w] = r /\ \A y \in Workers \ {w} : req'[y] = req[y]
      BY <2>2, BecomesMoves
    <2> QED  BY <1>b, <2>1, <2>3 DEF Moved
  <1>c. UNCHANGED req => Moved(x)
    BY DEF Moved
  <1>d. ASSUME NEW w \in Workers, NEW op, Redeem(w, op),
               op \in DOMAIN RedeemedKind
        PROVE  Moved(x)
    <2>1. PICK t \in Granted(RedeemedKind[op]) :
             Becomes(w, Standing(op, IF op = "HandleOAuthCallback" THEN "Revoke" ELSE "GetByID",
                                 t, redis[RedeemedKind[op]][t], Nil))
      BY <1>d DEF Redeem
    <2>2. CASE op = "HandleOAuthCallback"
      BY <2>1, <2>2, <1>b
    <2>3. CASE op # "HandleOAuthCallback"
      BY <2>1, <2>3, <1>b
    <2> QED  BY <2>2, <2>3
  <1>e. ASSUME NEW w \in Workers,
               Login(w) \/ LoadForSession(w) \/ Revoke(w) \/ LoadByOAuth(w) \/ CreateOAuthUser(w)
        PROVE  Moved(x)
    <2>1. CASE x = w
      BY <1>e, <2>1 DEF Moved
    <2>2. CASE x # w
      BY <1>e, <2>2 DEF Login, LoadForSession, Revoke, LoadByOAuth, CreateOAuthUser, GoesOn,
                        Advances, Returns, Becomes, Moved, Typed, TypeOK
    <2> QED  BY <2>1, <2>2
  <1>1. ASSUME NEW w \in Workers, SessionStep(w) PROVE Moved(x)
    BY <1>1, <1>a, <1>d, <1>e, RedeemedKindType
       DEF SessionStep, IssueChallenge, GenerateSession, GenerateSessionFails
  <1>2. ASSUME NEW w \in Workers, AccountStep(w) PROVE Moved(x)
    <2>1. CASE SetupMFA(w) \/ ConfirmMFASetup(w)
      BY <2>1, <1>b DEF SetupMFA, ConfirmMFASetup, GoesToUpdate, SessionOps
    <2>2. ASSUME NEW op \in {"RequestEmailVerification", "RequestPasswordReset"}, RequestMail(w, op)
          PROVE  Moved(x)
      BY <2>2, <1>b DEF RequestMail, SessionOps
    <2>3. CASE LoadForConfirm(w)
      <3>1. ASSUME NEW row, GoesOn(w, "Revoke", req[w].val, row),
                   req[w].op \in {"ConfirmEmailVerification", "ConfirmPasswordReset"}
            PROVE  Moved(x)
        BY <3>1, <1>b DEF GoesOn, SessionOps
      <3> QED  BY <2>3, <3>1, <1>a DEF LoadForConfirm
    <2> QED
      BY <1>2, <1>a, <1>d, <2>1, <2>2, <2>3, RedeemedKindType
         DEF AccountStep, StoreMailedToken, Update, UpdateFails
  <1>3. ASSUME NEW w \in Workers, ProvisioningStep(w) PROVE Moved(x)
    <2>1. CASE Register(w)
      BY <2>1, <1>b, <1>c DEF Register, SessionOps
    <2>2. CASE SCIMUpdateUser(w)
      BY <2>2, <1>b DEF SCIMUpdateUser, GoesToUpdate, SessionOps
    <2> QED
      BY <1>3, <1>a, <1>d, <1>e, <2>1, <2>2, RedeemedKindType
         DEF ProvisioningStep, CreateOAuthUserFails
  <1>4. ASSUME NEW w \in Workers, Dies(w) PROVE Moved(x)
    BY <1>4, <1>a DEF Dies
  <1>5. ASSUME \/ Logout \/ SCIMCreateUser \/ SCIMDeleteUser \/ OAuthLoginURL \/ Expire
               \/ UNCHANGED vars \/ \E w \in Workers : NoEffect(w)
        PROVE  Moved(x)
    BY <1>5, <1>c DEF Logout, SCIMCreateUser, SCIMDeleteUser, OAuthLoginURL, Expire, vars, NoEffect
  <1> QED  BY <1>1, <1>2, <1>3, <1>4, <1>5 DEF Next

(***************************************************************************)
(* Deactivation                                                            *)
(***************************************************************************)

\* A sign-in that is past its checks holds a copy that says active.
CheckedActive(r) ==
  r.op \in SessionOps /\ r.pc \in {"Revoke", "StoreToken"} => r.row.active

ActiveCopies == \A w \in Workers : CheckedActive(req[w])

LEMMA ActiveCopiesNext == Typed /\ ActiveCopies /\ [Next]_vars => ActiveCopies'
  <1> SUFFICES ASSUME Typed, ActiveCopies, [Next]_vars, NEW x \in Workers
               PROVE  CheckedActive(req'[x])
    BY DEF ActiveCopies, CheckedActive
  <1>0. Moved(x) /\ CheckedActive(req[x]) /\ Typed'
    BY RequestsMove, TypedNext DEF ActiveCopies
  <1>1. CASE \/ req'[x] = req[x] \/ req'[x].pc \in {"idle", "GetByID"}
             \/ req'[x].op = "HandleOAuthCallback" /\ req'[x].pc = "Revoke"
             \/ req'[x].op \notin SessionOps \cup {"HandleOAuthCallback"}
    BY <1>0, <1>1 DEF CheckedActive, SessionOps
  <1>2. CASE Login(x)
    <2>1. PICK u \in Users : /\ users[u].active
                             /\ Becomes(x, Standing("Login", "StoreToken", Nil, u, users[u]))
      BY <1>2 DEF Login, ByEmail
    <2> DEFINE r == Standing("Login", "StoreToken", Nil, u, users[u])
    <2>2. r.row = users[u]
      BY DEF Standing
    <2>3. Becomes(x, r)
      BY <2>1
    <2> HIDE DEF r
    <2>4. req'[x] = r
      BY <2>3, BecomesMoves
    <2> QED  BY <2>1, <2>2, <2>4 DEF CheckedActive
  <1>3. CASE LoadForSession(x)
    <2>1. CASE Returns(x)
      BY <2>1, ReturnsFields DEF CheckedActive
    <2>2. CASE /\ users[req[x].val].active
               /\ GoesOn(x, "Revoke", req[x].val, users[req[x].val])
      BY <2>2, GoesOnFields DEF CheckedActive
    <2> QED  BY <1>3, <2>1, <2>2 DEF LoadForSession
  <1>4. CASE Revoke(x)
    <2>1. /\ req[x].pc = "Revoke"
          /\ GoesOn(x, AfterRevoke[req[x].op], req[x].val, req[x].row)
      BY <1>4 DEF Revoke, At, Advances
    <2> QED  BY <1>0, <2>1, GoesOnFields DEF CheckedActive
  <1>5. CASE LoadByOAuth(x) \/ CreateOAuthUser(x)
    <2>1. req[x].op = "HandleOAuthCallback"
      BY <1>5, RequestFields DEF LoadByOAuth, CreateOAuthUser, At, RequestWellFormed
    <2>2. CASE Returns(x)
      BY <2>2, ReturnsFields DEF CheckedActive
    <2>3. ASSUME NEW pc, NEW val, NEW row, GoesOn(x, pc, val, row)
          PROVE  CheckedActive(req'[x])
      BY <2>1, <2>3, GoesOnFields DEF CheckedActive, SessionOps
    <2> QED  BY <1>5, <2>2, <2>3 DEF LoadByOAuth, CreateOAuthUser
  <1> QED  BY <1>0, <1>1, <1>2, <1>3, <1>4, <1>5 DEF Moved

\* An inactive account that no request holds an active copy of stays inactive,
\* and opens a session by social login only.
THEOREM DeactivationIsFinal == Spec => DeactivationHolds
  <1> DEFINE Holds ==
        \A u \in Users : Deactivated(u) =>
           /\ users'[u] # Nil => ~users'[u].active
           /\ \A from \in Tokens \cup {Nil} : SessionFor(u, from) => OpenedByOAuth(u)
  <1>1. IInv /\ ActiveCopies /\ [Next]_vars => Holds
    <2> SUFFICES ASSUME IInv, ActiveCopies, [Next]_vars, NEW u \in Users, Deactivated(u)
                 PROVE  /\ users'[u] # Nil => ~users'[u].active
                        /\ \A from \in Tokens \cup {Nil} : SessionFor(u, from) => OpenedByOAuth(u)
      OBVIOUS
    <2>0. Typed /\ Held
      BY IInvParts
    <2>1. ASSUME users'[u] # Nil PROVE ~users'[u].active
      <3>1. CASE users'[u] = users[u]
        BY <3>1 DEF Deactivated
      <3>2. ASSUME NEW w \in Workers, HasCopy(w, u), req[w].row \in Row,
                   users'[u] = Written(u, req[w].row)
            PROVE  ~users'[u].active
        BY <3>2 DEF Deactivated, Written, Row
      <3> QED  BY <2>0, <2>1, <3>1, <3>2, RowChange, TableSteps DEF Deactivated
    <2>2. ASSUME NEW from \in Tokens \cup {Nil}, SessionFor(u, from) PROVE OpenedByOAuth(u)
      <3>1. PICK w \in Workers : /\ At(w, "StoreToken") /\ OpensSession(w)
                                 /\ req[w].val = u /\ req[w].key = from
        BY <2>0, <2>2, WhoOpens
      <3>2. HasCopy(w, u)
        BY <2>0, <3>1, Beneficiary, NilIsNoValue DEF At, HasCopy
      <3>3. ~req[w].row.active
        BY <3>2 DEF Deactivated
      <3>4. req[w].op \notin SessionOps
        BY <3>1, <3>3 DEF ActiveCopies, CheckedActive, At
      <3>5. req[w].op = "HandleOAuthCallback"
        BY <3>1, <3>4 DEF OpensSession, SessionOps
      <3>6. from \in Tokens /\ HoldsGrant(req[w])
        BY <2>0, <3>1, <3>5, RequestFields, RedeemedKindType DEF Held, RequestsHoldGrants, RequestWellFormed
      <3>7. issued[from] # Nil /\ issued[from].kind = "oauth_state"
        BY <3>1, <3>5, <3>6, NilIsNoValue DEF HoldsGrant, RedeemedKind
      <3> QED  BY <2>2, <3>6, <3>7 DEF OpenedByOAuth, Granted
    <2> QED  BY <2>1, <2>2
  <1>2. Init => ActiveCopies
    BY DEF Init, ActiveCopies, CheckedActive, IdleRequest
  <1>3. IInv => Typed
    BY IInvParts
  <1>4. IInv /\ ActiveCopies /\ [Next]_vars => ActiveCopies' /\ [Holds]_vars
    BY <1>1, <1>3, ActiveCopiesNext
  <1>5. [][Holds]_vars => DeactivationHolds
    BY DEF DeactivationHolds
  <1> HIDE DEF Holds
  <1> QED  BY <1>2, <1>4, <1>5, InvariantHolds, PTL DEF Spec

(***************************************************************************)
(* Social login                                                            *)
(***************************************************************************)

\* Account u is, or was before it was deleted, one of provider p.
OfProvider(u, p) ==
  /\ u \in Users
  /\ Exists(u) \/ u \in deleted
  /\ Exists(u) => users[u].oauth # Nil /\ users[u].oauth[1] = p

\* A callback creates, or signs in, an account of the provider of its state.
CallbackAgrees(r) ==
  r.op = "HandleOAuthCallback" =>
     /\ r.pc = "Create" => r.row.oauth # Nil /\ r.row.oauth[1] = r.val
     /\ r.pc = "StoreToken" => OfProvider(r.val, issued[r.key].owner)

CallbacksAgree == \A w \in Workers : CallbackAgrees(req[w])

\* So do the sessions that came of it, for as long as the account is there; an
\* id is not given to another account afterwards.
SocialOwners ==
  \A t \in Granted("refresh_token") :
     issued[t].from # Nil /\ issued[issued[t].from].kind = "oauth_state" =>
        OfProvider(issued[t].owner, issued[issued[t].from].owner)

SocialIInv == IInv /\ Gone /\ CallbacksAgree /\ SocialOwners

\* An account stays with its provider.
LEMMA ProviderStays ==
  ASSUME Typed, Gone, TableStep, NEW u \in Users, NEW p, OfProvider(u, p)
  PROVE  OfProvider(u, p)'
  <1>1. CASE ~Exists(u)
    <2>1. u \in deleted
      BY <1>1 DEF OfProvider
    <2>2. users'[u] = Nil
      BY <2>1, GoneNext
    <2>3. u \in deleted'
      BY <2>1 DEF TableStep, InsertStep, UpdateStep, DeleteStep
    <2> QED  BY <2>2, <2>3 DEF OfProvider, Exists
  <1>2. CASE Exists(u) /\ users'[u] = Nil
    <2>1. u \in deleted'
      <3>1. CASE InsertStep
        BY <1>2, <3>1, NilIsNoValue DEF InsertStep, Inserts, Inserted, Exists, Typed, TypeOK
      <3>2. CASE UpdateStep
        <4>1. PICK w \in Workers : /\ req[w].val \in Users /\ req[w].row \in Row
                                   /\ users' = Updated(req[w].val, req[w].row)
          BY <3>2 DEF UpdateStep
        <4>2. CASE req[w].val = u
          <5>1. users'[u] = Written(u, req[w].row) /\ users[u] \in Row
            BY <1>2, <4>1, <4>2 DEF Updated, Exists, Typed, TypeOK
          <5>2. Written(u, req[w].row) \in Row
            BY <4>1, <5>1 DEF Written, Row
          <5> QED  BY <1>2, <5>1, <5>2, NilIsNoValue
        <4>3. CASE req[w].val # u
          BY <1>2, <4>1, <4>3 DEF Updated, Exists, Typed, TypeOK
        <4> QED  BY <4>2, <4>3
      <3>3. CASE DeleteStep
        BY <1>2, <3>3 DEF DeleteStep, Exists, Typed, TypeOK
      <3>4. CASE UNCHANGED <<users, deleted>>
        BY <1>2, <3>4 DEF Exists
      <3> QED  BY <3>1, <3>2, <3>3, <3>4 DEF TableStep
    <2> QED  BY <1>2, <2>1 DEF OfProvider, Exists
  <1>3. CASE Exists(u) /\ users'[u] # Nil
    <2>1. users'[u].oauth = users[u].oauth
      <3>1. ASSUME NEW w \in Workers, req[w].row \in Row, users'[u] = Written(u, req[w].row)
            PROVE  users'[u].oauth = users[u].oauth
        BY <3>1 DEF Written, Row
      <3> QED  BY <1>3, <3>1, RowChange
    <2> QED  BY <1>3, <2>1 DEF OfProvider, Exists
  <1> QED  BY <1>1, <1>2, <1>3

\* Each step keeps callbacks in agreement.
LEMMA CallbacksNext ==
  ASSUME SocialIInv, [Next]_vars
  PROVE  CallbacksAgree'
  <1>0. Typed /\ Held /\ Gone /\ TableStep /\ StoreStep /\ Typed'
    BY IInvParts, TableSteps, StoreSteps, TypedNext DEF SocialIInv, Held
  <1> SUFFICES ASSUME NEW x \in Workers PROVE CallbackAgrees(req[x])'
    BY DEF CallbacksAgree
  <1> DEFINE r == req[x]
  <1>1. CallbackAgrees(r) /\ HoldsGrant(r) /\ Moved(x)
    BY <1>0, RequestsMove DEF SocialIInv, CallbacksAgree, Held, RequestsHoldGrants
  <1>2. ASSUME r.op = "HandleOAuthCallback", r.pc # "idle"
        PROVE  /\ r.key \in Tokens /\ issued[r.key] # Nil /\ issued'[r.key] = issued[r.key]
               /\ r.pc # "StoreToken" => issued[r.key].owner = r.val /\ r.val \in Providers
    <2>1. r.key \in Tokens /\ r.key # Nil
      BY <1>0, <1>2, RequestFields, RedeemedKindType, NilIsNoValue DEF RequestWellFormed
    <2>2. issued[r.key] # Nil /\ (r.pc # "StoreToken" => issued[r.key].owner = r.val)
      BY <1>1, <2>1 DEF HoldsGrant
    <2>3. r.pc # "StoreToken" => r.val \in Providers
      BY <1>0, <1>2, RequestFields DEF RequestWellFormed
    <2> QED  BY <1>0, <2>1, <2>2, <2>3 DEF StoreStep
  <1>3. CASE req'[x] = req[x]
    <2>1. CASE r.op = "HandleOAuthCallback" /\ r.pc = "StoreToken"
      <3>1. r.val \in Users /\ OfProvider(r.val, issued[r.key].owner)
        BY <1>0, <1>1, <2>1, Beneficiary DEF CallbackAgrees
      <3> DEFINE p == issued[r.key].owner
      <3>2. OfProvider(r.val, p)
        BY <3>1
      <3>a. p = issued'[r.key].owner
        BY <1>2, <2>1
      <3> HIDE DEF p
      <3>3. users'[r.val] = Nil => r.val \in deleted'
        BY <1>0, <3>1, <3>2, ProviderStays DEF OfProvider, Exists
      <3>4. users'[r.val] # Nil => users'[r.val].oauth # Nil /\ users'[r.val].oauth[1] = p
        BY <1>0, <3>1, <3>2, ProviderStays DEF OfProvider, Exists
      <3>5. OfProvider(r.val, issued[r.key].owner)'
        BY <1>3, <3>1, <3>a, <3>3, <3>4 DEF OfProvider, Exists
      <3> QED  BY <1>3, <2>1, <3>5 DEF CallbackAgrees
    <2>2. CASE ~(r.op = "HandleOAuthCallback" /\ r.pc = "StoreToken")
      BY <1>1, <1>3, <2>2 DEF CallbackAgrees
    <2> QED  BY <2>1, <2>2
  <1>4. CASE \/ req'[x].pc \in {"idle", "GetByID"}
             \/ req'[x].op = "HandleOAuthCallback" /\ req'[x].pc = "Revoke"
             \/ req'[x].op \notin SessionOps \cup {"HandleOAuthCallback"}
    BY <1>4 DEF CallbackAgrees
  <1>5. CASE Login(x)
    <2>1. PICK u \in Users : Becomes(x, Standing("Login", "StoreToken", Nil, u, users[u]))
      BY <1>5 DEF Login, ByEmail
    <2> DEFINE s == Standing("Login", "StoreToken", Nil, u, users[u])
    <2>2. s.op = "Login"
      BY DEF Standing
    <2>3. Becomes(x, s)
      BY <2>1
    <2> HIDE DEF s
    <2>4. req'[x] = s
      BY <1>0, <2>3, BecomesMoves
    <2> QED  BY <2>2, <2>4 DEF CallbackAgrees
  <1>6. CASE LoadForSession(x)
    <2>1. CASE Returns(x)
      BY <1>0, <2>1, ReturnsFields DEF CallbackAgrees
    <2>2. CASE GoesOn(x, "Revoke", r.val, users[r.val])
      BY <1>0, <2>2, GoesOnFields DEF CallbackAgrees
    <2> QED  BY <1>6, <2>1, <2>2 DEF LoadForSession
  <1>7. CASE Revoke(x)
    <2>1. /\ r.pc = "Revoke" /\ GoesOn(x, AfterRevoke[r.op], r.val, r.row)
          /\ r.op \in DOMAIN RedeemedKind
      BY <1>0, <1>7, Redeemer DEF Revoke, At, Advances
    <2>2. req'[x].op = "HandleOAuthCallback" => req'[x].pc = "GetByOAuth"
      BY <1>0, <2>1, GoesOnFields, AfterRevokeType
    <2> QED  BY <2>2 DEF CallbackAgrees
  <1>8. CASE LoadByOAuth(x)
    <2>0. r.pc = "GetByOAuth" /\ r.op = "HandleOAuthCallback"
      BY <1>0, <1>8, RequestFields DEF LoadByOAuth, At, RequestWellFormed
    <2>1. CASE Returns(x)
      BY <1>0, <2>1, ReturnsFields DEF CallbackAgrees
    <2>2. ASSUME NEW u \in Users, Exists(u), NEW subject \in Subjects,
                 users[u].oauth = <<r.val, subject>>, GoesOn(x, "StoreToken", u, users[u])
          PROVE  CallbackAgrees(req[x])'
      <3>1. <<r.val, subject>> # Nil
        BY <1>2, <2>0, NilIsNoValue
      <3>2. UNCHANGED <<users, deleted, issued>>
        BY <1>8 DEF LoadByOAuth
      <3>3. issued'[r.key].owner = r.val
        BY <1>2, <2>0
      <3>4. req'[x].val = u /\ req'[x].key = r.key /\ req'[x].pc = "StoreToken"
        BY <1>0, <2>2, GoesOnFields
      <3> QED  BY <2>2, <3>1, <3>2, <3>3, <3>4 DEF CallbackAgrees, OfProvider, Exists
    <2>3. ASSUME NEW tenant \in Tenants, NEW info \in ExchangeCode,
                 GoesOn(x, "Create", r.val,
                        NewRow(tenant, info.Email, Nil, TRUE, TRUE, <<r.val, info.Subject>>))
          PROVE  CallbackAgrees(req[x])'
      <3> DEFINE identity == <<r.val, info.Subject>>
                 row == NewRow(tenant, info.Email, Nil, TRUE, TRUE, identity)
      <3>1. identity \in Providers \X Subjects /\ identity[1] = r.val
        BY <1>2, <2>0 DEF ExchangeCode
      <3>2. row.oauth = identity /\ GoesOn(x, "Create", r.val, row)
        BY <2>3 DEF NewRow
      <3> HIDE DEF identity, row
      <3>3. req'[x].val = r.val /\ req'[x].pc = "Create" /\ req'[x].row = row
        BY <1>0, <3>2, GoesOnFields
      <3>4. req'[x].row.oauth # Nil /\ req'[x].row.oauth[1] = req'[x].val
        BY <3>1, <3>2, <3>3, NilIsNoValue
      <3> QED  BY <3>3, <3>4 DEF CallbackAgrees
    <2>4. CASE \E tenant \in Tenants, userInfo \in ExchangeCode :
                  LET identity == <<r.val, userInfo.Subject>>
                      found    == ByOAuth(tenant, identity) IN
                  \/ \E u \in found : GoesOn(x, "StoreToken", u, users[u])
                  \/ /\ found = {}
                     /\ GoesOn(x, "Create", r.val,
                               NewRow(tenant, userInfo.Email, Nil, TRUE, TRUE, identity))
      BY <2>2, <2>3, <2>4 DEF ByOAuth, ExchangeCode
    <2> QED  BY <1>8, <2>1, <2>4 DEF LoadByOAuth
  <1>9. CASE CreateOAuthUser(x)
    <2>0. /\ r.pc = "Create" /\ r.op = "HandleOAuthCallback" /\ r.row \in Row
          /\ r.row.oauth # Nil /\ r.row.oauth[1] = r.val
      BY <1>0, <1>1, <1>9, RequestFields
         DEF CreateOAuthUser, At, RequestWellFormed, CallbackAgrees
    <2>1. PICK u \in FreshIds : /\ Inserts(u, r.row)
                                /\ GoesOn(x, "StoreToken", u, r.row) \/ Returns(x)
      BY <1>9 DEF CreateOAuthUser
    <2>2. CASE Returns(x)
      BY <1>0, <2>2, ReturnsFields DEF CallbackAgrees
    <2>3. CASE GoesOn(x, "StoreToken", u, r.row)
      <3>1. u \in Users /\ users'[u] = r.row /\ r.row # Nil
        BY <1>0, <2>0, <2>1, NilIsNoValue DEF Inserts, Inserted, FreshIds, Typed, TypeOK
      <3>2. issued'[r.key].owner = r.val
        BY <1>2, <2>0
      <3>3. req'[x].val = u /\ req'[x].key = r.key /\ req'[x].pc = "StoreToken"
        BY <1>0, <2>3, GoesOnFields
      <3> QED  BY <2>0, <3>1, <3>2, <3>3 DEF CallbackAgrees, OfProvider, Exists
    <2> QED  BY <2>1, <2>2, <2>3
  <1> QED  BY <1>1, <1>3, <1>4, <1>5, <1>6, <1>7, <1>8, <1>9 DEF Moved

\* Sessions opened by a callback are those of the account it agreed on.
LEMMA OwnersNext ==
  ASSUME SocialIInv, [Next]_vars
  PROVE  SocialOwners'
  <1>0. /\ Typed /\ Held /\ Gone /\ TableStep /\ StoreStep /\ Typed' /\ Lineage
        /\ CallbacksAgree
    BY IInvParts, TableSteps, StoreSteps, TypedNext DEF SocialIInv, Held
  <1> SUFFICES ASSUME NEW t \in Tokens, issued'[t] # Nil, issued'[t].kind = "refresh_token",
                      issued'[t].from # Nil, issued'[issued'[t].from].kind = "oauth_state"
               PROVE  OfProvider(issued[t].owner, issued[issued[t].from].owner)'
    BY DEF SocialOwners, Granted
  <1> DEFINE u == issued'[t].owner
             from == issued'[t].from
             p == issued'[from].owner
  <1>a. from \in Tokens
    BY <1>0 DEF Typed, TypeOK, Grant
  <1>b. u \in Users \cup Providers
    BY <1>0 DEF Typed, TypeOK, Grant
  <1>1. ASSUME u \in Users, OfProvider(u, issued[from].owner), issued'[from] = issued[from]
        PROVE  OfProvider(issued[t].owner, issued[issued[t].from].owner)'
    <2> DEFINE q == issued[from].owner
    <2>1. q = p
      BY <1>1
    <2>2. u \in Users /\ OfProvider(u, q)
      BY <1>1
    <2> HIDE DEF u, q, p
    <2>3. users'[u] = Nil => u \in deleted'
      BY <1>0, <1>1, <2>2, ProviderStays DEF OfProvider, Exists
    <2>4. users'[u] # Nil => users'[u].oauth # Nil /\ users'[u].oauth[1] = q
      BY <1>0, <1>1, <2>2, ProviderStays DEF OfProvider, Exists
    <2>5. u \in Users /\ (users'[u] # Nil \/ u \in deleted')
          /\ (users'[u] # Nil => users'[u].oauth # Nil /\ users'[u].oauth[1] = p)
      BY <2>1, <2>2, <2>3, <2>4
    <2> QED  BY <2>5 DEF OfProvider, Exists, u, p
  <1>2. CASE issued[t] # Nil
    <2>1. issued'[t] = issued[t]
      BY <1>0, <1>2 DEF StoreStep
    <2>2. issued[from] # Nil
      BY <1>0, <1>2, <2>1 DEF Lineage
    <2>3. issued'[from] = issued[from]
      BY <1>0, <1>a, <2>2 DEF StoreStep
    <2>4. OfProvider(issued[t].owner, issued[issued[t].from].owner)
      BY <1>2, <2>1, <2>3 DEF SocialIInv, SocialOwners, Granted
    <2>5. OfProvider(u, issued[from].owner)
      BY <2>1, <2>4
    <2>6. u \in Users
      BY <2>5 DEF OfProvider
    <2> QED  BY <1>1, <2>3, <2>5, <2>6
  <1>3. CASE issued[t] = Nil
    <2>1. SessionFor(u, from)
      BY <1>3 DEF SessionFor
    <2> HIDE DEF u, from
    <2>2. PICK w \in Workers : /\ At(w, "StoreToken") /\ OpensSession(w)
                               /\ req[w].val = u /\ req[w].key = from
      BY <1>0, <1>a, <2>1, WhoOpens
    <2>3. /\ from # Nil /\ HoldsGrant(req[w]) /\ CallbackAgrees(req[w])
          /\ req[w].op \in DOMAIN RedeemedKind
      BY <1>0, <1>a, <2>2, RequestFields, NilIsNoValue
         DEF Held, RequestsHoldGrants, CallbacksAgree, RequestWellFormed
    <2>4. issued[from] # Nil /\ issued[from].kind = RedeemedKind[req[w].op]
      BY <2>2, <2>3 DEF HoldsGrant
    <2>5. issued'[from] = issued[from]
      BY <1>0, <1>a, <2>4 DEF StoreStep
    <2>6. issued'[from].kind = "oauth_state"
      BY DEF from
    <2>7. req[w].op = "HandleOAuthCallback"
      BY <2>3, <2>4, <2>5, <2>6, RedeemedKindType
    <2>8. u \in Users /\ OfProvider(u, issued[from].owner)
      BY <2>2, <2>3, <2>7 DEF CallbackAgrees, At, OfProvider
    <2> QED  BY <1>1, <2>5, <2>8
  <1> QED  BY <1>2, <1>3

\* A session that came of a social callback belongs to an account of the
\* provider the state was issued for: HandleOAuthCallback never signs one in to
\* an account of another provider or to a password account, whatever
\* registrations, deletions and directory calls run beside it.
THEOREM SocialLoginsAgree == Spec => []SocialSessions
  <1>1. Init => IInv /\ Gone /\ CallbacksAgree /\ SocialOwners
    <2>1. Init => IInv
      BY TypedInit, LineageInit, IInvParts
    <2>2. Init => Gone
      BY DEF Init, Gone
    <2>3. Init => CallbacksAgree
      BY DEF Init, CallbacksAgree, CallbackAgrees, IdleRequest
    <2>4. Init => SocialOwners
      BY DEF Init, SocialOwners, Granted
    <2> QED  BY <2>1, <2>2, <2>3, <2>4
  <1>2. SocialIInv /\ [Next]_vars => SocialIInv'
    <2> SUFFICES ASSUME SocialIInv, [Next]_vars PROVE SocialIInv'
      OBVIOUS
    <2>1. IInv /\ Gone /\ Typed /\ Held
      BY IInvParts DEF SocialIInv
    <2>2. Gone'
      BY <2>1, TableSteps, GoneNext
    <2> QED  BY <2>1, <2>2, IInvNext, CallbacksNext, OwnersNext DEF SocialIInv
  <1>3. SocialIInv => SocialSessions
    BY DEF SocialIInv, SocialOwners, SocialSessions, OfProvider
  <1>4. Init => SocialIInv
    BY <1>1 DEF SocialIInv
  <1> QED  BY <1>2, <1>3, <1>4, PTL DEF Spec
================================================================================
