----------------------------- MODULE Lifecycle_proofs -----------------------------
(***************************************************************************)
(* AuthService implements TokenLifecycle: every step of a request is a     *)
(* token told, tokens ended, or nothing a client could see.                *)
(***************************************************************************)
EXTENDS AuthService_proofs

\* The refinement mapping.
Alive == {t \in Tokens : issued[t] # Nil /\ \E k \in Kinds : Live(k, t)}

\* A step that tells a token: a fresh one, stored unless its SET failed.
TellStep ==
  \E t \in Tokens, k \in Kinds, v \in Users \cup Providers, from \in Tokens \cup {Nil} :
     /\ Fresh(t)
     /\ Grants(t, k, v, from)
     /\ \/ redis' = WithKey(k, t, v)
        \/ k \notin {"refresh_token", "oauth_state"} /\ UNCHANGED redis
     /\ from # Nil => \E w \in Workers : At(w, "StoreToken") /\ req[w].key = from

\* Every step tells one token or none.
LEMMA TellSteps == Typed /\ [Next]_vars => TellStep \/ UNCHANGED issued
  <1> SUFFICES ASSUME Typed, [Next]_vars, ~UNCHANGED issued PROVE TellStep
    OBVIOUS
  <1>0. /\ {"refresh_token", "mfa_challenge", "email_verify", "pwd_reset", "oauth_state"} = Kinds
        /\ Nil \in Tokens \cup {Nil}
    BY DEF Kinds
  <1>1. ASSUME NEW w \in Workers, SessionStep(w) PROVE TellStep
    <2>1. CASE IssueChallenge(w)
      <3>1. req[w].val \in Users
        BY <2>1, Beneficiary DEF IssueChallenge, At
      <3>2. PICK t \in Tokens : /\ Fresh(t)
                                /\ StoresBestEffort("mfa_challenge", t, req[w].val)
                                /\ Grants(t, "mfa_challenge", req[w].val, Nil)
        BY <2>1 DEF IssueChallenge
      <3> QED  BY <1>0, <3>1, <3>2 DEF TellStep, StoresBestEffort
    <2>2. CASE GenerateSession(w)
      <3>1. req[w].val \in Users /\ req[w].key \in Tokens \cup {Nil} /\ At(w, "StoreToken")
        BY <2>2, Beneficiary, RequestFields DEF GenerateSession, At
      <3>2. PICK t \in Tokens : /\ Fresh(t)
                                /\ redis' = WithKey("refresh_token", t, req[w].val)
                                /\ Grants(t, "refresh_token", req[w].val, req[w].key)
        BY <2>2 DEF GenerateSession
      <3> QED  BY <1>0, <3>1, <3>2 DEF TellStep
    <2>3. CASE ~IssueChallenge(w) /\ ~GenerateSession(w)
      BY <1>1, <2>3 DEF SessionStep, Redeem, Login, LoadForSession, Revoke,
                        GenerateSessionFails
    <2> QED  BY <2>1, <2>2, <2>3
  <1>2. ASSUME NEW w \in Workers, AccountStep(w) PROVE TellStep
    <2>1. CASE StoreMailedToken(w)
      <3> DEFINE k == MailedKind[req[w].op]
      <3>1. req[w].val \in Users /\ k \in {"pwd_reset", "email_verify"}
        BY <2>1, Beneficiary DEF StoreMailedToken, At, MailedKind
      <3>2. PICK t \in Tokens : /\ Fresh(t)
                                /\ StoresBestEffort(k, t, req[w].val)
                                /\ Grants(t, k, req[w].val, Nil)
        BY <2>1 DEF StoreMailedToken
      <3> HIDE DEF k
      <3> QED  BY <1>0, <3>1, <3>2 DEF TellStep, StoresBestEffort
    <2>2. CASE ~StoreMailedToken(w)
      BY <1>2, <2>2 DEF AccountStep, SetupMFA, ConfirmMFASetup, RequestMail, Redeem,
                        LoadForConfirm, Update, UpdateFails
    <2> QED  BY <2>1, <2>2
  <1>3. CASE OAuthLoginURL
    <2>1. PICK t \in Tokens, p \in Providers :
             Fresh(t) /\ redis' = WithKey("oauth_state", t, p) /\ Grants(t, "oauth_state", p, Nil)
      BY <1>3 DEF OAuthLoginURL
    <2> QED  BY <1>0, <2>1 DEF TellStep
  <1>4. ASSUME \/ \E w \in Workers : ProvisioningStep(w) \/ Dies(w) \/ NoEffect(w)
               \/ Logout \/ SCIMCreateUser \/ SCIMDeleteUser \/ Expire \/ UNCHANGED vars
        PROVE  FALSE
    BY <1>4 DEF ProvisioningStep, Register, SCIMUpdateUser, Redeem, LoadByOAuth,
                CreateOAuthUser, CreateOAuthUserFails, Dies, NoEffect, Logout,
                SCIMCreateUser, SCIMDeleteUser, Expire, vars
  <1> QED  BY <1>1, <1>2, <1>3, <1>4 DEF Next

\* A step that tells no token ends some, or none.
LEMMA QuietIsEnd ==
  ASSUME StoreStep, UNCHANGED issued
  PROVE  Alive' \in SUBSET Alive
  BY DEF StoreStep, Alive, Live

\* A step that tells a token leaves the others as they are.
LEMMA TellIsTell ==
  ASSUME "DEL" \notin MayFail, IInv, [Next]_vars, TellStep
  PROVE  \E t \in Tokens, g \in Grant :
            /\ issued[t] = Nil
            /\ g.from # Nil =>
                  /\ g.kind = "refresh_token" /\ g.from \notin Alive /\ issued[g.from] # Nil
                  /\ \/ issued[g.from].kind = "oauth_state"
                     \/ /\ issued[g.from].kind \in {"refresh_token", "mfa_challenge"}
                        /\ issued[g.from].owner = g.owner
            /\ issued' = [issued EXCEPT ![t] = g]
            /\ \/ Alive' = Alive \cup {t}
               \/ g.kind \notin {"refresh_token", "oauth_state"} /\ Alive' = Alive
  <1>a. Typed /\ Held
    BY IInvParts
  <1>b. ExchangesOK
    BY <1>a, StoreSteps DEF Held
  <1>1. PICK t \in Tokens, k \in Kinds, v \in Users \cup Providers, from \in Tokens \cup {Nil} :
           /\ Fresh(t) /\ Grants(t, k, v, from)
           /\ \/ redis' = WithKey(k, t, v)
              \/ k \notin {"refresh_token", "oauth_state"} /\ UNCHANGED redis
           /\ from # Nil => \E w \in Workers : At(w, "StoreToken") /\ req[w].key = from
    BY DEF TellStep
  <1> DEFINE g == [kind |-> k, owner |-> v, from |-> from]
  <1>2. g \in Grant /\ g.kind = k /\ g.from = from /\ g.owner = v
    BY DEF Grant
  <1>3. issued[t] = Nil /\ issued' = [issued EXCEPT ![t] = g]
    BY <1>1 DEF Fresh, Grants
  <1>4. issued'[t] = g /\ g # Nil /\ \A x \in Tokens \ {t} : issued'[x] = issued[x]
    BY <1>2, <1>3, <1>a, NilIsNoValue DEF Typed, TypeOK
  <1> HIDE DEF g
  <1>5. ASSUME from # Nil
        PROVE  /\ g.kind = "refresh_token" /\ g.from \notin Alive /\ issued[g.from] # Nil
               /\ \/ issued[g.from].kind = "oauth_state"
                  \/ /\ issued[g.from].kind \in {"refresh_token", "mfa_challenge"}
                     /\ issued[g.from].owner = g.owner
    <2>1. Exchange(t)
      BY <1>b, <1>3, <1>4 DEF ExchangesOK
    <2>2. Dead(from)
      <3>1. PICK w \in Workers : At(w, "StoreToken") /\ req[w].key = from
        BY <1>1, <1>5
      <3>2. PastRevoke(req[w])
        BY <1>5, <3>1 DEF PastRevoke, At
      <3> QED  BY <1>a, <3>1, <3>2 DEF Held, RevokedStayDead
    <2> QED  BY <1>2, <1>4, <1>5, <2>1, <2>2 DEF Exchange, Dead, Alive
  <1>6. CASE redis' = WithKey(k, t, v)
    <2>1. v # Nil
      BY NilIsNoValue
    <2>2. \A kk \in Kinds, x \in Tokens :
             redis'[kk][x] = IF kk = k /\ x = t THEN v ELSE redis[kk][x]
      BY <1>6, <1>a DEF WithKey, Typed, TypeOK
    <2>3. Alive' = Alive \cup {t}
      BY <1>4, <2>1, <2>2 DEF Alive, Live
    <2> QED  BY <1>2, <1>3, <1>5, <2>3
  <1>7. CASE k \notin {"refresh_token", "oauth_state"} /\ UNCHANGED redis
    <2>1. t \notin Alive /\ \A kk \in Kinds : redis[kk][t] = Nil
      BY <1>1 DEF Fresh, Alive, Live
    <2>2. Alive' = Alive
      BY <1>4, <1>7, <2>1 DEF Alive, Live
    <2> QED  BY <1>2, <1>3, <1>5, <1>7, <2>2
  <1> QED  BY <1>1, <1>6, <1>7

\* As long as DEL works, the service is an implementation of TokenLifecycle:
\* what its clients see of their tokens, over all requests that race, fail or
\* die, is a behaviour of that small specification.
THEOREM Refinement ==
  ASSUME "DEL" \notin MayFail
  PROVE  Spec => ImplementsLifecycle
  <1>1. Init => Lifecycle!Init
    BY DEF Init, Lifecycle!Init
  <1>2. IInv /\ [Next]_vars => [Lifecycle!Next]_(Lifecycle!lifecycleVars)
    <2> SUFFICES ASSUME IInv, [Next]_vars PROVE Lifecycle!Next
      OBVIOUS
    <2>1. CASE TellStep
      BY <2>1, TellIsTell DEF Lifecycle!Next, Lifecycle!Tell, Lifecycle!Exchangeable, Alive
    <2>2. CASE UNCHANGED issued
      <3>1. StoreStep
        BY StoreSteps, IInvParts DEF Held
      <3> QED  BY <2>2, <3>1, QuietIsEnd DEF Lifecycle!Next, Lifecycle!End, Alive
    <2> QED  BY <2>1, <2>2, TellSteps, IInvParts
  <1> QED
    BY <1>1, <1>2, InvariantHolds, PTL DEF Spec, ImplementsLifecycle, Lifecycle!Spec
================================================================================
