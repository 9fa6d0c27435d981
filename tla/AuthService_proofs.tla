--------------------------- MODULE AuthService_proofs ---------------------------
(***************************************************************************)
(* What AuthService guarantees for every number of requests, accounts and  *)
(* tokens, and whichever store commands fail.                              *)
(***************************************************************************)
EXTENDS AuthService, TLAPS

(***************************************************************************)
(* The two halves of the state a step usually touches.                     *)
(***************************************************************************)
RequestsOK == req \in [Workers -> Request] /\ RequestsWellFormed

RedisOK == redis \in [Kinds -> [Tokens -> Users \cup Providers \cup {Nil}]] /\ KeysWellFormed

Typed == TypeOK /\ KeysWellFormed /\ RequestsWellFormed

\* Each handler redeems one kind of token.
LEMMA RedeemedKindType ==
  /\ DOMAIN RedeemedKind = {"VerifyMFAChallenge", "RefreshToken", "ConfirmEmailVerification",
                            "ConfirmPasswordReset", "HandleOAuthCallback"}
  /\ \A op \in DOMAIN RedeemedKind : RedeemedKind[op] \in Kinds
  /\ \A op \in DOMAIN RedeemedKind :
        RedeemedKind[op] = "oauth_state" <=> op = "HandleOAuthCallback"
  BY DEF RedeemedKind, Kinds

\* Each handler knows the call after its DEL.
LEMMA AfterRevokeType ==
  \A op \in DOMAIN RedeemedKind :
     /\ AfterRevoke[op] \in {"StoreToken", "Update", "GetByOAuth"}
     /\ AfterRevoke[op] = "GetByOAuth" <=> op = "HandleOAuthCallback"
  BY DEF RedeemedKind, AfterRevoke

\* A request at rest is well formed.
LEMMA IdleRequestOK == IdleRequest \in Request /\ RequestWellFormed(IdleRequest)
  BY RedeemedKindType, NilIsNoValue DEF IdleRequest, Request, Calls, RequestWellFormed, AllOps

\* A request is what it was made of.
LEMMA StandingType ==
  ASSUME NEW op \in AllOps, NEW pc \in Calls, NEW key \in Tokens \cup {Nil},
         NEW val \in Users \cup Providers \cup {Nil}, NEW row \in Row \cup {Nil}
  PROVE  /\ Standing(op, pc, key, val, row) \in Request
         /\ Standing(op, pc, key, val, row).op = op
         /\ Standing(op, pc, key, val, row).pc = pc
         /\ Standing(op, pc, key, val, row).key = key
         /\ Standing(op, pc, key, val, row).val = val
         /\ Standing(op, pc, key, val, row).row = row
  BY DEF Standing, Request

\* Moving one request keeps the others as they were.
LEMMA BecomesOK ==
  ASSUME RequestsOK, NEW w \in Workers, NEW r \in Request, RequestWellFormed(r), Becomes(w, r)
  PROVE  RequestsOK'
  BY DEF RequestsOK, RequestsWellFormed, Becomes

\* So does ending one.
LEMMA ReturnsOK ==
  ASSUME RequestsOK, NEW w \in Workers, Returns(w)
  PROVE  RequestsOK'
  BY BecomesOK, IdleRequestOK DEF Returns

\* A SET of a value of the right sort.
LEMMA WithKeyOK ==
  ASSUME RedisOK, NEW k \in Kinds, NEW t \in Tokens,
         NEW v \in IF k = "oauth_state" THEN Providers ELSE Users,
         redis' = WithKey(k, t, v)
  PROVE  RedisOK'
  <1>1. redis' \in [Kinds -> [Tokens -> Users \cup Providers \cup {Nil}]]
    BY DEF RedisOK, WithKey
  <1>2. \A kk \in Kinds, tt \in Tokens :
           redis'[kk][tt] = IF kk = k /\ tt = t THEN v ELSE redis[kk][tt]
    BY DEF RedisOK, WithKey
  <1> QED  BY <1>1, <1>2 DEF RedisOK, KeysWellFormed, Live

\* A DEL, done or failed.
LEMMA DeletesOK ==
  ASSUME RedisOK, NEW k \in Kinds, NEW t \in Tokens, Deletes(k, t)
  PROVE  RedisOK'
  <1>1. CASE redis' = WithoutKey(k, t)
    <2>1. redis' \in [Kinds -> [Tokens -> Users \cup Providers \cup {Nil}]]
      BY <1>1 DEF RedisOK, WithoutKey
    <2>2. \A kk \in Kinds, tt \in Tokens :
             redis'[kk][tt] = IF kk = k /\ tt = t THEN Nil ELSE redis[kk][tt]
      BY <1>1 DEF RedisOK, WithoutKey
    <2> QED  BY <2>1, <2>2 DEF RedisOK, KeysWellFormed, Live
  <1>2. CASE UNCHANGED redis
    BY <1>2 DEF RedisOK, KeysWellFormed, Live
  <1> QED  BY <1>1, <1>2 DEF Deletes

\* A SET whose error the caller drops.
LEMMA StoresBestEffortOK ==
  ASSUME RedisOK, NEW k \in Kinds \ {"oauth_state"}, NEW t \in Tokens, NEW u \in Users,
         StoresBestEffort(k, t, u)
  PROVE  RedisOK'
  <1>1. CASE redis' = WithKey(k, t, u)
    BY <1>1, WithKeyOK
  <1>2. CASE UNCHANGED redis
    BY <1>2 DEF RedisOK, KeysWellFormed, Live
  <1> QED  BY <1>1, <1>2 DEF StoresBestEffort

\* The grants after one more.
LEMMA GrantsType ==
  ASSUME TypeOK, NEW t \in Tokens, NEW k \in Kinds, NEW u \in Users \cup Providers,
         NEW from \in Tokens \cup {Nil}, Grants(t, k, u, from)
  PROVE  issued' \in [Tokens -> Grant \cup {Nil}]
  BY DEF TypeOK, Grants, Grant

\* The table after an UPDATE.
LEMMA UpdatedType ==
  ASSUME TypeOK, NEW u \in Users, NEW r \in Row
  PROVE  Updated(u, r) \in [Users -> Row \cup {Nil}]
  <1>1. CASE Exists(u)
    <2>1. users[u] \in Row
      BY <1>1 DEF Exists, TypeOK
    <2>2. [r EXCEPT !.tenant = users[u].tenant, !.oauth = users[u].oauth] \in Row
      BY <2>1 DEF Row
    <2> QED  BY <1>1, <2>2 DEF Updated, Written, TypeOK
  <1>2. CASE ~Exists(u)
    BY <1>2 DEF Updated, TypeOK
  <1> QED  BY <1>1, <1>2

\* What a request of a typed state is made of.
LEMMA RequestFields ==
  ASSUME Typed, NEW w \in Workers
  PROVE  /\ req[w] \in Request /\ RequestWellFormed(req[w])
         /\ req[w] = [op |-> req[w].op, pc |-> req[w].pc, key |-> req[w].key,
                      val |-> req[w].val, row |-> req[w].row]
         /\ req[w].op \in AllOps \cup {Nil} /\ req[w].pc \in Calls
         /\ req[w].key \in Tokens \cup {Nil} /\ req[w].val \in Users \cup Providers \cup {Nil}
         /\ req[w].row \in Row \cup {Nil}
  BY DEF Typed, TypeOK, RequestsWellFormed, Request

\* A request about to store a token or write a row does it for an account.
LEMMA Beneficiary ==
  ASSUME Typed, NEW w \in Workers, req[w].pc \in {"StoreToken", "Update"}
  PROVE  req[w].val \in Users /\ req[w].row \in Row
  BY RequestFields DEF RequestWellFormed

\* A request with a token to redeem holds one.
LEMMA Redeemer ==
  ASSUME Typed, NEW w \in Workers, req[w].pc \in {"GetByID", "Revoke", "GetByOAuth", "Create"}
  PROVE  req[w].op \in DOMAIN RedeemedKind /\ req[w].key \in Tokens
  BY RequestFields DEF RequestWellFormed

\* A request that starts with the row of an account and no token.
LEMMA ForAccountOK ==
  ASSUME RequestsOK, NEW w \in Workers, NEW op \in AllOps \ DOMAIN RedeemedKind,
         NEW pc \in {"StoreToken", "Update"}, NEW u \in Users, NEW row \in Row,
         Becomes(w, Standing(op, pc, Nil, u, row))
  PROVE  RequestsOK'
  <1> DEFINE r == Standing(op, pc, Nil, u, row)
  <1>1. /\ r \in Request /\ r.op = op /\ r.pc = pc /\ r.key = Nil
        /\ r.val = u /\ r.row = row
    BY StandingType DEF Calls
  <1>2. Becomes(w, r)
    OBVIOUS
  <1> HIDE DEF r
  <1>3. RequestWellFormed(r)
    BY <1>1, RedeemedKindType, NilIsNoValue DEF RequestWellFormed
  <1> QED  BY <1>1, <1>2, <1>3, BecomesOK

\* A request that loaded the account its token stands for.
LEMMA GoesToRevokeOK ==
  ASSUME Typed, NEW w \in Workers, req[w].pc = "GetByID", NEW row \in Row,
         GoesOn(w, "Revoke", req[w].val, row)
  PROVE  RequestsOK'
  <1> DEFINE r == Standing(req[w].op, "Revoke", req[w].key, req[w].val, row)
  <1>1. /\ req[w].op \in DOMAIN RedeemedKind /\ req[w].op # "HandleOAuthCallback"
        /\ req[w].key \in Tokens /\ req[w].val \in Users
    BY RequestFields DEF RequestWellFormed
  <1>2. /\ r \in Request /\ r.op = req[w].op /\ r.pc = "Revoke" /\ r.key = req[w].key
        /\ r.val = req[w].val /\ r.row = row
    BY <1>1, StandingType, RedeemedKindType DEF Calls, AllOps
  <1>3. Becomes(w, r)
    BY DEF GoesOn
  <1> HIDE DEF r
  <1>4. RequestWellFormed(r)
    BY <1>1, <1>2, NilIsNoValue DEF RequestWellFormed
  <1> QED  BY <1>2, <1>3, <1>4, BecomesOK DEF RequestsOK, Typed, TypeOK

\* A social login that goes on to create an account or open a session.
LEMMA CallbackOK ==
  ASSUME Typed, NEW w \in Workers, req[w].pc \in {"GetByOAuth", "Create"},
         NEW pc \in {"Create", "StoreToken"},
         NEW val \in IF pc = "Create" THEN Providers ELSE Users, NEW row \in Row,
         GoesOn(w, pc, val, row)
  PROVE  RequestsOK'
  <1> DEFINE r == Standing(req[w].op, pc, req[w].key, val, row)
  <1>1. /\ req[w].op = "HandleOAuthCallback" /\ req[w].key \in Tokens
        /\ val \in Users \cup Providers \cup {Nil}
    BY RequestFields, Redeemer DEF RequestWellFormed
  <1>2. /\ r \in Request /\ r.op = "HandleOAuthCallback" /\ r.pc = pc /\ r.key = req[w].key
        /\ r.val = val /\ r.row = row
    BY <1>1, StandingType DEF Calls, AllOps
  <1>3. Becomes(w, r)
    BY DEF GoesOn
  <1> HIDE DEF r
  <1>4. RequestWellFormed(r)
    BY <1>1, <1>2, NilIsNoValue, RedeemedKindType DEF RequestWellFormed
  <1> QED  BY <1>2, <1>3, <1>4, BecomesOK DEF RequestsOK, Typed, TypeOK

(***************************************************************************)
(* Type correctness, one lemma per module of actions.                      *)
(***************************************************************************)

\* The initial state is typed.
LEMMA TypedInit == Init => Typed
  <1> SUFFICES ASSUME Init PROVE Typed
    OBVIOUS
  <1>1. TypeOK
    BY IdleRequestOK, InitialUsersAreLegal DEF Init, TypeOK
  <1>2. KeysWellFormed
    BY DEF Init, KeysWellFormed, Live
  <1>3. RequestsWellFormed
    BY IdleRequestOK DEF Init, RequestsWellFormed
  <1> QED  BY <1>1, <1>2, <1>3 DEF Typed

\* Looking a token up leaves a typed state.
LEMMA TypedRedeem ==
  ASSUME Typed, NEW w \in Workers, NEW op \in DOMAIN RedeemedKind, Redeem(w, op)
  PROVE  Typed'
  <1> DEFINE k == RedeemedKind[op]
  <1> USE DEF Typed
  <1> DEFINE pc == IF op = "HandleOAuthCallback" THEN "Revoke" ELSE "GetByID"
  <1>1. PICK t \in Granted(k) : /\ Live(k, t)
                                /\ Becomes(w, Standing(op, pc, t, redis[k][t], Nil))
    BY DEF Redeem
  <1>2. t \in Tokens /\ k \in Kinds /\ op \in AllOps /\ pc \in Calls
    BY RedeemedKindType DEF Granted, AllOps, Calls
  <1>3. redis[k][t] \in IF op = "HandleOAuthCallback" THEN Providers ELSE Users
    BY <1>1, <1>2, RedeemedKindType DEF KeysWellFormed
  <1> DEFINE r == Standing(op, pc, t, redis[k][t], Nil)
  <1>4. /\ r \in Request /\ r.op = op /\ r.pc = pc /\ r.key = t
        /\ r.val = redis[k][t] /\ r.row = Nil
    BY <1>2, <1>3, StandingType
  <1> HIDE DEF r
  <1>5. RequestWellFormed(r)
    BY <1>2, <1>3, <1>4, NilIsNoValue DEF RequestWellFormed
  <1>6. RequestsOK'
    BY <1>1, <1>4, <1>5, BecomesOK DEF RequestsOK, TypeOK, r
  <1> QED  BY <1>6 DEF Redeem, RequestsOK, TypeOK, KeysWellFormed, Live

\* Sign-in, challenge and rotation leave a typed state.
LEMMA TypedSessions ==
  ASSUME Typed, NEW w \in Workers
  PROVE  /\ Login(w) => Typed'
         /\ IssueChallenge(w) => Typed'
         /\ LoadForSession(w) => Typed'
         /\ Revoke(w) => Typed'
         /\ GenerateSession(w) => Typed'
         /\ GenerateSessionFails(w) => Typed'
  <1> USE DEF Typed
  <1>a. RequestsOK /\ RedisOK
    BY DEF RequestsOK, RedisOK, TypeOK
  <1>1. ASSUME Login(w) PROVE Typed'
    <2>1. PICK u \in Users : /\ Exists(u)
                             /\ Becomes(w, Standing("Login", "StoreToken", Nil, u, users[u]))
      BY <1>1 DEF Login, ByEmail
    <2>2. RequestsOK'
      BY <1>a, <2>1, ForAccountOK, RedeemedKindType DEF AllOps, Exists, TypeOK
    <2> QED  BY <1>1, <2>2 DEF Login, RequestsOK, TypeOK, KeysWellFormed, Live
  <1>2. ASSUME IssueChallenge(w) PROVE Typed'
    <2>1. req[w].val \in Users /\ "mfa_challenge" \in Kinds \ {"oauth_state"}
      BY <1>2, Beneficiary DEF IssueChallenge, At, Kinds
    <2>2. PICK t \in Tokens : /\ StoresBestEffort("mfa_challenge", t, req[w].val)
                              /\ Grants(t, "mfa_challenge", req[w].val, Nil)
      BY <1>2 DEF IssueChallenge
    <2>3. RedisOK'
      BY <1>a, <2>1, <2>2, StoresBestEffortOK
    <2>4. RequestsOK'
      BY <1>a, <1>2, ReturnsOK DEF IssueChallenge
    <2>5. issued' \in [Tokens -> Grant \cup {Nil}]
      BY <2>1, <2>2, GrantsType
    <2> QED  BY <1>2, <2>3, <2>4, <2>5 DEF IssueChallenge, RequestsOK, RedisOK, TypeOK
  <1>3. ASSUME LoadForSession(w) PROVE Typed'
    <2>1. req[w].pc = "GetByID"
      BY <1>3 DEF LoadForSession, At
    <2>2. req[w].val \in Users
      BY <2>1, RequestFields DEF RequestWellFormed
    <2>3. ASSUME Exists(req[w].val), GoesOn(w, "Revoke", req[w].val, users[req[w].val])
          PROVE  RequestsOK'
      BY <1>a, <2>1, <2>2, <2>3, GoesToRevokeOK DEF Exists, TypeOK
    <2>4. ASSUME Returns(w) PROVE RequestsOK'
      BY <1>a, <2>4, ReturnsOK
    <2>5. RequestsOK'
      BY <1>3, <2>3, <2>4 DEF LoadForSession
    <2> QED  BY <1>3, <2>5 DEF LoadForSession, RequestsOK, TypeOK, KeysWellFormed, Live
  <1>4. ASSUME Revoke(w) PROVE Typed'
    <2>1. req[w].pc = "Revoke"
      BY <1>4 DEF Revoke, At
    <2>2. req[w].op \in DOMAIN RedeemedKind /\ req[w].key \in Tokens
      BY <2>1, Redeemer
    <2>3. RedisOK'
      BY <1>a, <1>4, <2>2, DeletesOK, RedeemedKindType DEF Revoke
    <2> DEFINE op  == req[w].op
               pc  == AfterRevoke[op]
               key == req[w].key
               val == req[w].val
               row == req[w].row
               r   == Standing(op, pc, key, val, row)
    <2>4. /\ op \in DOMAIN RedeemedKind /\ op \in AllOps
          /\ pc \in Calls /\ pc \in {"StoreToken", "Update", "GetByOAuth"}
          /\ pc = "GetByOAuth" <=> op = "HandleOAuthCallback"
          /\ key \in Tokens /\ val \in Users \cup Providers \cup {Nil}
          /\ row \in Row \cup {Nil}
          /\ val \in IF op = "HandleOAuthCallback" THEN Providers ELSE Users
          /\ op # "HandleOAuthCallback" => row # Nil
      BY <2>1, <2>2, AfterRevokeType, RedeemedKindType, RequestFields
      DEF Calls, AllOps, RequestWellFormed
    <2>5. Becomes(w, r)
      BY <1>4 DEF Revoke, Advances, GoesOn
    <2> HIDE DEF op, pc, key, val, row
    <2>6. /\ r \in Request /\ r.op = op /\ r.pc = pc /\ r.key = key
          /\ r.val = val /\ r.row = row
      BY <2>4, StandingType
    <2> HIDE DEF r
    <2>7. RequestWellFormed(r)
      BY <2>4, <2>6, NilIsNoValue DEF RequestWellFormed
    <2>8. RequestsOK'
      BY <1>a, <2>5, <2>6, <2>7, BecomesOK
    <2> QED  BY <1>4, <2>3, <2>8 DEF Revoke, RequestsOK, RedisOK, TypeOK
  <1>5. ASSUME GenerateSession(w) PROVE Typed'
    <2>1. req[w].val \in Users /\ "refresh_token" \in Kinds /\ req[w].key \in Tokens \cup {Nil}
      BY <1>5, Beneficiary, RequestFields DEF GenerateSession, At, Kinds
    <2>2. PICK t \in Tokens : /\ redis' = WithKey("refresh_token", t, req[w].val)
                              /\ Grants(t, "refresh_token", req[w].val, req[w].key)
                              /\ spent' = spent \cup ({req[w].key} \ {Nil})
      BY <1>5 DEF GenerateSession
    <2>3. RedisOK'
      BY <1>a, <2>1, <2>2, WithKeyOK
    <2>4. RequestsOK'
      BY <1>a, <1>5, ReturnsOK DEF GenerateSession
    <2>5. issued' \in [Tokens -> Grant \cup {Nil}]
      BY <2>1, <2>2, GrantsType
    <2>6. spent' \subseteq Tokens
      BY <2>1, <2>2 DEF TypeOK
    <2> QED  BY <1>5, <2>3, <2>4, <2>5, <2>6 DEF GenerateSession, RequestsOK, RedisOK, TypeOK
  <1>6. ASSUME GenerateSessionFails(w) PROVE Typed'
    <2>1. req[w].val \in Users /\ "refresh_token" \in Kinds
      BY <1>6, Beneficiary DEF GenerateSessionFails, At, Kinds
    <2>2. ASSUME UNCHANGED redis PROVE RedisOK'
      BY <1>a, <2>2 DEF RedisOK, KeysWellFormed, Live
    <2>3. ASSUME NEW t \in Tokens, redis' = WithKey("refresh_token", t, req[w].val)
          PROVE  RedisOK'
      BY <1>a, <2>1, <2>3, WithKeyOK
    <2>4. RedisOK'
      BY <1>6, <2>2, <2>3 DEF GenerateSessionFails
    <2>5. RequestsOK'
      BY <1>a, <1>6, ReturnsOK DEF GenerateSessionFails
    <2> QED  BY <1>6, <2>4, <2>5 DEF GenerateSessionFails, RequestsOK, RedisOK, TypeOK
  <1> QED  BY <1>1, <1>2, <1>3, <1>4, <1>5, <1>6

\* Enrolment, mailed tokens and whole-row updates leave a typed state.
LEMMA TypedAccounts ==
  ASSUME Typed, NEW w \in Workers
  PROVE  /\ SetupMFA(w) => Typed'
         /\ ConfirmMFASetup(w) => Typed'
         /\ \A op \in {"RequestEmailVerification", "RequestPasswordReset"} :
               RequestMail(w, op) => Typed'
         /\ StoreMailedToken(w) => Typed'
         /\ LoadForConfirm(w) => Typed'
         /\ Update(w) => Typed'
         /\ UpdateFails(w) => Typed'
  <1> USE DEF Typed
  <1>a. RequestsOK /\ RedisOK
    BY DEF RequestsOK, RedisOK, TypeOK
  <1>1. ASSUME SetupMFA(w) PROVE Typed'
    <2>1. PICK u \in Users, s \in Secrets :
             Exists(u) /\ GoesToUpdate(w, "SetupMFA", u, [users[u] EXCEPT !.secret = s])
      BY <1>1 DEF SetupMFA
    <2>2. users[u] \in Row
      BY <2>1 DEF Exists, TypeOK
    <2>3. [users[u] EXCEPT !.secret = s] \in Row
      BY <2>2 DEF Row
    <2>4. RequestsOK'
      BY <1>a, <2>1, <2>3, ForAccountOK, RedeemedKindType DEF GoesToUpdate, AllOps
    <2> QED  BY <1>1, <2>4 DEF SetupMFA, RequestsOK, TypeOK, KeysWellFormed, Live
  <1>2. ASSUME ConfirmMFASetup(w) PROVE Typed'
    <2>1. PICK u \in Users :
             Exists(u) /\ GoesToUpdate(w, "ConfirmMFASetup", u, [users[u] EXCEPT !.mfaOn = TRUE])
      BY <1>2 DEF ConfirmMFASetup
    <2>2. users[u] \in Row
      BY <2>1 DEF Exists, TypeOK
    <2>3. [users[u] EXCEPT !.mfaOn = TRUE] \in Row
      BY <2>2 DEF Row
    <2>4. RequestsOK'
      BY <1>a, <2>1, <2>3, ForAccountOK, RedeemedKindType DEF GoesToUpdate, AllOps
    <2> QED  BY <1>2, <2>4 DEF ConfirmMFASetup, RequestsOK, TypeOK, KeysWellFormed, Live
  <1>3. ASSUME NEW op \in {"RequestEmailVerification", "RequestPasswordReset"},
               RequestMail(w, op)
        PROVE  Typed'
    <2>1. PICK u \in Users :
             Exists(u) /\ Becomes(w, Standing(op, "StoreToken", Nil, u, users[u]))
      BY <1>3 DEF RequestMail, ByEmail
    <2>2. users[u] \in Row
      BY <2>1 DEF Exists, TypeOK
    <2>3. op \in AllOps \ DOMAIN RedeemedKind
      BY RedeemedKindType DEF AllOps
    <2>4. RequestsOK'
      BY <1>a, <2>1, <2>2, <2>3, ForAccountOK
    <2> QED  BY <1>3, <2>4 DEF RequestMail, RequestsOK, TypeOK, KeysWellFormed, Live
  <1>4. ASSUME StoreMailedToken(w) PROVE Typed'
    <2> DEFINE k == MailedKind[req[w].op]
    <2>1. req[w].val \in Users
      BY <1>4, Beneficiary DEF StoreMailedToken, At
    <2>2. k \in Kinds \ {"oauth_state"}
      BY <1>4 DEF StoreMailedToken, MailedKind, Kinds
    <2>3. PICK t \in Tokens : StoresBestEffort(k, t, req[w].val) /\ Grants(t, k, req[w].val, Nil)
      BY <1>4 DEF StoreMailedToken
    <2> HIDE DEF k
    <2>4. RedisOK'
      BY <1>a, <2>1, <2>2, <2>3, StoresBestEffortOK
    <2>5. RequestsOK'
      BY <1>a, <1>4, ReturnsOK DEF StoreMailedToken
    <2>6. issued' \in [Tokens -> Grant \cup {Nil}]
      BY <2>1, <2>2, <2>3, GrantsType
    <2> QED  BY <1>4, <2>4, <2>5, <2>6 DEF StoreMailedToken, RequestsOK, RedisOK, TypeOK
  <1>5. ASSUME LoadForConfirm(w) PROVE Typed'
    <2> DEFINE u == req[w].val
    <2>1. req[w].pc = "GetByID" /\ u \in Users
      BY <1>5, RequestFields DEF LoadForConfirm, At, RequestWellFormed
    <2>2. ASSUME Exists(u), GoesOn(w, "Revoke", u, [users[u] EXCEPT !.verified = TRUE])
          PROVE  RequestsOK'
      <3>1. users[u] \in Row
        BY <2>1, <2>2 DEF Exists, TypeOK
      <3>2. [users[u] EXCEPT !.verified = TRUE] \in Row
        BY <3>1 DEF Row
      <3> QED  BY <2>1, <2>2, <3>2, GoesToRevokeOK
    <2>3. ASSUME Exists(u), NEW p \in Passwords,
                 GoesOn(w, "Revoke", u, [users[u] EXCEPT !.password = p])
          PROVE  RequestsOK'
      <3>1. users[u] \in Row
        BY <2>1, <2>3 DEF Exists, TypeOK
      <3>2. [users[u] EXCEPT !.password = p] \in Row
        BY <3>1 DEF Row
      <3> QED  BY <2>1, <2>3, <3>2, GoesToRevokeOK
    <2>4. ASSUME Returns(w) PROVE RequestsOK'
      BY <1>a, <2>4, ReturnsOK
    <2>5. RequestsOK'
      BY <1>5, <2>2, <2>3, <2>4 DEF LoadForConfirm
    <2> QED  BY <1>5, <2>5 DEF LoadForConfirm, RequestsOK, TypeOK, KeysWellFormed, Live
  <1>6. ASSUME Update(w) PROVE Typed'
    <2>1. req[w].val \in Users /\ req[w].row \in Row /\ req[w].key \in Tokens \cup {Nil}
      BY <1>6, Beneficiary, RequestFields DEF Update, At
    <2>2. users' \in [Users -> Row \cup {Nil}]
      BY <1>6, <2>1, UpdatedType DEF Update
    <2>3. RequestsOK'
      BY <1>a, <1>6, ReturnsOK DEF Update
    <2> QED  BY <1>6, <2>1, <2>2, <2>3
             DEF Update, RequestsOK, TypeOK, KeysWellFormed, Live
  <1>7. ASSUME UpdateFails(w) PROVE Typed'
    <2>1. req[w].val \in Users /\ req[w].row \in Row
      BY <1>7, Beneficiary DEF UpdateFails, At
    <2>2. users' \in [Users -> Row \cup {Nil}]
      BY <1>7, <2>1, UpdatedType DEF UpdateFails, TypeOK
    <2>3. RequestsOK'
      BY <1>a, <1>7, ReturnsOK DEF UpdateFails
    <2> QED  BY <1>7, <2>2, <2>3 DEF UpdateFails, RequestsOK, TypeOK, KeysWellFormed, Live
  <1> QED  BY <1>1, <1>2, <1>3, <1>4, <1>5, <1>6, <1>7

\* A new account has every column.
LEMMA NewRowType ==
  ASSUME NEW tenant \in Tenants, NEW email \in Emails, NEW password \in Passwords \cup {Nil},
         NEW active \in BOOLEAN, NEW verified \in BOOLEAN,
         NEW oauth \in (Providers \X Subjects) \cup {Nil}
  PROVE  NewRow(tenant, email, password, active, verified, oauth) \in Row
  BY DEF NewRow, Row

\* Inserting one leaves a table.
LEMMA InsertsType ==
  ASSUME TypeOK, NEW u \in Users, NEW r \in Row, Inserts(u, r)
  PROVE  users' \in [Users -> Row \cup {Nil}]
  BY DEF Inserts, Inserted, TypeOK

\* Registration, directory updates and social login leave a typed state.
LEMMA TypedProvisioning ==
  ASSUME Typed, NEW w \in Workers
  PROVE  /\ Register(w) => Typed'
         /\ SCIMUpdateUser(w) => Typed'
         /\ LoadByOAuth(w) => Typed'
         /\ CreateOAuthUser(w) => Typed'
         /\ CreateOAuthUserFails(w) => Typed'
  <1> USE DEF Typed
  <1>a. RequestsOK /\ RedisOK
    BY DEF RequestsOK, RedisOK, TypeOK
  <1>1. ASSUME Register(w) PROVE Typed'
    <2>1. PICK u \in FreshIds, tenant \in Tenants, email \in Emails, password \in Passwords :
             LET r == NewRow(tenant, Clean[email], password, TRUE, FALSE, Nil) IN
                /\ Inserts(u, r)
                /\ \/ Becomes(w, Standing("Register", "StoreToken", Nil, u, r))
                   \/ UNCHANGED req
      BY <1>1 DEF Register
    <2> DEFINE r == NewRow(tenant, Clean[email], password, TRUE, FALSE, Nil)
    <2>2. u \in Users /\ r \in Row
      BY NewRowType, InstanceIsLegal DEF FreshIds
    <2> HIDE DEF r
    <2>3. Inserts(u, r)
      BY <2>1 DEF r
    <2>4. users' \in [Users -> Row \cup {Nil}]
      BY <2>2, <2>3, InsertsType
    <2>5. ASSUME Becomes(w, Standing("Register", "StoreToken", Nil, u, r)) PROVE RequestsOK'
      BY <1>a, <2>2, <2>5, ForAccountOK, RedeemedKindType DEF AllOps
    <2>6. ASSUME UNCHANGED req PROVE RequestsOK'
      BY <1>a, <2>6 DEF RequestsOK, RequestsWellFormed
    <2>7. RequestsOK'
      BY <2>1, <2>5, <2>6 DEF r
    <2> QED  BY <1>1, <2>4, <2>7 DEF Register, RequestsOK, TypeOK, KeysWellFormed, Live
  <1>2. ASSUME SCIMUpdateUser(w) PROVE Typed'
    <2>1. PICK u \in Users, active \in BOOLEAN :
             /\ Exists(u)
             /\ \E email \in Emails \cup {users[u].email} :
                   GoesToUpdate(w, "SCIMUpdateUser", u,
                                [users[u] EXCEPT !.email = email, !.active = active])
      BY <1>2 DEF SCIMUpdateUser
    <2>2. users[u] \in Row
      BY <2>1 DEF Exists, TypeOK
    <2>3. PICK email \in Emails :
             GoesToUpdate(w, "SCIMUpdateUser", u,
                          [users[u] EXCEPT !.email = email, !.active = active])
      BY <2>1, <2>2 DEF Row
    <2>4. [users[u] EXCEPT !.email = email, !.active = active] \in Row
      BY <2>2 DEF Row
    <2>5. RequestsOK'
      BY <1>a, <2>3, <2>4, ForAccountOK, RedeemedKindType DEF GoesToUpdate, AllOps
    <2> QED  BY <1>2, <2>5 DEF SCIMUpdateUser, RequestsOK, TypeOK, KeysWellFormed, Live
  <1>3. ASSUME LoadByOAuth(w) PROVE Typed'
    <2>1. req[w].pc = "GetByOAuth" /\ req[w].op = "HandleOAuthCallback"
      BY <1>3, RequestFields DEF LoadByOAuth, At, RequestWellFormed
    <2>2. req[w].val \in Providers /\ req[w].key \in Tokens
      BY <2>1, RequestFields, Redeemer DEF RequestWellFormed
    <2>3. ASSUME NEW u \in Users, Exists(u), GoesOn(w, "StoreToken", u, users[u])
          PROVE  RequestsOK'
      BY <2>1, <2>2, <2>3, CallbackOK DEF Exists, TypeOK
    <2>4. ASSUME NEW tenant \in Tenants, NEW info \in ExchangeCode,
                 GoesOn(w, "Create", req[w].val,
                        NewRow(tenant, info.Email, Nil, TRUE, TRUE, <<req[w].val, info.Subject>>))
          PROVE  RequestsOK'
      <3>1. info.Email \in Emails /\ <<req[w].val, info.Subject>> \in Providers \X Subjects
        BY <2>2 DEF ExchangeCode
      <3>2. NewRow(tenant, info.Email, Nil, TRUE, TRUE, <<req[w].val, info.Subject>>) \in Row
        BY <3>1, NewRowType
      <3> QED  BY <2>1, <2>2, <2>4, <3>2, CallbackOK
    <2>5. ASSUME Returns(w) PROVE RequestsOK'
      BY <1>a, <2>5, ReturnsOK
    <2>6. RequestsOK'
      BY <1>3, <2>3, <2>4, <2>5 DEF LoadByOAuth, ByOAuth
    <2> QED  BY <1>3, <2>6 DEF LoadByOAuth, RequestsOK, TypeOK, KeysWellFormed, Live
  <1>4. ASSUME CreateOAuthUser(w) PROVE Typed'
    <2>1. req[w].pc = "Create" /\ req[w].op = "HandleOAuthCallback" /\ req[w].row \in Row
      BY <1>4, RequestFields DEF CreateOAuthUser, At, RequestWellFormed
    <2>2. PICK u \in FreshIds : /\ Inserts(u, req[w].row)
                                /\ GoesOn(w, "StoreToken", u, req[w].row) \/ Returns(w)
      BY <1>4 DEF CreateOAuthUser
    <2>3. u \in Users
      BY DEF FreshIds
    <2>4. users' \in [Users -> Row \cup {Nil}]
      BY <2>1, <2>2, <2>3, InsertsType
    <2>5. RequestsOK'
      BY <1>a, <2>1, <2>2, <2>3, CallbackOK, ReturnsOK
    <2> QED  BY <1>4, <2>4, <2>5 DEF CreateOAuthUser, RequestsOK, TypeOK, KeysWellFormed, Live
  <1>5. ASSUME CreateOAuthUserFails(w) PROVE Typed'
    <2>1. RequestsOK'
      BY <1>a, <1>5, ReturnsOK DEF CreateOAuthUserFails
    <2> QED  BY <1>5, <2>1 DEF CreateOAuthUserFails, RequestsOK, TypeOK, KeysWellFormed, Live
  <1> QED  BY <1>1, <1>2, <1>3, <1>4, <1>5

\* The handlers of one store call leave a typed state.
LEMMA TypedOneCall ==
  ASSUME Typed
  PROVE  /\ Logout => Typed'
         /\ SCIMCreateUser => Typed'
         /\ SCIMDeleteUser => Typed'
         /\ OAuthLoginURL => Typed'
  <1> USE DEF Typed
  <1>a. RequestsOK /\ RedisOK
    BY DEF RequestsOK, RedisOK, TypeOK
  <1>1. ASSUME Logout PROVE Typed'
    <2>1. PICK t \in Granted("refresh_token") : /\ Deletes("refresh_token", t)
                                                /\ spent' = spent \cup {t}
      BY <1>1 DEF Logout
    <2>2. t \in Tokens /\ "refresh_token" \in Kinds
      BY DEF Granted, Kinds
    <2>3. RedisOK'
      BY <1>a, <2>1, <2>2, DeletesOK
    <2> QED  BY <1>1, <2>1, <2>2, <2>3
             DEF Logout, RedisOK, TypeOK, RequestsWellFormed
  <1>2. ASSUME SCIMCreateUser PROVE Typed'
    <2>1. PICK u \in FreshIds, tenant \in Tenants, email \in Emails, active \in BOOLEAN :
             Inserts(u, NewRow(tenant, email, Nil, active, TRUE, Nil))
      BY <1>2 DEF SCIMCreateUser
    <2>2. u \in Users /\ NewRow(tenant, email, Nil, active, TRUE, Nil) \in Row
      BY NewRowType DEF FreshIds
    <2>3. users' \in [Users -> Row \cup {Nil}]
      BY <2>1, <2>2, InsertsType
    <2> QED  BY <1>2, <2>3
             DEF SCIMCreateUser, TypeOK, KeysWellFormed, Live, RequestsWellFormed
  <1>3. ASSUME SCIMDeleteUser PROVE Typed'
    BY <1>3 DEF SCIMDeleteUser, TypeOK, KeysWellFormed, Live, RequestsWellFormed
  <1>4. ASSUME OAuthLoginURL PROVE Typed'
    <2>1. PICK t \in Tokens, provider \in Providers :
             /\ redis' = WithKey("oauth_state", t, provider)
             /\ Grants(t, "oauth_state", provider, Nil) \/ UNCHANGED issued
      BY <1>4 DEF OAuthLoginURL
    <2>2. "oauth_state" \in Kinds
      BY DEF Kinds
    <2>3. RedisOK'
      BY <1>a, <2>1, <2>2, WithKeyOK
    <2>4. issued' \in [Tokens -> Grant \cup {Nil}]
      BY <2>1, <2>2, GrantsType DEF TypeOK
    <2> QED  BY <1>4, <2>3, <2>4
             DEF OAuthLoginURL, RedisOK, TypeOK, RequestsWellFormed
  <1> QED  BY <1>1, <1>2, <1>3, <1>4

\* Every step leaves a typed state.
LEMMA TypedNext == Typed /\ [Next]_vars => Typed'
  <1> SUFFICES ASSUME Typed, [Next]_vars PROVE Typed'
    OBVIOUS
  <1>1. ASSUME NEW w \in Workers, SessionStep(w) PROVE Typed'
    <2>1. ASSUME NEW op \in {"RefreshToken", "VerifyMFAChallenge"}, Redeem(w, op) PROVE Typed'
      BY <2>1, TypedRedeem, RedeemedKindType
    <2> QED  BY <1>1, <2>1, TypedSessions DEF SessionStep
  <1>2. ASSUME NEW w \in Workers, AccountStep(w) PROVE Typed'
    <2>1. ASSUME NEW op \in {"ConfirmEmailVerification", "ConfirmPasswordReset"}, Redeem(w, op)
          PROVE  Typed'
      BY <2>1, TypedRedeem, RedeemedKindType
    <2> QED  BY <1>2, <2>1, TypedAccounts DEF AccountStep
  <1>3. ASSUME NEW w \in Workers, ProvisioningStep(w) PROVE Typed'
    <2>1. Redeem(w, "HandleOAuthCallback") => Typed'
      BY TypedRedeem, RedeemedKindType
    <2> QED  BY <1>3, <2>1, TypedProvisioning DEF ProvisioningStep
  <1>4. ASSUME NEW w \in Workers, Dies(w) PROVE Typed'
    <2>1. RequestsOK'
      BY <1>4, ReturnsOK DEF Dies, RequestsOK, Typed, TypeOK
    <2> QED  BY <1>4, <2>1 DEF Dies, Typed, RequestsOK, TypeOK, KeysWellFormed, Live
  <1>5. ASSUME Expire PROVE Typed'
    <2>1. PICK k \in Kinds, t \in Tokens : redis' = WithoutKey(k, t)
      BY <1>5 DEF Expire
    <2>2. RedisOK'
      BY <2>1, DeletesOK DEF Deletes, RedisOK, Typed, TypeOK
    <2> QED  BY <1>5, <2>2 DEF Expire, Typed, RedisOK, TypeOK, RequestsWellFormed
  <1>6. ASSUME UNCHANGED vars PROVE Typed'
    BY <1>6 DEF vars, Typed, TypeOK, KeysWellFormed, Live, RequestsWellFormed
  <1>7. ASSUME Logout \/ SCIMCreateUser \/ SCIMDeleteUser \/ OAuthLoginURL PROVE Typed'
    BY <1>7, TypedOneCall
  <1> QED  BY <1>1, <1>2, <1>3, <1>4, <1>5, <1>6, <1>7 DEF Next, NoEffect

\* The users table, Redis and the requests in flight always hold what their
\* readers expect: rows with every column, ids under the account prefixes and
\* providers under the state prefix, a request with what its next call needs.
THEOREM TypeCorrect == Spec => [](TypeOK /\ KeysWellFormed /\ RequestsWellFormed)
  <1>1. Typed => TypeOK /\ KeysWellFormed /\ RequestsWellFormed
    BY DEF Typed
  <1> QED  BY TypedInit, TypedNext, <1>1, PTL DEF Spec

(***************************************************************************)
(* What a step may do to the keys and to what clients know of them.        *)
(***************************************************************************)

\* What a client was told stays; a key it was told about stays as it is or
\* dies; a token told for the first time is a fresh one, stored as told.
StoreStep ==
  /\ \A t \in Tokens : issued[t] # Nil => issued'[t] = issued[t]
  /\ \A t \in Tokens, k \in Kinds :
        issued[t] # Nil /\ redis'[k][t] # Nil => redis'[k][t] = redis[k][t]
  /\ \A t \in Tokens, k \in Kinds :
        issued[t] = Nil /\ issued'[t] # Nil /\ redis'[k][t] # Nil =>
           issued'[t].kind = k /\ issued'[t].owner = redis'[k][t]

\* A session told for the first time is exchanged for a token that allows it.
Exchange(t) ==
  LET from == issued'[t].from IN
     from # Nil => /\ issued'[t].kind = "refresh_token"
                   /\ issued[from] # Nil
                   /\ \/ issued[from].kind = "oauth_state"
                      \/ /\ issued[from].kind \in {"refresh_token", "mfa_challenge"}
                         /\ issued[from].owner = issued'[t].owner

ExchangesOK == \A t \in Tokens : issued[t] = Nil /\ issued'[t] # Nil => Exchange(t)

\* A step that sends no command to Redis.
LEMMA QuietStep == UNCHANGED <<redis, issued>> => StoreStep /\ ExchangesOK
  BY DEF StoreStep, ExchangesOK

\* A step that only removes a key.
LEMMA DelStep ==
  ASSUME Typed, NEW k \in Kinds, NEW t \in Tokens, Deletes(k, t), UNCHANGED issued
  PROVE  StoreStep /\ ExchangesOK
  <1>1. \A kk \in Kinds, tt \in Tokens : redis'[kk][tt] # Nil => redis'[kk][tt] = redis[kk][tt]
    BY DEF Deletes, WithoutKey, Typed, TypeOK
  <1> QED  BY <1>1 DEF StoreStep, ExchangesOK

\* A step that sets a fresh token, or fails to, and tells a client, or does not.
LEMMA SetStep ==
  ASSUME Typed, NEW k \in Kinds, NEW t \in Tokens, NEW v \in Users \cup Providers,
         NEW from \in Tokens \cup {Nil}, Fresh(t),
         redis' = WithKey(k, t, v) \/ UNCHANGED redis,
         Grants(t, k, v, from) \/ UNCHANGED issued
  PROVE  /\ StoreStep
         /\ \A x \in Tokens : issued[x] = Nil /\ issued'[x] # Nil =>
               issued'[x] = [kind |-> k, owner |-> v, from |-> from]
  <1>1. \A kk \in Kinds, tt \in Tokens :
           redis'[kk][tt] = redis[kk][tt] \/ (kk = k /\ tt = t /\ redis'[kk][tt] = v)
    BY DEF WithKey, Typed, TypeOK
  <1>2. \A x \in Tokens :
           \/ issued'[x] = issued[x]
           \/ x = t /\ issued'[x] = [kind |-> k, owner |-> v, from |-> from]
    BY DEF Grants, Typed, TypeOK
  <1>3. issued[t] = Nil /\ \A kk \in Kinds : redis[kk][t] = Nil
    BY DEF Fresh, Live
  <1> QED  BY <1>1, <1>2, <1>3 DEF StoreStep

\* Every step keeps to that.
LEMMA StoreSteps == Typed /\ RequestsHoldGrants /\ [Next]_vars => StoreStep /\ ExchangesOK
  <1> SUFFICES ASSUME Typed, RequestsHoldGrants, [Next]_vars PROVE StoreStep /\ ExchangesOK
    OBVIOUS
  <1>1. ASSUME NEW w \in Workers, SessionStep(w) PROVE StoreStep /\ ExchangesOK
    <2>1. CASE \/ \E op \in {"RefreshToken", "VerifyMFAChallenge"} : Redeem(w, op)
               \/ Login(w) \/ LoadForSession(w)
      BY <2>1, QuietStep DEF Redeem, Login, LoadForSession
    <2>2. CASE IssueChallenge(w)
      <3>1. req[w].val \in Users /\ "mfa_challenge" \in Kinds
        BY <2>2, Beneficiary DEF IssueChallenge, At, Kinds
      <3>2. PICK t \in Tokens : /\ Fresh(t)
                                /\ StoresBestEffort("mfa_challenge", t, req[w].val)
                                /\ Grants(t, "mfa_challenge", req[w].val, Nil)
        BY <2>2 DEF IssueChallenge
      <3>3. /\ StoreStep
            /\ \A x \in Tokens : issued[x] = Nil /\ issued'[x] # Nil =>
                  issued'[x] = [kind |-> "mfa_challenge", owner |-> req[w].val, from |-> Nil]
        BY <3>1, <3>2, SetStep DEF StoresBestEffort
      <3> QED  BY <3>3 DEF ExchangesOK, Exchange
    <2>3. CASE Revoke(w)
      <3>1. req[w].op \in DOMAIN RedeemedKind /\ req[w].key \in Tokens
        BY <2>3, Redeemer DEF Revoke, At
      <3> QED  BY <2>3, <3>1, DelStep, RedeemedKindType DEF Revoke
    <2>4. CASE GenerateSession(w)
      <3>1. /\ req[w].val \in Users /\ "refresh_token" \in Kinds
            /\ req[w].key \in Tokens \cup {Nil}
        BY <2>4, Beneficiary, RequestFields DEF GenerateSession, At, Kinds
      <3>2. PICK t \in Tokens : /\ Fresh(t)
                                /\ redis' = WithKey("refresh_token", t, req[w].val)
                                /\ Grants(t, "refresh_token", req[w].val, req[w].key)
        BY <2>4 DEF GenerateSession
      <3>3. /\ StoreStep
            /\ \A x \in Tokens : issued[x] = Nil /\ issued'[x] # Nil =>
                  issued'[x] = [kind |-> "refresh_token", owner |-> req[w].val,
                                from |-> req[w].key]
        BY <3>1, <3>2, SetStep
      <3>4. req[w].key # Nil =>
               /\ issued[req[w].key] # Nil
               /\ \/ issued[req[w].key].kind = "oauth_state"
                  \/ /\ issued[req[w].key].kind \in {"refresh_token", "mfa_challenge"}
                     /\ issued[req[w].key].owner = req[w].val
        <4> SUFFICES ASSUME req[w].key # Nil
                     PROVE  /\ issued[req[w].key] # Nil
                            /\ \/ issued[req[w].key].kind = "oauth_state"
                               \/ /\ issued[req[w].key].kind \in {"refresh_token", "mfa_challenge"}
                                  /\ issued[req[w].key].owner = req[w].val
          OBVIOUS
        <4>1. HoldsGrant(req[w])
          BY DEF RequestsHoldGrants
        <4>2. req[w].op \in {"RefreshToken", "VerifyMFAChallenge", "HandleOAuthCallback"}
          BY <2>4, RequestFields, RedeemedKindType DEF GenerateSession, OpensSession, RequestWellFormed
        <4> QED  BY <4>1, <4>2 DEF HoldsGrant, RedeemedKind
      <3> QED  BY <3>3, <3>4 DEF ExchangesOK, Exchange
    <2>5. CASE GenerateSessionFails(w)
      <3>1. req[w].val \in Users /\ "refresh_token" \in Kinds
        BY <2>5, Beneficiary DEF GenerateSessionFails, At, Kinds
      <3>2. CASE UNCHANGED redis
        BY <2>5, <3>2, QuietStep DEF GenerateSessionFails
      <3>3. ASSUME NEW t \in Tokens, Fresh(t), redis' = WithKey("refresh_token", t, req[w].val)
            PROVE  StoreStep /\ ExchangesOK
        <4>1. UNCHANGED issued
          BY <2>5 DEF GenerateSessionFails
        <4> QED  BY <3>1, <3>3, <4>1, SetStep DEF ExchangesOK
      <3> QED  BY <2>5, <3>2, <3>3 DEF GenerateSessionFails
    <2> QED  BY <1>1, <2>1, <2>2, <2>3, <2>4, <2>5 DEF SessionStep
  <1>2. ASSUME NEW w \in Workers, AccountStep(w) PROVE StoreStep /\ ExchangesOK
    <2>1. ASSUME ~StoreMailedToken(w) PROVE UNCHANGED <<redis, issued>>
      BY <1>2, <2>1 DEF AccountStep, SetupMFA, ConfirmMFASetup, RequestMail, Redeem,
                        LoadForConfirm, Update, UpdateFails
    <2>2. CASE StoreMailedToken(w)
      <3> DEFINE k == MailedKind[req[w].op]
      <3>1. req[w].val \in Users /\ k \in Kinds
        BY <2>2, Beneficiary DEF StoreMailedToken, At, Kinds, MailedKind
      <3>2. PICK t \in Tokens : /\ Fresh(t) /\ StoresBestEffort(k, t, req[w].val)
                                /\ Grants(t, k, req[w].val, Nil)
        BY <2>2 DEF StoreMailedToken
      <3> HIDE DEF k
      <3>3. /\ StoreStep
            /\ \A x \in Tokens : issued[x] = Nil /\ issued'[x] # Nil =>
                  issued'[x] = [kind |-> k, owner |-> req[w].val, from |-> Nil]
        BY <3>1, <3>2, SetStep DEF StoresBestEffort
      <3> QED  BY <3>3 DEF ExchangesOK, Exchange
    <2> QED  BY <2>1, <2>2, QuietStep
  <1>3. ASSUME NEW w \in Workers, ProvisioningStep(w) PROVE StoreStep /\ ExchangesOK
    BY <1>3, QuietStep DEF ProvisioningStep, Register, SCIMUpdateUser, Redeem, LoadByOAuth,
                           CreateOAuthUser, CreateOAuthUserFails
  <1>4. ASSUME OAuthLoginURL PROVE StoreStep /\ ExchangesOK
    <2>1. PICK t \in Tokens, p \in Providers :
             /\ Fresh(t) /\ redis' = WithKey("oauth_state", t, p)
             /\ Grants(t, "oauth_state", p, Nil) \/ UNCHANGED issued
      BY <1>4 DEF OAuthLoginURL
    <2>2. /\ StoreStep
          /\ \A x \in Tokens : issued[x] = Nil /\ issued'[x] # Nil =>
                issued'[x] = [kind |-> "oauth_state", owner |-> p, from |-> Nil]
      BY <2>1, SetStep DEF Kinds
    <2> QED  BY <2>2 DEF ExchangesOK, Exchange
  <1>5. ASSUME Logout PROVE StoreStep /\ ExchangesOK
    BY <1>5, DelStep DEF Logout, Granted, Kinds
  <1>6. ASSUME Expire PROVE StoreStep /\ ExchangesOK
    BY <1>6, DelStep DEF Expire, Deletes
  <1>7. ASSUME \/ SCIMCreateUser \/ SCIMDeleteUser \/ UNCHANGED vars
               \/ \E w \in Workers : Dies(w) \/ NoEffect(w)
        PROVE  StoreStep /\ ExchangesOK
    BY <1>7, QuietStep DEF SCIMCreateUser, SCIMDeleteUser, vars, Dies, NoEffect
  <1> QED  BY <1>1, <1>2, <1>3, <1>4, <1>5, <1>6, <1>7 DEF Next

\* A dead token stays dead over such a step.
LEMMA DeadStays ==
  ASSUME StoreStep, NEW t \in Tokens, Dead(t)
  PROVE  Dead(t)'
  BY DEF StoreStep, Dead, Live

\* Lineage survives such a step.
LEMMA LineageStep ==
  ASSUME Typed, Typed', Lineage, StoreStep, ExchangesOK
  PROVE  Lineage'
  <1> SUFFICES ASSUME NEW t \in Tokens, issued'[t] # Nil
               PROVE  /\ \A k \in Kinds : redis'[k][t] # Nil =>
                            issued'[t].kind = k /\ issued'[t].owner = redis'[k][t]
                      /\ LET from == issued'[t].from IN
                            from # Nil =>
                               /\ issued'[t].kind = "refresh_token"
                               /\ issued'[from] # Nil
                               /\ \/ issued'[from].kind = "oauth_state"
                                  \/ /\ issued'[from].kind \in {"refresh_token", "mfa_challenge"}
                                     /\ issued'[from].owner = issued'[t].owner
    BY DEF Lineage, Live
  <1>1. issued'[t].from \in Tokens \cup {Nil}
    BY DEF Typed, TypeOK, Grant
  <1>2. CASE issued[t] # Nil
    BY <1>1, <1>2 DEF Lineage, Live, StoreStep
  <1>3. CASE issued[t] = Nil
    BY <1>1, <1>3 DEF StoreStep, ExchangesOK, Exchange
  <1> QED  BY <1>2, <1>3

(***************************************************************************)
(* What a step may do to a request's hold on its token.                    *)
(***************************************************************************)

\* The request holds the token it held, further along or not, or none.
Continues(r, s) ==
  \/ s = r \/ s.key = Nil
  \/ /\ s.key = r.key /\ s.op = r.op /\ r.pc # "StoreToken"
     /\ s.val = r.val \/ (s.pc = "StoreToken" /\ s.op = "HandleOAuthCallback")

\* Only request w moves, and it continues.
Moves(w) == /\ \A x \in Workers \ {w} : req'[x] = req[x]
            /\ Continues(req[w], req'[w])

\* The hold of a request that continues.
LEMMA HoldContinues ==
  ASSUME Typed, RequestsHoldGrants, StoreStep, NEW w \in Workers, Continues(req[w], req'[w])
  PROVE  HoldsGrant(req[w])'
  <1>1. HoldsGrant(req[w]) /\ req[w].key \in Tokens \cup {Nil}
    BY RequestFields DEF RequestsHoldGrants
  <1> QED  BY <1>1 DEF Continues, HoldsGrant, StoreStep

\* The holds of all, when one continues and the others rest.
LEMMA HoldsContinue ==
  ASSUME Typed, RequestsHoldGrants, StoreStep, NEW w \in Workers, Moves(w)
  PROVE  RequestsHoldGrants'
  <1> SUFFICES ASSUME NEW x \in Workers PROVE HoldsGrant(req[x])'
    BY DEF RequestsHoldGrants
  <1>1. Continues(req[x], req'[x])
    BY DEF Moves, Continues
  <1> QED  BY <1>1, HoldContinues

\* A dead token past its DEL stays dead, too.
LEMMA RevokedContinues ==
  ASSUME Typed, RevokedStayDead, StoreStep, NEW w \in Workers, Moves(w),
         PastRevoke(req[w])' => PastRevoke(req[w]),
         spent' \subseteq spent \cup {t \in Tokens : \E x \in Workers :
                                         req[x].key = t /\ PastRevoke(req[x])}
  PROVE  RevokedStayDead'
  <1> SUFFICES ASSUME "DEL" \notin MayFail
               PROVE  /\ \A x \in Workers : PastRevoke(req[x])' => Dead(req[x].key)'
                      /\ \A t \in spent' : Dead(t)'
    BY DEF RevokedStayDead
  <1>1. ASSUME NEW x \in Workers, PastRevoke(req[x])' PROVE Dead(req[x].key)'
    <2>a. Continues(req[x], req'[x])
      BY DEF Moves, Continues
    <2>b. req'[x].key = req[x].key /\ PastRevoke(req[x])
      BY <1>1, <2>a DEF Continues, PastRevoke, Moves
    <2>1. req'[x].key = req[x].key /\ PastRevoke(req[x]) /\ req[x].key \in Tokens
      BY <2>b, RequestFields DEF PastRevoke
    <2>2. Dead(req[x].key)
      BY <2>1 DEF RevokedStayDead
    <2>3. Dead(req[x].key)' <=> issued'[req[x].key] # Nil
                                /\ \A k \in Kinds : redis'[k][req[x].key] = Nil
      BY <2>1 DEF Dead, Live
    <2> QED  BY <2>1, <2>2, <2>3 DEF StoreStep, Dead, Live
  <1>2. ASSUME NEW t \in spent' PROVE Dead(t)'
    <2>1. t \in Tokens /\ Dead(t)
      BY DEF RevokedStayDead, Typed, TypeOK
    <2> QED  BY <2>1, DeadStays
  <1> QED  BY <1>1, <1>2

\* What moving one request does to the table.
LEMMA BecomesMoves ==
  ASSUME Typed, NEW w \in Workers, NEW r, Becomes(w, r)
  PROVE  req'[w] = r /\ \A x \in Workers \ {w} : req'[x] = req[x]
  BY DEF Becomes, Typed, TypeOK

\* Returning is one way to continue.
LEMMA ReturnsMoves ==
  ASSUME Typed, NEW w \in Workers, Returns(w)
  PROVE  Moves(w) /\ ~PastRevoke(req[w])'
  <1>1. IdleRequest.key = Nil
    BY DEF IdleRequest
  <1> QED  BY <1>1, BecomesMoves DEF Returns, Moves, Continues, PastRevoke

\* So is starting without a token.
LEMMA StartsMoves ==
  ASSUME Typed, NEW w \in Workers, NEW op, NEW pc, NEW val, NEW row,
         Becomes(w, Standing(op, pc, Nil, val, row))
  PROVE  Moves(w) /\ ~PastRevoke(req[w])'
  <1>1. Standing(op, pc, Nil, val, row).key = Nil
    BY DEF Standing
  <1> QED  BY <1>1, BecomesMoves DEF Moves, Continues, PastRevoke

\* So is going on, as long as the account stays or social login has found one.
LEMMA GoesOnMoves ==
  ASSUME Typed, NEW w \in Workers, NEW pc, NEW val, NEW row, GoesOn(w, pc, val, row),
         req[w].pc # "StoreToken",
         val = req[w].val \/ (pc = "StoreToken" /\ req[w].op = "HandleOAuthCallback")
  PROVE  /\ Moves(w)
         /\ req'[w].key = req[w].key /\ req'[w].pc = pc
  <1> DEFINE s == Standing(req[w].op, pc, req[w].key, val, row)
  <1>1. s.op = req[w].op /\ s.pc = pc /\ s.key = req[w].key /\ s.val = val
    BY DEF Standing
  <1>2. Becomes(w, s)
    BY DEF GoesOn
  <1> HIDE DEF s
  <1>3. req'[w] = s /\ \A x \in Workers \ {w} : req'[x] = req[x]
    BY <1>2, BecomesMoves
  <1>4. Continues(req[w], s)
    BY <1>1 DEF Continues
  <1> QED  BY <1>1, <1>3, <1>4 DEF Moves

\* All requests at rest.
LEMMA AllRest ==
  ASSUME Typed, RequestsHoldGrants, StoreStep, UNCHANGED req
  PROVE  /\ RequestsHoldGrants'
         /\ RevokedStayDead /\ UNCHANGED spent => RevokedStayDead'
  <1>1. RequestsHoldGrants'
    <2> SUFFICES ASSUME NEW x \in Workers PROVE HoldsGrant(req[x])'
      BY DEF RequestsHoldGrants
    <2> QED  BY HoldContinues DEF Continues
  <1>2. ASSUME RevokedStayDead, UNCHANGED spent PROVE RevokedStayDead'
    <2> SUFFICES ASSUME "DEL" \notin MayFail
                 PROVE  /\ \A x \in Workers : PastRevoke(req[x])' => Dead(req[x].key)'
                        /\ \A t \in spent : Dead(t)'
      BY <1>2 DEF RevokedStayDead
    <2>1. ASSUME NEW x \in Workers, PastRevoke(req[x])' PROVE Dead(req[x].key)'
      <3>1. PastRevoke(req[x]) /\ req[x].key \in Tokens
        BY <2>1, RequestFields DEF PastRevoke
      <3>2. Dead(req[x].key)
        BY <1>2, <3>1 DEF RevokedStayDead
      <3> QED  BY <3>1, <3>2 DEF StoreStep, Dead, Live
    <2>2. ASSUME NEW t \in spent PROVE Dead(t)'
      BY <1>2, <2>2, DeadStays DEF RevokedStayDead, Typed, TypeOK
    <2> QED  BY <2>1, <2>2
  <1> QED  BY <1>1, <1>2

(***************************************************************************)
(* The invariant about tokens is kept by every step.                       *)
(***************************************************************************)
Held == RequestsHoldGrants /\ RevokedStayDead

\* A step that ends or starts a request, or moves it without touching Redis,
\* and answers nothing.
LEMMA HeldByMove ==
  ASSUME Typed, Held, StoreStep, NEW w \in Workers, Moves(w),
         PastRevoke(req[w])' => PastRevoke(req[w]), UNCHANGED spent
  PROVE  Held'
  BY HoldsContinue, RevokedContinues DEF Held

\* A step that answers a request past its DEL.
LEMMA HeldByAnswer ==
  ASSUME Typed, Held, StoreStep, NEW w \in Workers, Returns(w),
         req[w].pc \in {"StoreToken", "Update"},
         spent' = spent \cup ({req[w].key} \ {Nil})
  PROVE  Held'
  <1>1. Moves(w) /\ ~PastRevoke(req[w])'
    BY ReturnsMoves
  <1>2. req[w].key # Nil => PastRevoke(req[w]) /\ req[w].key \in Tokens
    BY RequestFields DEF PastRevoke
  <1>3. spent' \subseteq spent \cup {t \in Tokens : \E x \in Workers :
                                        req[x].key = t /\ PastRevoke(req[x])}
    BY <1>2
  <1> QED  BY <1>1, <1>3, HoldsContinue, RevokedContinues DEF Held

\* Looking a token up.
LEMMA HeldByRedeem ==
  ASSUME Typed, Held, Lineage, StoreStep, NEW w \in Workers, NEW op \in DOMAIN RedeemedKind,
         Redeem(w, op)
  PROVE  Held'
  <1> DEFINE k  == RedeemedKind[op]
             pc == IF op = "HandleOAuthCallback" THEN "Revoke" ELSE "GetByID"
  <1>1. PICK t \in Granted(k) : /\ Live(k, t)
                                /\ Becomes(w, Standing(op, pc, t, redis[k][t], Nil))
    BY DEF Redeem
  <1> DEFINE s == Standing(op, pc, t, redis[k][t], Nil)
  <1>2. s.op = op /\ s.pc = pc /\ s.key = t /\ s.val = redis[k][t]
    BY DEF Standing
  <1> HIDE DEF s
  <1>3. req'[w] = s /\ \A x \in Workers \ {w} : req'[x] = req[x]
    BY <1>1, BecomesMoves DEF s
  <1>4. t \in Tokens /\ k \in Kinds /\ issued[t] # Nil /\ issued[t].kind = k
    BY RedeemedKindType DEF Granted
  <1>5. issued[t].owner = redis[k][t]
    BY <1>1, <1>4 DEF Lineage
  <1>6. UNCHANGED <<issued, redis, spent>>
    BY DEF Redeem
  <1>7. HoldsGrant(req[w])'
    BY <1>2, <1>3, <1>4, <1>5, <1>6 DEF HoldsGrant
  <1>8. \A x \in Workers \ {w} : HoldsGrant(req[x])'
    BY <1>3, HoldContinues DEF Held, Continues
  <1>9. RevokedStayDead'
    BY <1>2, <1>3, <1>6 DEF Held, RevokedStayDead, PastRevoke, Dead, Live
  <1> QED  BY <1>7, <1>8, <1>9 DEF Held, RequestsHoldGrants

\* The DEL of the presented token.
LEMMA HeldByRevoke ==
  ASSUME Typed, Held, Lineage, StoreStep, NEW w \in Workers, Revoke(w)
  PROVE  Held'
  <1> DEFINE key == req[w].key
             k   == RedeemedKind[req[w].op]
  <1>1. /\ req[w].pc = "Revoke" /\ req[w].op \in DOMAIN RedeemedKind
        /\ key \in Tokens /\ k \in Kinds /\ key # Nil
    BY Redeemer, RedeemedKindType, NilIsNoValue DEF Revoke, At
  <1>2. issued[key] # Nil /\ issued[key].kind = k
    BY <1>1 DEF Held, RequestsHoldGrants, HoldsGrant
  <1>3. Moves(w) /\ req'[w].key = key
    BY <1>1, GoesOnMoves DEF Revoke, Advances
  <1>4. RequestsHoldGrants'
    BY <1>3, HoldsContinue DEF Held
  <1>5. ASSUME "DEL" \notin MayFail
        PROVE  /\ \A x \in Workers : PastRevoke(req[x])' => Dead(req[x].key)'
               /\ \A t \in spent : Dead(t)'
    <2>1. redis' = WithoutKey(k, key) /\ UNCHANGED <<issued, spent>>
      BY <1>5 DEF Revoke, Deletes, Fails
    <2>2. \A kk \in Kinds, t \in Tokens :
             redis'[kk][t] = IF kk = k /\ t = key THEN Nil ELSE redis[kk][t]
      BY <1>1, <2>1 DEF WithoutKey, Typed, TypeOK
    <2>3. \A kk \in Kinds : redis'[kk][key] = Nil
      BY <1>1, <1>2, <2>2 DEF Lineage, Live
    <2>4. ASSUME NEW x \in Workers, PastRevoke(req[x])' PROVE Dead(req[x].key)'
      <3>1. CASE x = w
        BY <1>2, <1>3, <2>1, <2>3, <3>1 DEF Dead, Live
      <3>2. CASE x # w
        <4>1. req'[x] = req[x] /\ PastRevoke(req[x]) /\ req[x].key \in Tokens
          BY <1>3, <2>4, <3>2, RequestFields DEF Moves, PastRevoke
        <4>2. Dead(req[x].key)
          BY <1>5, <4>1 DEF Held, RevokedStayDead
        <4> QED  BY <4>1, <4>2 DEF StoreStep, Dead, Live
      <3> QED  BY <3>1, <3>2
    <2>5. ASSUME NEW t \in spent PROVE Dead(t)'
      BY <1>5, <2>5, DeadStays DEF Held, RevokedStayDead, Typed, TypeOK
    <2> QED  BY <2>4, <2>5
  <1>6. RevokedStayDead'
    BY <1>5 DEF RevokedStayDead, Revoke
  <1> QED  BY <1>4, <1>6 DEF Held

\* The DEL of a session logged out.
LEMMA HeldByLogout ==
  ASSUME Typed, Held, Lineage, StoreStep, Logout
  PROVE  Held'
  <1>1. PICK t \in Granted("refresh_token") : /\ Deletes("refresh_token", t)
                                              /\ spent' = spent \cup {t}
    BY DEF Logout
  <1>2. /\ t \in Tokens /\ issued[t] # Nil /\ issued[t].kind = "refresh_token"
        /\ UNCHANGED <<req, issued>> /\ "refresh_token" \in Kinds
    BY DEF Granted, Logout, Kinds
  <1>3. RequestsHoldGrants'
    BY <1>2, AllRest DEF Held
  <1>4. ASSUME "DEL" \notin MayFail
        PROVE  /\ \A x \in Workers : PastRevoke(req[x])' => Dead(req[x].key)'
               /\ \A s \in spent' : Dead(s)'
    <2>1. redis' = WithoutKey("refresh_token", t)
      BY <1>1, <1>4 DEF Deletes, Fails
    <2>2. \A k \in Kinds : redis'[k][t] = Nil
      BY <1>2, <2>1 DEF WithoutKey, Lineage, Live, Typed, TypeOK
    <2>3. Dead(t)'
      BY <1>2, <2>2 DEF Dead, Live
    <2>4. ASSUME NEW x \in Workers, PastRevoke(req[x])' PROVE Dead(req[x].key)'
      <3>1. PastRevoke(req[x]) /\ req[x].key \in Tokens
        BY <1>2, <2>4, RequestFields DEF PastRevoke
      <3>2. Dead(req[x].key)
        BY <1>4, <3>1 DEF Held, RevokedStayDead
      <3> QED  BY <1>2, <3>1, <3>2 DEF StoreStep, Dead, Live
    <2>5. ASSUME NEW s \in spent PROVE Dead(s)'
      BY <1>4, <2>5, DeadStays DEF Held, RevokedStayDead, Typed, TypeOK
    <2> QED  BY <1>1, <2>3, <2>4, <2>5
  <1> QED  BY <1>3, <1>4 DEF Held, RevokedStayDead

\* Every step keeps every request's hold on its token.
LEMMA HeldNext == Typed /\ Lineage /\ Held /\ [Next]_vars => Held'
  <1> SUFFICES ASSUME Typed, Lineage, Held, [Next]_vars PROVE Held'
    OBVIOUS
  <1>0. StoreStep
    BY StoreSteps DEF Held
  <1>a. ASSUME NEW w \in Workers, Returns(w), UNCHANGED spent PROVE Held'
    BY <1>0, <1>a, ReturnsMoves, HeldByMove
  <1>b. ASSUME NEW w \in Workers, NEW op, NEW pc, NEW val, NEW row,
               Becomes(w, Standing(op, pc, Nil, val, row)), UNCHANGED spent
        PROVE  Held'
    BY <1>0, <1>b, StartsMoves, HeldByMove
  <1>c. ASSUME NEW w \in Workers, NEW row, GoesOn(w, "Revoke", req[w].val, row),
               req[w].pc = "GetByID", UNCHANGED spent
        PROVE  Held'
    <2>1. Moves(w) /\ req'[w].pc = "Revoke"
      BY <1>c, GoesOnMoves
    <2> QED  BY <1>0, <1>c, <2>1, HeldByMove DEF PastRevoke
  <1>d. ASSUME NEW w \in Workers, NEW pc, NEW val, NEW row, GoesOn(w, pc, val, row),
               req[w].pc \in {"GetByOAuth", "Create"},
               val = req[w].val \/ pc = "StoreToken", UNCHANGED spent
        PROVE  Held'
    <2>1. req[w].op = "HandleOAuthCallback"
      BY <1>d, RequestFields DEF RequestWellFormed
    <2>2. Moves(w) /\ req'[w].key = req[w].key
      BY <1>d, <2>1, GoesOnMoves
    <2> QED  BY <1>0, <1>d, <2>2, HeldByMove DEF PastRevoke
  <1>e. ASSUME UNCHANGED <<req, spent>> PROVE Held'
    BY <1>0, <1>e, AllRest DEF Held
  <1>1. ASSUME NEW w \in Workers, SessionStep(w) PROVE Held'
    <2>1. ASSUME NEW op \in {"RefreshToken", "VerifyMFAChallenge"}, Redeem(w, op) PROVE Held'
      BY <1>0, <2>1, HeldByRedeem, RedeemedKindType
    <2>2. ASSUME Login(w) PROVE Held'
      BY <2>2, <1>b DEF Login
    <2>3. ASSUME IssueChallenge(w) PROVE Held'
      BY <2>3, <1>a DEF IssueChallenge
    <2>4. ASSUME LoadForSession(w) PROVE Held'
      BY <2>4, <1>a, <1>c DEF LoadForSession, At
    <2>5. ASSUME Revoke(w) PROVE Held'
      BY <1>0, <2>5, HeldByRevoke
    <2>6. ASSUME GenerateSession(w) PROVE Held'
      <3>1. spent' = spent \cup ({req[w].key} \ {Nil}) /\ Returns(w) /\ req[w].pc = "StoreToken"
        BY <2>6 DEF GenerateSession, At
      <3> QED  BY <1>0, <3>1, HeldByAnswer
    <2>7. ASSUME GenerateSessionFails(w) PROVE Held'
      BY <2>7, <1>a DEF GenerateSessionFails
    <2> QED  BY <1>1, <2>1, <2>2, <2>3, <2>4, <2>5, <2>6, <2>7 DEF SessionStep
  <1>2. ASSUME NEW w \in Workers, AccountStep(w) PROVE Held'
    <2>1. ASSUME NEW op \in {"ConfirmEmailVerification", "ConfirmPasswordReset"}, Redeem(w, op)
          PROVE  Held'
      BY <1>0, <2>1, HeldByRedeem, RedeemedKindType
    <2>2. ASSUME SetupMFA(w) \/ ConfirmMFASetup(w) PROVE Held'
      BY <2>2, <1>b DEF SetupMFA, ConfirmMFASetup, GoesToUpdate
    <2>3. ASSUME NEW op, RequestMail(w, op) PROVE Held'
      BY <2>3, <1>b DEF RequestMail
    <2>4. ASSUME StoreMailedToken(w) PROVE Held'
      BY <2>4, <1>a DEF StoreMailedToken
    <2>5. ASSUME LoadForConfirm(w) PROVE Held'
      BY <2>5, <1>a, <1>c DEF LoadForConfirm, At
    <2>6. ASSUME Update(w) PROVE Held'
      <3>1. spent' = spent \cup ({req[w].key} \ {Nil}) /\ Returns(w) /\ req[w].pc = "Update"
        BY <2>6 DEF Update, At
      <3> QED  BY <1>0, <3>1, HeldByAnswer
    <2>7. ASSUME UpdateFails(w) PROVE Held'
      BY <2>7, <1>a DEF UpdateFails
    <2> QED  BY <1>2, <2>1, <2>2, <2>3, <2>4, <2>5, <2>6, <2>7 DEF AccountStep
  <1>3. ASSUME NEW w \in Workers, ProvisioningStep(w) PROVE Held'
    <2>1. ASSUME Redeem(w, "HandleOAuthCallback") PROVE Held'
      BY <1>0, <2>1, HeldByRedeem, RedeemedKindType
    <2>2. ASSUME Register(w) PROVE Held'
      BY <2>2, <1>b, <1>e DEF Register
    <2>3. ASSUME SCIMUpdateUser(w) PROVE Held'
      BY <2>3, <1>b DEF SCIMUpdateUser, GoesToUpdate
    <2>4. ASSUME LoadByOAuth(w) PROVE Held'
      <3>1. ASSUME NEW u, NEW row, GoesOn(w, "StoreToken", u, row) PROVE Held'
        BY <2>4, <3>1, <1>d DEF LoadByOAuth, At
      <3>2. ASSUME NEW row, GoesOn(w, "Create", req[w].val, row) PROVE Held'
        BY <2>4, <3>2, <1>d DEF LoadByOAuth, At
      <3> QED  BY <2>4, <3>1, <3>2, <1>a DEF LoadByOAuth
    <2>5. ASSUME CreateOAuthUser(w) PROVE Held'
      BY <2>5, <1>a, <1>d DEF CreateOAuthUser, At
    <2>6. ASSUME CreateOAuthUserFails(w) PROVE Held'
      BY <2>6, <1>a DEF CreateOAuthUserFails
    <2> QED  BY <1>3, <2>1, <2>2, <2>3, <2>4, <2>5, <2>6 DEF ProvisioningStep
  <1>4. ASSUME NEW w \in Workers, Dies(w) PROVE Held'
    BY <1>4, <1>a DEF Dies
  <1>5. ASSUME Logout PROVE Held'
    BY <1>0, <1>5, HeldByLogout
  <1>6. ASSUME \/ SCIMCreateUser \/ SCIMDeleteUser \/ OAuthLoginURL \/ Expire \/ UNCHANGED vars
               \/ \E w \in Workers : NoEffect(w)
        PROVE  Held'
    BY <1>6, <1>e DEF SCIMCreateUser, SCIMDeleteUser, OAuthLoginURL, Expire, vars, NoEffect
  <1> QED  BY <1>1, <1>2, <1>3, <1>4, <1>5, <1>6 DEF Next

(***************************************************************************)
(* The theorems about tokens.                                              *)
(***************************************************************************)

\* No grant, no request and no key to begin with.
LEMMA LineageInit == Init => Lineage /\ Held
  <1> SUFFICES ASSUME Init PROVE Lineage /\ Held
    OBVIOUS
  <1>1. Lineage
    BY DEF Init, Lineage
  <1>2. \A w \in Workers : req[w].key = Nil
    BY DEF Init, IdleRequest
  <1>3. RequestsHoldGrants
    BY <1>2 DEF RequestsHoldGrants, HoldsGrant
  <1>4. RevokedStayDead
    BY <1>2 DEF Init, RevokedStayDead, PastRevoke
  <1> QED  BY <1>1, <1>3, <1>4 DEF Held

\* The parts of the inductive invariant, as the lemmas name them.
LEMMA IInvParts == IInv <=> Typed /\ Lineage /\ Held
  BY DEF IInv, Typed, Held

\* The invariant is inductive.
LEMMA IInvNext == IInv /\ [Next]_vars => IInv'
  <1> SUFFICES ASSUME IInv, [Next]_vars PROVE IInv'
    OBVIOUS
  <1>1. Typed /\ Lineage /\ Held
    BY IInvParts
  <1>2. Typed'
    BY <1>1, TypedNext
  <1>3. StoreStep /\ ExchangesOK
    BY <1>1, StoreSteps DEF Held
  <1>4. Lineage'
    BY <1>1, <1>2, <1>3, LineageStep
  <1>5. Held'
    BY <1>1, HeldNext
  <1> QED  BY <1>2, <1>4, <1>5 DEF IInv, Typed, Held

\* For any number of requests, accounts and tokens, whichever commands fail,
\* requests die or keys expire: every request in flight redeems a token a
\* client was given for that use, on behalf of the account it stands for, and
\* while DEL works a request past its DEL redeems a token nobody else can.
THEOREM InvariantHolds == Spec => []IInv
  <1>1. Init => IInv
    BY TypedInit, LineageInit, IInvParts
  <1> QED  BY <1>1, IInvNext, PTL DEF Spec

\* A key never passes for a key of another kind or another account, and a
\* session continues for the account of the token it was exchanged for, however
\* many rotations ago and whatever raced with them.
THEOREM LineageHolds == Spec => []Lineage
  <1>1. IInv => Lineage
    BY DEF IInv
  <1> QED  BY InvariantHolds, <1>1, PTL

\* As long as DEL does what it reports, no token whose use was answered with
\* success is live again: rotation, challenges, mailed links and logout are
\* final, whatever requests were in flight with the same token.
THEOREM SpentTokens ==
  ASSUME "DEL" \notin MayFail
  PROVE  Spec => []SpentTokensStayDead
  <1>1. IInv => SpentTokensStayDead
    BY DEF IInv, RevokedStayDead, SpentTokensStayDead, Dead
  <1> QED  BY InvariantHolds, <1>1, PTL

\* No handler makes a dead token live again, even where DEL fails: an expired
\* or revoked key stays gone, and a token the client knows is never re-issued.
THEOREM NoRevival == Spec => NoTokenRevives
  <1>1. IInv /\ [Next]_vars => [\A t \in Tokens : Dead(t) => Dead(t)']_vars
    <2> SUFFICES ASSUME IInv, [Next]_vars, NEW t \in Tokens, Dead(t) PROVE Dead(t)'
      OBVIOUS
    <2>1. StoreStep
      BY StoreSteps, IInvParts DEF Held
    <2> QED  BY <2>1, DeadStays
  <1> QED  BY InvariantHolds, <1>1, PTL DEF Spec, NoTokenRevives

================================================================================
