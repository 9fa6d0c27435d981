----------------------------- MODULE Credentials_proofs -----------------------------
(***************************************************************************)
(* Theorems about Credentials: any number of replicas, verifiers, accounts *)
(* and keys, any time to live, any skew of the clocks.                     *)
(***************************************************************************)
EXTENDS Credentials, TLAPS

(***************************************************************************)
(* The arithmetic of code windows.                                         *)
(***************************************************************************)

\* Division by Period, as the inequalities that define it.
LEMMA CounterBounds ==
    ASSUME NEW time \in Int
    PROVE  /\ Counter(time) \in Int
           /\ 30 * Counter(time) <= time /\ time < 30 * Counter(time) + 30
BY DEF Counter, Period

\* One step of Period is one window.
LEMMA NextCounter ==
    ASSUME NEW time \in Int, NEW i \in {-1, 0, 1}
    PROVE  Counter(time + i * Period) = Counter(time) + i
<1>1. time + i * Period \in Int
  BY DEF Period
<1>2. /\ 30 * Counter(time + i * Period) <= time + i * 30
      /\ time + i * 30 < 30 * Counter(time + i * Period) + 30
  BY <1>1, CounterBounds DEF Period
<1>3. Counter(time + i * Period) \in Int
  BY <1>1, CounterBounds
<1> DEFINE c == Counter(time)
           d == Counter(time + i * Period)
<1>4. /\ c \in Int /\ 30 * c <= time /\ time < 30 * c + 30
      /\ d \in Int /\ 30 * d <= time + i * 30 /\ time + i * 30 < 30 * d + 30
  BY <1>2, <1>3, CounterBounds
<1> HIDE DEF c, d
<1>5. i = -1 => d = c + i
  BY <1>4
<1>6. i = 0 => d = c + i
  BY <1>4
<1>7. i = 1 => d = c + i
  BY <1>4
<1>8. d = c + i
  BY <1>5, <1>6, <1>7
<1> QED
  BY <1>8 DEF c, d

\* ValidateCode takes every code at most Period away and none twice Period
\* away, for all times.
THEOREM CodeWindow ==
    ASSUME NEW made \in Int, NEW now_ \in Int
    PROVE  InWindow(made, now_)
<1> DEFINE m == Counter(made)
           n == Counter(now_)
<1>1. /\ m \in Int /\ 30 * m <= made /\ made < 30 * m + 30
      /\ n \in Int /\ 30 * n <= now_ /\ now_ < 30 * n + 30
  BY CounterBounds
<1>2. ValidateCode(made, now_) <=> m - n \in {-1, 0, 1}
  <2>1. \A i \in {-1, 0, 1} : Counter(now_ + i * Period) = n + i
    BY NextCounter
  <2>2. ValidateCode(made, now_) <=> \E i \in {-1, 0, 1} : n + i = m
    BY <2>1 DEF ValidateCode, Offsets
  <2> HIDE DEF m, n
  <2> QED
    BY <1>1, <2>2
<1> HIDE DEF m, n
<1>3. made - now_ \in -30..30 => m - n \in {-1, 0, 1}
  BY <1>1
<1>4. m - n \in {-1, 0, 1} => made - now_ \in -59..59
  BY <1>1
<1> QED
  BY <1>2, <1>3, <1>4 DEF InWindow, Period

(***************************************************************************)
(* The invariant.                                                          *)
(***************************************************************************)
LEMMA CredentialsStart == Init => CredentialsIInv
<1> SUFFICES ASSUME Init PROVE CredentialsIInv
  OBVIOUS
<1>1. TypeOK
  BY TimesAreNatural DEF Init, TypeOK, Parties, NoKey
<1>2. PresentAdmins
  BY TimesAreNatural DEF Init, PresentAdmins
<1>3. AdminTokensExpire
  BY DEF Init, AdminTokensExpire
<1>4. KeysAreMinted
  BY DEF Init, KeysAreMinted, OneKey, NoKey, Parties
<1> QED
  BY <1>1, <1>2, <1>3, <1>4 DEF CredentialsIInv

\* Every action notes which accounts still have ADMIN somewhere, and time does
\* not run back.
LEMMA EveryStepRemembers ==
    ASSUME TypeOK, Next
    PROVE  Remembers /\ now' \in Nat /\ now' >= now /\ skew' = skew
<1>1. now \in Nat
  BY DEF TypeOK
<1> QED
  BY <1>1 DEF Next, Starts, Stops, Fetches, Reads, Signs, WritesBack, Returns,
              FileChanges, RoleChanges, TimePasses

\* What a handler read is a row of the table.
LEMMA HeldCopy ==
    ASSUME TypeOK, NEW r \in Replicas, copy[r] # NoCopy
    PROVE  copy[r] \in [user : Accounts, role : Roles]
BY DEF TypeOK

LEMMA TypesKept ==
    ASSUME CredentialsIInv, Next
    PROVE  TypeOK'
<1> USE DEF CredentialsIInv
<1>1. lastAdmin' \in [Accounts -> Nat]
  BY EveryStepRemembers DEF Remembers, TypeOK
<1>2. skew' \in [Parties -> 0..MaxSkew] /\ now' \in Nat
  BY EveryStepRemembers DEF TypeOK
<1>3. path' \in BOOLEAN /\ file' \in Nat /\ minted' \in Nat /\ known' \in [Parties -> Nat]
  <2>1. path \in BOOLEAN /\ file \in Nat /\ minted \in Nat /\ known \in [Parties -> Nat]
    BY DEF TypeOK
  <2>2. ASSUME NEW r \in Replicas, Starts(r)
        PROVE  path' \in BOOLEAN /\ file' \in Nat /\ minted' \in Nat
               /\ known' \in [Parties -> Nat]
    <3>1. LoadedKey \in Nat
      BY <2>1 DEF LoadedKey
    <3> QED
      BY <2>1, <2>2, <3>1 DEF Starts
  <2>3. ASSUME NEW r \in Replicas, Stops(r)
        PROVE  path' \in BOOLEAN /\ file' \in Nat /\ minted' \in Nat
               /\ known' \in [Parties -> Nat]
    BY <2>1, <2>3 DEF Stops, NoKey
  <2>4. ASSUME NEW r \in Replicas, NEW v \in Verifiers, Fetches(v, r)
        PROVE  path' \in BOOLEAN /\ file' \in Nat /\ minted' \in Nat
               /\ known' \in [Parties -> Nat]
    BY <2>1, <2>4 DEF Fetches, Parties
  <2>5. CASE FileChanges
    BY <2>1, <2>5 DEF FileChanges, NoKey
  <2> QED
    BY <2>1, <2>2, <2>3, <2>4, <2>5
       DEF Next, Reads, Signs, WritesBack, Returns, RoleChanges, TimePasses
<1>4. role' \in [Accounts -> Roles]
  <2>1. ASSUME NEW r \in Replicas, WritesBack(r)
        PROVE  role' \in [Accounts -> Roles]
    BY <2>1, HeldCopy DEF WritesBack, TypeOK
  <2>2. ASSUME NEW u \in Accounts, RoleChanges(u)
        PROVE  role' \in [Accounts -> Roles]
    BY <2>2 DEF RoleChanges, TypeOK
  <2> QED
    BY <2>1, <2>2 DEF Next, Starts, Stops, Fetches, Reads, Signs, Returns, FileChanges,
                      TimePasses, TypeOK
<1>5. copy' \in [Replicas -> [user : Accounts, role : Roles] \cup {NoCopy}]
  BY DEF Next, Starts, Stops, Fetches, Reads, Signs, WritesBack, Returns, FileChanges,
         RoleChanges, TimePasses, TypeOK
<1>6. tokens' \subseteq Token
  <2>1. ASSUME NEW r \in Replicas, Signs(r)
        PROVE  tokens' \subseteq Token
    <3>1. known[r] \in Nat /\ Clock(r) + AccessTTL \in Nat
      BY TimesAreNatural DEF TypeOK, Parties, Clock
    <3>2. GenerateAccessToken(r) \in Token
      BY <2>1, <3>1, HeldCopy DEF Signs, GenerateAccessToken, Token
    <3> QED
      BY <2>1, <3>2 DEF Signs, TypeOK
  <2> QED
    BY <2>1 DEF Next, Starts, Stops, Fetches, Reads, WritesBack, Returns, FileChanges,
                RoleChanges, TimePasses, TypeOK
<1> QED
  BY <1>1, <1>2, <1>3, <1>4, <1>5, <1>6 DEF TypeOK

\* lastAdmin keeps up with time as long as ADMIN is somewhere, and never
\* falls back.
LEMMA MemoryKept ==
    ASSUME CredentialsIInv, Next
    PROVE  /\ PresentAdmins'
           /\ \A u \in Accounts : lastAdmin'[u] >= lastAdmin[u]
<1>1. /\ Remembers /\ now' \in Nat /\ now' >= now
      /\ now \in Nat /\ lastAdmin \in [Accounts -> Nat]
  BY EveryStepRemembers DEF CredentialsIInv, TypeOK
<1>2. ASSUME NEW u \in Accounts
      PROVE  /\ lastAdmin'[u] <= now' /\ lastAdmin'[u] >= lastAdmin[u]
             /\ SaysAdmin(u, role, copy)' => lastAdmin'[u] = now'
  <2>1. lastAdmin[u] \in Nat /\ lastAdmin[u] <= now
    BY <1>1 DEF CredentialsIInv, PresentAdmins
  <2>2. CASE SaysAdmin(u, role, copy)'
    BY <1>1, <2>1, <2>2 DEF Remembers
  <2>3. CASE ~SaysAdmin(u, role, copy)'
    BY <1>1, <2>1, <2>3 DEF Remembers
  <2> QED
    BY <2>2, <2>3
<1> QED
  BY <1>2 DEF PresentAdmins

\* A token signed with ADMIN comes from a copy that said so until now.
LEMMA AdminTokensKept ==
    ASSUME CredentialsIInv, Next
    PROVE  AdminTokensExpire'
<1> USE TimesAreNatural DEF CredentialsIInv
<1>1. /\ TypeOK' /\ \A u \in Accounts : lastAdmin'[u] >= lastAdmin[u]
      /\ lastAdmin \in [Accounts -> Nat] /\ lastAdmin' \in [Accounts -> Nat]
  BY TypesKept, MemoryKept DEF TypeOK
<1>2. ASSUME NEW t \in tokens, t.role = "ADMIN"
      PROVE  t.exp <= lastAdmin'[t.user] + AccessTTL + MaxSkew
  <2>1. t.user \in Accounts /\ t.exp \in Nat
    BY DEF TypeOK, Token
  <2>2. t.exp <= lastAdmin[t.user] + AccessTTL + MaxSkew
    BY <1>2 DEF AdminTokensExpire
  <2>3. /\ lastAdmin'[t.user] >= lastAdmin[t.user]
        /\ lastAdmin[t.user] \in Nat /\ lastAdmin'[t.user] \in Nat
    BY <1>1, <2>1
  <2> QED
    BY <2>1, <2>2, <2>3
<1>3. ASSUME NEW r \in Replicas, Signs(r)
      PROVE  AdminTokensExpire'
  <2> DEFINE t == GenerateAccessToken(r)
  <2>1. /\ t.user = copy[r].user /\ t.role = copy[r].role /\ t.exp = now + skew[r] + AccessTTL
        /\ t.user \in Accounts /\ skew[r] \in 0..MaxSkew /\ now \in Nat
    BY <1>3, HeldCopy DEF Signs, GenerateAccessToken, Clock, TypeOK, Parties
  <2>2. ASSUME t.role = "ADMIN"
        PROVE  t.exp <= lastAdmin'[t.user] + AccessTTL + MaxSkew
    <3>1. SaysAdmin(t.user, role, copy)
      BY <2>1, <2>2 DEF SaysAdmin
    <3>2. lastAdmin[t.user] = now
      BY <2>1, <3>1 DEF PresentAdmins
    <3>3. lastAdmin'[t.user] >= now /\ lastAdmin'[t.user] \in Nat
      BY <1>1, <2>1, <3>2
    <3> HIDE DEF t
    <3> QED
      BY <2>1, <3>3
  <2>3. tokens' = tokens \cup {t}
    BY <1>3 DEF Signs
  <2> HIDE DEF t
  <2> QED
    BY <1>2, <2>2, <2>3 DEF AdminTokensExpire
<1>4. CASE tokens' = tokens
  BY <1>2, <1>4 DEF AdminTokensExpire
<1> QED
  BY <1>3, <1>4 DEF Next, Starts, Stops, Fetches, Reads, WritesBack, Returns, FileChanges,
                    RoleChanges, TimePasses

\* As long as the first key of the file is there, it is the only key.
LEMMA KeysKept ==
    ASSUME CredentialsIInv, Next
    PROVE  KeysAreMinted'
<1> USE DEF CredentialsIInv
<1>1. /\ path \in BOOLEAN /\ file \in Nat /\ minted \in Nat /\ file <= minted
      /\ known \in [Parties -> Nat] /\ \A p \in Parties : known[p] <= minted
      /\ \A t \in tokens : t.key \in 1..minted
      /\ path /\ file = 1 => minted = 1
      /\ \A r \in Replicas : copy[r] # NoCopy => known[r] # 0
  BY DEF TypeOK, KeysAreMinted, OneKey, Runs, NoKey
<1>2. ASSUME NEW r \in Replicas, Starts(r)
      PROVE  KeysAreMinted'
  <2>1. LoadedKey \in Nat \ {0} /\ path' = path /\ file' = file /\ tokens' = tokens
    BY <1>1, <1>2 DEF Starts, LoadedKey, NoKey
  <2>2. /\ minted' = IF path THEN minted ELSE minted + 1
        /\ LoadedKey <= minted'
    BY <1>1, <1>2 DEF Starts, LoadedKey, NoKey
  <2>3. \A p \in Parties : known'[p] <= minted'
    BY <1>1, <1>2, <2>2 DEF Starts
  <2>4. \A q \in Replicas : copy'[q] # NoCopy => known'[q] # 0
    BY <1>1, <1>2, <2>1 DEF Starts, Parties
  <2> QED
    BY <1>1, <2>1, <2>2, <2>3, <2>4 DEF KeysAreMinted, OneKey, Runs, NoKey
<1>3. ASSUME NEW r \in Replicas, Stops(r)
      PROVE  KeysAreMinted'
  <2>1. /\ \A p \in Parties : known'[p] <= minted
        /\ \A q \in Replicas : copy'[q] # NoCopy => known'[q] # 0
    BY <1>1, <1>3 DEF Stops, NoKey, Parties, TypeOK
  <2> QED
    BY <1>1, <1>3, <2>1 DEF Stops, KeysAreMinted, OneKey, Runs, NoKey
<1>4. ASSUME NEW r \in Replicas, NEW v \in Verifiers, Fetches(v, r)
      PROVE  KeysAreMinted'
  <2>1. /\ \A p \in Parties : known'[p] <= minted
        /\ \A q \in Replicas : copy'[q] # NoCopy => known'[q] # 0
    BY <1>1, <1>4 DEF Fetches, Runs, NoKey, Parties
  <2> QED
    BY <1>1, <1>4, <2>1 DEF Fetches, KeysAreMinted, OneKey, Runs, NoKey
<1>5. CASE FileChanges
  BY <1>1, <1>5 DEF FileChanges, KeysAreMinted, OneKey, Runs, NoKey
<1>6. ASSUME NEW r \in Replicas, Signs(r)
      PROVE  KeysAreMinted'
  <2>1. GenerateAccessToken(r).key \in 1..minted
    BY <1>1, <1>6 DEF Signs, GenerateAccessToken, Parties
  <2>2. \A q \in Replicas : copy'[q] # NoCopy => known'[q] # 0
    BY <1>1, <1>6 DEF Signs, TypeOK
  <2> QED
    BY <1>1, <1>6, <2>1, <2>2 DEF Signs, KeysAreMinted, OneKey, Runs, NoKey
<1>7. ASSUME NEW r \in Replicas, Reads(r) \/ WritesBack(r) \/ Returns(r)
      PROVE  KeysAreMinted'
  <2>1. \A q \in Replicas : copy'[q] # NoCopy => known'[q] # 0
    BY <1>1, <1>7 DEF Reads, WritesBack, Returns, Runs, NoKey, TypeOK
  <2> QED
    BY <1>1, <1>7, <2>1 DEF Reads, WritesBack, Returns, KeysAreMinted, OneKey, Runs, NoKey
<1>8. ASSUME TimePasses \/ \E u \in Accounts : RoleChanges(u)
      PROVE  KeysAreMinted'
  BY <1>1, <1>8 DEF TimePasses, RoleChanges, KeysAreMinted, OneKey, Runs, NoKey
<1> QED
  BY <1>2, <1>3, <1>4, <1>5, <1>6, <1>7, <1>8 DEF Next

\* The inductive invariant holds in every reachable state.
THEOREM CredentialsInvariant == Spec => []CredentialsIInv
<1>1. CredentialsIInv /\ [Next]_vars => CredentialsIInv'
  <2> SUFFICES ASSUME CredentialsIInv, [Next]_vars PROVE CredentialsIInv'
    OBVIOUS
  <2>1. CASE Next
    BY <2>1, TypesKept, MemoryKept, AdminTokensKept, KeysKept DEF CredentialsIInv
  <2>2. CASE UNCHANGED vars
    BY <2>2 DEF vars, CredentialsIInv, TypeOK, PresentAdmins, SaysAdmin, AdminTokensExpire,
                KeysAreMinted, OneKey, Runs
  <2> QED
    BY <2>1, <2>2
<1> QED
  BY <1>1, CredentialsStart, PTL DEF Spec

\* Whatever copies are signed late or written back: once ADMIN is gone from row
\* and copies, tokens that carry it manage nothing after AccessTTL and the skew.
THEOREM DemotionEnds == Spec => []DemotionTakesHold
<1>1. CredentialsIInv => DemotionTakesHold
  <2> SUFFICES ASSUME CredentialsIInv, NEW p \in Parties, NEW t \in tokens,
                      Answer(p, t, "manage:system") = "OK"
               PROVE  now < lastAdmin[t.user] + AccessTTL + MaxSkew
    BY DEF DemotionTakesHold
  <2>1. /\ now \in Nat /\ skew[p] \in 0..MaxSkew
        /\ t.user \in Accounts /\ t.exp \in Nat /\ lastAdmin[t.user] \in Nat
    BY DEF CredentialsIInv, TypeOK, Token
  <2>2. now + skew[p] < t.exp /\ HasPermission(t.role, "manage:system")
    BY DEF Answer, RequirePermission, ValidateAccessToken, Clock
  <2>3. t.role = "ADMIN"
    BY <2>2 DEF HasPermission, RolePermissions
  <2>4. t.exp <= lastAdmin[t.user] + AccessTTL + MaxSkew
    BY <2>3 DEF CredentialsIInv, AdminTokensExpire
  <2> QED
    BY <2>1, <2>2, <2>4, TimesAreNatural
<1> QED
  BY <1>1, CredentialsInvariant, PTL

\* One key file, never replaced, makes replicas and restarts interchangeable.
THEOREM SharedKey == Spec => []SharedKeyServesAll
<1>1. CredentialsIInv => SharedKeyServesAll
  <2> SUFFICES ASSUME CredentialsIInv, OneKey, NEW p \in Parties, NEW t \in tokens,
                      Runs(p), Clock(p) < t.exp
               PROVE  Answer(p, t, "read:profile") # "Unauthorized"
    BY DEF SharedKeyServesAll
  <2>1. known[p] = 1 /\ t.key = 1
    BY DEF CredentialsIInv, TypeOK, KeysAreMinted, Runs, NoKey
  <2> QED
    BY <2>1 DEF Answer, RequirePermission, ValidateAccessToken
<1> QED
  BY <1>1, CredentialsInvariant, PTL

\* The window of codes, by the clock of any replica at any time.
THEOREM CodesTaken == Spec => []CodesInWindow
<1>1. CredentialsIInv => CodesInWindow
  <2> SUFFICES ASSUME CredentialsIInv, NEW r \in Replicas, NEW d \in Drifts
               PROVE  InWindow(Clock(r) + d, Clock(r))
    BY DEF CodesInWindow
  <2>1. Clock(r) \in Int /\ Clock(r) + d \in Int
    BY TimesAreNatural DEF CredentialsIInv, TypeOK, Clock, Parties
  <2> QED
    BY <2>1, CodeWindow
<1> QED
  BY <1>1, CredentialsInvariant, PTL
====================================================================================
