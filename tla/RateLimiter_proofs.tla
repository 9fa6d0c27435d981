---------------------------- MODULE RateLimiter_proofs ----------------------------
(***************************************************************************)
(* How many requests of a client the limiter charges, for every limit and  *)
(* every window.                                                           *)
(***************************************************************************)
EXTENDS RateLimiter, TLAPS

\* What the assumption says of the numbers used below.
LEMMA Numbers ==
  /\ Limit \in Int /\ Limit >= 1 /\ WindowSecs \in Int /\ WindowSecs >= 1
  /\ \A i \in Int : i \in Charges <=> 1 <= i /\ i <= 2 * Limit - 1
  /\ Charges \subseteq Int
  <1> QED
    BY LimitsArePositive DEF Charges

\* The values one client's state can have.
LEMMA ClientTypes ==
  ASSUME LimiterTypeOK, NEW c \in Clients
  PROVE  /\ counter[c] \in Int /\ 0 <= counter[c] /\ counter[c] <= Limit
         /\ ttl[c] \in Int /\ 0 <= ttl[c] /\ ttl[c] <= WindowSecs
         /\ age[c] \in [Charges -> 0 .. WindowSecs]
         /\ \A i \in Charges :
               age[c][i] \in Int /\ 0 <= age[c][i] /\ age[c][i] <= WindowSecs
  <1>1. age[c] \in [Charges -> 0 .. WindowSecs]
    BY DEF LimiterTypeOK
  <1>2. \A i \in Charges : age[c][i] \in 0 .. WindowSecs
    BY <1>1
  <1> QED
    BY <1>1, <1>2, Numbers DEF LimiterTypeOK

\* The limiter starts with no key and no past.
LEMMA LimiterStarts == LimiterInit => LimiterIInv
  <1> SUFFICES ASSUME LimiterInit PROVE LimiterIInv
    OBVIOUS
  <1> USE LimitsArePositive
  <1>1. LimiterTypeOK
    BY DEF LimiterInit, LimiterTypeOK, Charges
  <1>2. \A c \in Clients, i \in Charges : age[c][i] = WindowSecs
    BY DEF LimiterInit, Charges
  <1>3. \A c \in Clients : counter[c] = 0 /\ ttl[c] = 0
    BY DEF LimiterInit
  <1>4. NewestFirst
    BY <1>2 DEF NewestFirst
  <1>5. KeyHasLife /\ KeyIsAsOldAsItsFirst
    BY <1>3 DEF KeyHasLife, KeyIsAsOldAsItsFirst
  <1>6. EarlierKeyIsPast
    BY <1>2, <1>3 DEF EarlierKeyIsPast, Charges
  <1> QED
    BY <1>1, <1>4, <1>5, <1>6 DEF LimiterIInv

\* A charge of client c keeps the invariant.
LEMMA ChargeKeeps ==
  ASSUME LimiterIInv, NEW c \in Clients, Allowed(c), Charge(c)
  PROVE  LimiterIInv'
  <1>1. LimiterTypeOK /\ NewestFirst /\ KeyHasLife /\ KeyIsAsOldAsItsFirst /\ EarlierKeyIsPast
    BY DEF LimiterIInv
  <1>2. counter[c] < Limit
    BY <1>1, ClientTypes, Numbers DEF Allowed
  <1>3. counter'[c] = counter[c] + 1 /\ ttl'[c] = Lifetime(c)
    BY <1>1 DEF Charge, LimiterTypeOK
  <1>4. age'[c] = [i \in Charges |-> IF i = 1 THEN 0 ELSE age[c][i - 1]]
    BY <1>1 DEF Charge, LimiterTypeOK
  <1>5. \A d \in Clients \ {c} : counter'[d] = counter[d] /\ ttl'[d] = ttl[d] /\ age'[d] = age[d]
    BY <1>1 DEF Charge, LimiterTypeOK
  <1>6. Lifetime(c) \in Int /\ 1 <= Lifetime(c) /\ Lifetime(c) <= WindowSecs
    <2>1. /\ ttl[c] \in Int /\ 0 <= ttl[c] /\ ttl[c] <= WindowSecs
          /\ counter[c] \in Int /\ 0 <= counter[c]
      BY <1>1, ClientTypes
    <2>2. counter[c] > 0 <=> ttl[c] > 0
      BY <1>1 DEF KeyHasLife
    <2>3. CASE counter[c] = 0
      BY <2>3, Numbers DEF Lifetime
    <2>4. CASE counter[c] # 0
      BY <2>1, <2>2, <2>4 DEF Lifetime
    <2> QED
      BY <2>3, <2>4
  <1>7. \A i \in Charges : i # 1 => i - 1 \in Charges /\ age'[c][i] = age[c][i - 1]
    <2>1. \A i \in Charges : i # 1 => i - 1 \in Charges
      BY Numbers
    <2> QED
      BY <1>4, <2>1
  <1>8. 1 \in Charges /\ age'[c][1] = 0
    BY <1>4, Numbers
  <1>9. age'[c] \in [Charges -> 0 .. WindowSecs]
    <2>1. \A i \in Charges : age'[c][i] \in 0 .. WindowSecs
      <3> SUFFICES ASSUME NEW i \in Charges PROVE age'[c][i] \in 0 .. WindowSecs
        OBVIOUS
      <3>1. CASE i = 1
        BY <1>8, <3>1, Numbers
      <3>2. CASE i # 1
        BY <1>1, <1>7, <3>2, ClientTypes, Numbers
      <3> QED
        BY <3>1, <3>2
    <2> QED
      BY <1>4, <2>1
  <1>10. LimiterTypeOK'
    <2>1. counter' \in [Clients -> 0 .. Limit]
      <3>1. counter[c] + 1 \in 0 .. Limit
        BY <1>1, <1>2, ClientTypes, Numbers
      <3> QED
        BY <1>1, <3>1 DEF Charge, LimiterTypeOK
    <2>2. ttl' \in [Clients -> 0 .. WindowSecs]
      <3>1. Lifetime(c) \in 0 .. WindowSecs
        BY <1>6, Numbers
      <3> QED
        BY <1>1, <3>1 DEF Charge, LimiterTypeOK
    <2>3. age' \in [Clients -> [Charges -> 0 .. WindowSecs]]
      BY <1>1, <1>4, <1>9 DEF Charge, LimiterTypeOK
    <2> QED
      BY <2>1, <2>2, <2>3 DEF LimiterTypeOK
  <1>11. NewestFirst'
    <2> SUFFICES ASSUME NEW d \in Clients, NEW i \in Charges, NEW j \in Charges, i <= j
                 PROVE  age'[d][i] <= age'[d][j]
      BY DEF NewestFirst
    <2>1. CASE d # c
      BY <1>1, <1>5, <2>1 DEF NewestFirst
    <2>2. CASE d = c /\ i = 1
      BY <1>8, <1>10, <2>2, ClientTypes, Numbers DEF LimiterTypeOK
    <2>3. CASE d = c /\ i # 1
      <3>1. i - 1 \in Charges /\ j - 1 \in Charges /\ i - 1 <= j - 1 /\ j # 1
        BY <2>3, Numbers
      <3>2. age[c][i - 1] <= age[c][j - 1]
        BY <1>1, <3>1 DEF NewestFirst
      <3> QED
        BY <1>7, <2>3, <3>1, <3>2
    <2> QED
      BY <2>1, <2>2, <2>3
  <1>12. KeyHasLife'
    <2> SUFFICES ASSUME NEW d \in Clients PROVE counter'[d] > 0 <=> ttl'[d] > 0
      BY DEF KeyHasLife
    <2>1. CASE d # c
      BY <1>1, <1>5, <2>1 DEF KeyHasLife
    <2>2. CASE d = c
      BY <1>1, <1>3, <1>6, <2>2, ClientTypes
    <2> QED
      BY <2>1, <2>2
  <1>13. KeyIsAsOldAsItsFirst'
    <2> SUFFICES ASSUME NEW d \in Clients, counter'[d] > 0
                 PROVE  age'[d][counter'[d]] = WindowSecs - ttl'[d]
      BY DEF KeyIsAsOldAsItsFirst
    <2>1. CASE d # c
      BY <1>1, <1>5, <2>1 DEF KeyIsAsOldAsItsFirst
    <2>2. CASE d = c /\ counter[c] = 0
      BY <1>3, <1>8, <2>2, Numbers DEF Lifetime
    <2>3. CASE d = c /\ counter[c] # 0
      <3>1. counter[c] + 1 \in Charges /\ counter[c] + 1 # 1 /\ counter[c] > 0
        BY <1>1, <1>2, <2>3, ClientTypes, Numbers
      <3>2. (counter[c] + 1) - 1 = counter[c]
        BY <1>1, ClientTypes
      <3>3. age'[c][counter[c] + 1] = age[c][counter[c]]
        BY <1>7, <3>1, <3>2
      <3>4. age[c][counter[c]] = WindowSecs - ttl[c]
        BY <1>1, <3>1 DEF KeyIsAsOldAsItsFirst
      <3> QED
        BY <1>3, <2>3, <3>3, <3>4 DEF Lifetime
    <2> QED
      BY <2>1, <2>2, <2>3
  <1>14. EarlierKeyIsPast'
    <2> SUFFICES ASSUME NEW d \in Clients, counter'[d] < Limit
                 PROVE  age'[d][counter'[d] + Limit] = WindowSecs
      BY DEF EarlierKeyIsPast
    <2>1. CASE d # c
      BY <1>1, <1>5, <2>1 DEF EarlierKeyIsPast
    <2>2. CASE d = c
      <3>1. /\ counter[c] + 1 + Limit \in Charges /\ counter[c] + 1 + Limit # 1
            /\ (counter[c] + 1 + Limit) - 1 = counter[c] + Limit
        BY <1>1, <1>3, <2>2, ClientTypes, Numbers
      <3>2. age'[c][counter[c] + 1 + Limit] = age[c][counter[c] + Limit]
        BY <1>7, <3>1
      <3>3. age[c][counter[c] + Limit] = WindowSecs
        BY <1>1, <1>2 DEF EarlierKeyIsPast
      <3> QED
        BY <1>3, <2>2, <3>2, <3>3
    <2> QED
      BY <2>1, <2>2
  <1> QED
    BY <1>10, <1>11, <1>12, <1>13, <1>14 DEF LimiterIInv

\* Time passing keeps the invariant; a key that ends leaves its first charge
\* just out of the window.
LEMMA TickKeeps ==
  ASSUME LimiterIInv, Tick
  PROVE  LimiterIInv'
  <1>1. LimiterTypeOK /\ NewestFirst /\ KeyHasLife /\ KeyIsAsOldAsItsFirst /\ EarlierKeyIsPast
    BY DEF LimiterIInv
  <1>2. \A c \in Clients : counter'[c] = Remaining(c)
    BY DEF Tick
  <1>3. \A c \in Clients : ttl'[c] = IF ttl[c] = 0 THEN 0 ELSE ttl[c] - 1
    BY DEF Tick
  <1>4. \A c \in Clients, i \in Charges : age'[c][i] = Older(age[c][i])
    BY DEF Tick
  <1>5. \A c \in Clients : counter[c] > 0 <=> ttl[c] > 0
    BY <1>1 DEF KeyHasLife
  <1>6. LimiterTypeOK'
    <2>1. ASSUME NEW c \in Clients PROVE Remaining(c) \in 0 .. Limit
      BY <1>1, ClientTypes, Numbers DEF Remaining
    <2>2. ASSUME NEW c \in Clients
          PROVE  (IF ttl[c] = 0 THEN 0 ELSE ttl[c] - 1) \in 0 .. WindowSecs
      <3>1. ttl[c] \in Int /\ 0 <= ttl[c] /\ ttl[c] <= WindowSecs
        BY <1>1, ClientTypes
      <3> QED
        BY <3>1, Numbers
    <2>3. ASSUME NEW c \in Clients, NEW i \in Charges PROVE Older(age[c][i]) \in 0 .. WindowSecs
      BY <1>1, ClientTypes, Numbers DEF Older
    <2> QED
      BY <2>1, <2>2, <2>3 DEF Tick, LimiterTypeOK
  <1>7. NewestFirst'
    <2> SUFFICES ASSUME NEW c \in Clients, NEW i \in Charges, NEW j \in Charges, i <= j
                 PROVE  age'[c][i] <= age'[c][j]
      BY DEF NewestFirst
    <2>1. age[c][i] <= age[c][j]
      BY <1>1 DEF NewestFirst
    <2>2. Older(age[c][i]) <= Older(age[c][j])
      BY <1>1, <2>1, ClientTypes, Numbers DEF Older
    <2> QED
      BY <1>4, <2>2
  <1>8. KeyHasLife'
    <2> SUFFICES ASSUME NEW c \in Clients PROVE counter'[c] > 0 <=> ttl'[c] > 0
      BY DEF KeyHasLife
    <2>1. counter[c] \in Int /\ ttl[c] \in Int /\ 0 <= counter[c] /\ 0 <= ttl[c]
      BY <1>1, ClientTypes
    <2> QED
      BY <1>2, <1>3, <1>5, <2>1 DEF Remaining
  <1>9. KeyIsAsOldAsItsFirst'
    <2> SUFFICES ASSUME NEW c \in Clients, counter'[c] > 0
                 PROVE  age'[c][counter'[c]] = WindowSecs - ttl'[c]
      BY DEF KeyIsAsOldAsItsFirst
    <2>1. counter[c] \in Int /\ ttl[c] \in Int /\ counter[c] <= Limit
      BY <1>1, ClientTypes
    <2>2. counter'[c] = counter[c] /\ counter[c] > 0 /\ ttl[c] > 1
      BY <1>2, <1>5, <2>1 DEF Remaining
    <2>3. counter[c] \in Charges
      BY <2>1, <2>2, Numbers
    <2>4. age[c][counter[c]] = WindowSecs - ttl[c]
      BY <1>1, <2>2 DEF KeyIsAsOldAsItsFirst
    <2>5. Older(WindowSecs - ttl[c]) = WindowSecs - (ttl[c] - 1)
      BY <2>1, <2>2, Numbers DEF Older
    <2>6. ttl'[c] = ttl[c] - 1
      BY <1>3, <2>1, <2>2
    <2> QED
      BY <1>4, <2>2, <2>3, <2>4, <2>5, <2>6
  <1>10. EarlierKeyIsPast'
    <2> SUFFICES ASSUME NEW c \in Clients, counter'[c] < Limit
                 PROVE  age'[c][counter'[c] + Limit] = WindowSecs
      BY DEF EarlierKeyIsPast
    <2>1. counter[c] \in Int /\ ttl[c] \in Int /\ 0 <= counter[c] /\ counter[c] <= Limit
      BY <1>1, ClientTypes
    <2>2. CASE counter'[c] = counter[c]
      <3>1. counter[c] + Limit \in Charges
        BY <2>1, <2>2, Numbers
      <3>2. age[c][counter[c] + Limit] = WindowSecs
        BY <1>1, <2>2 DEF EarlierKeyIsPast
      <3> QED
        BY <1>4, <2>2, <3>1, <3>2, Numbers DEF Older
    <2>3. CASE counter'[c] # counter[c]
      <3>1. counter'[c] = 0 /\ ttl[c] = 1
        BY <1>2, <2>3 DEF Remaining
      <3>2. counter[c] > 0 /\ counter[c] \in Charges /\ Limit \in Charges
        BY <1>5, <2>1, <3>1, Numbers
      <3>3. age[c][counter[c]] = WindowSecs - 1
        BY <1>1, <3>1, <3>2 DEF KeyIsAsOldAsItsFirst
      <3>4. age[c][counter[c]] <= age[c][Limit]
        BY <1>1, <2>1, <3>2 DEF NewestFirst
      <3>5. Older(age[c][Limit]) = WindowSecs
        BY <1>1, <3>2, <3>3, <3>4, ClientTypes, Numbers DEF Older
      <3>6. counter'[c] + Limit = Limit
        BY <3>1, Numbers
      <3> QED
        BY <1>4, <3>2, <3>5, <3>6
    <2> QED
      BY <2>2, <2>3
  <1> QED
    BY <1>6, <1>7, <1>8, <1>9, <1>10 DEF LimiterIInv

\* Every step of the limiter, and every step that leaves it alone.
LEMMA LimiterStep == LimiterIInv /\ [LimiterNext]_limiterVars => LimiterIInv'
  <1> SUFFICES ASSUME LimiterIInv, [LimiterNext]_limiterVars PROVE LimiterIInv'
    OBVIOUS
  <1>1. CASE Tick
    BY <1>1, TickKeeps
  <1>2. CASE \E c \in Clients : Allowed(c) /\ Charge(c)
    BY <1>2, ChargeKeeps
  <1>3. CASE UNCHANGED limiterVars
    BY <1>3 DEF limiterVars, LimiterIInv, LimiterTypeOK, NewestFirst, KeyHasLife,
                KeyIsAsOldAsItsFirst, EarlierKeyIsPast
  <1> QED
    BY <1>1, <1>2, <1>3 DEF LimiterNext

\* The counters never pass the limit and every key has a life left: the types
\* of the limiter, with what makes them inductive (the Lua script).
THEOREM LimiterInvariant == LimiterSpec => []LimiterIInv
  <1> QED
    BY LimiterStarts, LimiterStep, PTL DEF LimiterSpec

\* Whoever is refused had Limit charges within the window (the comparison of the
\* script against a key that is as old as its first charge).
LEMMA InvRefusal == LimiterIInv => BlockedOnlyAfterLimit
  <1> SUFFICES ASSUME LimiterIInv, NEW c \in Clients, Blocked(c)
               PROVE  age[c][Limit] < WindowSecs
    BY DEF BlockedOnlyAfterLimit
  <1>1. counter[c] = Limit
    BY ClientTypes, Numbers DEF LimiterIInv, Blocked, Allowed
  <1>2. ttl[c] > 0 /\ ttl[c] \in Int
    BY <1>1, ClientTypes, Numbers DEF LimiterIInv, KeyHasLife
  <1>3. age[c][Limit] = WindowSecs - ttl[c]
    BY <1>1, Numbers DEF LimiterIInv, KeyIsAsOldAsItsFirst
  <1> QED
    BY <1>2, <1>3, Numbers

\* Refusals are deserved: BlockedOnlyAfterLimit holds for every limit and window.
THEOREM RefusalsDeserved == LimiterSpec => []BlockedOnlyAfterLimit
  <1> QED
    BY LimiterInvariant, InvRefusal, PTL

\* A step that charges finds 2 * Limit - 1 charges before it a window old.
LEMMA ChargeFindsRoom ==
  ASSUME LimiterIInv, [LimiterNext]_limiterVars, NEW c \in Clients, counter'[c] > counter[c]
  PROVE  age[c][2 * Limit - 1] = WindowSecs
  <1>1. LimiterTypeOK /\ NewestFirst /\ EarlierKeyIsPast
    BY DEF LimiterIInv
  <1>2. counter[c] \in Int /\ 0 <= counter[c] /\ counter[c] <= Limit
    BY <1>1, ClientTypes
  <1>3. counter[c] < Limit
    <2>1. CASE Tick
      BY <1>2, <2>1 DEF Tick, Remaining
    <2>2. ASSUME NEW d \in Clients, Allowed(d), Charge(d) PROVE counter[c] < Limit
      <3>1. d = c
        BY <1>1, <1>2, <2>2 DEF Charge, LimiterTypeOK
      <3> QED
        BY <1>2, <2>2, <3>1, Numbers DEF Allowed
    <2>3. CASE UNCHANGED limiterVars
      BY <1>2, <2>3 DEF limiterVars
    <2> QED
      BY <2>1, <2>2, <2>3 DEF LimiterNext
  <1>4. /\ counter[c] + Limit \in Charges /\ 2 * Limit - 1 \in Charges
        /\ counter[c] + Limit <= 2 * Limit - 1
    BY <1>2, <1>3, Numbers
  <1>5. age[c][counter[c] + Limit] = WindowSecs
    BY <1>1, <1>3 DEF EarlierKeyIsPast
  <1>6. age[c][counter[c] + Limit] <= age[c][2 * Limit - 1]
    BY <1>1, <1>4 DEF NewestFirst
  <1>7. age[c][2 * Limit - 1] \in Int /\ age[c][2 * Limit - 1] <= WindowSecs
    BY <1>1, <1>4, ClientTypes
  <1> QED
    BY <1>5, <1>6, <1>7, Numbers

\* The burst bound: 2 * Limit charges of one client always span a window, for
\* every limit and every window (199 requests at most in any 60 s as deployed).
THEOREM BurstBound == LimiterSpec => AtMostTwiceTheLimit
  <1>1. LimiterIInv /\ [LimiterNext]_limiterVars
          => [\A c \in Clients : counter'[c] > counter[c]
                                   => age[c][2 * Limit - 1] = WindowSecs]_limiterVars
    BY ChargeFindsRoom
  <1> QED
    BY <1>1, LimiterInvariant, PTL DEF LimiterSpec, AtMostTwiceTheLimit
================================================================================
