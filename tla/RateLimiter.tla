------------------------------- MODULE RateLimiter -------------------------------
(***************************************************************************)
(* The rate limiter (internal/delivery/http/middleware/                    *)
(* ratelimit_middleware.go): one Redis counter per client address, raised  *)
(* and given its expiry by one Lua script, shared by every replica.        *)
(*                                                                         *)
(* Time is kept as ages and remaining lives, never as a date.  A tick is   *)
(* any unit Redis can tell apart; WindowSecs is the window in ticks.       *)
(***************************************************************************)
EXTENDS Integers

CONSTANTS
    Clients,     \* addresses, as extractClientIP tells them
    Limit,       \* requests per window, 100 in router.go
    WindowSecs   \* 60 s in NewRedisRateLimiter

ASSUME LimitsArePositive == Limit \in Nat \ {0} /\ WindowSecs \in Nat \ {0}

VARIABLES
    counter,  \* the value under "ratelimit:c", 0 for no key
    ttl,      \* ticks the key has left, 0 for no key
    age       \* history: age[c][i], ticks since c's i-th latest charge, at most
              \* WindowSecs; WindowSecs also where there was none

limiterVars == <<counter, ttl, age>>

Charges == 1 .. 2 * Limit - 1

LimiterInit ==
    /\ counter = [c \in Clients |-> 0]
    /\ ttl = [c \in Clients |-> 0]
    /\ age = [c \in Clients |-> [i \in Charges |-> WindowSecs]]

\* Mutant of Allowed: current > limit.
AllowedOneMore(c) == counter[c] <= Limit

\* The script's comparison.
Allowed(c) == counter[c] + 1 <= Limit

\* Mutant of Lifetime: no EXPIRE; a TTL of 0 on a key is one that never ends.
LifetimeForgotten(c) == ttl[c]

\* EXPIRE on the first charge of a key only.
Lifetime(c) == IF counter[c] = 0 THEN WindowSecs ELSE ttl[c]

\* The rest of an allowed run: INCRBY and EXPIRE, in one script.
Charge(c) ==
    /\ counter' = [counter EXCEPT ![c] = @ + 1]
    /\ ttl' = [ttl EXCEPT ![c] = Lifetime(c)]
    /\ age' = [age EXCEPT ![c] = [i \in Charges |-> IF i = 1 THEN 0 ELSE @[i - 1]]]

\* Mutant of Remaining: Redis keeps the counter when the TTL runs out.
RemainingAfterExpiry(c) == counter[c]

\* The key is gone once its TTL is.
Remaining(c) == IF ttl[c] = 1 THEN 0 ELSE counter[c]

Older(a) == IF a < WindowSecs THEN a + 1 ELSE a

Tick ==
    /\ counter' = [c \in Clients |-> Remaining(c)]
    /\ ttl' = [c \in Clients |-> IF ttl[c] = 0 THEN 0 ELSE ttl[c] - 1]
    /\ age' = [c \in Clients |-> [i \in Charges |-> Older(age[c][i])]]

LimiterNext == Tick \/ \E c \in Clients : Allowed(c) /\ Charge(c)

LimiterSpec == LimiterInit /\ [][LimiterNext]_limiterVars

LimiterTypeOK ==
    /\ counter \in [Clients -> 0 .. Limit]
    /\ ttl \in [Clients -> 0 .. WindowSecs]
    /\ age \in [Clients -> [Charges -> 0 .. WindowSecs]]

Blocked(c) == ~Allowed(c)

\* A request is refused only if the last Limit charges of its client are all
\* younger than the window: old charges never count against a client.
BlockedOnlyAfterLimit ==
    \A c \in Clients : Blocked(c) => age[c][Limit] < WindowSecs

\* The window is fixed, not sliding, so more than Limit requests may be charged
\* within a window's length around the end of a key; but never 2 * Limit: that
\* many charges in a row always take a window at least.
AtMostTwiceTheLimit ==
    [][\A c \in Clients : counter'[c] > counter[c] => age[c][2 * Limit - 1] = WindowSecs]_limiterVars

(***************************************************************************)
(* The inductive invariant.  The key of c, while there is one, was made    *)
(* with the oldest of its counter[c] charges; what the key before counted  *)
(* is at least a window old by the time this one has Limit charges more.   *)
(***************************************************************************)
NewestFirst == \A c \in Clients, i, j \in Charges : i <= j => age[c][i] <= age[c][j]

KeyHasLife == \A c \in Clients : counter[c] > 0 <=> ttl[c] > 0

KeyIsAsOldAsItsFirst ==
    \A c \in Clients : counter[c] > 0 => age[c][counter[c]] = WindowSecs - ttl[c]

EarlierKeyIsPast ==
    \A c \in Clients : counter[c] < Limit => age[c][counter[c] + Limit] = WindowSecs

LimiterIInv ==
    LimiterTypeOK /\ NewestFirst /\ KeyHasLife /\ KeyIsAsOldAsItsFirst /\ EarlierKeyIsPast
================================================================================
