------------------------------------ MODULE Totp ------------------------------------
(***************************************************************************)
(* Time-based codes (pkg/utils/totp.go).  Times are whole seconds since    *)
(* 1970, where Go's division and \div agree.  A code stands for the number *)
(* its HMAC is computed from: two numbers share a code once in a million.  *)
(***************************************************************************)
EXTENDS Integers

Period == 30

\* The code of GenerateCode.
Counter(time) == time \div Period

\* Mutant of Offsets: codes of the window before are turned down.
OffsetsAhead == {0, 1}

\* The windows ValidateCode tries, in steps of Period.
Offsets == {-1, 0, 1}

\* The code a device computed at time made is good at time now.
ValidateCode(made, now) == \E i \in Offsets : Counter(now + i * Period) = Counter(made)

\* Clock drift and typing time together may come to Period either way; twice
\* Period is always too much.
InWindow(made, now) ==
    /\ made - now \in -Period..Period => ValidateCode(made, now)
    /\ ValidateCode(made, now) => made - now \in (1 - 2 * Period)..(2 * Period - 1)
================================================================================
