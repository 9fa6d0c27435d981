----------------------------- MODULE MCAuthService ------------------------------
(***************************************************************************)
(* Small instances of AuthService for TLC.                                 *)
(***************************************************************************)
EXTENDS AuthService, TLC

CONSTANTS alice, bob,          \* ids
          acme,                \* the tenant
          e1, E1, e2,          \* addresses; E1 is e1 as typed with capitals
          p1, s1,
          google, sub          \* a provider, and an id it knows someone by

Account(email, password, mfaOn, secret, verified) ==
    [tenant |-> acme, email |-> email, password |-> password, active |-> TRUE,
     mfaOn |-> mfaOn, secret |-> secret, verified |-> verified, oauth |-> Nil]

MCClean == [e \in Emails |-> IF e = E1 THEN e1 ELSE e]

\* alice signs in with her password, bob is asked for a code as well.
AliceAndBob == [u \in Users |->
    IF u = alice THEN Account(e1, p1, FALSE, Nil, TRUE)
    ELSE IF u = bob THEN Account(e2, p1, TRUE, s1, TRUE) ELSE Nil]

\* alice alone, not verified; other ids are there for new accounts.
AliceOnly == [u \in Users |-> IF u = alice THEN Account(e1, p1, FALSE, Nil, FALSE) ELSE Nil]

\* alice alone, who has set up MFA and is yet to confirm it.
EnrollingAlice == [u \in Users |-> IF u = alice THEN Account(e1, p1, FALSE, s1, TRUE) ELSE Nil]

\* alice alone, who came by social login.
SocialAlice == [u \in Users |->
    IF u = alice
    THEN [Account(e1, Nil, FALSE, Nil, TRUE) EXCEPT !.oauth = <<google, sub>>]
    ELSE Nil]

\* bob alone, with MFA on.
BobOnly == [u \in Users |-> IF u = bob THEN Account(e1, p1, TRUE, s1, TRUE) ELSE Nil]

Symmetry == Permutations(Workers) \cup Permutations(Tokens)

\* Nor do ids of accounts still to come differ.
SymmetryOfNewcomers == Symmetry \cup Permutations(Users \ {alice})
================================================================================
