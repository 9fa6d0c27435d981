------------------------------ MODULE TokenLifecycle ------------------------------
(***************************************************************************)
(* What a client may rely on about the opaque tokens of the service        *)
(* (refresh tokens, MFA challenges, mailed tokens, OAuth states), as the   *)
(* SessionRepository interface of internal/repository/redis and its        *)
(* callers together provide it: no requests, no store calls, no failures   *)
(* in sight.  A token is told once, lives at most once, and a session is   *)
(* exchanged for a token that is dead by then.                             *)
(***************************************************************************)
CONSTANTS Tokens, Grant, Nil

VARIABLES
    grant,   \* what clients were told about each token: kind, owner, from
    alive    \* the tokens the service would take

lifecycleVars == <<grant, alive>>

Init == grant = [t \in Tokens |-> Nil] /\ alive = {}

\* A session in exchange for another token continues for the owner of that
\* token, or starts for whoever the provider named; the token is used up.
Exchangeable(g) ==
    /\ g.kind = "refresh_token"
    /\ g.from \notin alive
    /\ grant[g.from] # Nil
    /\ \/ grant[g.from].kind = "oauth_state"
       \/ /\ grant[g.from].kind \in {"refresh_token", "mfa_challenge"}
          /\ grant[g.from].owner = g.owner

\* Sessions and OAuth states are told if they are stored, the others anyway.
Tell(t, g) ==
    /\ grant[t] = Nil
    /\ g.from # Nil => Exchangeable(g)
    /\ grant' = [grant EXCEPT ![t] = g]
    /\ \/ alive' = alive \cup {t}
       \/ g.kind \notin {"refresh_token", "oauth_state"} /\ alive' = alive

\* Used, revoked or expired.
End == alive' \in SUBSET alive /\ UNCHANGED grant

Next == End \/ \E t \in Tokens, g \in Grant : Tell(t, g)

Spec == Init /\ [][Next]_lifecycleVars
================================================================================
