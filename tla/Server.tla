---------------------------------- MODULE Server ----------------------------------
(***************************************************************************)
(* One process of the service: how main (cmd/server/main.go) starts it,    *)
(* drains it and ends it, and the way of a request through the middlewares *)
(* (internal/delivery/http/router.go) while it lives.  What a handler does *)
(* to the stores is AuthService; here it is a request "in the handler".    *)
(***************************************************************************)
EXTENDS RateLimiter, FiniteSets

CONSTANTS
    Requests,   \* requests the process may be serving at once
    Origin      \* the address each of them comes from

ASSUME RequestsHaveOrigins == IsFiniteSet(Requests) /\ Origin \in [Requests -> Clients]

\* Where main stands: what it does next or, in "serve" and "drain", waits for.
Phases == {"migrate", "postgres", "redis", "listen", "notify", "serve", "drain", "close", "exited"}

Stages == {"idle", "limiter", "handler"}

Pools == {"postgres", "redis"}

VARIABLES
    phase,     \* main's position
    listener,  \* "none", "started" (the goroutine), "open", "closed" (Shutdown was called)
    pools,     \* connection pools the process has open
    at,        \* where each request is
    gauge,     \* http_active_requests
    redisUp    \* Redis answers

lifeVars == <<phase, listener, pools>>

serverVars == <<counter, ttl, age, phase, listener, pools, at, gauge, redisUp>>

Init ==
    /\ LimiterInit
    /\ phase = "migrate" /\ listener = "none" /\ pools = {}
    /\ at = [w \in Requests |-> "idle"]
    /\ gauge = 0
    /\ redisUp \in BOOLEAN

InFlight == {w \in Requests : at[w] # "idle"}

\* What the gauge is to count.
Behind == {w \in Requests : at[w] = "handler"}

(***************************************************************************)
(* Start.  zap's Fatal is os.Exit: the deferred Closes do not run, and     *)
(* what was in flight is cut off.                                          *)
(***************************************************************************)
Exits ==
    /\ phase' = "exited" /\ listener' = "none" /\ pools' = {}
    /\ at' = [w \in Requests |-> "idle"]
    /\ gauge' = 0
    /\ UNCHANGED <<limiterVars, redisUp>>

GoesTo(p) == phase' = p /\ UNCHANGED <<limiterVars, at, gauge, redisUp>>

\* Migrations run before anything else, outside the 10 s of the start context.
Migrate == phase = "migrate" /\ GoesTo("postgres") /\ UNCHANGED <<listener, pools>>

MigrateFails == phase = "migrate" /\ Exits

\* NewPostgresPool and NewRedisClient ping before they return.
ConnectPostgres ==
    phase = "postgres" /\ GoesTo("redis") /\ pools' = pools \cup {"postgres"} /\ UNCHANGED listener

\* Mutant of ConnectRedis: the client is handed out without a ping.
ConnectRedisLater ==
    phase = "redis" /\ GoesTo("listen") /\ UNCHANGED <<pools, listener>>

ConnectRedis ==
    /\ phase = "redis" /\ redisUp
    /\ GoesTo("listen") /\ pools' = pools \cup {"redis"} /\ UNCHANGED listener

\* Mutant of ConnectFails: no deadline for Redis.
ConnectFailsEarly == phase = "postgres" /\ Exits

\* Refused, or the start context is over: Fatal.
ConnectFails == phase \in {"postgres", "redis"} /\ Exits

\* The goroutine of ListenAndServe; signals are asked for only after it.
GoListen == phase = "listen" /\ GoesTo("notify") /\ listener' = "started" /\ UNCHANGED pools

Listens == listener = "started" /\ listener' = "open" /\ GoesTo(phase) /\ UNCHANGED pools

\* A port in use, or Accept gives up: Fatal in the goroutine, whatever main does.
ListenFails == listener \in {"started", "open"} /\ Exits

Notify == phase = "notify" /\ GoesTo("serve") /\ UNCHANGED <<listener, pools>>

(***************************************************************************)
(* Stop.                                                                   *)
(***************************************************************************)

\* SIGINT or SIGTERM once main waits for it: Shutdown closes the listener, or
\* keeps ListenAndServe from opening it.  Later signals stay in the channel.
Signal == phase = "serve" /\ GoesTo("drain") /\ listener' = "closed" /\ UNCHANGED pools

\* SIGKILL, a crash, or a signal before signal.Notify.
Killed == phase # "exited" /\ Exits

\* Mutant of DrainEnds: main does not wait for Shutdown.
DrainEndsAtOnce == phase = "drain" /\ GoesTo("close") /\ UNCHANGED <<listener, pools>>

\* Shutdown returns once no connection is active.
DrainEnds == phase = "drain" /\ InFlight = {} /\ GoesTo("close") /\ UNCHANGED <<listener, pools>>

\* Mutant of DrainTimesOut: Shutdown gets a context without the 15 s.
DrainNeverTimesOut == FALSE

\* 15 s are over: Fatal, even if the last request ended just now.
DrainTimesOut == phase = "drain" /\ Exits

\* The deferred Closes, last opened first; the pool's waits for its connections.
CloseRedis ==
    phase = "close" /\ "redis" \in pools /\ GoesTo("close") /\ pools' = pools \ {"redis"}
    /\ UNCHANGED listener

ClosePostgres ==
    /\ phase = "close" /\ pools = {"postgres"}
    /\ Behind = {}
    /\ GoesTo("close") /\ pools' = {} /\ UNCHANGED listener

MainReturns == phase = "close" /\ pools = {} /\ Exits

\* The supervisor starts the process again (restart: unless-stopped).
Restart == phase = "exited" /\ GoesTo("migrate") /\ UNCHANGED <<listener, pools>>

(***************************************************************************)
(* Requests.  OPTIONS is answered in front of the limiter and leaves no    *)
(* trace; the gauge is behind it.                                          *)
(***************************************************************************)

\* On a new connection, or, while Shutdown starts, on one kept alive.
Arrives(w) ==
    /\ at[w] = "idle"
    /\ listener = "open" \/ phase = "drain"
    /\ at' = [at EXCEPT ![w] = "limiter"]
    /\ UNCHANGED <<limiterVars, lifeVars, gauge, redisUp>>

\* Behind the limiter: the gauge's Inc, and on to the handler.
Enters(w) ==
    /\ at' = [at EXCEPT ![w] = "handler"]
    /\ gauge' = gauge + 1
    /\ UNCHANGED <<lifeVars, redisUp>>

LimiterAdmits(w) ==
    /\ at[w] = "limiter" /\ redisUp
    /\ Allowed(Origin[w]) /\ Charge(Origin[w])
    /\ Enters(w)

\* 429: neither logged nor counted, the middlewares that do so are behind.
LimiterRefuses(w) ==
    /\ at[w] = "limiter" /\ redisUp /\ Blocked(Origin[w])
    /\ at' = [at EXCEPT ![w] = "idle"]
    /\ UNCHANGED <<limiterVars, lifeVars, gauge, redisUp>>

\* The script ran and its answer was lost: go-redis runs it again, or gives up.
LimiterLosesAnswer(w) ==
    /\ at[w] = "limiter" /\ redisUp
    /\ Allowed(Origin[w]) /\ Charge(Origin[w])
    /\ UNCHANGED <<lifeVars, at, gauge, redisUp>>

\* Mutant of LimiterFails: a limiter that waits for Redis.
LimiterWaits(w) == at[w] = "limiter" /\ redisUp /\ Enters(w) /\ UNCHANGED limiterVars

\* Any error of the script, a time-out included, lets the request through.
LimiterFails(w) == at[w] = "limiter" /\ Enters(w) /\ UNCHANGED limiterVars

Leaves(w) ==
    /\ at[w] = "handler"
    /\ at' = [at EXCEPT ![w] = "idle"]
    /\ UNCHANGED <<limiterVars, lifeVars, redisUp>>

HandlerReturns(w) == Leaves(w) /\ gauge' = gauge - 1

\* Mutant of HandlerPanics: Dec after the handler instead of deferred.
PanicWithoutDec(w) == Leaves(w) /\ UNCHANGED gauge

\* TrackRequest panics on a path that is no UTF-8 (WithLabelValues), after the
\* handler answered; the deferred Dec runs and net/http recovers.
HandlerPanics(w) == Leaves(w) /\ gauge' = gauge - 1

RedisChanges ==
    redisUp' = ~redisUp /\ UNCHANGED <<limiterVars, lifeVars, at, gauge>>

TimePasses == Tick /\ UNCHANGED <<lifeVars, at, gauge, redisUp>>

Connecting == ConnectPostgres \/ ConnectRedis \/ ConnectFails

Stopping == DrainEnds \/ DrainTimesOut \/ CloseRedis \/ ClosePostgres \/ MainReturns

LimiterDecides(w) == LimiterAdmits(w) \/ LimiterRefuses(w) \/ LimiterFails(w)

Next ==
    \/ Migrate \/ MigrateFails \/ Connecting
    \/ GoListen \/ Listens \/ ListenFails \/ Notify
    \/ Signal \/ Killed \/ Stopping \/ Restart
    \/ \E w \in Requests : \/ Arrives(w) \/ LimiterDecides(w) \/ LimiterLosesAnswer(w)
                           \/ HandlerReturns(w) \/ HandlerPanics(w)
    \/ RedisChanges \/ TimePasses

\* Redis's clock runs; connecting, the script and Shutdown each have a deadline.
\* Handlers get no fairness: nothing bounds a query PostgreSQL does not answer.
Fairness ==
    /\ WF_serverVars(TimePasses)
    /\ WF_serverVars(Connecting) /\ WF_serverVars(Stopping)
    /\ \A w \in Requests : WF_serverVars(LimiterDecides(w))

Spec == Init /\ [][Next]_serverVars /\ Fairness

ServerTypeOK ==
    /\ LimiterTypeOK
    /\ phase \in Phases
    /\ listener \in {"none", "started", "open", "closed"}
    /\ pools \subseteq Pools
    /\ at \in [Requests -> Stages]
    /\ gauge \in Nat
    /\ redisUp \in BOOLEAN

\* Whatever main has reached, every request in flight has both pools to work
\* with: none arrives before they are up, and the deferred Closes come after
\* the last one, whether it was there before the signal or came during the drain.
RequestsHavePools == InFlight # {} => pools = Pools

\* http_active_requests is the number of requests behind the limiter, over any
\* number of refusals, panics and restarts: a gauge that drifts never recovers.
GaugeIsExact == gauge = Cardinality(Behind)

\* A client that used up its limit is let in again (a key without TTL would
\* keep it out for ever).
LetInAgain == \A c \in Clients : Blocked(c) ~> ~Blocked(c)

\* The limiter holds no request, even if Redis never answers again.
LimiterNeverHolds == \A w \in Requests : at[w] = "limiter" ~> at[w] # "limiter"

\* A start comes to a decision, even if a store never answers ...
StartSettles == phase \in {"postgres", "redis"} ~> phase \notin {"postgres", "redis"}

\* ... and a stop ends the process, even if a handler never returns.
StopSettles == phase = "drain" ~> phase = "exited"

(***************************************************************************)
(* The inductive invariant: what is open in which phase.                   *)
(***************************************************************************)
PoolsFollowPhase ==
    /\ phase \in {"migrate", "postgres", "exited"} => pools = {}
    /\ phase = "redis" => pools = {"postgres"}
    /\ phase \in {"listen", "notify", "serve", "drain"} => pools = Pools
    /\ phase = "close" => InFlight = {}

ListenerFollowsPhase ==
    /\ phase \in {"migrate", "postgres", "redis", "listen", "exited"} => listener = "none"
    /\ phase \in {"notify", "serve"} => listener \in {"started", "open"}
    /\ phase \in {"drain", "close"} => listener = "closed"

OnlyWhileServing == InFlight # {} => phase \in {"notify", "serve", "drain"}

ServerIInv ==
    LimiterIInv /\ ServerTypeOK /\ PoolsFollowPhase /\ ListenerFollowsPhase
    /\ OnlyWhileServing /\ GaugeIsExact
================================================================================
