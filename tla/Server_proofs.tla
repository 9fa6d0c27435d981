------------------------------ MODULE Server_proofs -------------------------------
(***************************************************************************)
(* Theorems about Server, for any number of requests and clients and any   *)
(* limit: what is open when, what the gauge shows, and that the process    *)
(* implements the limiter it is built on.                                  *)
(***************************************************************************)
EXTENDS Server, RateLimiter_proofs, FiniteSetTheorems

\* Every step of the process is one of the limiter or leaves it alone.
LEMMA StepOfLimiter == [Next]_serverVars => [LimiterNext]_limiterVars
  <1> SUFFICES ASSUME [Next]_serverVars PROVE [LimiterNext]_limiterVars
    OBVIOUS
  <1> USE DEF limiterVars, GoesTo, Exits
  <1>1. CASE UNCHANGED serverVars
    BY <1>1 DEF serverVars
  <1>2. CASE Migrate \/ MigrateFails \/ Connecting
    BY <1>2 DEF Migrate, MigrateFails, Connecting, ConnectPostgres, ConnectRedis, ConnectFails
  <1>3. CASE GoListen \/ Listens \/ ListenFails \/ Notify
    BY <1>3 DEF GoListen, Listens, ListenFails, Notify
  <1>4. CASE Signal \/ Killed \/ Stopping \/ Restart
    BY <1>4 DEF Signal, Killed, Stopping, Restart, DrainEnds, DrainTimesOut, CloseRedis,
                ClosePostgres, MainReturns
  <1>5. ASSUME NEW w \in Requests,
               \/ Arrives(w) \/ LimiterDecides(w) \/ LimiterLosesAnswer(w)
               \/ HandlerReturns(w) \/ HandlerPanics(w)
        PROVE  [LimiterNext]_limiterVars
    <2>1. Origin[w] \in Clients
      BY RequestsHaveOrigins
    <2>2. CASE LimiterAdmits(w) \/ LimiterLosesAnswer(w)
      BY <2>1, <2>2 DEF LimiterAdmits, LimiterLosesAnswer, LimiterNext
    <2>3. CASE LimiterRefuses(w) \/ LimiterFails(w)
      BY <2>3 DEF LimiterRefuses, LimiterFails
    <2>4. CASE Arrives(w) \/ HandlerReturns(w) \/ HandlerPanics(w)
      BY <2>4 DEF Arrives, HandlerReturns, HandlerPanics, Leaves
    <2> QED
      BY <1>5, <2>2, <2>3, <2>4 DEF LimiterDecides
  <1>6. CASE RedisChanges
    BY <1>6 DEF RedisChanges
  <1>7. CASE TimePasses
    BY <1>7 DEF TimePasses, LimiterNext
  <1> QED
    BY <1>1, <1>2, <1>3, <1>4, <1>5, <1>6, <1>7 DEF Next

\* The process implements the rate limiter's own specification: what is proved
\* of the limiter holds of it.
THEOREM ServerImplementsLimiter == Spec => LimiterSpec
  <1>1. Init => LimiterInit
    BY DEF Init
  <1> QED
    BY <1>1, StepOfLimiter, PTL DEF Spec, LimiterSpec

\* The burst bound in the composition: AtMostTwiceTheLimit through starts,
\* stops, lost answers and errors that let requests through.
THEOREM ServerBurstBound == Spec => AtMostTwiceTheLimit
  <1> QED
    BY ServerImplementsLimiter, BurstBound, PTL

\* Refusals are deserved in the composition: BlockedOnlyAfterLimit.
THEOREM ServerRefusalsDeserved == Spec => []BlockedOnlyAfterLimit
  <1> QED
    BY ServerImplementsLimiter, RefusalsDeserved, PTL

-----------------------------------------------------------------------------

\* Types and phases, without the limiter and the gauge.
LifeInv ==
    /\ phase \in Phases
    /\ listener \in {"none", "started", "open", "closed"}
    /\ pools \subseteq Pools
    /\ at \in [Requests -> Stages]
    /\ redisUp \in BOOLEAN
    /\ PoolsFollowPhase /\ ListenerFollowsPhase /\ OnlyWhileServing

\* The process starts with nothing open and nothing in flight.
LEMMA LifeStarts == Init => LifeInv
  BY DEF Init, LifeInv, Phases, Pools, Stages, PoolsFollowPhase, ListenerFollowsPhase,
         OnlyWhileServing, InFlight

\* An exit, wherever main stood, leaves nothing open.
LEMMA ExitKeeps == ASSUME LifeInv, Exits PROVE LifeInv'
  <1>1. InFlight' = {}
    BY DEF Exits, InFlight
  <1> QED
    BY <1>1 DEF Exits, LifeInv, Phases, Pools, Stages, PoolsFollowPhase, ListenerFollowsPhase,
                OnlyWhileServing

\* A step of main keeps what is open in line with where it stands.
LEMMA MainKeeps ==
  ASSUME LifeInv,
         \/ Migrate \/ ConnectPostgres \/ ConnectRedis \/ GoListen \/ Listens \/ Notify
         \/ Signal \/ DrainEnds \/ CloseRedis \/ ClosePostgres \/ Restart
  PROVE  LifeInv'
  <1>1. InFlight' = InFlight /\ at' = at
    BY DEF Migrate, ConnectPostgres, ConnectRedis, GoListen, Listens, Notify, Signal,
           DrainEnds, CloseRedis, ClosePostgres, Restart, GoesTo, InFlight
  <1> USE <1>1 DEF LifeInv, Phases, Pools, PoolsFollowPhase, ListenerFollowsPhase,
                   OnlyWhileServing, GoesTo
  <1>2. CASE Migrate \/ ConnectPostgres \/ ConnectRedis
    BY <1>2 DEF Migrate, ConnectPostgres, ConnectRedis
  <1>3. CASE GoListen \/ Listens \/ Notify
    BY <1>3 DEF GoListen, Listens, Notify
  <1>4. CASE Signal \/ DrainEnds
    BY <1>4 DEF Signal, DrainEnds
  <1>5. CASE CloseRedis \/ ClosePostgres \/ Restart
    BY <1>5 DEF CloseRedis, ClosePostgres, Restart
  <1> QED
    BY <1>2, <1>3, <1>4, <1>5

\* A step of a request leaves the process as it is, and only a serving process
\* has one.
LEMMA RequestKeeps ==
  ASSUME LifeInv, NEW w \in Requests,
         \/ Arrives(w) \/ LimiterDecides(w) \/ LimiterLosesAnswer(w)
         \/ HandlerReturns(w) \/ HandlerPanics(w)
  PROVE  LifeInv'
  <1>1. UNCHANGED <<lifeVars, redisUp>>
    BY DEF Arrives, LimiterDecides, LimiterAdmits, LimiterRefuses, LimiterFails,
           LimiterLosesAnswer, HandlerReturns, HandlerPanics, Enters, Leaves, lifeVars
  <1>2. phase \in {"notify", "serve", "drain"}
    <2>1. CASE Arrives(w)
      BY <2>1 DEF Arrives, LifeInv, ListenerFollowsPhase, Phases
    <2>2. CASE ~Arrives(w)
      <3>1. at[w] # "idle"
        BY <2>2 DEF LimiterDecides, LimiterAdmits, LimiterRefuses, LimiterFails,
                    LimiterLosesAnswer, HandlerReturns, HandlerPanics, Leaves
      <3> QED
        BY <3>1 DEF LifeInv, OnlyWhileServing, InFlight
    <2> QED
      BY <2>1, <2>2
  <1>3. at' \in [Requests -> Stages]
    BY DEF LifeInv, Stages, Arrives, LimiterDecides, LimiterAdmits, LimiterRefuses,
           LimiterFails, LimiterLosesAnswer, HandlerReturns, HandlerPanics, Enters, Leaves
  <1> QED
    BY <1>1, <1>2, <1>3 DEF LifeInv, lifeVars, PoolsFollowPhase, ListenerFollowsPhase,
                            OnlyWhileServing

\* Every step keeps pools, listener and requests in line with main's position.
LEMMA LifeStep == LifeInv /\ [Next]_serverVars => LifeInv'
  <1> SUFFICES ASSUME LifeInv, [Next]_serverVars PROVE LifeInv'
    OBVIOUS
  <1>1. CASE UNCHANGED serverVars
    BY <1>1 DEF serverVars, LifeInv, PoolsFollowPhase, ListenerFollowsPhase, OnlyWhileServing,
                InFlight
  <1>2. CASE \/ MigrateFails \/ ConnectFails \/ ListenFails \/ Killed \/ DrainTimesOut
             \/ MainReturns
    BY <1>2, ExitKeeps DEF MigrateFails, ConnectFails, ListenFails, Killed, DrainTimesOut,
                           MainReturns
  <1>3. CASE \/ Migrate \/ ConnectPostgres \/ ConnectRedis \/ GoListen \/ Listens \/ Notify
             \/ Signal \/ DrainEnds \/ CloseRedis \/ ClosePostgres \/ Restart
    BY <1>3, MainKeeps
  <1>4. CASE \E w \in Requests : \/ Arrives(w) \/ LimiterDecides(w) \/ LimiterLosesAnswer(w)
                                 \/ HandlerReturns(w) \/ HandlerPanics(w)
    BY <1>4, RequestKeeps
  <1>5. CASE RedisChanges \/ TimePasses
    BY <1>5 DEF RedisChanges, TimePasses, lifeVars, LifeInv, PoolsFollowPhase,
                ListenerFollowsPhase, OnlyWhileServing, InFlight
  <1> QED
    BY <1>1, <1>2, <1>3, <1>4, <1>5 DEF Next, Connecting, Stopping

\* Requests in flight find both pools open, whatever main does: RequestsHavePools.
THEOREM PoolsOutliveRequests == Spec => []RequestsHavePools
  <1>1. LifeInv => RequestsHavePools
    BY DEF LifeInv, PoolsFollowPhase, OnlyWhileServing, RequestsHavePools
  <1> QED
    BY <1>1, LifeStarts, LifeStep, PTL DEF Spec

-----------------------------------------------------------------------------

\* A request that enters is one more behind the limiter, one that leaves one less.
LEMMA GaugeStep ==
  LifeInv /\ GaugeIsExact /\ [Next]_serverVars => GaugeIsExact'
  <1> SUFFICES ASSUME LifeInv, GaugeIsExact, [Next]_serverVars PROVE GaugeIsExact'
    OBVIOUS
  <1>1. IsFiniteSet(Behind)
    BY RequestsHaveOrigins, FS_Subset DEF Behind
  <1>2. CASE at' = at /\ gauge' = gauge
    BY <1>2 DEF GaugeIsExact, Behind
  <1>3. CASE Exits
    <2>1. Behind' = {}
      BY <1>3 DEF Exits, Behind
    <2> QED
      BY <1>3, <2>1, FS_EmptySet DEF Exits, GaugeIsExact
  <1>4. ASSUME NEW w \in Requests, Enters(w), at[w] = "limiter" PROVE GaugeIsExact'
    <2>1. Behind' = Behind \cup {w} /\ w \notin Behind
      BY <1>4 DEF Enters, Behind, LifeInv
    <2>2. Cardinality(Behind \cup {w}) = Cardinality(Behind) + 1
      BY <1>1, <2>1, FS_AddElement
    <2> QED
      BY <1>4, <2>1, <2>2 DEF Enters, GaugeIsExact
  <1>5. ASSUME NEW w \in Requests, Leaves(w), gauge' = gauge - 1 PROVE GaugeIsExact'
    <2>1. Behind' = Behind \ {w} /\ w \in Behind
      BY <1>5 DEF Leaves, Behind, LifeInv
    <2>2. Cardinality(Behind \ {w}) = Cardinality(Behind) - 1
      BY <1>1, <2>1, FS_RemoveElement
    <2> QED
      BY <1>5, <2>1, <2>2 DEF GaugeIsExact
  <1>6. ASSUME NEW w \in Requests, Arrives(w) \/ LimiterRefuses(w) PROVE GaugeIsExact'
    <2>1. Behind' = Behind
      BY <1>6 DEF Arrives, LimiterRefuses, Behind, LifeInv
    <2> QED
      BY <1>6, <2>1 DEF Arrives, LimiterRefuses, GaugeIsExact
  <1>7. CASE UNCHANGED serverVars
    BY <1>2, <1>7 DEF serverVars
  <1>8. CASE Migrate \/ MigrateFails \/ Connecting
    BY <1>2, <1>3, <1>8 DEF Migrate, MigrateFails, Connecting, ConnectPostgres, ConnectRedis,
                            ConnectFails, GoesTo
  <1>9. CASE GoListen \/ Listens \/ ListenFails \/ Notify
    BY <1>2, <1>3, <1>9 DEF GoListen, Listens, ListenFails, Notify, GoesTo
  <1>10. CASE Signal \/ Killed \/ Stopping \/ Restart
    BY <1>2, <1>3, <1>10 DEF Signal, Killed, Stopping, Restart, DrainEnds, DrainTimesOut,
                             CloseRedis, ClosePostgres, MainReturns, GoesTo
  <1>11. ASSUME NEW w \in Requests,
                \/ Arrives(w) \/ LimiterDecides(w) \/ LimiterLosesAnswer(w)
                \/ HandlerReturns(w) \/ HandlerPanics(w)
         PROVE  GaugeIsExact'
    <2>1. CASE LimiterAdmits(w) \/ LimiterFails(w)
      BY <1>4, <2>1 DEF LimiterAdmits, LimiterFails
    <2>2. CASE HandlerReturns(w) \/ HandlerPanics(w)
      BY <1>5, <2>2 DEF HandlerReturns, HandlerPanics
    <2>3. CASE LimiterLosesAnswer(w)
      BY <1>2, <2>3 DEF LimiterLosesAnswer
    <2> QED
      BY <1>6, <1>11, <2>1, <2>2, <2>3 DEF LimiterDecides
  <1>12. CASE RedisChanges \/ TimePasses
    BY <1>2, <1>12 DEF RedisChanges, TimePasses
  <1> QED
    BY <1>7, <1>8, <1>9, <1>10, <1>11, <1>12 DEF Next

\* http_active_requests never drifts: GaugeIsExact, for any number of requests.
THEOREM GaugeExact == Spec => []GaugeIsExact
  <1>1. Init => GaugeIsExact
    <2> SUFFICES ASSUME Init PROVE GaugeIsExact
      OBVIOUS
    <2>1. Behind = {}
      BY DEF Init, Behind
    <2> QED
      BY <2>1, FS_EmptySet DEF Init, GaugeIsExact
  <1> QED
    BY <1>1, LifeStarts, LifeStep, GaugeStep, PTL DEF Spec

\* The invariant of the composition: types, the limiter's invariant, what is
\* open in which phase, and the gauge.
THEOREM ServerInvariant == Spec => []ServerIInv
  <1>1. IsFiniteSet(Behind)
    BY RequestsHaveOrigins, FS_Subset DEF Behind
  <1>2. LimiterIInv /\ LifeInv /\ GaugeIsExact => ServerIInv
    BY <1>1, FS_CardinalityType DEF ServerIInv, LifeInv, ServerTypeOK, LimiterIInv, GaugeIsExact
  <1>3. Spec => []LifeInv
    BY LifeStarts, LifeStep, PTL DEF Spec
  <1> QED
    BY <1>2, <1>3, GaugeExact, ServerImplementsLimiter, LimiterInvariant, PTL
================================================================================
