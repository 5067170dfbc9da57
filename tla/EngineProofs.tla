---------------------------- MODULE EngineProofs ----------------------------
(* Proofs about Engine for any set of networks and any bounds. *)
EXTENDS Engine, TLAPS, SequenceTheorems

\* A generation is active only after it was started, and only an active one can
\* have been told to stop.
ActiveWasStarted ==
  /\ active < nextGeneration
  /\ stopRequested => active # NoGeneration

\* The inductive invariant.  NeverIdleWhileWanted is not a part of it: it follows
\* from RetryIffBackoff and TruthfulState.
EngineInv ==
  /\ EngineTypeOK
  /\ ActiveWasStarted
  /\ RetryIffBackoff
  /\ UnwantedIsStopping
  /\ TruthfulState
  /\ RetryDelayFollowsFailures

-----------------------------------------------------------------------------
\* Every delay is one of the five steps of the doubling, capped at two minutes.
LEMMA NextDelaySteps ==
  ASSUME NEW n \in Nat \ {0}
  PROVE  NextDelay(n) \in {10, 20, 40, 80, 120}
<1> DEFINE k == LeastOf(n - 1, 4)
           step == <<1, 2, 4, 8, 16>>[k + 1]
<1>1. k \in {0, 1, 2, 3, 4}
  BY DEF LeastOf
<1>2. step \in {1, 2, 4, 8, 16}
  BY <1>1
<1>3. NextDelay(n) = LeastOf(120, 10 * step)
  BY DEF NextDelay
<1> HIDE DEF step
<1> QED
  BY <1>2, <1>3 DEF LeastOf

\* record_exit keeps the counter in range and arms the delay of the new count.
LEMMA RecordExitArms ==
  ASSUME EngineTypeOK,
         NEW returnCode \in Int, NEW runtime \in Int,
         RecordExit(returnCode, runtime)
  PROVE  /\ failures' \in 0 .. MaxFailures
         /\ pendingRetry' \in {10, 20, 40, 80, 120}
         /\ RetryDelayFollowsFailures'
<1>1. failures' \in 0 .. MaxFailures
  BY EngineAssumption DEF RecordExit, FailuresAfter, LeastOf, EngineTypeOK
<1> DEFINE n == IF failures' = 0 THEN 1 ELSE failures'
<1>2. n \in Nat \ {0}
  BY <1>1, EngineAssumption
<1>3. pendingRetry' = NextDelay(n)
  BY DEF RecordExit
<1> QED
  BY <1>1, <1>2, <1>3, NextDelaySteps DEF RetryDelayFollowsFailures, NoRetry, NextDelay, LeastOf

-----------------------------------------------------------------------------
\* A new engine satisfies the inductive invariant.
LEMMA EngineInvInit == Init => EngineInv
<1> SUFFICES ASSUME Init PROVE EngineInv
  OBVIOUS
<1>1. EngineTypeOK
  <2>1. state \in VpnStates
    BY DEF Init, VpnStates
  <2>2. active = 0 /\ nextGeneration = 1 /\ pendingRetry = 0 /\ failures = 0
    BY DEF Init, NoGeneration, NoRetry
  <2>3. automatic \in BOOLEAN /\ reconnectImmediately \in BOOLEAN /\ stopRequested \in BOOLEAN
    BY DEF Init
  <2> QED
    BY <2>1, <2>2, <2>3, EngineAssumption DEF Init, EngineTypeOK, NoGeneration, NoRetry
<1>2. ActiveWasStarted /\ UnwantedIsStopping
  BY DEF Init, ActiveWasStarted, UnwantedIsStopping, NoGeneration
<1>3. RetryIffBackoff /\ RetryDelayFollowsFailures
  BY DEF Init, RetryIffBackoff, RetryDelayFollowsFailures
<1>4. TruthfulState
  BY DEF Init, TruthfulState
<1> QED
  BY <1>1, <1>2, <1>3, <1>4 DEF EngineInv

-----------------------------------------------------------------------------
\* The two counters, apart from the rest: a step starts the next generation, or
\* keeps the active one, or forgets it.
GenerationsOK ==
  /\ active \in Generations \cup {NoGeneration}
  /\ nextGeneration \in 1 .. MaxGeneration + 1
  /\ active < nextGeneration

GenerationStep ==
  \/ /\ nextGeneration <= MaxGeneration
     /\ active' = nextGeneration
     /\ nextGeneration' = nextGeneration + 1
  \/ active' \in {active, NoGeneration} /\ nextGeneration' = nextGeneration

\* A step of the generations keeps them in range and in order.
LEMMA GenerationsKept ==
  ASSUME EngineInv, GenerationStep
  PROVE  GenerationsOK'
<1>1. GenerationsOK
  BY DEF EngineInv, EngineTypeOK, ActiveWasStarted, GenerationsOK
<1> QED
  BY <1>1, EngineAssumption DEF GenerationStep, GenerationsOK, Generations, NoGeneration

\* The other types, those no arithmetic is needed for.
PlainTypes ==
  /\ state \in VpnStates
  /\ automatic \in BOOLEAN
  /\ network \in Networks \cup {NoNetwork}
  /\ pendingRetry \in {NoRetry, 10, 20, 40, 80, 120}
  /\ reconnectImmediately \in BOOLEAN
  /\ failures \in 0 .. MaxFailures
  /\ stopRequested \in BOOLEAN

-----------------------------------------------------------------------------
\* One lemma per event: handling it preserves the invariant.

\* enable_and_connect keeps the invariant.
LEMMA ConnectRequestedStep ==
  ASSUME EngineInv, ConnectRequested
  PROVE  EngineInv'
<1> USE EngineAssumption
    DEF ConnectRequested, PersistIfNewly, StartConnection, OnlyPublish, Ignore,
        EngineInv, EngineTypeOK, NoGeneration, NoRetry
<1>1. GenerationsOK'
  BY GenerationsKept DEF GenerationStep
<1>2. PlainTypes'
  <2>1. failures' \in 0 .. MaxFailures
    OBVIOUS
  <2>2. state' \in VpnStates
    BY DEF VpnStates
  <2>3. network' \in Networks \cup {NoNetwork}
    OBVIOUS
  <2>4. pendingRetry' \in {0, 10, 20, 40, 80, 120}
    OBVIOUS
  <2>5. /\ automatic' \in BOOLEAN
        /\ reconnectImmediately' \in BOOLEAN
        /\ stopRequested' \in BOOLEAN
    OBVIOUS
  <2> QED
    BY <2>1, <2>2, <2>3, <2>4, <2>5 DEF PlainTypes
<1>3. EngineTypeOK'
  BY <1>1, <1>2 DEF GenerationsOK, PlainTypes
<1>4. ActiveWasStarted'
  <2>1. (stopRequested => active # NoGeneration)'
    BY <1>1 DEF ActiveWasStarted, GenerationsOK, Generations
  <2> QED
    BY <1>1, <2>1 DEF GenerationsOK, ActiveWasStarted
<1>5. RetryIffBackoff'
  BY DEF RetryIffBackoff, ActiveWasStarted, TruthfulState, Generations
<1>6. UnwantedIsStopping'
  BY DEF UnwantedIsStopping, RetryIffBackoff
<1>7. TruthfulState'
  <2>1. CASE active # NoGeneration
    <3>1. UNCHANGED <<state, network, stopRequested>> /\ automatic'
      BY <2>1
    <3>2. state # "Disabled"
      BY <2>1 DEF TruthfulState
    <3> QED
      BY <3>1, <3>2 DEF TruthfulState
  <2>2. CASE active = NoGeneration /\ network # NoNetwork
    BY <2>2 DEF TruthfulState
  <2>3. CASE active = NoGeneration /\ network = NoNetwork
    BY <2>3 DEF TruthfulState
  <2> QED
    BY <2>1, <2>2, <2>3
<1>8. RetryDelayFollowsFailures'
  BY DEF RetryDelayFollowsFailures, RetryIffBackoff
<1> QED
  BY <1>3, <1>4, <1>5, <1>6, <1>7, <1>8 DEF EngineInv

\* disconnect keeps the invariant.
LEMMA DisconnectRequestedStep ==
  ASSUME EngineInv, DisconnectRequested
  PROVE  EngineInv'
<1> USE EngineAssumption
    DEF DisconnectRequested, StopActive, OnlyPublish,
        EngineInv, EngineTypeOK, NoGeneration, NoRetry
<1>1. GenerationsOK'
  BY GenerationsKept DEF GenerationStep
<1>2. PlainTypes'
  <2>1. failures' \in 0 .. MaxFailures
    OBVIOUS
  <2>2. state' \in VpnStates
    BY DEF VpnStates
  <2>3. network' \in Networks \cup {NoNetwork}
    OBVIOUS
  <2>4. pendingRetry' \in {0, 10, 20, 40, 80, 120}
    OBVIOUS
  <2>5. /\ automatic' \in BOOLEAN
        /\ reconnectImmediately' \in BOOLEAN
        /\ stopRequested' \in BOOLEAN
    OBVIOUS
  <2> QED
    BY <2>1, <2>2, <2>3, <2>4, <2>5 DEF PlainTypes
<1>3. EngineTypeOK'
  BY <1>1, <1>2 DEF GenerationsOK, PlainTypes
<1>4. ActiveWasStarted'
  <2>1. (stopRequested => active # NoGeneration)'
    BY <1>1 DEF ActiveWasStarted, GenerationsOK, Generations
  <2> QED
    BY <1>1, <2>1 DEF GenerationsOK, ActiveWasStarted
<1>5. RetryIffBackoff'
  BY DEF RetryIffBackoff, ActiveWasStarted, TruthfulState, Generations
<1>6. UnwantedIsStopping'
  BY DEF UnwantedIsStopping, RetryIffBackoff
<1>7. TruthfulState'
  BY DEF TruthfulState, RetryIffBackoff, UnwantedIsStopping
<1>8. RetryDelayFollowsFailures'
  BY DEF RetryDelayFollowsFailures, RetryIffBackoff
<1> QED
  BY <1>3, <1>4, <1>5, <1>6, <1>7, <1>8 DEF EngineInv

\* reconnect keeps the invariant.
LEMMA ReconnectRequestedStep ==
  ASSUME EngineInv, ReconnectRequested
  PROVE  EngineInv'
<1> USE EngineAssumption
    DEF ReconnectRequested, StartConnection, StopActive, OnlyPublish,
        EngineInv, EngineTypeOK, NoGeneration, NoRetry
<1>1. GenerationsOK'
  BY GenerationsKept DEF GenerationStep
<1>2. PlainTypes'
  <2>1. failures' \in 0 .. MaxFailures
    OBVIOUS
  <2>2. state' \in VpnStates
    BY DEF VpnStates
  <2>3. network' \in Networks \cup {NoNetwork}
    OBVIOUS
  <2>4. pendingRetry' \in {0, 10, 20, 40, 80, 120}
    OBVIOUS
  <2>5. /\ automatic' \in BOOLEAN
        /\ reconnectImmediately' \in BOOLEAN
        /\ stopRequested' \in BOOLEAN
    OBVIOUS
  <2> QED
    BY <2>1, <2>2, <2>3, <2>4, <2>5 DEF PlainTypes
<1>3. EngineTypeOK'
  BY <1>1, <1>2 DEF GenerationsOK, PlainTypes
<1>4. ActiveWasStarted'
  <2>1. (stopRequested => active # NoGeneration)'
    BY <1>1 DEF ActiveWasStarted, GenerationsOK, Generations
  <2> QED
    BY <1>1, <2>1 DEF GenerationsOK, ActiveWasStarted
<1>5. RetryIffBackoff'
  BY DEF RetryIffBackoff, ActiveWasStarted, TruthfulState, Generations
<1>6. UnwantedIsStopping'
  BY DEF UnwantedIsStopping, RetryIffBackoff
<1>7. TruthfulState'
  BY DEF TruthfulState, RetryIffBackoff, UnwantedIsStopping
<1>8. RetryDelayFollowsFailures'
  BY DEF RetryDelayFollowsFailures, RetryIffBackoff
<1> QED
  BY <1>3, <1>4, <1>5, <1>6, <1>7, <1>8 DEF EngineInv

\* network_unavailable keeps the invariant.
LEMMA NetworkUnavailableStep ==
  ASSUME EngineInv, NetworkUnavailable
  PROVE  EngineInv'
<1> USE EngineAssumption
    DEF NetworkUnavailable, Ignore, StopActive, OnlyPublish,
        EngineInv, EngineTypeOK, NoGeneration, NoRetry
<1>1. GenerationsOK'
  BY GenerationsKept DEF GenerationStep
<1>2. PlainTypes'
  <2>1. failures' \in 0 .. MaxFailures
    OBVIOUS
  <2>2. state' \in VpnStates
    BY DEF VpnStates
  <2>3. network' \in Networks \cup {NoNetwork}
    OBVIOUS
  <2>4. pendingRetry' \in {0, 10, 20, 40, 80, 120}
    OBVIOUS
  <2>5. /\ automatic' \in BOOLEAN
        /\ reconnectImmediately' \in BOOLEAN
        /\ stopRequested' \in BOOLEAN
    OBVIOUS
  <2> QED
    BY <2>1, <2>2, <2>3, <2>4, <2>5 DEF PlainTypes
<1>3. EngineTypeOK'
  BY <1>1, <1>2 DEF GenerationsOK, PlainTypes
<1>4. ActiveWasStarted'
  <2>1. (stopRequested => active # NoGeneration)'
    BY <1>1 DEF ActiveWasStarted, GenerationsOK, Generations
  <2> QED
    BY <1>1, <2>1 DEF GenerationsOK, ActiveWasStarted
<1>5. RetryIffBackoff'
  BY DEF RetryIffBackoff, ActiveWasStarted, TruthfulState, Generations
<1>6. UnwantedIsStopping'
  BY DEF UnwantedIsStopping, RetryIffBackoff
<1>7. TruthfulState'
  BY DEF TruthfulState, RetryIffBackoff, UnwantedIsStopping
<1>8. RetryDelayFollowsFailures'
  BY DEF RetryDelayFollowsFailures, RetryIffBackoff
<1> QED
  BY <1>3, <1>4, <1>5, <1>6, <1>7, <1>8 DEF EngineInv

\* network_ready keeps the invariant.
LEMMA NetworkReadyStep ==
  ASSUME EngineInv, NEW n \in Networks, NetworkReady(n)
  PROVE  EngineInv'
<1> USE EngineAssumption
    DEF NetworkReady, NetworkChanged, NetworkConfirmed, Ignore, StopActive,
        StartConnection,
        EngineInv, EngineTypeOK, NoGeneration, NoRetry
<1>1. GenerationsOK'
  BY GenerationsKept DEF GenerationStep
<1>2. PlainTypes'
  <2>1. failures' \in 0 .. MaxFailures
    OBVIOUS
  <2>2. state' \in VpnStates
    BY DEF VpnStates
  <2>3. network' \in Networks \cup {NoNetwork}
    OBVIOUS
  <2>4. pendingRetry' \in {0, 10, 20, 40, 80, 120}
    OBVIOUS
  <2>5. /\ automatic' \in BOOLEAN
        /\ reconnectImmediately' \in BOOLEAN
        /\ stopRequested' \in BOOLEAN
    OBVIOUS
  <2> QED
    BY <2>1, <2>2, <2>3, <2>4, <2>5 DEF PlainTypes
<1>3. EngineTypeOK'
  BY <1>1, <1>2 DEF GenerationsOK, PlainTypes
<1>4. ActiveWasStarted'
  <2>1. (stopRequested => active # NoGeneration)'
    BY <1>1 DEF ActiveWasStarted, GenerationsOK, Generations
  <2> QED
    BY <1>1, <2>1 DEF GenerationsOK, ActiveWasStarted
<1>5. RetryIffBackoff'
  BY DEF RetryIffBackoff, ActiveWasStarted, TruthfulState, Generations
<1>6. UnwantedIsStopping'
  BY DEF UnwantedIsStopping, RetryIffBackoff
<1>7. TruthfulState'
  BY DEF TruthfulState, RetryIffBackoff, UnwantedIsStopping
<1>8. RetryDelayFollowsFailures'
  BY DEF RetryDelayFollowsFailures, RetryIffBackoff
<1> QED
  BY <1>3, <1>4, <1>5, <1>6, <1>7, <1>8 DEF EngineInv

\* connector_connected keeps the invariant.
LEMMA ConnectorConnectedStep ==
  ASSUME EngineInv, NEW g \in Started, ConnectorConnected(g)
  PROVE  EngineInv'
<1> USE EngineAssumption
    DEF ConnectorConnected, Stale, Ignore, OnlyPublish, Started,
        EngineInv, EngineTypeOK, NoGeneration, NoRetry
<1>1. GenerationsOK'
  BY GenerationsKept DEF GenerationStep
<1>2. PlainTypes'
  <2>1. failures' \in 0 .. MaxFailures
    OBVIOUS
  <2>2. state' \in VpnStates
    BY DEF VpnStates
  <2>3. network' \in Networks \cup {NoNetwork}
    OBVIOUS
  <2>4. pendingRetry' \in {0, 10, 20, 40, 80, 120}
    OBVIOUS
  <2>5. /\ automatic' \in BOOLEAN
        /\ reconnectImmediately' \in BOOLEAN
        /\ stopRequested' \in BOOLEAN
    OBVIOUS
  <2> QED
    BY <2>1, <2>2, <2>3, <2>4, <2>5 DEF PlainTypes
<1>3. EngineTypeOK'
  BY <1>1, <1>2 DEF GenerationsOK, PlainTypes
<1>4. ActiveWasStarted'
  <2>1. (stopRequested => active # NoGeneration)'
    BY <1>1 DEF ActiveWasStarted, GenerationsOK, Generations
  <2> QED
    BY <1>1, <2>1 DEF GenerationsOK, ActiveWasStarted
<1>5. RetryIffBackoff'
  BY DEF RetryIffBackoff, ActiveWasStarted, TruthfulState, Generations
<1>6. UnwantedIsStopping'
  BY DEF UnwantedIsStopping, RetryIffBackoff
<1>7. TruthfulState'
  BY DEF TruthfulState, RetryIffBackoff, UnwantedIsStopping
<1>8. RetryDelayFollowsFailures'
  BY DEF RetryDelayFollowsFailures, RetryIffBackoff
<1> QED
  BY <1>3, <1>4, <1>5, <1>6, <1>7, <1>8 DEF EngineInv

\* connector_error keeps the invariant.
LEMMA ConnectorErrorStep ==
  ASSUME EngineInv, NEW g \in Started, ConnectorError(g)
  PROVE  EngineInv'
<1> USE EngineAssumption
    DEF ConnectorError, Stale, Ignore, ForgetActive, Started,
        EngineInv, EngineTypeOK, NoGeneration, NoRetry
<1>1. GenerationsOK'
  BY GenerationsKept DEF GenerationStep
<1>2. PlainTypes'
  <2>1. failures' \in 0 .. MaxFailures
    OBVIOUS
  <2>2. state' \in VpnStates
    BY DEF VpnStates
  <2>3. network' \in Networks \cup {NoNetwork}
    OBVIOUS
  <2>4. pendingRetry' \in {0, 10, 20, 40, 80, 120}
    OBVIOUS
  <2>5. /\ automatic' \in BOOLEAN
        /\ reconnectImmediately' \in BOOLEAN
        /\ stopRequested' \in BOOLEAN
    OBVIOUS
  <2> QED
    BY <2>1, <2>2, <2>3, <2>4, <2>5 DEF PlainTypes
<1>3. EngineTypeOK'
  BY <1>1, <1>2 DEF GenerationsOK, PlainTypes
<1>4. ActiveWasStarted'
  <2>1. (stopRequested => active # NoGeneration)'
    BY <1>1 DEF ActiveWasStarted, GenerationsOK, Generations
  <2> QED
    BY <1>1, <2>1 DEF GenerationsOK, ActiveWasStarted
<1>5. RetryIffBackoff'
  BY DEF RetryIffBackoff, ActiveWasStarted, TruthfulState, Generations
<1>6. UnwantedIsStopping'
  BY DEF UnwantedIsStopping, RetryIffBackoff
<1>7. TruthfulState'
  BY DEF TruthfulState, RetryIffBackoff, UnwantedIsStopping
<1>8. RetryDelayFollowsFailures'
  BY DEF RetryDelayFollowsFailures, RetryIffBackoff
<1> QED
  BY <1>3, <1>4, <1>5, <1>6, <1>7, <1>8 DEF EngineInv

\* retry_elapsed keeps the invariant.
LEMMA RetryElapsedStep ==
  ASSUME EngineInv, RetryElapsed
  PROVE  EngineInv'
<1> USE EngineAssumption
    DEF RetryElapsed, Ignore, StartConnection, OnlyPublish,
        EngineInv, EngineTypeOK, NoGeneration, NoRetry
<1>1. GenerationsOK'
  BY GenerationsKept DEF GenerationStep
<1>2. PlainTypes'
  <2>1. failures' \in 0 .. MaxFailures
    OBVIOUS
  <2>2. state' \in VpnStates
    BY DEF VpnStates
  <2>3. network' \in Networks \cup {NoNetwork}
    OBVIOUS
  <2>4. pendingRetry' \in {0, 10, 20, 40, 80, 120}
    OBVIOUS
  <2>5. /\ automatic' \in BOOLEAN
        /\ reconnectImmediately' \in BOOLEAN
        /\ stopRequested' \in BOOLEAN
    OBVIOUS
  <2> QED
    BY <2>1, <2>2, <2>3, <2>4, <2>5 DEF PlainTypes
<1>3. EngineTypeOK'
  BY <1>1, <1>2 DEF GenerationsOK, PlainTypes
<1>4. ActiveWasStarted'
  <2>1. (stopRequested => active # NoGeneration)'
    BY <1>1 DEF ActiveWasStarted, GenerationsOK, Generations
  <2> QED
    BY <1>1, <2>1 DEF GenerationsOK, ActiveWasStarted
<1>5. RetryIffBackoff'
  BY DEF RetryIffBackoff, ActiveWasStarted, TruthfulState, Generations
<1>6. UnwantedIsStopping'
  BY DEF UnwantedIsStopping, RetryIffBackoff
<1>7. TruthfulState'
  BY DEF TruthfulState, RetryIffBackoff, UnwantedIsStopping
<1>8. RetryDelayFollowsFailures'
  BY DEF RetryDelayFollowsFailures, RetryIffBackoff
<1> QED
  BY <1>3, <1>4, <1>5, <1>6, <1>7, <1>8 DEF EngineInv

\* session_expired keeps the invariant.
LEMMA SessionExpiredStep ==
  ASSUME EngineInv, SessionExpired
  PROVE  EngineInv'
<1> USE EngineAssumption
    DEF SessionExpired, Ignore, StopActive,
        EngineInv, EngineTypeOK, NoGeneration, NoRetry
<1>1. GenerationsOK'
  BY GenerationsKept DEF GenerationStep
<1>2. PlainTypes'
  <2>1. failures' \in 0 .. MaxFailures
    OBVIOUS
  <2>2. state' \in VpnStates
    BY DEF VpnStates
  <2>3. network' \in Networks \cup {NoNetwork}
    OBVIOUS
  <2>4. pendingRetry' \in {0, 10, 20, 40, 80, 120}
    OBVIOUS
  <2>5. /\ automatic' \in BOOLEAN
        /\ reconnectImmediately' \in BOOLEAN
        /\ stopRequested' \in BOOLEAN
    OBVIOUS
  <2> QED
    BY <2>1, <2>2, <2>3, <2>4, <2>5 DEF PlainTypes
<1>3. EngineTypeOK'
  BY <1>1, <1>2 DEF GenerationsOK, PlainTypes
<1>4. ActiveWasStarted'
  <2>1. (stopRequested => active # NoGeneration)'
    BY <1>1 DEF ActiveWasStarted, GenerationsOK, Generations
  <2> QED
    BY <1>1, <2>1 DEF GenerationsOK, ActiveWasStarted
<1>5. RetryIffBackoff'
  BY DEF RetryIffBackoff, ActiveWasStarted, TruthfulState, Generations
<1>6. UnwantedIsStopping'
  BY DEF UnwantedIsStopping, RetryIffBackoff
<1>7. TruthfulState'
  BY DEF TruthfulState, RetryIffBackoff, UnwantedIsStopping
<1>8. RetryDelayFollowsFailures'
  BY DEF RetryDelayFollowsFailures, RetryIffBackoff
<1> QED
  BY <1>3, <1>4, <1>5, <1>6, <1>7, <1>8 DEF EngineInv

\* An exit of the active connector: Disabled, WaitingForNetwork, an immediate
\* restart or a backoff.
LEMMA ActiveExitedStep ==
  ASSUME EngineInv, active # NoGeneration,
         NEW returnCode \in Int, NEW runtime \in Int,
         ActiveExited(returnCode, runtime)
  PROVE  EngineInv'
<1> USE EngineAssumption
    DEF ActiveExited, StartConnection, ForgetActive,
        EngineInv, EngineTypeOK, NoGeneration, NoRetry
<1>1. GenerationsOK'
  BY GenerationsKept DEF GenerationStep
<1>2. CASE RecordExit(returnCode, runtime) /\ state' = "Backoff" /\ automatic
           /\ network # NoNetwork /\ active' = NoGeneration /\ ~stopRequested'
  <2>1. failures' \in 0 .. MaxFailures /\ pendingRetry' \in {10, 20, 40, 80, 120}
        /\ RetryDelayFollowsFailures'
    BY <1>2, RecordExitArms
  <2>2. UNCHANGED <<automatic, network>> /\ stopRequested' \in BOOLEAN
        /\ reconnectImmediately' \in BOOLEAN
    BY <1>2
  <2>3. EngineTypeOK'
    BY <1>1, <1>2, <2>1, <2>2 DEF GenerationsOK, VpnStates
  <2>4. (reconnectImmediately => automatic)'
    BY <1>2 DEF TruthfulState
  <2> QED
    BY <1>1, <1>2, <2>1, <2>2, <2>3, <2>4
    DEF GenerationsOK, ActiveWasStarted, RetryIffBackoff, UnwantedIsStopping, TruthfulState
<1>3. CASE /\ pendingRetry' = NoRetry
           /\ failures' = failures
           /\ state' \in {"Disabled", "WaitingForNetwork", "Connecting"}
  <2>1. EngineTypeOK'
    BY <1>1, <1>3 DEF GenerationsOK, VpnStates
  <2>2. ActiveWasStarted'
    BY <1>1, <1>3 DEF GenerationsOK, ActiveWasStarted, Generations
  <2>3. RetryIffBackoff' /\ RetryDelayFollowsFailures'
    BY <1>3 DEF RetryIffBackoff, RetryDelayFollowsFailures
  <2>4. UnwantedIsStopping'
    BY DEF UnwantedIsStopping
  <2>5. TruthfulState'
    BY <1>3 DEF TruthfulState
  <2> QED
    BY <2>1, <2>2, <2>3, <2>4, <2>5
<1>4. pendingRetry = NoRetry
  BY DEF RetryIffBackoff
<1> QED
  BY <1>2, <1>3, <1>4

\* connector_exited keeps the invariant, for a stale generation and for the active one.
LEMMA ConnectorExitedStep ==
  ASSUME EngineInv, NEW g \in Started,
         NEW returnCode \in Int, NEW runtime \in Int,
         ConnectorExited(g, returnCode, runtime)
  PROVE  EngineInv'
<1>1. CASE Stale(g)
  BY <1>1
  DEF Stale, Ignore, EngineInv, EngineTypeOK, ActiveWasStarted, RetryIffBackoff,
      UnwantedIsStopping, TruthfulState, RetryDelayFollowsFailures
<1>2. CASE g = active /\ ActiveExited(returnCode, runtime)
  <2>1. active # NoGeneration
    BY <1>2 DEF Started, NoGeneration, EngineInv, EngineTypeOK
  <2> QED
    BY <1>2, <2>1, ActiveExitedStep
<1> QED
  BY <1>1, <1>2 DEF ConnectorExited

\* The invariant is inductive.
LEMMA EngineInvNext == EngineInv /\ [Next]_engineVars => EngineInv'
<1> SUFFICES ASSUME EngineInv, [Next]_engineVars PROVE EngineInv'
  OBVIOUS
<1>1. CASE UserEvent
  BY <1>1, ConnectRequestedStep, DisconnectRequestedStep, ReconnectRequestedStep
  DEF UserEvent
<1>2. CASE NetworkEvent
  BY <1>2, NetworkUnavailableStep, NetworkReadyStep DEF NetworkEvent
<1>3. CASE ConnectorEvent
  <2>1. PICK g \in Started :
          \/ ConnectorConnected(g)
          \/ \E returnCode \in {0, 1}, runtime \in {0, ResetAfterSeconds} :
               ConnectorExited(g, returnCode, runtime)
          \/ ConnectTimedOut(g)
          \/ ConnectorError(g)
    BY <1>3 DEF ConnectorEvent
  <2>2. CASE ConnectorConnected(g)
    BY <2>2, ConnectorConnectedStep
  <2>3. CASE \E returnCode \in {0, 1}, runtime \in {0, ResetAfterSeconds} :
               ConnectorExited(g, returnCode, runtime)
    BY <2>3, ConnectorExitedStep DEF ResetAfterSeconds
  <2>4. CASE ConnectTimedOut(g)
    BY <2>4, ConnectorExitedStep DEF ConnectTimedOut
  <2>5. CASE ConnectorError(g)
    BY <2>5, ConnectorErrorStep
  <2> QED
    BY <2>1, <2>2, <2>3, <2>4, <2>5
<1>4. CASE TimerEvent
  BY <1>4, RetryElapsedStep, SessionExpiredStep DEF TimerEvent
<1>5. CASE UNCHANGED engineVars
  BY <1>5
  DEF engineVars, EngineInv, EngineTypeOK, ActiveWasStarted, RetryIffBackoff,
      UnwantedIsStopping, TruthfulState, RetryDelayFollowsFailures
<1> QED
  BY <1>1, <1>2, <1>3, <1>4, <1>5 DEF Next

-----------------------------------------------------------------------------
(* Theorems. *)

\* Every state the engine reaches satisfies the inductive invariant.
THEOREM EngineInvariant == Spec => []EngineInv
BY EngineInvInit, EngineInvNext, PTL DEF Spec

\* Every field of the engine keeps its type; the retry delay is one of the five
\* delays of ReconnectPolicy.
THEOREM EngineTypeCorrect == Spec => []EngineTypeOK
<1>1. EngineInv => EngineTypeOK
  BY DEF EngineInv
<1> QED
  BY <1>1, EngineInvariant, PTL

\* A retry is pending exactly while Backoff is published, and then no connector
\* is active: the unguarded start in retry_elapsed never starts a second one.
THEOREM RetryOnlyWhenIdle == Spec => []RetryIffBackoff
<1>1. EngineInv => RetryIffBackoff
  BY DEF EngineInv
<1> QED
  BY <1>1, EngineInvariant, PTL

\* A connection nobody wants any more has been told to stop.
THEOREM UnwantedIsTold == Spec => []UnwantedIsStopping
<1>1. EngineInv => UnwantedIsStopping
  BY DEF EngineInv
<1> QED
  BY <1>1, EngineInvariant, PTL

\* While the VPN is wanted and a network is ready, the engine works on it unless
\* a connector error parked it.
THEOREM WantedIsWorkedOn == Spec => []NeverIdleWhileWanted
<1>1. EngineInv => NeverIdleWhileWanted
  BY DEF EngineInv, EngineTypeOK, VpnStates, NeverIdleWhileWanted, Parked, TruthfulState,
         RetryIffBackoff
<1> QED
  BY <1>1, EngineInvariant, PTL

\* The delay of a pending retry is the one of the failures counted so far.
THEOREM DelayIsCurrent == Spec => []RetryDelayFollowsFailures
<1>1. EngineInv => RetryDelayFollowsFailures
  BY DEF EngineInv
<1> QED
  BY <1>1, EngineInvariant, PTL

\* Disabled, WaitingForNetwork and Connecting are published only when true.
THEOREM PublishedStateIsTrue == Spec => []TruthfulState
<1>1. EngineInv => TruthfulState
  BY DEF EngineInv
<1> QED
  BY <1>1, EngineInvariant, PTL

\* All of it at once: what the run of MCEngine checks on a small instance.
THEOREM EngineIsSound == Spec => []EngineSound
BY EngineTypeCorrect, RetryOnlyWhenIdle, UnwantedIsTold, WantedIsWorkedOn, DelayIsCurrent,
   PublishedStateIsTrue, PTL DEF EngineSound

-----------------------------------------------------------------------------
(* The engine is parked only by an error. *)

\* Only connector_error parks the engine.
LEMMA ParkingStep ==
  ASSUME EngineInv, Next, Parked', ~Parked
  PROVE  actions' = <<PublishError>>
<1> USE DEF Parked, EngineInv, RetryIffBackoff, NoGeneration
<1>1. ASSUME UNCHANGED <<state, active>> PROVE FALSE
  BY <1>1
<1>2. ASSUME NEW before, StartConnection(before) PROVE FALSE
  BY <1>2, EngineAssumption DEF StartConnection, EngineTypeOK
<1>3. ASSUME NEW before, NEW s, StopActive(before, s), active # NoGeneration PROVE FALSE
  BY <1>3 DEF StopActive
<1>4. CASE UserEvent
  BY <1>1, <1>2, <1>3, <1>4
  DEF UserEvent, ConnectRequested, DisconnectRequested, ReconnectRequested, OnlyPublish, Ignore
<1>5. CASE NetworkEvent
  BY <1>1, <1>2, <1>3, <1>5
  DEF NetworkEvent, NetworkUnavailable, NetworkReady, NetworkChanged, NetworkConfirmed,
      OnlyPublish, Ignore
<1>6. CASE TimerEvent
  BY <1>1, <1>2, <1>3, <1>6 DEF TimerEvent, RetryElapsed, SessionExpired, OnlyPublish, Ignore
<1>7. CASE ConnectorEvent
  <2>1. PICK g \in Started :
          \/ ConnectorConnected(g)
          \/ \E returnCode \in {0, 1}, runtime \in {0, ResetAfterSeconds} :
               ConnectorExited(g, returnCode, runtime)
          \/ ConnectTimedOut(g)
          \/ ConnectorError(g)
    BY <1>7 DEF ConnectorEvent
  <2>2. g # NoGeneration
    BY DEF Started
  <2>3. ASSUME NEW returnCode, NEW runtime, ConnectorExited(g, returnCode, runtime) PROVE FALSE
    BY <1>1, <1>2, <2>3 DEF ConnectorExited, ActiveExited, Stale, Ignore, ForgetActive
  <2>4. ~ConnectorConnected(g)
    BY <1>1, <2>2 DEF ConnectorConnected, Stale, Ignore, OnlyPublish
  <2>5. CASE ConnectorError(g)
    BY <1>1, <2>5 DEF ConnectorError, Stale, Ignore, ForgetActive
  <2> QED
    BY <2>1, <2>3, <2>4, <2>5 DEF ConnectTimedOut
<1> QED
  BY <1>4, <1>5, <1>6, <1>7 DEF Next

\* Nothing but the publication of an error leaves the engine without a connection
\* in a state that says it has one.
THEOREM ParkedByErrorAlone == Spec => ParkedOnlyByError
<1>1. EngineInv /\ [Next]_engineVars
        => [Parked' /\ ~Parked => actions' = <<PublishError>>]_engineVars
  BY ParkingStep
<1> QED
  BY <1>1, EngineInvariant, PTL DEF Spec, ParkedOnlyByError

-----------------------------------------------------------------------------
(* The engine implements Supervisor. *)

\* start_connection is the abstract Run.
LEMMA StartRuns ==
  ASSUME EngineInv, NEW before, StartConnection(before)
  PROVE  Phase' = "running" /\ Supervised!Run
<1>1. active' # NoGeneration /\ ~stopRequested'
  BY DEF StartConnection, EngineInv, EngineTypeOK, NoGeneration
<1>2. (nextGeneration - 1)' = (nextGeneration - 1) + 1
  BY DEF StartConnection, EngineInv, EngineTypeOK
<1> QED
  BY <1>1, <1>2 DEF Phase, Supervised!Run

\* A StopConnection puts a connection that exists in the abstract phase "stopping".
LEMMA StopHalts ==
  ASSUME EngineInv, NEW before, NEW s, StopActive(before, s), active # NoGeneration
  PROVE  Phase # "idle" /\ Phase' = "stopping" /\ UNCHANGED (nextGeneration - 1)
BY DEF StopActive, Phase

\* A step that leaves the generations alone leaves the abstract phase alone.
LEMMA KeepsPhase ==
  ASSUME UNCHANGED <<active, nextGeneration, stopRequested>>
  PROVE  UNCHANGED <<Phase, nextGeneration - 1>>
BY DEF Phase

\* What the invariant says in the words of Supervisor.
LEMMA PhaseOfEngine ==
  ASSUME EngineInv
  PROVE  /\ Phase \in {"idle", "running", "stopping"}
         /\ Phase = "idle" <=> active = NoGeneration
         /\ ~Permitted => Phase # "running"
         /\ Permitted \in BOOLEAN
BY DEF EngineInv, EngineTypeOK, UnwantedIsStopping, Phase, Permitted

\* Every step of the engine is a step of Supervisor or changes nothing it sees.
LEMMA SupervisorStep ==
  ASSUME EngineInv, Next
  PROVE  [Supervised!Next]_Supervised!vars
<1> DEFINE same == UNCHANGED <<Phase, nextGeneration - 1>>
           halted == Phase # "idle" /\ Phase' = "stopping" /\ UNCHANGED (nextGeneration - 1)
           started == Phase' = "running" /\ Supervised!Run
           idle == active = NoGeneration
           ended == ~idle /\ Phase' = "idle" /\ UNCHANGED (nextGeneration - 1)
<1>1. ASSUME NEW before, StartConnection(before) PROVE started
  BY <1>1, StartRuns
<1>2. ASSUME NEW before, NEW s, StopActive(before, s), ~idle PROVE halted
  BY <1>2, StopHalts
<1>3. ASSUME NEW before, NEW s, OnlyPublish(before, s) PROVE same
  BY <1>3, KeepsPhase DEF OnlyPublish
<1>4. ASSUME NEW list, Ignore(list) PROVE same
  BY <1>4, KeepsPhase DEF Ignore
<1>5. ASSUME NEW s, NEW list, ForgetActive(s, list), ~idle PROVE ended
  BY <1>5 DEF ForgetActive, Phase
\* Which of these happens, and what becomes of the permission, is all that matters.
<1> DEFINE kept == same /\ (Permitted' \/ UNCHANGED Permitted \/ Phase # "running")
           launched == started /\ idle /\ Permitted'
           relaunched == started /\ ~idle /\ Permitted /\ UNCHANGED Permitted
           finished == ended /\ UNCHANGED Permitted
           Outcome == kept \/ launched \/ relaunched \/ halted \/ finished
<1>6. Outcome
  <2> HIDE DEF same, halted, started, ended
  <2> USE DEF Permitted
  <2>1. Phase = "running" => automatic /\ network # NoNetwork /\ ~idle
    BY PhaseOfEngine
  <2>2. CASE ConnectRequested
    BY <1>1, <1>3, <1>4, <2>2 DEF ConnectRequested
  <2>3. CASE DisconnectRequested
    BY <1>2, <1>3, <2>1, <2>3 DEF DisconnectRequested
  <2>4. CASE ReconnectRequested
    BY <1>1, <1>2, <1>3, <2>4 DEF ReconnectRequested
  <2>5. CASE NetworkUnavailable
    BY <1>2, <1>3, <1>4, <2>1, <2>5 DEF NetworkUnavailable
  <2>6. ASSUME NEW n \in Networks, NetworkReady(n)
        PROVE  Outcome
    <3>1. CASE ~automatic
      BY <1>4, <2>1, <2>6, <3>1 DEF NetworkReady
    <3>2. CASE automatic /\ NetworkChanged
      BY <1>1, <1>2, <1>4, <2>6, <3>2, EngineAssumption DEF NetworkReady, NetworkChanged
    <3>3. CASE automatic /\ n = network /\ NetworkConfirmed
      BY <1>1, <1>4, <2>6, <3>3, EngineAssumption DEF NetworkReady, NetworkConfirmed
    <3> QED
      BY <2>6, <3>1, <3>2, <3>3 DEF NetworkReady
  <2>7. CASE TimerEvent
    BY <1>1, <1>2, <1>3, <1>4, <2>1, <2>7 DEF TimerEvent, RetryElapsed, SessionExpired
  <2>8. CASE ConnectorEvent
    <3>1. PICK g \in Started :
            \/ ConnectorConnected(g)
            \/ \E returnCode \in {0, 1}, runtime \in {0, ResetAfterSeconds} :
                 ConnectorExited(g, returnCode, runtime)
            \/ ConnectTimedOut(g)
            \/ ConnectorError(g)
      BY <2>8 DEF ConnectorEvent
    <3>2. g # NoGeneration
      BY DEF Started, NoGeneration
    <3> QED
      BY <1>1, <1>3, <1>4, <1>5, <3>1, <3>2
      DEF ConnectorConnected, ConnectTimedOut, ConnectorExited, ActiveExited, ConnectorError, Stale
  <2> QED
    BY <2>2, <2>3, <2>4, <2>5, <2>6, <2>7, <2>8 DEF Next, UserEvent, NetworkEvent
<1>7. Permitted \in BOOLEAN /\ Permitted' \in BOOLEAN
  BY EngineInvNext DEF Permitted, EngineInv, EngineTypeOK
<1>8. Phase = "idle" <=> idle
  BY PhaseOfEngine
<1>9. CASE kept
  <2>1. CASE Permitted'
    BY <1>7, <1>9, <2>1 DEF same, Supervised!Next, Supervised!Grant
  <2>2. CASE UNCHANGED Permitted
    BY <1>9, <2>2 DEF same, Supervised!vars
  <2>3. CASE ~Permitted' /\ Phase # "running"
    BY <1>7, <1>9, <2>3, PhaseOfEngine DEF same, Supervised!Next, Supervised!Revoke
  <2> QED
    BY <1>9, <2>1, <2>2, <2>3
<1>10. CASE launched
  BY <1>7, <1>8, <1>10 DEF Supervised!Next, Supervised!Launch
<1>11. CASE relaunched
  BY <1>8, <1>11 DEF Supervised!Next, Supervised!Relaunch
<1>12. CASE halted
  BY <1>7, <1>12 DEF Supervised!Next, Supervised!Halt, Supervised!Revoke
<1>13. CASE finished
  BY <1>8, <1>13 DEF Supervised!Next, Supervised!Finish
<1> QED
  BY <1>6, <1>9, <1>10, <1>11, <1>12, <1>13

\* The engine implements Supervisor: one connection at a time, launched only while
\* it is permitted, and told to stop in the step that takes the permission away.
THEOREM EngineImplementsSupervisor == Spec => ImplementsSupervisor
<1>1. Init => Supervised!Init
  BY DEF Init, Supervised!Init, Permitted, Phase
<1>2. EngineInv /\ [Next]_engineVars => [Supervised!Next]_Supervised!vars
  <2>1. CASE Next
    BY <2>1, SupervisorStep
  <2>2. CASE UNCHANGED engineVars
    BY <2>2 DEF engineVars, Supervised!vars, Phase, Permitted
  <2> QED
    BY <2>1, <2>2
<1> QED
  BY <1>1, <1>2, EngineInvariant, PTL DEF Spec, ImplementsSupervisor, Supervised!Spec

-----------------------------------------------------------------------------
(* What matters about a queue: what is in it, and in what order. *)

In(s, A) == \E i \in DOMAIN s : s[i] \in A
AtMostOne(s, A) == \A i, j \in DOMAIN s : s[i] \in A /\ s[j] \in A => i = j
\* Whatever of A is in the queue, something of B is behind it.
Followed(s, A, B) ==
  \A i \in DOMAIN s : s[i] \in A => \E j \in DOMAIN s : i < j /\ s[j] \in B

\* Two queues one after the other.
LEMMA ConcatView ==
  ASSUME NEW S, NEW s \in Seq(S), NEW t \in Seq(S), NEW A, NEW B
  PROVE  /\ In(s \o t, A) <=> In(s, A) \/ In(t, A)
         /\ AtMostOne(s \o t, A) <=>
              AtMostOne(s, A) /\ AtMostOne(t, A) /\ ~(In(s, A) /\ In(t, A))
         /\ Followed(s \o t, A, B) <=>
              Followed(t, A, B) /\ (Followed(s, A, B) \/ In(t, B))
<1> DEFINE st == s \o t
           m == Len(s)
           n == Len(t)
<1>1. /\ m \in Nat /\ n \in Nat /\ DOMAIN s = 1 .. m /\ DOMAIN t = 1 .. n
      /\ DOMAIN st = 1 .. m + n
      /\ \A i \in 1 .. m + n : st[i] = IF i <= m THEN s[i] ELSE t[i - m]
  BY ConcatProperties, LenProperties
<1> HIDE DEF st, m, n
<1>2. \A i \in 1 .. m : i \in 1 .. m + n /\ st[i] = s[i]
  BY <1>1
<1>3. \A i \in 1 .. n : i + m \in 1 .. m + n /\ st[i + m] = t[i]
  <2> TAKE i \in 1 .. n
  <2>1. i + m \in 1 .. m + n /\ ~(i + m <= m) /\ (i + m) - m = i
    BY <1>1
  <2> QED
    BY <1>1, <2>1
<1>4. \A k \in 1 .. m + n : k \in 1 .. m \/ (k - m \in 1 .. n /\ (k - m) + m = k)
  BY <1>1
<1>5. In(st, A) <=> In(s, A) \/ In(t, A)
  BY <1>1, <1>2, <1>3, <1>4 DEF In
<1>6. AtMostOne(st, A) <=>
        AtMostOne(s, A) /\ AtMostOne(t, A) /\ ~(In(s, A) /\ In(t, A))
  <2>1. ASSUME AtMostOne(st, A)
        PROVE  AtMostOne(s, A) /\ AtMostOne(t, A) /\ ~(In(s, A) /\ In(t, A))
    <3>1. AtMostOne(s, A)
      BY <1>1, <1>2, <2>1 DEF AtMostOne
    <3>2. AtMostOne(t, A)
      <4> SUFFICES ASSUME NEW i \in 1 .. n, NEW j \in 1 .. n, t[i] \in A, t[j] \in A
                   PROVE  i = j
        BY <1>1 DEF AtMostOne
      <4>1. i + m = j + m
        BY <1>1, <1>3, <2>1 DEF AtMostOne
      <4> QED
        BY <1>1, <4>1
    <3>3. ~(In(s, A) /\ In(t, A))
      <4> SUFFICES ASSUME NEW i \in 1 .. m, NEW j \in 1 .. n, s[i] \in A, t[j] \in A
                   PROVE  FALSE
        BY <1>1 DEF In
      <4>1. i = j + m
        BY <1>1, <1>2, <1>3, <2>1 DEF AtMostOne
      <4> QED
        BY <1>1, <4>1
    <3> QED
      BY <3>1, <3>2, <3>3
  <2>2. ASSUME AtMostOne(s, A), AtMostOne(t, A), ~(In(s, A) /\ In(t, A))
        PROVE  AtMostOne(st, A)
    <3> SUFFICES ASSUME NEW i \in 1 .. m + n, NEW j \in 1 .. m + n, st[i] \in A, st[j] \in A
                 PROVE  i = j
      BY <1>1 DEF AtMostOne
    <3>1. i \in 1 .. m => In(s, A)
      BY <1>1, <1>2 DEF In
    <3>2. j \in 1 .. m => In(s, A)
      BY <1>1, <1>2 DEF In
    <3>3. i \notin 1 .. m => In(t, A) /\ i - m \in 1 .. n /\ t[i - m] \in A /\ (i - m) + m = i
      BY <1>1, <1>3, <1>4 DEF In
    <3>4. j \notin 1 .. m => In(t, A) /\ j - m \in 1 .. n /\ t[j - m] \in A /\ (j - m) + m = j
      BY <1>1, <1>3, <1>4 DEF In
    <3>5. CASE i \in 1 .. m
      BY <1>1, <1>2, <2>2, <3>1, <3>4, <3>5 DEF AtMostOne
    <3>6. CASE i \notin 1 .. m
      <4>1. i - m = j - m
        BY <1>1, <2>2, <3>2, <3>3, <3>4, <3>6 DEF AtMostOne
      <4> QED
        BY <1>1, <4>1
    <3> QED
      BY <3>5, <3>6
  <2> QED
    BY <2>1, <2>2
<1>7. Followed(st, A, B) <=> Followed(t, A, B) /\ (Followed(s, A, B) \/ In(t, B))
  <2>1. ASSUME Followed(st, A, B) PROVE Followed(t, A, B)
    <3> SUFFICES ASSUME NEW i \in 1 .. n, t[i] \in A
                 PROVE  \E j \in 1 .. n : i < j /\ t[j] \in B
      BY <1>1 DEF Followed
    <3>1. PICK k \in 1 .. m + n : i + m < k /\ st[k] \in B
      BY <1>1, <1>3, <2>1 DEF Followed
    <3>2. k - m \in 1 .. n /\ (k - m) + m = k /\ i < k - m
      BY <1>1, <3>1
    <3> QED
      BY <1>3, <3>1, <3>2
  <2>2. ASSUME Followed(st, A, B), ~In(t, B) PROVE Followed(s, A, B)
    <3> SUFFICES ASSUME NEW i \in 1 .. m, s[i] \in A
                 PROVE  \E j \in 1 .. m : i < j /\ s[j] \in B
      BY <1>1 DEF Followed
    <3>1. PICK k \in 1 .. m + n : i < k /\ st[k] \in B
      BY <1>1, <1>2, <2>2 DEF Followed
    <3>2. k \in 1 .. m
      BY <1>1, <1>3, <1>4, <2>2, <3>1 DEF In
    <3> QED
      BY <1>2, <3>1, <3>2
  <2>3. ASSUME Followed(t, A, B), Followed(s, A, B) \/ In(t, B) PROVE Followed(st, A, B)
    <3> SUFFICES ASSUME NEW i \in 1 .. m + n, st[i] \in A
                 PROVE  \E j \in 1 .. m + n : i < j /\ st[j] \in B
      BY <1>1 DEF Followed
    <3>1. CASE i \in 1 .. m /\ Followed(s, A, B)
      BY <1>1, <1>2, <3>1 DEF Followed
    <3>2. CASE i \in 1 .. m /\ In(t, B)
      <4>1. PICK j \in 1 .. n : t[j] \in B
        BY <1>1, <3>2 DEF In
      <4>2. i < j + m
        BY <1>1, <3>2
      <4> QED
        BY <1>3, <4>1, <4>2
    <3>3. CASE i \notin 1 .. m
      <4>1. i - m \in 1 .. n /\ (i - m) + m = i /\ t[i - m] \in A
        BY <1>3, <1>4, <3>3
      <4>2. PICK j \in 1 .. n : i - m < j /\ t[j] \in B
        BY <1>1, <2>3, <4>1 DEF Followed
      <4>3. i < j + m
        BY <1>1, <4>1, <4>2
      <4> QED
        BY <1>3, <4>2, <4>3
    <3> QED
      BY <2>3, <3>1, <3>2, <3>3
  <2> QED
    BY <2>1, <2>2, <2>3
<1> QED
  BY <1>5, <1>6, <1>7 DEF st

\* An empty queue and one of a single element.
LEMMA ShortView ==
  ASSUME NEW A, NEW B, NEW x
  PROVE  /\ ~In(<<>>, A) /\ AtMostOne(<<>>, A) /\ Followed(<<>>, A, B)
         /\ In(<<x>>, A) <=> x \in A
         /\ AtMostOne(<<x>>, A)
         /\ Followed(<<x>>, A, B) <=> x \notin A
<1>1. DOMAIN <<>> = {}
  OBVIOUS
<1>2. DOMAIN <<x>> = {1} /\ <<x>>[1] = x
  OBVIOUS
<1> QED
  BY <1>1, <1>2 DEF In, AtMostOne, Followed

\* A queue behind its first element.
LEMMA HeadView ==
  ASSUME NEW S, NEW s \in Seq(S), s # <<>>, NEW A, NEW B
  PROVE  /\ In(s, A) <=> Head(s) \in A \/ In(Tail(s), A)
         /\ AtMostOne(s, A) <=> AtMostOne(Tail(s), A) /\ ~(Head(s) \in A /\ In(Tail(s), A))
         /\ Followed(s, A, B) <=>
              Followed(Tail(s), A, B) /\ (Head(s) \in A => In(Tail(s), B))
<1>1. Head(s) \in S /\ Tail(s) \in Seq(S) /\ s = <<Head(s)>> \o Tail(s)
  OBVIOUS
<1>2. <<Head(s)>> \in Seq(S)
  BY <1>1
<1> DEFINE h == <<Head(s)>>
           t == Tail(s)
<1>3. /\ In(h, A) <=> Head(s) \in A
      /\ AtMostOne(h, A)
      /\ Followed(h, A, B) <=> Head(s) \notin A
  BY ShortView
<1>4. /\ In(h \o t, A) <=> In(h, A) \/ In(t, A)
      /\ AtMostOne(h \o t, A) <=>
           AtMostOne(h, A) /\ AtMostOne(t, A) /\ ~(In(h, A) /\ In(t, A))
      /\ Followed(h \o t, A, B) <=> Followed(t, A, B) /\ (Followed(h, A, B) \/ In(t, B))
  BY <1>1, <1>2, ConcatView
<1>5. s = h \o t
  BY <1>1
<1> HIDE DEF h, t
<1>6. /\ In(s, A) <=> Head(s) \in A \/ In(t, A)
      /\ AtMostOne(s, A) <=> AtMostOne(t, A) /\ ~(Head(s) \in A /\ In(t, A))
      /\ Followed(s, A, B) <=> Followed(t, A, B) /\ (Head(s) \in A => In(t, B))
  BY <1>3, <1>4, <1>5
<1> QED
  BY <1>6 DEF t

\* A queue of two.
LEMMA PairView ==
  ASSUME NEW A, NEW x, NEW y
  PROVE  /\ In(<<x, y>>, A) <=> x \in A \/ y \in A
         /\ AtMostOne(<<x, y>>, A) <=> ~(x \in A /\ y \in A)
<1>1. DOMAIN <<x, y>> = {1, 2} /\ <<x, y>>[1] = x /\ <<x, y>>[2] = y
  OBVIOUS
<1> QED
  BY <1>1 DEF In, AtMostOne

\* Of what is not in a queue there is no second one, and nothing has to follow it.
LEMMA NoneIn ==
  ASSUME NEW s, NEW A, NEW B, ~In(s, A)
  PROVE  AtMostOne(s, A) /\ Followed(s, A, B)
BY DEF In, AtMostOne, Followed

-----------------------------------------------------------------------------
(* The lists of actions the engine returns. *)

\* EngineAction.
EngineActions ==
  [kind : {"PersistAutomatic"}, enabled : BOOLEAN]
    \union [kind : {"PublishState"}, state : VpnStates]
    \union [kind : {"PublishError", "ScheduleRetry", "CancelRetry"}]
    \union [kind : {"StartConnection", "StopConnection"}, gen : Nat]

\* The list may begin with the change of the preference and a CancelRetry.
Leads(list) ==
  /\ list \in Seq(EngineActions) /\ Len(list) <= 2
  /\ \A i \in 1 .. Len(list) : list[i] \in {PersistAutomatic(automatic'), CancelRetry}
  /\ \/ automatic' = automatic
     \/ \E i \in 1 .. Len(list) : list[i] = PersistAutomatic(automatic')

\* The actions are what they are called.
LEMMA ActionsTyped ==
  /\ \A e \in BOOLEAN : PersistAutomatic(e) \in EngineActions
  /\ \A s \in VpnStates : PublishState(s) \in EngineActions
  /\ \A g \in Nat : Start(g) \in EngineActions /\ Stop(g) \in EngineActions
  /\ {PublishError, ScheduleRetry, CancelRetry} \subseteq EngineActions
BY DEF EngineActions, PersistAutomatic, PublishState, Start, Stop, PublishError, ScheduleRetry,
   CancelRetry

\* The beginnings of the lists are of that form.
LEMMA LeadingLists ==
  ASSUME automatic \in BOOLEAN, automatic' \in BOOLEAN
  PROVE  /\ automatic' = automatic => Leads(<<>>) /\ Leads(CancelIfPending)
         /\ Leads(PersistIfNewly(automatic'))
         /\ Leads(PersistIfNewly(automatic') \o CancelIfPending)
<1>1. /\ CancelIfPending \in Seq(EngineActions) /\ Len(CancelIfPending) <= 1
      /\ \A i \in 1 .. Len(CancelIfPending) : CancelIfPending[i] = CancelRetry
  BY ActionsTyped DEF CancelIfPending, When
<1> DEFINE persist == PersistIfNewly(automatic')
<1>2. /\ persist \in Seq(EngineActions) /\ Len(persist) <= 1
      /\ \A i \in 1 .. Len(persist) : persist[i] = PersistAutomatic(automatic')
      /\ automatic' # automatic => Len(persist) = 1
  BY ActionsTyped DEF PersistIfNewly, When
<1> DEFINE both == persist \o CancelIfPending
<1>3. /\ both \in Seq(EngineActions) /\ Len(both) = Len(persist) + Len(CancelIfPending)
      /\ \A i \in 1 .. Len(both) :
           both[i] = IF i <= Len(persist) THEN persist[i] ELSE CancelIfPending[i - Len(persist)]
  BY <1>1, <1>2, ConcatProperties
<1>4. Leads(persist)
  BY <1>2 DEF Leads
<1>5. Leads(both)
  <2>1. \A i \in 1 .. Len(both) : both[i] \in {PersistAutomatic(automatic'), CancelRetry}
    <3> TAKE i \in 1 .. Len(both)
    <3>1. CASE i <= Len(persist)
      BY <1>2, <1>3, <3>1
    <3>2. CASE i > Len(persist)
      <4>1. i - Len(persist) \in 1 .. Len(CancelIfPending)
        BY <1>1, <1>2, <1>3, <3>2
      <4> QED
        BY <1>1, <1>3, <3>2, <4>1
    <3> QED
      BY <1>2, <3>1, <3>2
  <2>2. automatic' # automatic => both[1] = PersistAutomatic(automatic') /\ Len(both) >= 1
    <3> SUFFICES ASSUME automatic' # automatic
                 PROVE  both[1] = PersistAutomatic(automatic') /\ Len(both) >= 1
      OBVIOUS
    <3>1. Len(persist) = 1 /\ persist[1] = PersistAutomatic(automatic')
      BY <1>2
    <3>2. Len(both) = 1 + Len(CancelIfPending) /\ Len(CancelIfPending) \in Nat
      BY <1>1, <1>3, <3>1
    <3>3. 1 \in 1 .. Len(both)
      BY <3>2
    <3> QED
      BY <1>3, <3>1, <3>2, <3>3
  <2>3. Len(both) <= 2
    <3>1. Len(persist) \in Nat /\ Len(CancelIfPending) \in Nat
      BY <1>1, <1>2
    <3> QED
      BY <1>1, <1>2, <1>3, <3>1
  <2> QED
    BY <1>3, <2>1, <2>2, <2>3 DEF Leads
<1>6. automatic' = automatic => Leads(<<>>) /\ Leads(CancelIfPending)
  BY <1>1 DEF Leads
<1> QED
  BY <1>4, <1>5, <1>6

-----------------------------------------------------------------------------
(* What an event makes of the active generation, and what it orders. *)

NoStart(list) == \A g \in Nat : ~In(list, {Start(g)})
NoStop(list) == \A g \in Nat : ~In(list, {Stop(g)})

\* At most four actions are returned at a time.
Listed == actions' \in Seq(EngineActions) /\ Len(actions') <= 4

Kept ==
  /\ Listed
  /\ active' = active /\ stopRequested' = stopRequested /\ nextGeneration' = nextGeneration
  /\ NoStart(actions') /\ NoStop(actions')
Stopped ==
  /\ Listed
  /\ active' = active /\ active # NoGeneration /\ stopRequested'
  /\ nextGeneration' = nextGeneration
  /\ NoStart(actions') /\ \A g \in Nat : In(actions', {Stop(g)}) <=> g = active
Launched ==
  /\ Listed
  /\ active' = nextGeneration /\ ~stopRequested' /\ nextGeneration' = nextGeneration + 1
  /\ \A g \in Nat : In(actions', {Start(g)}) <=> g = nextGeneration
  /\ AtMostOne(actions', {Start(nextGeneration)}) /\ NoStop(actions')
Gone ==
  /\ Listed
  /\ active' = NoGeneration /\ ~stopRequested' /\ nextGeneration' = nextGeneration
  /\ NoStart(actions') /\ NoStop(actions')

\* The beginning of a list holds nothing but the preference and a cancellation.
LEMMA LeadsView ==
  ASSUME NEW list, Leads(list), NEW A, In(list, A)
  PROVE  PersistAutomatic(automatic') \in A \/ CancelRetry \in A
<1>1. DOMAIN list = 1 .. Len(list)
  BY LenProperties DEF Leads
<1> QED
  BY <1>1 DEF Leads, In

\* So it starts and stops nothing, and neither does a publication behind it.
LEMMA NothingStarted ==
  ASSUME NEW list, Leads(list)
  PROVE  /\ NoStart(list) /\ NoStop(list)
         /\ \A s \in VpnStates :
              NoStart(Append(list, PublishState(s))) /\ NoStop(Append(list, PublishState(s)))
<1>1. NoStart(list) /\ NoStop(list)
  BY LeadsView DEF NoStart, NoStop, Start, Stop, PersistAutomatic, CancelRetry
<1>2. ASSUME NEW s \in VpnStates, NEW g \in Nat
      PROVE  /\ ~In(Append(list, PublishState(s)), {Start(g)})
             /\ ~In(Append(list, PublishState(s)), {Stop(g)})
  <2>1. list \in Seq(EngineActions) /\ PublishState(s) \in EngineActions
    BY ActionsTyped DEF Leads
  <2>2. Append(list, PublishState(s)) = list \o <<PublishState(s)>>
    BY <2>1, AppendIsConcat
  <2>3. PublishState(s) # Start(g) /\ PublishState(s) # Stop(g)
    BY DEF PublishState, Start, Stop
  <2> DEFINE rest == <<PublishState(s)>>
  <2>4. /\ ~In(list, {Start(g)}) /\ ~In(rest, {Start(g)})
        /\ ~In(list, {Stop(g)}) /\ ~In(rest, {Stop(g)})
    BY <1>1, <2>3, ShortView DEF NoStart, NoStop
  <2>5. rest \in Seq(EngineActions)
    BY <2>1
  <2> HIDE DEF rest
  <2>6. \A A : In(list \o rest, A) <=> In(list, A) \/ In(rest, A)
    BY <2>1, <2>5, ConcatView
  <2> QED
    BY <2>2, <2>4, <2>6 DEF rest
<1> QED
  BY <1>1, <1>2 DEF NoStart, NoStop

\* Engine::handle returned a list that changes no connection.
LEMMA KeptBy ==
  ASSUME NEW list, Leads(list),
         Ignore(list) \/ \E s \in VpnStates : OnlyPublish(list, s)
  PROVE  Kept
<1>1. Listed
  <2>1. list \in Seq(EngineActions) /\ Len(list) \in Nat /\ Len(list) <= 2
    BY LenProperties DEF Leads
  <2>2. CASE actions' = list
    BY <2>1, <2>2 DEF Listed
  <2>3. ASSUME NEW s \in VpnStates, actions' = Append(list, PublishState(s)) PROVE Listed
    <3>1. PublishState(s) \in EngineActions
      BY ActionsTyped
    <3>2. actions' \in Seq(EngineActions) /\ Len(actions') = Len(list) + 1
      BY <2>1, <2>3, <3>1, AppendProperties
    <3> QED
      BY <2>1, <3>2 DEF Listed
  <2> QED
    BY <2>2, <2>3 DEF Ignore, OnlyPublish
<1> QED
  BY <1>1, NothingStarted DEF Ignore, OnlyPublish, Kept

\* It told the active connector to stop.
LEMMA StoppedBy ==
  ASSUME NEW list, Leads(list), active \in Nat, active # NoGeneration, NEW s \in VpnStates,
         StopActive(list, s)
  PROVE  Stopped
<1> DEFINE rest == <<PublishState(s), Stop(active)>>
<1>1. list \in Seq(EngineActions) /\ rest \in Seq(EngineActions)
  BY ActionsTyped DEF Leads
<1>2. actions' = list \o rest
  BY DEF StopActive
<1>0. Listed
  <2>1. Len(rest) = 2 /\ Len(list) \in Nat /\ Len(list) <= 2
    BY LenProperties DEF Leads
  <2>2. list \o rest \in Seq(EngineActions) /\ Len(list \o rest) = Len(list) + Len(rest)
    BY <1>1, ConcatProperties
  <2> HIDE DEF rest
  <2>3. Len(list \o rest) <= 4
    BY <2>1, <2>2
  <2> QED
    BY <1>2, <2>2, <2>3 DEF Listed
<1>3. \A A : In(rest, A) <=> PublishState(s) \in A \/ Stop(active) \in A
  BY PairView
<1> HIDE DEF rest
<1>4. \A A : In(actions', A) <=> In(list, A) \/ In(rest, A)
  BY <1>1, <1>2, ConcatView
<1>5. NoStart(actions')
  BY <1>3, <1>4, NothingStarted DEF NoStart, PublishState, Stop, Start
<1>6. \A g \in Nat : In(actions', {Stop(g)}) <=> g = active
  BY <1>3, <1>4, NothingStarted DEF NoStop, PublishState, Stop
<1> QED
  BY <1>0, <1>5, <1>6 DEF StopActive, Stopped

\* It started the next generation.
LEMMA LaunchedBy ==
  ASSUME NEW list, Leads(list), nextGeneration \in Nat, StartConnection(list)
  PROVE  Launched
<1> DEFINE rest == <<PublishState("Connecting"), Start(nextGeneration)>>
<1>1. list \in Seq(EngineActions) /\ rest \in Seq(EngineActions)
  BY ActionsTyped DEF Leads, VpnStates
<1>2. actions' = list \o rest
  BY DEF StartConnection
<1>0. Listed
  <2>1. Len(rest) = 2 /\ Len(list) \in Nat /\ Len(list) <= 2
    BY LenProperties DEF Leads
  <2>2. list \o rest \in Seq(EngineActions) /\ Len(list \o rest) = Len(list) + Len(rest)
    BY <1>1, ConcatProperties
  <2> HIDE DEF rest
  <2>3. Len(list \o rest) <= 4
    BY <2>1, <2>2
  <2> QED
    BY <1>2, <2>2, <2>3 DEF Listed
<1>3. \A A : /\ In(rest, A) <=> PublishState("Connecting") \in A \/ Start(nextGeneration) \in A
             /\ AtMostOne(rest, A) <=>
                  ~(PublishState("Connecting") \in A /\ Start(nextGeneration) \in A)
  BY PairView
<1> HIDE DEF rest
<1>4. \A A : /\ In(actions', A) <=> In(list, A) \/ In(rest, A)
             /\ AtMostOne(actions', A) <=>
                  AtMostOne(list, A) /\ AtMostOne(rest, A) /\ ~(In(list, A) /\ In(rest, A))
  BY <1>1, <1>2, ConcatView
<1>5. \A g \in Nat : ~In(list, {Start(g)})
  BY NothingStarted DEF NoStart
<1>6. \A g \in Nat : In(actions', {Start(g)}) <=> g = nextGeneration
  BY <1>3, <1>4, <1>5 DEF PublishState, Start
<1>7. AtMostOne(list, {Start(nextGeneration)})
  BY <1>5 DEF AtMostOne, In
<1>8. AtMostOne(rest, {Start(nextGeneration)})
  BY <1>3 DEF PublishState, Start
<1>9. NoStop(actions')
  BY <1>3, <1>4, NothingStarted DEF NoStop, PublishState, Start, Stop
<1> QED
  BY <1>0, <1>4, <1>5, <1>6, <1>7, <1>8, <1>9 DEF StartConnection, Launched

\* It forgot the connector.
LEMMA GoneBy ==
  ASSUME NEW s \in VpnStates, NEW list, ForgetActive(s, list),
         list \in {<<PublishState(s)>>, <<PublishState(s), ScheduleRetry>>}
  PROVE  Gone
<1>1. NoStart(<<PublishState(s)>>) /\ NoStart(<<PublishState(s), ScheduleRetry>>)
  BY ShortView, PairView DEF NoStart, PublishState, ScheduleRetry, Start
<1>2. NoStop(<<PublishState(s)>>) /\ NoStop(<<PublishState(s), ScheduleRetry>>)
  BY ShortView, PairView DEF NoStop, PublishState, ScheduleRetry, Stop
<1>3. Listed
  <2>1. PublishState(s) \in EngineActions /\ ScheduleRetry \in EngineActions
    BY ActionsTyped
  <2>2. /\ <<PublishState(s)>> \in Seq(EngineActions) /\ Len(<<PublishState(s)>>) <= 4
        /\ <<PublishState(s), ScheduleRetry>> \in Seq(EngineActions)
        /\ Len(<<PublishState(s), ScheduleRetry>>) <= 4
    BY <2>1
  <2> QED
    BY <2>2 DEF ForgetActive, Listed
<1> QED
  BY <1>1, <1>2, <1>3 DEF ForgetActive, Gone

\* Only the exit of the active connector ends its generation; other events leave it,
\* tell it to stop, or start one where there is none.
LEMMA CalmEffect ==
  ASSUME EngineInv, EngineInv',
         \/ UserEvent \/ NetworkEvent \/ RetryElapsed
         \/ \E g \in Nat : ConnectorConnected(g)
  PROVE  Kept \/ Stopped \/ (active = NoGeneration /\ Launched)
<1>1. automatic \in BOOLEAN /\ automatic' \in BOOLEAN /\ active \in Nat /\ nextGeneration \in Nat
  BY EngineAssumption DEF EngineInv, EngineTypeOK, Generations, NoGeneration
<1>2. /\ Leads(PersistIfNewly(automatic'))
      /\ Leads(PersistIfNewly(automatic') \o CancelIfPending)
      /\ automatic' = automatic => Leads(<<>>) /\ Leads(CancelIfPending)
  BY <1>1, LeadingLists
<1>3. {"Disabled", "WaitingForNetwork", "Disconnecting", "Connected"} \subseteq VpnStates
  BY DEF VpnStates
<1>4. CASE UserEvent
  <2>1. CASE ConnectRequested
    <3> DEFINE list == PersistIfNewly(automatic')
    <3>1. \/ Ignore(list) \/ OnlyPublish(list, "WaitingForNetwork")
          \/ active = NoGeneration /\ StartConnection(list)
      BY <2>1 DEF ConnectRequested
    <3>2. Leads(list)
      BY <1>2
    <3> HIDE DEF list
    <3> QED
      BY <1>1, <1>3, <3>1, <3>2, KeptBy, StoppedBy, LaunchedBy
  <2>2. CASE DisconnectRequested \/ ReconnectRequested
    <3> DEFINE list == PersistIfNewly(automatic') \o CancelIfPending
    <3>1. \/ \E s \in {"Disabled", "WaitingForNetwork"} : OnlyPublish(list, s)
          \/ active # NoGeneration /\ StopActive(list, "Disconnecting")
          \/ active = NoGeneration /\ StartConnection(list)
      BY <2>2 DEF DisconnectRequested, ReconnectRequested
    <3>2. Leads(list)
      BY <1>2
    <3> HIDE DEF list
    <3> QED
      BY <1>1, <1>3, <3>1, <3>2, KeptBy, StoppedBy, LaunchedBy
  <2> QED
    BY <1>4, <2>1, <2>2 DEF UserEvent
<1>5. CASE NetworkEvent
  <2>1. automatic' = automatic
    BY <1>5 DEF NetworkEvent, NetworkUnavailable, NetworkReady
  <2>2. \E list \in {<<>>, CancelIfPending} :
          \/ Ignore(list)
          \/ OnlyPublish(list, "WaitingForNetwork")
          \/ /\ active # NoGeneration
             /\ \E s \in {"WaitingForNetwork", "Disconnecting"} : StopActive(list, s)
          \/ active = NoGeneration /\ StartConnection(list)
    BY <1>5 DEF NetworkEvent, NetworkUnavailable, NetworkReady, NetworkChanged, NetworkConfirmed
  <2>3. \A list \in {<<>>, CancelIfPending} : Leads(list)
    BY <1>2, <2>1
  <2> QED
    BY <1>1, <1>3, <2>2, <2>3, KeptBy, StoppedBy, LaunchedBy
<1>6. CASE RetryElapsed
  <2>1. automatic' = automatic
    BY <1>6 DEF RetryElapsed
  <2>2. \/ Ignore(<<>>) \/ OnlyPublish(<<>>, "WaitingForNetwork")
        \/ active = NoGeneration /\ StartConnection(<<>>)
    BY <1>6 DEF RetryElapsed, EngineInv, RetryIffBackoff
  <2>3. Leads(<<>>)
    BY <1>2, <2>1
  <2> QED
    BY <1>1, <1>3, <2>2, <2>3, KeptBy, StoppedBy, LaunchedBy
<1>7. ASSUME NEW g \in Nat, ConnectorConnected(g) PROVE Kept
  <2>1. automatic' = automatic
    BY <1>7 DEF ConnectorConnected, Stale
  <2>2. Ignore(<<>>) \/ OnlyPublish(<<>>, "Connected")
    BY <1>7 DEF ConnectorConnected, Stale
  <2> QED
    BY <1>1, <1>2, <1>3, <2>1, <2>2, KeptBy
<1> QED
  BY <1>4, <1>5, <1>6, <1>7

\* The exit of the active connector ends its generation, and may start the next one.
LEMMA ExitEffect ==
  ASSUME EngineInv, NEW returnCode, NEW runtime, ConnectorExited(active, returnCode, runtime)
  PROVE  Gone \/ Launched
<1>1. Leads(<<>>) /\ nextGeneration \in Nat
  <2>1. automatic \in BOOLEAN /\ automatic' = automatic
    BY DEF ConnectorExited, ActiveExited, Stale, EngineInv, EngineTypeOK
  <2> QED
    BY <2>1, LeadingLists, EngineAssumption DEF EngineInv, EngineTypeOK
<1>2. {"Disabled", "WaitingForNetwork", "Backoff"} \subseteq VpnStates
  BY DEF VpnStates
<1>3. \/ StartConnection(<<>>)
      \/ \E s \in VpnStates : ForgetActive(s, <<PublishState(s)>>)
      \/ ForgetActive("Backoff", <<PublishState("Backoff"), ScheduleRetry>>)
  BY <1>2 DEF ConnectorExited, ActiveExited, Stale
<1> QED
  BY <1>1, <1>2, <1>3, LaunchedBy, GoneBy

\* So does its error, which is published instead of a state.
LEMMA ErrorEffect ==
  ASSUME ForgetActive(state, <<PublishError>>)
  PROVE  Gone
<1>1. NoStart(<<PublishError>>) /\ NoStop(<<PublishError>>)
  BY ShortView DEF NoStart, NoStop, PublishError, Start, Stop
<1>2. Listed
  <2>1. <<PublishError>> \in Seq(EngineActions) /\ Len(<<PublishError>>) <= 4
    BY ActionsTyped
  <2> QED
    BY <2>1 DEF ForgetActive, Listed
<1> QED
  BY <1>1, <1>2 DEF ForgetActive, Gone

\* An event of another generation changes nothing.
LEMMA StaleEffect ==
  ASSUME NEW g, Stale(g), automatic \in BOOLEAN
  PROVE  Kept
<1>1. automatic' = automatic /\ Ignore(<<>>)
  BY DEF Stale
<1>2. Leads(<<>>)
  BY <1>1, LeadingLists
<1> QED
  BY <1>1, <1>2, KeptBy

=============================================================================
