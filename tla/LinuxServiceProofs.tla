------------------------- MODULE LinuxServiceProofs -------------------------
(* Proofs about ControlPlane, about LinuxService around it, and about WindowsService, for *)
(* any set of networks and any bounds. *)
EXTENDS WindowsService, EngineProofs, FiniteSetTheorems

-----------------------------------------------------------------------------
(* The control plane. *)

Places == 1 .. Len(actions)
Owes(kinds) == \E i \in Places : actions[i].kind \in kinds

\* What the actions still to publish say of the engine.  ScheduleRetry follows the
\* publication of Backoff at once.
ActionsAreCurrent ==
  /\ actions \in Seq(EngineActions)
  /\ \A i \in Places :
       /\ actions[i].kind = "PersistAutomatic" => actions[i].enabled = automatic
       /\ actions[i].kind = "PublishState" => actions[i].state = state
       /\ actions[i].kind = "PublishError" => active = NoGeneration /\ pendingRetry = NoRetry
       /\ actions[i].kind = "ScheduleRetry" =>
            /\ pendingRetry # NoRetry
            /\ IF i = 1 THEN status.state = "Backoff" ELSE actions[i - 1].kind = "PublishState"

\* Where the status differs from the engine, what is still to publish mends it.
DifferencesAreOwed ==
  /\ \/ status.automatic = automatic
     \/ Owes({"PersistAutomatic"})
  /\ \/ status.state = state
     \/ status.state = "Error" /\ active = NoGeneration /\ pendingRetry = NoRetry
     \/ Owes({"PublishState", "PublishError"})
  /\ \/ status.retryAt = (pendingRetry # NoRetry)
     \/ Owes({"ScheduleRetry"})
     \/ pendingRetry = NoRetry /\ Owes({"PublishState", "PublishError"})

StatusTypeOK == status \in Statuses /\ replacing \in ReplaceSteps

ControlInv ==
  /\ EngineInv /\ StatusTypeOK
  /\ ActionsAreCurrent /\ DifferencesAreOwed /\ StatusConsistent

-----------------------------------------------------------------------------
(* What an event does to the invariant, by the form of its list. *)

\* The status agrees with the engine while the mutex is free.
Agrees ==
  /\ status.automatic = automatic
  /\ \/ status.state = state
     \/ status.state = "Error" /\ active = NoGeneration /\ pendingRetry = NoRetry
  /\ status.retryAt = (pendingRetry # NoRetry)

\* While no list of actions is under way the status agrees with the engine in every field.
LEMMA AgreesWhenFree == ASSUME ControlInv, MutexFree PROVE Agrees
BY DEF ControlInv, MutexFree, DifferencesAreOwed, Owes, Places, Agrees

\* A list that only changes the preference, or cancels a retry.
LEMMA IgnoredStep ==
  ASSUME ControlInv, MutexFree, EngineInv', status' = status, NEW list, Leads(list), Ignore(list)
  PROVE  ActionsAreCurrent' /\ DifferencesAreOwed'
<1>1. Agrees
  BY AgreesWhenFree
<1>2. actions' = list /\ state' = state /\ active' = active
  BY DEF Ignore
<1>3. (pendingRetry' # NoRetry) = (pendingRetry # NoRetry)
  BY <1>2 DEF ControlInv, EngineInv, RetryIffBackoff
<1>4. ActionsAreCurrent'
  BY <1>2 DEF ActionsAreCurrent, Places, Leads, PersistAutomatic, CancelRetry
<1>5. status'.automatic = automatic' \/ Owes({"PersistAutomatic"})'
  BY <1>1, <1>2 DEF Agrees, Owes, Places, Leads, PersistAutomatic
<1> QED
  BY <1>1, <1>2, <1>3, <1>4, <1>5 DEF Agrees, DifferencesAreOwed

\* A list that ends with a publication, which an order to start or stop may follow.
LEMMA PublishedStep ==
  ASSUME ControlInv, MutexFree, EngineInv', status' = status,
         NEW list, Leads(list), state' # "Backoff", NEW rest \in Seq(EngineActions),
         actions' = list \o rest, Len(rest) \in {1, 2}, rest[1] = PublishState(state'),
         Len(rest) = 2 => rest[2].kind \in {"StartConnection", "StopConnection"}
  PROVE  ActionsAreCurrent' /\ DifferencesAreOwed'
<1>1. Agrees
  BY AgreesWhenFree
<1>2. list \in Seq(EngineActions) /\ Len(list) \in Nat
  BY DEF Leads
<1> DEFINE n == Len(list)
           m == Len(rest)
<1>3. /\ actions' \in Seq(EngineActions) /\ Len(actions') = n + m /\ m \in Nat
      /\ \A i \in 1 .. n + m : actions'[i] = IF i <= n THEN list[i] ELSE rest[i - n]
  BY <1>2, ConcatProperties
<1> HIDE DEF n, m
<1>4. /\ \A i \in 1 .. n + m :
           actions'[i] \in {PersistAutomatic(automatic'), CancelRetry, PublishState(state')}
             \/ actions'[i].kind \in {"StartConnection", "StopConnection"}
      /\ n + 1 \in 1 .. n + m /\ actions'[n + 1] = PublishState(state')
  <2>1. \A i \in 1 .. n : actions'[i] \in {PersistAutomatic(automatic'), CancelRetry}
    BY <1>2, <1>3 DEF Leads, n
  <2>2. m \in {1, 2} /\ n \in Nat
    BY <1>2 DEF m, n
  <2>3. actions'[n + 1] = PublishState(state')
    <3>1. n + 1 \in 1 .. n + m /\ ~(n + 1 <= n) /\ (n + 1) - n = 1
      BY <2>2
    <3> QED
      BY <1>3, <3>1
  <2>4. m = 2 => actions'[n + 2].kind \in {"StartConnection", "StopConnection"}
    <3>1. m = 2 => n + 2 \in 1 .. n + m /\ ~(n + 2 <= n) /\ (n + 2) - n = 2
      BY <2>2
    <3> QED
      BY <1>3, <3>1 DEF m
  <2>5. \A i \in 1 .. n + m : i \in 1 .. n \/ i = n + 1 \/ (m = 2 /\ i = n + 2)
    BY <2>2
  <2>6. n + 1 \in 1 .. n + m
    BY <2>2
  <2> QED
    BY <2>1, <2>3, <2>4, <2>5, <2>6
<1>5. ActionsAreCurrent'
  <2>1. ASSUME NEW i \in 1 .. n + m
        PROVE  /\ actions'[i].kind = "PersistAutomatic" => actions'[i].enabled = automatic'
               /\ actions'[i].kind = "PublishState" => actions'[i].state = state'
               /\ actions'[i].kind \notin {"PublishError", "ScheduleRetry"}
    <3>1. CASE actions'[i] = PersistAutomatic(automatic')
      BY <3>1 DEF PersistAutomatic
    <3>2. CASE actions'[i] = CancelRetry
      BY <3>2 DEF CancelRetry
    <3>3. CASE actions'[i] = PublishState(state')
      BY <3>3 DEF PublishState
    <3>4. CASE actions'[i].kind \in {"StartConnection", "StopConnection"}
      BY <3>4
    <3> QED
      BY <1>4, <3>1, <3>2, <3>3, <3>4
  <2> QED
    BY <1>3, <2>1 DEF ActionsAreCurrent, Places
<1>6. pendingRetry' = NoRetry
  BY DEF EngineInv, RetryIffBackoff
<1>7. Owes({"PublishState", "PublishError"})'
  BY <1>3, <1>4 DEF Owes, Places, PublishState
<1>8. status'.automatic = automatic' \/ Owes({"PersistAutomatic"})'
  <2>1. CASE automatic' = automatic
    BY <1>1, <2>1 DEF Agrees
  <2>2. CASE automatic' # automatic
    <3>1. PICK i \in 1 .. n : list[i] = PersistAutomatic(automatic')
      BY <2>2 DEF Leads, n
    <3>2. i \in 1 .. n + m /\ actions'[i] = PersistAutomatic(automatic')
      BY <1>2, <1>3, <3>1 DEF n
    <3> QED
      BY <1>3, <3>2 DEF Owes, Places, PersistAutomatic
  <2> QED
    BY <2>1, <2>2
<1> QED
  BY <1>5, <1>6, <1>7, <1>8 DEF DifferencesAreOwed

\* A list that ends with the publication of a state other than Backoff, and orders nothing.
LEMMA OnlyPublishStep ==
  ASSUME ControlInv, MutexFree, EngineInv', status' = status,
         NEW list, Leads(list), NEW s \in VpnStates, s # "Backoff", OnlyPublish(list, s)
  PROVE  ActionsAreCurrent' /\ DifferencesAreOwed'
<1> DEFINE rest == <<PublishState(s)>>
<1>1. list \in Seq(EngineActions) /\ PublishState(s) \in EngineActions
  BY ActionsTyped DEF Leads
<1>2. rest \in Seq(EngineActions) /\ Len(rest) = 1 /\ rest[1] = PublishState(s)
  BY <1>1
<1>3. Append(list, PublishState(s)) = list \o rest
  BY <1>1, AppendIsConcat
<1>4. state' = s /\ actions' = list \o rest
  BY <1>3 DEF OnlyPublish
<1>5. Len(rest) \in {1, 2} /\ Len(rest) # 2 /\ state' # "Backoff" /\ rest[1] = PublishState(state')
  BY <1>2, <1>4
<1> HIDE DEF rest
<1> QED
  BY <1>2, <1>4, <1>5, PublishedStep

\* A list that publishes a state and then orders a start or a stop of the current connector.
LEMMA OrderStep ==
  ASSUME ControlInv, MutexFree, EngineInv', status' = status,
         NEW list, Leads(list), NEW s \in VpnStates, s # "Backoff", state' = s,
         NEW order \in EngineActions, order.kind \in {"StartConnection", "StopConnection"},
         actions' = list \o <<PublishState(s), order>>
  PROVE  ActionsAreCurrent' /\ DifferencesAreOwed'
<1> DEFINE rest == <<PublishState(s), order>>
<1>1. /\ rest \in Seq(EngineActions) /\ Len(rest) = 2 /\ rest[1] = PublishState(s)
      /\ rest[2] = order
  BY ActionsTyped
<1> HIDE DEF rest
<1> QED
  BY <1>1, PublishedStep DEF rest

\* Stopping the active connector, from any state but Backoff: one of the two lists above.
LEMMA StopActiveStep ==
  ASSUME ControlInv, MutexFree, EngineInv', status' = status,
         NEW list, Leads(list), NEW s \in VpnStates, s # "Backoff", StopActive(list, s)
  PROVE  ActionsAreCurrent' /\ DifferencesAreOwed'
<1>1. active \in Nat
  BY EngineAssumption DEF ControlInv, EngineInv, EngineTypeOK, Generations, NoGeneration
<1>2. Stop(active) \in EngineActions /\ Stop(active).kind = "StopConnection"
  BY <1>1, ActionsTyped DEF Stop
<1> QED
  BY <1>2, OrderStep DEF StopActive

\* Starting the next generation: publish Connecting, then order the start.
LEMMA StartConnectionStep ==
  ASSUME ControlInv, MutexFree, EngineInv', status' = status,
         NEW list, Leads(list), StartConnection(list)
  PROVE  ActionsAreCurrent' /\ DifferencesAreOwed'
<1>1. nextGeneration \in Nat
  BY EngineAssumption DEF ControlInv, EngineInv, EngineTypeOK
<1>2. Start(nextGeneration) \in EngineActions /\ Start(nextGeneration).kind = "StartConnection"
  BY <1>1, ActionsTyped DEF Start
<1>3. "Connecting" \in VpnStates
  BY DEF VpnStates
<1> QED
  BY <1>2, <1>3, OrderStep DEF StartConnection

\* The list of a connector that is gone.
LEMMA ForgetActiveStep ==
  ASSUME ControlInv, MutexFree, EngineInv', status' = status, automatic' = automatic,
         NEW s \in VpnStates, NEW list, ForgetActive(s, list),
         \/ s # "Backoff" /\ list = <<PublishState(s)>>
         \/ /\ s = "Backoff" /\ list = <<PublishState(s), ScheduleRetry>>
            /\ pendingRetry' # NoRetry
         \/ list = <<PublishError>> /\ pendingRetry' = NoRetry
  PROVE  ActionsAreCurrent' /\ DifferencesAreOwed'
<1>1. Agrees
  BY AgreesWhenFree
<1>2. state' = s /\ actions' = list /\ active' = NoGeneration
  BY DEF ForgetActive
<1>3. CASE s # "Backoff" /\ list = <<PublishState(s)>>
  <2>1. /\ actions' \in Seq(EngineActions) /\ Len(actions') = 1
        /\ actions'[1] = PublishState(s)
    BY <1>2, <1>3, ActionsTyped
  <2>2. pendingRetry' = NoRetry
    BY <1>2, <1>3 DEF EngineInv, RetryIffBackoff
  <2> QED
    BY <1>1, <1>2, <2>1, <2>2
       DEF ActionsAreCurrent, DifferencesAreOwed, Owes, Places, Agrees, PublishState
<1>4. CASE s = "Backoff" /\ list = <<PublishState(s), ScheduleRetry>> /\ pendingRetry' # NoRetry
  <2>1. /\ actions' \in Seq(EngineActions) /\ Len(actions') = 2
        /\ actions'[1] = PublishState(s) /\ actions'[2] = ScheduleRetry
    BY <1>2, <1>4, ActionsTyped
  <2>2. \A i \in 1 .. 2 : i = 1 \/ i = 2
    OBVIOUS
  <2>3. ActionsAreCurrent'
    BY <1>2, <1>4, <2>1, <2>2 DEF ActionsAreCurrent, Places, PublishState, ScheduleRetry
  <2>4. Owes({"PublishState", "PublishError"})' /\ Owes({"ScheduleRetry"})'
    BY <2>1 DEF Owes, Places, PublishState, ScheduleRetry
  <2> QED
    BY <1>1, <2>3, <2>4 DEF DifferencesAreOwed, Agrees
<1>5. CASE list = <<PublishError>> /\ pendingRetry' = NoRetry
  <2>1. /\ actions' \in Seq(EngineActions) /\ Len(actions') = 1
        /\ actions'[1] = PublishError
    BY <1>2, <1>5, ActionsTyped
  <2> QED
    BY <1>1, <1>2, <1>5, <2>1
       DEF ActionsAreCurrent, DifferencesAreOwed, Owes, Places, Agrees, PublishError
<1> QED
  BY <1>3, <1>4, <1>5

-----------------------------------------------------------------------------
(* One lemma per kind of event. *)

\* Connect, Disconnect, Reconnect and the start of the service leave a list that mends the status.
LEMMA UserEventStep ==
  ASSUME ControlInv, MutexFree, EngineInv', status' = status, UserEvent
  PROVE  ActionsAreCurrent' /\ DifferencesAreOwed'
<1>1. automatic \in BOOLEAN /\ automatic' \in BOOLEAN
  BY DEF ControlInv, EngineInv, EngineTypeOK
<1>2. /\ Leads(PersistIfNewly(automatic'))
      /\ Leads(PersistIfNewly(automatic') \o CancelIfPending)
  BY <1>1, LeadingLists
<1>3. {"Disabled", "WaitingForNetwork", "Disconnecting"} \subseteq VpnStates \ {"Backoff"}
  BY DEF VpnStates
<1>4. CASE ConnectRequested
  <2> DEFINE list == PersistIfNewly(TRUE)
  <2>1. Leads(list)
    BY <1>2, <1>4 DEF ConnectRequested
  <2>2. StartConnection(list) \/ OnlyPublish(list, "WaitingForNetwork") \/ Ignore(list)
    BY <1>4 DEF ConnectRequested
  <2> HIDE DEF list
  <2> QED
    BY <1>3, <2>1, <2>2, StartConnectionStep, OnlyPublishStep, IgnoredStep
<1>5. CASE DisconnectRequested
  <2> DEFINE list == PersistIfNewly(FALSE) \o CancelIfPending
  <2>1. Leads(list)
    BY <1>2, <1>5 DEF DisconnectRequested
  <2>2. StopActive(list, "Disconnecting") \/ OnlyPublish(list, "Disabled")
    BY <1>5 DEF DisconnectRequested
  <2> HIDE DEF list
  <2> QED
    BY <1>3, <2>1, <2>2, StopActiveStep, OnlyPublishStep
<1>6. CASE ReconnectRequested
  <2> DEFINE list == PersistIfNewly(TRUE) \o CancelIfPending
  <2>1. Leads(list)
    BY <1>2, <1>6 DEF ReconnectRequested
  <2>2. \/ StopActive(list, "Disconnecting") \/ StartConnection(list)
        \/ OnlyPublish(list, "WaitingForNetwork")
    BY <1>6 DEF ReconnectRequested
  <2> HIDE DEF list
  <2> QED
    BY <1>3, <2>1, <2>2, StopActiveStep, StartConnectionStep, OnlyPublishStep
<1> QED
  BY <1>4, <1>5, <1>6 DEF UserEvent

\* Events that leave the preference alone.
LEMMA OtherEventStep ==
  ASSUME ControlInv, MutexFree, EngineInv', status' = status,
         NetworkEvent \/ ConnectorEvent \/ TimerEvent
  PROVE  ActionsAreCurrent' /\ DifferencesAreOwed'
<1>1. automatic' = automatic
  BY DEF NetworkEvent, NetworkUnavailable, NetworkReady, ConnectorEvent, ConnectorConnected,
     ConnectTimedOut, ConnectorExited, ActiveExited, ConnectorError, Stale, TimerEvent,
     RetryElapsed, SessionExpired
<1>2. Leads(<<>>) /\ Leads(CancelIfPending)
  BY <1>1, LeadingLists DEF ControlInv, EngineInv, EngineTypeOK
<1>3. {"Disabled", "WaitingForNetwork", "Disconnecting", "Connected"}
        \subseteq VpnStates \ {"Backoff"}
      /\ "Backoff" \in VpnStates
  BY DEF VpnStates
<1>4. CASE NetworkEvent
  <2>1. \/ \E list \in {<<>>, CancelIfPending} : Ignore(list) \/ StartConnection(list)
        \/ OnlyPublish(CancelIfPending, "WaitingForNetwork")
        \/ \E s \in {"WaitingForNetwork", "Disconnecting"} : StopActive(CancelIfPending, s)
    BY <1>4 DEF NetworkEvent, NetworkUnavailable, NetworkReady, NetworkChanged, NetworkConfirmed
  <2> QED
    BY <1>2, <1>3, <2>1, IgnoredStep, StartConnectionStep, OnlyPublishStep, StopActiveStep
<1>5. CASE TimerEvent
  <2>1. \/ Ignore(<<>>) \/ StartConnection(<<>>) \/ OnlyPublish(<<>>, "WaitingForNetwork")
        \/ StopActive(<<>>, "Disconnecting")
    BY <1>5 DEF TimerEvent, RetryElapsed, SessionExpired
  <2> QED
    BY <1>2, <1>3, <2>1, IgnoredStep, StartConnectionStep, OnlyPublishStep, StopActiveStep
<1>6. CASE ConnectorEvent
  <2>1. PICK g \in Started :
          \/ ConnectorConnected(g)
          \/ \E returnCode \in {0, 1}, runtime \in {0, ResetAfterSeconds} :
               ConnectorExited(g, returnCode, runtime)
          \/ ConnectTimedOut(g)
          \/ ConnectorError(g)
    BY <1>6 DEF ConnectorEvent
  <2>2. CASE ConnectorConnected(g)
    <3>1. Ignore(<<>>) \/ OnlyPublish(<<>>, "Connected")
      BY <2>2 DEF ConnectorConnected, Stale
    <3> QED
      BY <1>2, <1>3, <3>1, IgnoredStep, OnlyPublishStep
  <2>3. ASSUME NEW returnCode \in {0, 1}, NEW runtime \in {0, ResetAfterSeconds},
               ConnectorExited(g, returnCode, runtime)
        PROVE  ActionsAreCurrent' /\ DifferencesAreOwed'
    <3>1. \/ Ignore(<<>>) \/ StartConnection(<<>>)
          \/ \E s \in {"Disabled", "WaitingForNetwork"} : ForgetActive(s, <<PublishState(s)>>)
          \/ /\ ForgetActive("Backoff", <<PublishState("Backoff"), ScheduleRetry>>)
             /\ RecordExit(returnCode, runtime)
      BY <2>3 DEF ConnectorExited, ActiveExited, Stale
    <3>2. RecordExit(returnCode, runtime) => pendingRetry' # NoRetry
      BY RecordExitArms DEF ControlInv, EngineInv, NoRetry, ResetAfterSeconds
    <3> QED
      BY <1>1, <1>2, <1>3, <3>1, <3>2, IgnoredStep, StartConnectionStep, ForgetActiveStep
  <2>4. CASE ConnectorError(g)
    <3>1. \/ Ignore(<<>>)
          \/ ForgetActive(state, <<PublishError>>) /\ pendingRetry' = NoRetry
      BY <2>4 DEF ConnectorError, Stale
    <3>2. state \in VpnStates
      BY DEF ControlInv, EngineInv, EngineTypeOK
    <3> QED
      BY <1>1, <1>2, <3>1, <3>2, IgnoredStep, ForgetActiveStep
  <2> QED
    BY <2>1, <2>2, <2>3, <2>4 DEF ConnectTimedOut
<1> QED
  BY <1>4, <1>5, <1>6

\* An event keeps the invariant.
LEMMA EventStep ==
  ASSUME ControlInv, MutexFree, Next, status' = status, replacing' \in ReplaceSteps
  PROVE  ControlInv'
<1>1. EngineInv'
  BY EngineInvNext DEF ControlInv
<1>2. ActionsAreCurrent' /\ DifferencesAreOwed'
  BY <1>1, UserEventStep, OtherEventStep DEF Next
<1>3. StatusTypeOK' /\ StatusConsistent'
  BY DEF ControlInv, StatusTypeOK, StatusConsistent
<1> QED
  BY <1>1, <1>2, <1>3 DEF ControlInv

-----------------------------------------------------------------------------
(* The publication of an action. *)

\* What is published makes the fields of the status fit together.
LEMMA PublicationFits ==
  ASSUME ControlInv, NEW a \in EngineActions, a.kind = "PublishState" => a.state = state,
         a.kind = "ScheduleRetry" => status.state = "Backoff"
  PROVE  LET st == StatusAfter(status, a)
         IN /\ st \in Statuses
            /\ st.state = "Connected" => st.tunnel
            /\ st.tunnel => st.state \in {"Connected", "Disconnecting", "WaitingForNetwork"}
            /\ st.retryAt => st.state = "Backoff"
            /\ st.error <=> st.state = "Error"
<1> USE DEF ControlInv, StatusTypeOK, StatusConsistent, Statuses
<1>1. CASE a.kind = "PublishState"
  <2>1. state \in VpnStates
    BY DEF EngineInv, EngineTypeOK
  <2> QED
    BY <1>1, <2>1 DEF StatusAfter, ConnectedStatus, PublishedStatus, VpnStates
<1>2. CASE a.kind = "PublishError"
  BY <1>2 DEF StatusAfter, ErrorStatus
<1>3. CASE a.kind = "PersistAutomatic"
  <2>1. a.enabled \in BOOLEAN
    BY <1>3 DEF EngineActions
  <2> QED
    BY <1>3, <2>1 DEF StatusAfter
<1>4. CASE a.kind = "ScheduleRetry"
  BY <1>4 DEF StatusAfter
<1>5. CASE a.kind \notin {"PublishState", "PublishError", "PersistAutomatic", "ScheduleRetry"}
  BY <1>5 DEF StatusAfter
<1> QED
  BY <1>1, <1>2, <1>3, <1>4, <1>5

\* The actions left are those after the first.
LEMMA ActionsLeft ==
  ASSUME ControlInv, PublishNext
  PROVE  /\ Len(actions) >= 1 /\ Len(actions) \in Nat /\ actions[1] \in EngineActions
         /\ actions' \in Seq(EngineActions) /\ Len(actions') = Len(actions) - 1
         /\ \A i \in Places' : i + 1 \in Places /\ actions'[i] = actions[i + 1]
         /\ status' = StatusAfter(status, actions[1])
         /\ \A i \in Places : i = 1 \/ (i - 1 \in Places' /\ actions'[i - 1] = actions[i])
<1> DEFINE n == Len(actions)
<1>1. actions \in Seq(EngineActions) /\ n \in Nat /\ n # 0
  BY EmptySeq DEF ControlInv, ActionsAreCurrent, PublishNext
<1>2. actions' = Tail(actions) /\ Head(actions) = actions[1]
  BY <1>1 DEF PublishNext
<1>3. /\ actions' \in Seq(EngineActions) /\ Len(actions') = n - 1
      /\ \A i \in 1 .. n - 1 : actions'[i] = actions[i + 1]
  BY <1>1, <1>2
<1>4. actions[1] \in EngineActions
  BY <1>1
<1>5. status' = StatusAfter(status, actions[1])
  BY <1>2 DEF PublishNext
<1> HIDE DEF n
<1>6. /\ \A i \in 1 .. n - 1 : i + 1 \in 1 .. n
      /\ \A i \in 1 .. n : i = 1 \/ (i - 1 \in 1 .. n - 1 /\ (i - 1) + 1 = i)
  BY <1>1
<1> QED
  BY <1>1, <1>3, <1>4, <1>5, <1>6 DEF Places, n

\* Taking the first action of the list keeps the invariant: it mends what it owes, the
\* rest keeps its duty.
LEMMA PublishStep == ASSUME ControlInv, PublishNext PROVE ControlInv'
<1> DEFINE a == actions[1]
<1>1. UNCHANGED <<state, automatic, network, active, nextGeneration, pendingRetry,
                  reconnectImmediately, failures, stopRequested, replacing>>
  BY DEF PublishNext
<1>2. EngineInv'
  BY <1>1 DEF ControlInv, EngineInv, EngineTypeOK, ActiveWasStarted, RetryIffBackoff,
     UnwantedIsStopping, TruthfulState, RetryDelayFollowsFailures
<1>3. /\ 1 \in Places /\ a \in EngineActions /\ status' = StatusAfter(status, a)
      /\ \A i \in Places' : i + 1 \in Places /\ actions'[i] = actions[i + 1]
      /\ \A i \in Places : i = 1 \/ (i - 1 \in Places' /\ actions'[i - 1] = actions[i])
      /\ actions' \in Seq(EngineActions)
  <2>1. Len(actions) \in Nat /\ Len(actions) >= 1 => 1 \in Places
    BY DEF Places
  <2> QED
    BY <2>1, ActionsLeft
<1>4. /\ a.kind = "PersistAutomatic" => a.enabled = automatic
      /\ a.kind = "PublishState" => a.state = state
      /\ a.kind = "PublishError" => active = NoGeneration /\ pendingRetry = NoRetry
      /\ a.kind = "ScheduleRetry" => pendingRetry # NoRetry /\ status.state = "Backoff"
  BY <1>3 DEF ControlInv, ActionsAreCurrent
<1>5. StatusTypeOK' /\ StatusConsistent'
  BY <1>1, <1>3, <1>4, PublicationFits DEF StatusTypeOK, StatusConsistent, ControlInv
<1>6. \A kinds : Owes(kinds) => a.kind \in kinds \/ Owes(kinds)'
  BY <1>3 DEF Owes
<1>7. state \in VpnStates /\ (pendingRetry # NoRetry <=> state = "Backoff")
  BY DEF ControlInv, EngineInv, EngineTypeOK, RetryIffBackoff
<1>8. /\ status \in Statuses
      /\ a.kind = "PublishState" =>
           status'.state = state /\ status'.automatic = status.automatic
             /\ status'.retryAt = (status.retryAt /\ state = "Backoff")
      /\ a.kind = "PublishError" =>
           status'.state = "Error" /\ status'.automatic = status.automatic
             /\ status'.retryAt = FALSE
      /\ a.kind = "PersistAutomatic" =>
           status'.state = status.state /\ status'.automatic = automatic
             /\ status'.retryAt = status.retryAt
      /\ a.kind = "ScheduleRetry" =>
           status'.state = status.state /\ status'.automatic = status.automatic
             /\ status'.retryAt = TRUE
      /\ a.kind \notin {"PublishState", "PublishError", "PersistAutomatic", "ScheduleRetry"} =>
           status' = status
  BY <1>3, <1>4 DEF StatusAfter, ConnectedStatus, ErrorStatus, PublishedStatus, ControlInv,
     StatusTypeOK, Statuses
<1> HIDE DEF a
<1>9. status'.automatic = automatic \/ Owes({"PersistAutomatic"})'
  BY <1>6, <1>8 DEF ControlInv, DifferencesAreOwed
<1>10. \/ status'.state = state
       \/ status'.state = "Error" /\ active = NoGeneration /\ pendingRetry = NoRetry
       \/ Owes({"PublishState", "PublishError"})'
  BY <1>4, <1>6, <1>8 DEF ControlInv, DifferencesAreOwed
<1>11. \/ status'.retryAt = (pendingRetry # NoRetry)
       \/ Owes({"ScheduleRetry"})'
       \/ pendingRetry = NoRetry /\ Owes({"PublishState", "PublishError"})'
  BY <1>4, <1>6, <1>7, <1>8 DEF ControlInv, DifferencesAreOwed, Statuses
<1>12. DifferencesAreOwed'
  BY <1>1, <1>9, <1>10, <1>11 DEF DifferencesAreOwed
<1>13. ActionsAreCurrent'
  <2>1. ASSUME NEW i \in Places'
        PROVE  /\ actions'[i].kind = "PersistAutomatic" => actions'[i].enabled = automatic
               /\ actions'[i].kind = "PublishState" => actions'[i].state = state
               /\ actions'[i].kind = "PublishError" =>
                    active = NoGeneration /\ pendingRetry = NoRetry
               /\ actions'[i].kind = "ScheduleRetry" => pendingRetry # NoRetry
    BY <1>3 DEF ControlInv, ActionsAreCurrent
  <2>2. ASSUME NEW i \in Places', actions'[i].kind = "ScheduleRetry"
        PROVE  IF i = 1 THEN status'.state = "Backoff"
               ELSE actions'[i - 1].kind = "PublishState"
    <3>1. i \in Nat /\ i >= 1 /\ i + 1 \in Places /\ actions[i + 1].kind = "ScheduleRetry"
      BY <1>3, <2>2 DEF Places
    <3>2. actions[i].kind = "PublishState" /\ pendingRetry # NoRetry
      <4>1. i + 1 # 1 /\ (i + 1) - 1 = i
        BY <3>1
      <4> QED
        BY <3>1, <4>1 DEF ControlInv, ActionsAreCurrent
    <3>3. CASE i = 1
      BY <1>7, <1>8, <3>2, <3>3 DEF a
    <3>4. CASE i # 1
      <4>1. i \in Places /\ i - 1 \in Places'
        BY <2>2, <3>1, <3>4 DEF Places
      <4>2. actions'[i - 1] = actions[i]
        BY <1>3, <3>4, <4>1
      <4> QED
        BY <3>2, <3>4, <4>2
    <3> QED
      BY <3>3, <3>4
  <2> QED
    BY <1>1, <1>3, <2>1, <2>2 DEF ActionsAreCurrent
<1> QED
  BY <1>2, <1>5, <1>12, <1>13 DEF ControlInv

-----------------------------------------------------------------------------
\* A new control plane agrees with its engine.
LEMMA ControlInvInit == ControlInit => ControlInv
<1> SUFFICES ASSUME ControlInit PROVE ControlInv
  OBVIOUS
<1>1. EngineInv
  BY EngineInvInit DEF ControlInit
<1>2. actions = <<>> /\ pendingRetry = NoRetry
  BY DEF ControlInit, Init
<1>3. /\ status = [state |-> state, automatic |-> automatic, tunnel |-> FALSE,
                   retryAt |-> FALSE, error |-> FALSE]
      /\ state \in {"Disabled", "WaitingForNetwork"} /\ automatic \in BOOLEAN
  BY DEF ControlInit, Init, NewStatus
<1>4. StatusTypeOK /\ StatusConsistent
  BY <1>3 DEF ControlInit, StatusTypeOK, StatusConsistent, Statuses, VpnStates, ReplaceSteps
<1>5. ActionsAreCurrent
  BY <1>2 DEF ActionsAreCurrent, Places
<1>6. DifferencesAreOwed
  BY <1>2, <1>3 DEF DifferencesAreOwed
<1> QED
  BY <1>1, <1>4, <1>5, <1>6 DEF ControlInv

\* A step of the request to replace the credentials that touches nothing else.
LEMMA WaitingStep ==
  ASSUME ControlInv, UNCHANGED <<engineVars, status>>, replacing' \in ReplaceSteps
  PROVE  ControlInv'
<1>1. EngineInv'
  BY DEF engineVars, ControlInv, EngineInv, EngineTypeOK, ActiveWasStarted, RetryIffBackoff,
     UnwantedIsStopping, TruthfulState, RetryDelayFollowsFailures
<1>2. StatusTypeOK' /\ StatusConsistent'
  BY DEF ControlInv, StatusTypeOK, StatusConsistent
<1>3. ActionsAreCurrent' /\ DifferencesAreOwed'
  BY DEF engineVars, ControlInv, ActionsAreCurrent, DifferencesAreOwed, Owes, Places
<1> QED
  BY <1>1, <1>2, <1>3 DEF ControlInv

\* At every moment what the status lacks is still to be published.
THEOREM ControlInvariant == ControlSpec => []ControlInv
<1>1. ControlInv /\ [ControlNext]_controlVars => ControlInv'
  <2> SUFFICES ASSUME ControlInv, [ControlNext]_controlVars PROVE ControlInv'
    OBVIOUS
  <2>1. replacing \in ReplaceSteps
    BY DEF ControlInv, StatusTypeOK
  <2>2. CASE Request
    BY <2>1, <2>2, EventStep DEF Request, Apply, Next
  <2>3. CASE Apply(NetworkEvent \/ ConnectorEvent \/ TimerEvent) /\ UNCHANGED replacing
    BY <2>1, <2>3, EventStep DEF Apply, Next
  <2>4. CASE ReplaceCredentials
    <3>1. CASE CredentialsStored \/ AutomaticChecked
      BY <3>1, WaitingStep DEF CredentialsStored, AutomaticChecked, ReplaceSteps
    <3>2. CASE ReplacementReconnects
      BY <3>2, EventStep DEF ReplacementReconnects, Apply, Next, UserEvent, ReplaceSteps
    <3> QED
      BY <2>4, <3>1, <3>2 DEF ReplaceCredentials
  <2>5. CASE PublishNext
    BY <2>5, PublishStep
  <2>6. CASE UNCHANGED controlVars
    BY <2>1, <2>6, WaitingStep DEF controlVars
  <2> QED
    BY <2>2, <2>3, <2>4, <2>5, <2>6 DEF ControlNext
<1> QED
  BY <1>1, ControlInvInit, PTL DEF ControlSpec

\* The fields of the status document keep their types.
THEOREM ControlTypeCorrect == ControlSpec => []ControlTypeOK
<1>1. ControlInv => ControlTypeOK
  BY DEF ControlInv, EngineInv, StatusTypeOK, ControlTypeOK
<1> QED
  BY <1>1, ControlInvariant, PTL

\* publish_actions: between two events the status tells the engine's state and preference,
\* and shows a retry exactly while one is pending.
THEOREM StatusIsCurrent == ControlSpec => []StatusFollowsEngine
<1>1. ControlInv => StatusFollowsEngine
  BY AgreesWhenFree DEF Agrees, StatusFollowsEngine
<1> QED
  BY <1>1, ControlInvariant, PTL

\* Also between two actions of one event, the fields of the status fit together.
THEOREM StatusFitsTogether == ControlSpec => []StatusConsistent
<1>1. ControlInv => StatusConsistent
  BY DEF ControlInv
<1> QED
  BY <1>1, ControlInvariant, PTL

\* Both: what a reader of the status is shown is true, or on its way to be.
THEOREM StatusIsSound == ControlSpec => []StatusSound
BY StatusIsCurrent, StatusFitsTogether, PTL DEF StatusSound

\* Behind its control plane the engine keeps its own invariant, although its actions are
\* published one at a time.
THEOREM EngineStaysSound == ControlSpec => []EngineSound
<1>1. ControlInv => EngineSound
  BY DEF ControlInv, EngineInv, EngineTypeOK, EngineSound, NeverIdleWhileWanted, Parked,
     VpnStates, TruthfulState, RetryIffBackoff
<1> QED
  BY <1>1, ControlInvariant, PTL

\* A step of the control plane is one of the engine, or leaves all but `actions` alone.
LEMMA ControlMovesEngine ==
  ASSUME [ControlNext]_controlVars
  PROVE  Next \/ UNCHANGED <<state, automatic, network, active, nextGeneration, stopRequested>>
BY DEF ControlNext, Request, Apply, Next, ReplaceCredentials, CredentialsStored,
   AutomaticChecked, ReplacementReconnects, UserEvent, PublishNext, controlVars, engineVars

\* Behind its control plane, too, only connector_error parks the engine.
THEOREM ControlParkedByErrorAlone == ControlSpec => ParkedOnlyByError
<1>1. ControlInv /\ [ControlNext]_controlVars
        => [Parked' /\ ~Parked => actions' = <<PublishError>>]_engineVars
  BY ControlMovesEngine, ParkingStep DEF ControlInv, Parked
<1> QED
  BY <1>1, ControlInvariant, PTL DEF ControlSpec, ParkedOnlyByError

\* The control plane implements Supervisor with its engine: publishing is a stutter.
THEOREM ControlImplementsSupervisor == ControlSpec => ImplementsSupervisor
<1>1. ControlInit => Supervised!Init
  BY DEF ControlInit, Init, Supervised!Init, Permitted, Phase
<1>2. ControlInv /\ [ControlNext]_controlVars => [Supervised!Next]_Supervised!vars
  <2> SUFFICES ASSUME ControlInv, [ControlNext]_controlVars
               PROVE  [Supervised!Next]_Supervised!vars
    OBVIOUS
  <2>1. CASE Next
    BY <2>1, SupervisorStep DEF ControlInv
  <2>2. CASE UNCHANGED <<state, automatic, network, active, nextGeneration, stopRequested>>
    BY <2>2 DEF Supervised!vars, Phase, Permitted
  <2> QED
    BY <2>1, <2>2, ControlMovesEngine
<1> QED
  BY <1>1, <1>2, ControlInvariant, PTL DEF ControlSpec, ImplementsSupervisor, Supervised!Spec

-----------------------------------------------------------------------------
(* The inductive invariant. *)

Exits ==
  [kind : {"ConnectorExited"}, gen : Nat, code : {0, 1}, runtime : {0, ResetAfterSeconds}]
ExitsOf(g) == {e \in Exits : e.gen = g}
ServiceEvents ==
  [kind : {"ConnectorConnected"}, gen : Nat] \union Exits \union [kind : {"RetryElapsed"}]

QueuesTyped ==
  /\ queue \in Seq(EngineActions)
  /\ \A i \in DOMAIN queue : HasEffect(queue[i])
  /\ events \in Seq(ServiceEvents)
  /\ \A i \in DOMAIN events :
       events[i].kind = "ConnectorConnected" => events[i].gen \in Started

TasksTyped ==
  /\ session \in [Generations -> {"none", "running", "ended"}]
  /\ stopSignal \subseteq Generations /\ reported \subseteq Generations
  /\ timer \in {"none", "armed"}
  /\ preference \in BOOLEAN /\ unsaved \in BOOLEAN /\ stopping \in BOOLEAN
  /\ looseTimers \in Nat /\ looseTimers <= MaxLooseTimers + (IF stopping THEN 1 ELSE 0)

\* Orders to start, sessions and exits are all of the active generation; orders to stop
\* of one that was started.
OnlyActive ==
  /\ \A g \in Nat :
       In(Pending, {Start(g)}) \/ In(events, ExitsOf(g)) => g = active /\ g # NoGeneration
  /\ \A g \in Generations : session[g] # "none" => g = active
  /\ \A g \in Nat : In(Pending, {Stop(g)}) => g \in Generations

\* And there is one of them, for an active generation.
OneTrace ==
  active # NoGeneration =>
    LET ordered == In(Pending, {Start(active)})
        exists == session[active] # "none"
        announced == In(events, ExitsOf(active))
    IN /\ ordered \/ exists \/ announced
       /\ ~(ordered /\ (exists \/ announced))
       /\ ~(exists /\ announced)
       /\ AtMostOne(Pending, {Start(active)})
       /\ AtMostOne(events, ExitsOf(active))

\* A start still ordered has the order to stop behind it, a session the signal or the
\* order.
StopFollows ==
  stopRequested =>
    /\ Followed(Pending, {Start(active)}, {Stop(active)})
    /\ session[active] = "running" => active \in stopSignal \/ In(Pending, {Stop(active)})

\* A cancellation still ordered has the order of the new timer behind it.
RetryFollows ==
  pendingRetry # NoRetry =>
    \/ stopping
    \/ In(events, {Elapsed})
    \/ /\ Followed(Pending, {CancelRetry}, {ScheduleRetry})
       /\ timer = "armed" \/ In(Pending, {ScheduleRetry})

\* An order to store the old preference has one to store the new preference behind it.
PreferenceFollows ==
  /\ Followed(Pending, {PersistAutomatic(~automatic)}, {PersistAutomatic(automatic)})
  /\ unsaved \/ preference = automatic \/ In(Pending, {PersistAutomatic(automatic)})

LinuxInv ==
  /\ ControlInv /\ QueuesTyped /\ TasksTyped
  /\ OnlyActive /\ OneTrace /\ StopFollows /\ RetryFollows /\ PreferenceFollows

-----------------------------------------------------------------------------
(* What an event orders. *)

\* The actions are what their kind says.
LEMMA KindTells ==
  ASSUME NEW a \in EngineActions
  PROVE  /\ a.kind = "PersistAutomatic" => a.enabled \in BOOLEAN /\ a = PersistAutomatic(a.enabled)
         /\ a.kind = "StartConnection" => a.gen \in Nat /\ a = Start(a.gen)
         /\ a.kind = "StopConnection" => a.gen \in Nat /\ a = Stop(a.gen)
         /\ a.kind = "ScheduleRetry" => a = ScheduleRetry
         /\ a.kind = "CancelRetry" => a = CancelRetry
BY DEF EngineActions, PersistAutomatic, Start, Stop, ScheduleRetry, CancelRetry

\* Nothing but the beginning of a list cancels a retry.
LEMMA NothingCancelled ==
  ASSUME NEW list \in Seq(EngineActions), ~In(list, {CancelRetry}), NEW s \in VpnStates,
         active \in Nat,
         \/ Ignore(list) \/ OnlyPublish(list, s) \/ StopActive(list, s)
         \/ ForgetActive(s, <<PublishState(s)>>)
         \/ ForgetActive(s, <<PublishState(s), ScheduleRetry>>)
  PROVE  ~In(actions', {CancelRetry})
<1>1. /\ PublishState(s) \in EngineActions /\ Stop(active) \in EngineActions
      /\ PublishState(s) # CancelRetry /\ Stop(active) # CancelRetry
      /\ ScheduleRetry # CancelRetry
  BY ActionsTyped DEF PublishState, Stop, CancelRetry, ScheduleRetry
<1> DEFINE one == <<PublishState(s)>>
           two == <<PublishState(s), Stop(active)>>
           backoff == <<PublishState(s), ScheduleRetry>>
<1>2. /\ ~In(one, {CancelRetry}) /\ ~In(two, {CancelRetry}) /\ ~In(backoff, {CancelRetry})
  BY <1>1, ShortView, PairView
<1>3. one \in Seq(EngineActions) /\ two \in Seq(EngineActions)
  BY <1>1
<1>4. Append(list, PublishState(s)) = list \o one
  BY <1>1, AppendIsConcat
<1>5. actions' \in {list, list \o one, list \o two, one, backoff}
  BY <1>4 DEF Ignore, OnlyPublish, StopActive, ForgetActive
<1> HIDE DEF one, two, backoff
<1>6. /\ In(list \o one, {CancelRetry}) <=> In(list, {CancelRetry}) \/ In(one, {CancelRetry})
      /\ In(list \o two, {CancelRetry}) <=> In(list, {CancelRetry}) \/ In(two, {CancelRetry})
  BY <1>3, ConcatView
<1> QED
  BY <1>2, <1>5, <1>6

\* A cancellation is ordered only where no retry is left.
LEMMA CancelledIsOver ==
  ASSUME ControlInv, Next, In(actions', {CancelRetry})
  PROVE  pendingRetry' = NoRetry
<1>1. <<>> \in Seq(EngineActions) /\ ~In(<<>>, {CancelRetry}) /\ active \in Nat
  <2>1. ~In(<<>>, {CancelRetry})
    BY ShortView
  <2>2. active \in Nat
    BY EngineAssumption DEF ControlInv, EngineInv, EngineTypeOK, Generations, NoGeneration
  <2> QED
    BY <2>1, <2>2
<1>2. {"Disabled", "WaitingForNetwork", "Disconnecting", "Connected", "Backoff"} \subseteq VpnStates
  BY DEF VpnStates
<1>3. CASE ConnectRequested
  <2> DEFINE enable == PersistAutomatic(TRUE)
             persist == PersistIfNewly(TRUE)
  <2>1. persist = <<>> \/ persist = <<enable>>
    BY DEF PersistIfNewly, When
  <2>2. enable \in EngineActions /\ enable # CancelRetry
    BY ActionsTyped DEF PersistAutomatic, CancelRetry
  <2>3. \/ pendingRetry' = NoRetry
        \/ OnlyPublish(persist, "WaitingForNetwork") \/ Ignore(persist)
    BY <1>3 DEF ConnectRequested, StartConnection
  <2> HIDE DEF enable, persist
  <2>4. <<enable>> \in Seq(EngineActions) /\ ~In(<<enable>>, {CancelRetry})
    BY <2>2, ShortView
  <2>5. persist \in Seq(EngineActions) /\ ~In(persist, {CancelRetry})
    BY <1>1, <2>1, <2>4
  <2> QED
    BY <1>1, <1>2, <2>3, <2>5, NothingCancelled
<1>4. CASE DisconnectRequested \/ ReconnectRequested \/ RetryElapsed
  BY <1>4 DEF DisconnectRequested, ReconnectRequested, RetryElapsed
<1>5. CASE NetworkEvent
  <2>1. pendingRetry' = NoRetry \/ Ignore(<<>>)
    BY <1>5 DEF NetworkEvent, NetworkUnavailable, NetworkReady, NetworkChanged,
       NetworkConfirmed, StartConnection
  <2> QED
    BY <1>1, <2>1 DEF Ignore
<1>6. CASE SessionExpired
  <2>1. Ignore(<<>>) \/ StopActive(<<>>, "Disconnecting")
    BY <1>6 DEF SessionExpired
  <2> QED
    BY <1>1, <1>2, <2>1, NothingCancelled
<1>7. CASE ConnectorEvent
  <2>1. PICK g \in Started :
          \/ ConnectorConnected(g)
          \/ \E returnCode \in {0, 1}, runtime \in {0, ResetAfterSeconds} :
               ConnectorExited(g, returnCode, runtime)
          \/ ConnectTimedOut(g)
          \/ ConnectorError(g)
    BY <1>7 DEF ConnectorEvent
  <2>2. \/ Ignore(<<>>) \/ OnlyPublish(<<>>, "Connected")
        \/ pendingRetry' = NoRetry
        \/ \E s \in {"Disabled", "WaitingForNetwork"} : ForgetActive(s, <<PublishState(s)>>)
        \/ ForgetActive("Backoff", <<PublishState("Backoff"), ScheduleRetry>>)
    BY <2>1 DEF ConnectorConnected, ConnectTimedOut, ConnectorExited, ActiveExited,
       ConnectorError, Stale, StartConnection
  <2> QED
    BY <1>1, <1>2, <2>2, NothingCancelled
<1> QED
  BY <1>3, <1>4, <1>5, <1>6, <1>7 DEF Next, UserEvent, TimerEvent

\* What an event orders about the preference and the timer.
LEMMA EventOrders ==
  ASSUME ControlInv, MutexFree, Next, status' = status, ControlInv'
  PROVE  /\ ~In(actions', {PersistAutomatic(~automatic')})
         /\ automatic' = automatic \/ In(actions', {PersistAutomatic(automatic')})
         /\ ~In(actions', {CancelRetry}) \/ pendingRetry' = NoRetry
         /\ \/ pendingRetry' = NoRetry \/ pendingRetry # NoRetry
            \/ In(actions', {ScheduleRetry})
<1>1. Agrees
  BY AgreesWhenFree
<1>2. /\ actions' \in Seq(EngineActions) /\ DOMAIN actions' = Places'
      /\ \A i \in Places' : actions'[i] \in EngineActions
      /\ automatic' \in BOOLEAN
  BY LenProperties, ElementOfSeq
     DEF ControlInv, EngineInv, EngineTypeOK, ActionsAreCurrent, Places
<1>3. \A i \in Places' :
        actions'[i].kind = "PersistAutomatic" => actions'[i] = PersistAutomatic(automatic')
  BY <1>2, KindTells DEF ControlInv, ActionsAreCurrent
<1>4. ~In(actions', {PersistAutomatic(~automatic')})
  BY <1>2, <1>3 DEF In, PersistAutomatic
<1>5. Owes({"PersistAutomatic"})' => In(actions', {PersistAutomatic(automatic')})
  BY <1>2, <1>3 DEF Owes, In
<1>6. Owes({"ScheduleRetry"})' => In(actions', {ScheduleRetry})
  BY <1>2, KindTells DEF Owes, In
<1>7. automatic' = automatic \/ In(actions', {PersistAutomatic(automatic')})
  BY <1>1, <1>5 DEF Agrees, ControlInv, DifferencesAreOwed
<1>8. \/ pendingRetry' = NoRetry \/ pendingRetry # NoRetry
      \/ In(actions', {ScheduleRetry})
  BY <1>1, <1>6 DEF Agrees, ControlInv, DifferencesAreOwed
<1> QED
  BY <1>4, <1>7, <1>8, CancelledIsOver

-----------------------------------------------------------------------------
(* What the steps make of the orders not yet carried out. *)

Effects == {a \in EngineActions : HasEffect(a)}

\* The orders a queue is asked about are those the executor carries out.
LEMMA OrdersHaveEffect ==
  /\ \A g \in Nat : {Start(g)} \subseteq Effects /\ {Stop(g)} \subseteq Effects
  /\ \A e \in BOOLEAN : {PersistAutomatic(e)} \subseteq Effects
  /\ {ScheduleRetry} \subseteq Effects /\ {CancelRetry} \subseteq Effects
BY DEF Effects, HasEffect, EngineActions, Start, Stop, PersistAutomatic, ScheduleRetry, CancelRetry

\* An event adds its list.
LEMMA PendingGrows ==
  ASSUME ControlInv', QueuesTyped, MutexFree, queue' = queue
  PROVE  \A A, B :
           /\ In(Pending', A) <=> In(Pending, A) \/ In(actions', A)
           /\ AtMostOne(Pending', A) <=>
                AtMostOne(Pending, A) /\ AtMostOne(actions', A)
                  /\ ~(In(Pending, A) /\ In(actions', A))
           /\ Followed(Pending', A, B) <=>
                Followed(actions', A, B) /\ (Followed(Pending, A, B) \/ In(actions', B))
<1>1. queue \in Seq(EngineActions) /\ actions' \in Seq(EngineActions)
  BY DEF QueuesTyped, ControlInv, ActionsAreCurrent
<1>2. Pending = queue
  BY <1>1, ConcatEmptySeq DEF Pending, MutexFree
<1>3. Pending' = queue \o actions'
  BY DEF Pending
<1> QED
  BY <1>1, <1>2, <1>3, ConcatView

\* The executor takes the first.
LEMMA PendingShrinks ==
  ASSUME ControlInv, QueuesTyped, queue # <<>>, queue' = Tail(queue), actions' = actions
  PROVE  \A A, B :
           /\ In(Pending, A) <=> Head(queue) \in A \/ In(Pending', A)
           /\ AtMostOne(Pending, A) <=>
                AtMostOne(Pending', A) /\ ~(Head(queue) \in A /\ In(Pending', A))
           /\ Followed(Pending, A, B) <=>
                Followed(Pending', A, B) /\ (Head(queue) \in A => In(Pending', B))
<1>1. /\ queue \in Seq(EngineActions) /\ actions \in Seq(EngineActions)
      /\ queue' \in Seq(EngineActions)
  BY DEF QueuesTyped, ControlInv, ActionsAreCurrent
<1>2. Pending = queue \o actions /\ Pending' = queue' \o actions
  BY DEF Pending
<1> SUFFICES ASSUME NEW A, NEW B
             PROVE  /\ In(Pending, A) <=> Head(queue) \in A \/ In(Pending', A)
                    /\ AtMostOne(Pending, A) <=>
                         AtMostOne(Pending', A) /\ ~(Head(queue) \in A /\ In(Pending', A))
                    /\ Followed(Pending, A, B) <=>
                         Followed(Pending', A, B) /\ (Head(queue) \in A => In(Pending', B))
  OBVIOUS
<1>3. /\ In(queue, A) <=> Head(queue) \in A \/ In(queue', A)
      /\ AtMostOne(queue, A) <=> AtMostOne(queue', A) /\ ~(Head(queue) \in A /\ In(queue', A))
      /\ Followed(queue, A, B) <=>
           Followed(queue', A, B) /\ (Head(queue) \in A => In(queue', B))
  BY <1>1, HeadView
<1>4. /\ In(Pending, A) <=> In(queue, A) \/ In(actions, A)
      /\ AtMostOne(Pending, A) <=>
           AtMostOne(queue, A) /\ AtMostOne(actions, A) /\ ~(In(queue, A) /\ In(actions, A))
      /\ Followed(Pending, A, B) <=>
           Followed(actions, A, B) /\ (Followed(queue, A, B) \/ In(actions, B))
  BY <1>1, <1>2, ConcatView
<1>5. /\ In(Pending', A) <=> In(queue', A) \/ In(actions, A)
      /\ In(Pending', B) <=> In(queue', B) \/ In(actions, B)
      /\ AtMostOne(Pending', A) <=>
           AtMostOne(queue', A) /\ AtMostOne(actions, A) /\ ~(In(queue', A) /\ In(actions, A))
      /\ Followed(Pending', A, B) <=>
           Followed(actions, A, B) /\ (Followed(queue', A, B) \/ In(actions, B))
  BY <1>1, <1>2, ConcatView
<1> QED
  BY <1>3, <1>4, <1>5

\* A publication moves the next order from the list to the queue, or drops it where it
\* was only to be shown.
LEMMA PendingPublished ==
  ASSUME ControlInv, QueuesTyped, PublishAction
  PROVE  /\ queue' \in Seq(EngineActions) /\ \A i \in DOMAIN queue' : HasEffect(queue'[i])
         /\ \A A, B \in SUBSET Effects :
              /\ In(Pending', A) <=> In(Pending, A)
              /\ AtMostOne(Pending', A) <=> AtMostOne(Pending, A)
              /\ Followed(Pending', A, B) <=> Followed(Pending, A, B)
<1> DEFINE a == Head(actions)
           t == Tail(actions)
<1>1. /\ queue \in Seq(EngineActions) /\ actions \in Seq(EngineActions) /\ actions # <<>>
      /\ t \in Seq(EngineActions) /\ a \in EngineActions
  BY DEF QueuesTyped, ControlInv, ActionsAreCurrent, PublishAction, PublishNext
<1>2. actions = <<a>> \o t
  BY <1>1
<1>3. actions' = t /\ queue' = queue \o When(HasEffect(a), a)
  BY DEF PublishAction, PublishNext
<1>4. <<a>> \in Seq(EngineActions)
  BY <1>1
<1>5. Pending = queue \o actions /\ Pending' = queue' \o t
  BY <1>3 DEF Pending
<1> HIDE DEF a, t
<1>6. CASE HasEffect(a)
  <2>1. queue' = queue \o <<a>>
    BY <1>3, <1>6 DEF When
  <2>2. Pending' = Pending
    BY <1>2, <1>1, <1>4, <1>5, <2>1, ConcatAssociative
  <2>3. queue' \in Seq(EngineActions)
    BY <1>1, <1>4, <2>1, ConcatProperties
  <2>4. ASSUME NEW i \in DOMAIN queue' PROVE HasEffect(queue'[i])
    <3>1. /\ DOMAIN queue = 1 .. Len(queue) /\ Len(queue) \in Nat
          /\ DOMAIN queue' = 1 .. Len(queue) + 1
      BY <1>1, <1>4, <2>1, <2>3, ConcatProperties, LenProperties
    <3>2. queue' = Append(queue, a)
      BY <1>1, <2>1, AppendIsConcat
    <3>3. \A j \in 1 .. Len(queue) : queue'[j] = queue[j]
      BY <1>1, <3>2, AppendProperties
    <3>4. queue'[Len(queue) + 1] = a
      BY <1>1, <3>2, AppendProperties
    <3>5. i \in 1 .. Len(queue) \/ i = Len(queue) + 1
      BY <2>4, <3>1
    <3> QED
      BY <1>6, <3>1, <3>3, <3>4, <3>5 DEF QueuesTyped
  <2> QED
    BY <2>2, <2>3, <2>4
<1>7. CASE ~HasEffect(a)
  <2>1. queue' = queue
    BY <1>1, <1>3, <1>7, ConcatEmptySeq DEF When
  <2>2. ASSUME NEW A \in SUBSET Effects, NEW B \in SUBSET Effects
        PROVE  /\ In(Pending', A) <=> In(Pending, A)
               /\ AtMostOne(Pending', A) <=> AtMostOne(Pending, A)
               /\ Followed(Pending', A, B) <=> Followed(Pending, A, B)
    <3>1. a \notin A /\ a \notin B
      BY <1>7 DEF Effects
    <3>2. t = Tail(actions) /\ a = Head(actions)
      BY DEF a, t
    <3>3. /\ In(actions, A) <=> In(t, A)
          /\ AtMostOne(actions, A) <=> AtMostOne(t, A)
          /\ Followed(actions, A, B) <=> Followed(t, A, B)
      BY <1>1, <3>1, <3>2, HeadView
    <3>4. In(actions, B) <=> In(t, B)
      BY <1>1, <3>1, <3>2, HeadView
    <3>5. /\ In(queue \o actions, A) <=> In(queue, A) \/ In(actions, A)
          /\ AtMostOne(queue \o actions, A) <=>
               AtMostOne(queue, A) /\ AtMostOne(actions, A) /\ ~(In(queue, A) /\ In(actions, A))
          /\ Followed(queue \o actions, A, B) <=>
               Followed(actions, A, B) /\ (Followed(queue, A, B) \/ In(actions, B))
      BY <1>1, ConcatView
    <3>6. /\ In(queue \o t, A) <=> In(queue, A) \/ In(t, A)
          /\ AtMostOne(queue \o t, A) <=>
               AtMostOne(queue, A) /\ AtMostOne(t, A) /\ ~(In(queue, A) /\ In(t, A))
          /\ Followed(queue \o t, A, B) <=>
               Followed(t, A, B) /\ (Followed(queue, A, B) \/ In(t, B))
      BY <1>1, ConcatView
    <3> QED
      BY <1>5, <2>1, <3>3, <3>4, <3>5, <3>6
  <2> QED
    BY <2>1, <2>2 DEF QueuesTyped
<1> QED
  BY <1>6, <1>7

-----------------------------------------------------------------------------
(* An event: a request, a change of the network, or what a task reported. *)

\* Generations are numbers.
LEMMA GenerationNumbers ==
  ASSUME ControlInv
  PROVE  /\ active \in Nat /\ nextGeneration \in Nat \ {0} /\ active < nextGeneration
         /\ active # NoGeneration => active \in Generations
         /\ Generations \subseteq Nat /\ NoGeneration \in Nat /\ NoGeneration \notin Generations
         /\ automatic \in BOOLEAN /\ stopRequested \in BOOLEAN
         /\ stopRequested => active # NoGeneration
BY EngineAssumption
   DEF ControlInv, EngineInv, EngineTypeOK, ActiveWasStarted, Generations, NoGeneration

\* Where no generation begins or ends, its trace stays; a stop is ordered behind it.
LEMMA ConnectionKept ==
  ASSUME LinuxInv, ControlInv', MutexFree, queue' = queue, session' = session,
         stopSignal' = stopSignal, Kept \/ Stopped,
         \A g \in Nat : In(events', ExitsOf(g)) <=> In(events, ExitsOf(g)),
         AtMostOne(events', ExitsOf(active))
  PROVE  OnlyActive' /\ OneTrace' /\ StopFollows'
<1>1. active \in Nat /\ active' = active /\ NoStart(actions')
  BY GenerationNumbers DEF LinuxInv, Kept, Stopped
<1>2. \A A, B :
        /\ In(Pending', A) <=> In(Pending, A) \/ In(actions', A)
        /\ AtMostOne(Pending', A) <=>
             AtMostOne(Pending, A) /\ AtMostOne(actions', A)
               /\ ~(In(Pending, A) /\ In(actions', A))
        /\ Followed(Pending', A, B) <=>
             Followed(actions', A, B) /\ (Followed(Pending, A, B) \/ In(actions', B))
  BY PendingGrows DEF LinuxInv
<1>3. \A g \in Nat : In(Pending', {Start(g)}) <=> In(Pending, {Start(g)})
  BY <1>1, <1>2 DEF NoStart
<1>4. /\ ~In(actions', {Start(active)}) /\ AtMostOne(actions', {Start(active)})
      /\ Followed(actions', {Start(active)}, {Stop(active)})
  BY <1>1, NoneIn DEF NoStart
<1>5. OnlyActive'
  <2>1. \A g \in Nat : In(actions', {Stop(g)}) => g \in Generations
    BY GenerationNumbers DEF LinuxInv, Kept, Stopped, NoStop
  <2> QED
    BY <1>1, <1>2, <1>3, <2>1 DEF LinuxInv, OnlyActive
<1>6. OneTrace'
  BY <1>1, <1>2, <1>3, <1>4 DEF LinuxInv, OneTrace
<1>7. StopFollows'
  <2>1. CASE Kept
    BY <1>1, <1>2, <1>4, <2>1 DEF LinuxInv, StopFollows, Kept
  <2>2. CASE Stopped
    BY <1>1, <1>2, <1>4, <2>2 DEF LinuxInv, StopFollows, Stopped
  <2> QED
    BY <2>1, <2>2
<1> QED
  BY <1>5, <1>6, <1>7

\* Where nothing is left of the old generation, the new one has one trace.
LEMMA ConnectionRenewed ==
  ASSUME LinuxInv, ControlInv', MutexFree, queue' = queue, session' = session,
         Gone \/ Launched,
         \A g \in Nat : ~In(Pending, {Start(g)}) /\ ~In(events', ExitsOf(g)),
         \A g \in Generations : session[g] = "none"
  PROVE  OnlyActive' /\ OneTrace' /\ StopFollows'
<1>1. /\ active' \in Nat /\ nextGeneration \in Nat \ {0}
      /\ active' # NoGeneration => active' \in Generations
  BY GenerationNumbers, EngineAssumption
     DEF LinuxInv, ControlInv, EngineInv, EngineTypeOK, Generations, NoGeneration
<1>2. \A A :
        /\ In(Pending', A) <=> In(Pending, A) \/ In(actions', A)
        /\ AtMostOne(Pending', A) <=>
             AtMostOne(Pending, A) /\ AtMostOne(actions', A)
               /\ ~(In(Pending, A) /\ In(actions', A))
  BY PendingGrows DEF LinuxInv
<1>3. StopFollows' /\ \A g \in Nat : In(Pending', {Stop(g)}) => g \in Generations
  BY <1>2 DEF Gone, Launched, NoStop, StopFollows, LinuxInv, OnlyActive
<1>4. CASE Gone
  <2>1. OnlyActive'
    BY <1>2, <1>3, <1>4 DEF Gone, NoStart, OnlyActive
  <2> QED
    BY <1>3, <1>4, <2>1 DEF Gone, OneTrace
<1>5. CASE Launched
  <2>1. \A g \in Nat : In(Pending', {Start(g)}) <=> g = nextGeneration
    BY <1>2, <1>5 DEF Launched
  <2>2. OnlyActive'
    BY <1>1, <1>3, <1>5, <2>1 DEF Launched, OnlyActive, NoGeneration
  <2>3. AtMostOne(Pending, {Start(active')})
    BY <1>1, NoneIn
  <2>4. AtMostOne(Pending', {Start(active')})
    BY <1>1, <1>2, <1>5, <2>3 DEF Launched
  <2>5. AtMostOne(events', ExitsOf(active'))
    BY <1>1, NoneIn
  <2>6. OneTrace'
    BY <1>1, <1>5, <2>1, <2>4, <2>5 DEF Launched, OneTrace
  <2> QED
    BY <1>3, <2>2, <2>6
<1> QED
  BY <1>4, <1>5

\* Whatever the event, and whoever brought it.
LEMMA EventKeeps ==
  ASSUME LinuxInv, MutexFree, Next, status' = status, replacing' \in ReplaceSteps,
         UNCHANGED <<queue, sessionVars, timerVars, fileVars, stopping>>,
         OnlyActive', OneTrace', StopFollows', nextGeneration <= nextGeneration',
         events' = events \/ (events # <<>> /\ events' = Tail(events)),
         pendingRetry' = NoRetry \/ (In(events, {Elapsed}) => In(events', {Elapsed}))
  PROVE  LinuxInv'
<1>1. ControlInv'
  BY EventStep DEF LinuxInv
<1>2. QueuesTyped'
  <2>1. /\ events' \in Seq(ServiceEvents)
        /\ \A i \in DOMAIN events' : \E j \in DOMAIN events : events'[i] = events[j]
    <3>1. CASE events' = events
      BY <3>1 DEF LinuxInv, QueuesTyped
    <3>2. CASE events # <<>> /\ events' = Tail(events)
      <4> DEFINE n == Len(events)
      <4>1. /\ events \in Seq(ServiceEvents) /\ events' \in Seq(ServiceEvents) /\ n \in Nat
            /\ DOMAIN events = 1 .. n /\ DOMAIN events' = 1 .. n - 1
            /\ \A i \in 1 .. n - 1 : events'[i] = events[i + 1]
        BY <3>2, HeadTailProperties, LenProperties DEF LinuxInv, QueuesTyped
      <4> HIDE DEF n
      <4>2. \A i \in 1 .. n - 1 : i + 1 \in 1 .. n
        BY <4>1
      <4> QED
        BY <4>1, <4>2
    <3> QED
      BY <3>1, <3>2
  <2>2. Started \subseteq Started'
    <3>1. nextGeneration \in Nat
      BY GenerationNumbers DEF LinuxInv
    <3>2. nextGeneration' \in Nat
      BY <1>1, EngineAssumption DEF ControlInv, EngineInv, EngineTypeOK
    <3>3. ASSUME NEW g \in 1 .. nextGeneration - 1
          PROVE  g \in 1 .. nextGeneration' - 1
      <4> DEFINE m == nextGeneration
                 n == nextGeneration'
      <4>1. m \in Nat /\ n \in Nat /\ m <= n /\ g \in 1 .. m - 1
        BY <3>1, <3>2
      <4> HIDE DEF m, n
      <4>2. g \in 1 .. n - 1
        BY <4>1
      <4> QED
        BY <4>2 DEF n
    <3> QED
      BY <3>3 DEF Started
  <2> QED
    BY <2>1, <2>2 DEF LinuxInv, QueuesTyped
<1>3. TasksTyped'
  BY DEF sessionVars, timerVars, fileVars, LinuxInv, TasksTyped
<1>4. \A A, B :
        /\ In(Pending', A) <=> In(Pending, A) \/ In(actions', A)
        /\ Followed(Pending', A, B) <=>
             Followed(actions', A, B) /\ (Followed(Pending, A, B) \/ In(actions', B))
  BY <1>1, PendingGrows DEF LinuxInv
<1>5. /\ ~In(actions', {PersistAutomatic(~automatic')})
      /\ automatic' = automatic \/ In(actions', {PersistAutomatic(automatic')})
      /\ ~In(actions', {CancelRetry}) \/ pendingRetry' = NoRetry
      /\ \/ pendingRetry' = NoRetry \/ pendingRetry # NoRetry
         \/ In(actions', {ScheduleRetry})
  BY <1>1, EventOrders DEF LinuxInv
<1>6. PreferenceFollows'
  <2>1. Followed(actions', {PersistAutomatic(~automatic')}, {PersistAutomatic(automatic')})
    BY <1>5, NoneIn
  <2>2. unsaved' = unsaved /\ preference' = preference
    BY DEF fileVars
  <2>3. CASE automatic' = automatic
    <3>1. /\ Followed(Pending, {PersistAutomatic(~automatic')}, {PersistAutomatic(automatic')})
          /\ \/ unsaved' \/ preference' = automatic'
             \/ In(Pending, {PersistAutomatic(automatic')})
      BY <2>2, <2>3 DEF LinuxInv, PreferenceFollows
    <3> QED
      BY <1>4, <2>1, <3>1 DEF PreferenceFollows
  <2>4. CASE In(actions', {PersistAutomatic(automatic')})
    BY <1>4, <2>1, <2>4 DEF PreferenceFollows
  <2> QED
    BY <1>5, <2>3, <2>4
<1>7. RetryFollows'
  <2> SUFFICES ASSUME pendingRetry' # NoRetry, ~stopping', ~In(events', {Elapsed})
               PROVE  /\ Followed(Pending', {CancelRetry}, {ScheduleRetry})
                      /\ timer' = "armed" \/ In(Pending', {ScheduleRetry})
    BY DEF RetryFollows, Elapsed
  <2>1. Followed(actions', {CancelRetry}, {ScheduleRetry})
    BY <1>5, NoneIn
  <2>2. CASE In(actions', {ScheduleRetry})
    BY <1>4, <2>1, <2>2
  <2>3. CASE pendingRetry # NoRetry
    BY <1>4, <2>1, <2>3 DEF LinuxInv, RetryFollows, timerVars, Elapsed
  <2> QED
    BY <1>5, <2>2, <2>3
<1> QED
  BY <1>1, <1>2, <1>3, <1>6, <1>7 DEF LinuxInv

\* A request or a change of the network.
LEMMA InputStep ==
  ASSUME LinuxInv, MutexFree, UserEvent \/ NetworkEvent, status' = status,
         replacing' \in ReplaceSteps, UNCHANGED <<queue, events, sessionVars, timerVars,
                                                  fileVars, stopping>>
  PROVE  LinuxInv'
<1>1. ControlInv' /\ Next
  BY EventStep DEF LinuxInv, Next
<1>2. Kept \/ Stopped \/ (active = NoGeneration /\ Launched)
  BY <1>1, CalmEffect DEF LinuxInv, ControlInv
<1>3. events' = events /\ session' = session /\ stopSignal' = stopSignal
  BY DEF sessionVars
<1>4. OnlyActive' /\ OneTrace' /\ StopFollows'
  <2>1. CASE Kept \/ Stopped
    <3>1. active # NoGeneration => AtMostOne(events, ExitsOf(active))
      BY DEF LinuxInv, OneTrace
    <3>2. active = NoGeneration => ~In(events, ExitsOf(active))
      BY GenerationNumbers DEF LinuxInv, OnlyActive
    <3>3. AtMostOne(events', ExitsOf(active))
      BY <1>3, <3>1, <3>2, NoneIn
    <3> QED
      BY <1>1, <1>3, <2>1, <3>3, ConnectionKept
  <2>2. CASE active = NoGeneration /\ Launched
    BY <1>1, <1>3, <2>2, ConnectionRenewed, GenerationNumbers DEF LinuxInv, OnlyActive
  <2> QED
    BY <1>2, <2>1, <2>2
<1>5. nextGeneration <= nextGeneration'
  BY <1>2, GenerationNumbers DEF LinuxInv, Kept, Stopped, Launched
<1> QED
  BY <1>1, <1>3, <1>4, <1>5, EventKeeps

\* An event of a task, handled.
LEMMA HandleEventStep == ASSUME LinuxInv, HandleEvent PROVE LinuxInv'
<1> DEFINE e == Head(events)
<1>1. /\ events # <<>> /\ events' = Tail(events) /\ events \in Seq(ServiceEvents)
      /\ e \in ServiceEvents /\ MutexFree /\ EngineTakes(e) /\ status' = status
      /\ replacing' \in ReplaceSteps
      /\ UNCHANGED <<queue, sessionVars, timerVars, fileVars, stopping>>
  BY DEF HandleEvent, Apply, LinuxInv, ControlInv, StatusTypeOK, QueuesTyped
<1>2. \A A : /\ In(events, A) <=> e \in A \/ In(events', A)
             /\ AtMostOne(events, A) <=> AtMostOne(events', A) /\ ~(e \in A /\ In(events', A))
  BY <1>1, HeadView
<1>3. /\ \A g \in Nat : In(events, ExitsOf(g)) => g = active /\ g # NoGeneration
      /\ active # NoGeneration => AtMostOne(events, ExitsOf(active))
  BY DEF LinuxInv, OnlyActive, OneTrace
<1>4. active \in Nat /\ NoGeneration \in Nat /\ active < nextGeneration /\ nextGeneration \in Nat
  BY GenerationNumbers DEF LinuxInv
<1>5. e = events[1] /\ 1 \in DOMAIN events
  BY <1>1, EmptySeq, LenProperties
<1>6. session' = session /\ stopSignal' = stopSignal /\ queue' = queue
  BY <1>1 DEF sessionVars
<1> HIDE DEF e
<1>7. ASSUME Kept \/ Stopped \/ (active = NoGeneration /\ Launched), Next,
             \A g \in Nat : e \notin ExitsOf(g),
             pendingRetry' = NoRetry \/ e # Elapsed
      PROVE  LinuxInv'
  <2>1. ControlInv'
    BY <1>1, <1>7, EventStep DEF LinuxInv
  <2>2. \A g \in Nat : In(events', ExitsOf(g)) <=> In(events, ExitsOf(g))
    BY <1>2, <1>7
  <2>3. active = NoGeneration => ~In(events', ExitsOf(active))
    BY <1>3, <1>4, <2>2
  <2>4. AtMostOne(events', ExitsOf(active))
    BY <1>2, <1>3, <2>3, NoneIn
  <2>5. OnlyActive' /\ OneTrace' /\ StopFollows'
    <3>1. CASE Kept \/ Stopped
      BY <1>1, <1>6, <2>1, <2>2, <2>4, <3>1, ConnectionKept
    <3>2. CASE active = NoGeneration /\ Launched
      <4>1. \A g \in Nat : ~In(Pending, {Start(g)}) /\ ~In(events', ExitsOf(g))
        BY <2>2, <3>2 DEF LinuxInv, OnlyActive
      <4>2. \A g \in Generations : session[g] = "none"
        BY <3>2, GenerationNumbers DEF LinuxInv, OnlyActive
      <4> QED
        BY <1>1, <1>6, <2>1, <3>2, <4>1, <4>2, ConnectionRenewed
    <3> QED
      BY <1>7, <3>1, <3>2
  <2>6. nextGeneration <= nextGeneration'
    BY <1>4, <1>7 DEF Kept, Stopped, Launched
  <2>7. pendingRetry' = NoRetry \/ (In(events, {Elapsed}) => In(events', {Elapsed}))
    BY <1>2, <1>7
  <2> QED
    BY <1>1, <1>7, <2>5, <2>6, <2>7, EventKeeps
<1>8. CASE e.kind = "ConnectorConnected"
  <2>1. e.gen \in Started /\ ConnectorConnected(e.gen) /\ e.gen \in Nat
    BY <1>1, <1>4, <1>5, <1>8 DEF LinuxInv, QueuesTyped, EngineTakes, Started
  <2>2. Next
    BY <2>1 DEF Next, ConnectorEvent
  <2>3. EngineInv'
    BY <1>1, <2>2, EventStep DEF LinuxInv, ControlInv
  <2>4. Kept \/ Stopped \/ (active = NoGeneration /\ Launched)
    BY <2>1, <2>3, CalmEffect DEF LinuxInv, ControlInv
  <2> QED
    BY <1>7, <1>8, <2>2, <2>4 DEF ExitsOf, Exits, Elapsed
<1>9. CASE e.kind = "RetryElapsed"
  <2>1. RetryElapsed /\ Next /\ pendingRetry' = NoRetry
    BY <1>1, <1>9 DEF EngineTakes, Next, TimerEvent, RetryElapsed
  <2>2. EngineInv'
    BY <1>1, <2>1, EventStep DEF LinuxInv, ControlInv
  <2>3. Kept \/ Stopped \/ (active = NoGeneration /\ Launched)
    BY <2>1, <2>2, CalmEffect DEF LinuxInv, ControlInv
  <2> QED
    BY <1>7, <1>9, <2>1, <2>3 DEF ExitsOf, Exits
<1>10. CASE e.kind = "ConnectorExited"
  <2>1. /\ e \in ExitsOf(e.gen) /\ e.gen \in Nat
        /\ e.code \in {0, 1} /\ e.runtime \in {0, ResetAfterSeconds}
        /\ ConnectorExited(e.gen, e.code, e.runtime)
    BY <1>1, <1>10 DEF ServiceEvents, ExitsOf, Exits, EngineTakes
  <2>2. e.gen = active /\ active # NoGeneration
    BY <1>2, <1>3, <2>1
  <2>3. Next
    <3>1. active \in Started
      BY <1>4, <2>2 DEF Started, NoGeneration
    <3> QED
      BY <2>1, <2>2, <3>1 DEF Next, ConnectorEvent
  <2>4. ControlInv'
    BY <1>1, <2>3, EventStep DEF LinuxInv
  <2>5. Gone \/ Launched
    BY <2>1, <2>2, ExitEffect DEF LinuxInv, ControlInv
  <2>6. In(events, ExitsOf(active)) /\ ~In(events', ExitsOf(active))
    BY <1>2, <1>3, <2>1, <2>2
  <2>7. \A g \in Nat : ~In(Pending, {Start(g)}) /\ ~In(events', ExitsOf(g))
    BY <1>2, <1>3, <2>2, <2>6 DEF LinuxInv, OnlyActive, OneTrace
  <2>8. \A g \in Generations : session[g] = "none"
    BY <2>2, <2>6 DEF LinuxInv, OnlyActive, OneTrace
  <2>9. OnlyActive' /\ OneTrace' /\ StopFollows'
    BY <1>1, <1>6, <2>4, <2>5, <2>7, <2>8, ConnectionRenewed
  <2>10. nextGeneration <= nextGeneration'
    BY <1>4, <2>5 DEF Gone, Launched
  <2>11. In(events, {Elapsed}) => In(events', {Elapsed})
    BY <1>2, <1>10 DEF Elapsed
  <2> QED
    BY <1>1, <2>3, <2>9, <2>10, <2>11, EventKeeps
<1> QED
  BY <1>1, <1>8, <1>9, <1>10 DEF ServiceEvents, Exits

-----------------------------------------------------------------------------
(* The executor. *)

\* An action leaves the queue; the engine and the status stay.
LEMMA ActionTaken ==
  ASSUME LinuxInv, ExecuteNext
  PROVE  /\ ControlInv'
         /\ queue' \in Seq(EngineActions) /\ \A i \in DOMAIN queue' : HasEffect(queue'[i])
         /\ Head(queue) \in EngineActions
         /\ \A A, B :
              /\ In(Pending, A) <=> Head(queue) \in A \/ In(Pending', A)
              /\ AtMostOne(Pending, A) <=>
                   AtMostOne(Pending', A) /\ ~(Head(queue) \in A /\ In(Pending', A))
              /\ Followed(Pending, A, B) <=>
                   Followed(Pending', A, B) /\ (Head(queue) \in A => In(Pending', B))
<1>1. /\ queue # <<>> /\ queue' = Tail(queue) /\ queue \in Seq(EngineActions)
      /\ UNCHANGED <<engineVars, status, replacing>> /\ actions' = actions
  BY DEF ExecuteNext, LinuxInv, QueuesTyped, controlVars, engineVars
<1>2. ControlInv'
  BY <1>1, WaitingStep DEF LinuxInv, ControlInv, StatusTypeOK
<1>3. queue' \in Seq(EngineActions) /\ \A i \in DOMAIN queue' : HasEffect(queue'[i])
  <2> DEFINE n == Len(queue)
  <2>1. /\ queue' \in Seq(EngineActions) /\ n \in Nat
        /\ DOMAIN queue = 1 .. n /\ DOMAIN queue' = 1 .. n - 1
        /\ \A i \in 1 .. n - 1 : queue'[i] = queue[i + 1]
    BY <1>1, HeadTailProperties, LenProperties
  <2> HIDE DEF n
  <2>2. \A i \in 1 .. n - 1 : i + 1 \in 1 .. n
    BY <2>1
  <2> QED
    BY <2>1, <2>2 DEF LinuxInv, QueuesTyped
<1>4. Head(queue) \in EngineActions
  BY <1>1
<1> QED
  BY <1>1, <1>2, <1>3, <1>4, PendingShrinks DEF LinuxInv

\* The events after another one is sent.
LEMMA EventSent ==
  ASSUME QueuesTyped, NEW e \in ServiceEvents,
         e.kind = "ConnectorConnected" => e.gen \in Started
  PROVE  LET then == Append(events, e)
         IN /\ then \in Seq(ServiceEvents)
            /\ \A i \in DOMAIN then :
                 then[i].kind = "ConnectorConnected" => then[i].gen \in Started
            /\ \A A : /\ In(then, A) <=> In(events, A) \/ e \in A
                      /\ AtMostOne(then, A) <=>
                           AtMostOne(events, A) /\ ~(In(events, A) /\ e \in A)
<1> DEFINE then == Append(events, e)
           rest == <<e>>
           n == Len(events)
<1>1. events \in Seq(ServiceEvents) /\ rest \in Seq(ServiceEvents)
  BY DEF QueuesTyped
<1>2. then = events \o rest
  BY <1>1, AppendIsConcat
<1>3. \A A : In(rest, A) <=> e \in A
  BY ShortView
<1>4. \A A : AtMostOne(rest, A)
  BY ShortView
<1>5. /\ then \in Seq(ServiceEvents) /\ n \in Nat /\ DOMAIN events = 1 .. n
      /\ DOMAIN then = 1 .. n + 1
      /\ \A i \in 1 .. n : then[i] = events[i]
      /\ then[n + 1] = e
  BY <1>1, AppendProperties, LenProperties
<1>6. \A i \in 1 .. n + 1 : i \in 1 .. n \/ i = n + 1
  BY <1>5
<1>7. \A i \in DOMAIN then : then[i].kind = "ConnectorConnected" => then[i].gen \in Started
  BY <1>5, <1>6 DEF QueuesTyped
<1> HIDE DEF then, rest
<1>8. \A A : /\ In(events \o rest, A) <=> In(events, A) \/ In(rest, A)
             /\ AtMostOne(events \o rest, A) <=>
                  AtMostOne(events, A) /\ AtMostOne(rest, A) /\ ~(In(events, A) /\ In(rest, A))
  BY <1>1, ConcatView
<1>9. \A A : /\ In(then, A) <=> In(events, A) \/ e \in A
             /\ AtMostOne(then, A) <=>
                  AtMostOne(events, A) /\ ~(In(events, A) /\ e \in A)
  BY <1>2, <1>3, <1>4, <1>8
<1> QED
  BY <1>5, <1>7, <1>9 DEF then

\* What a step has to show that leaves the engine, the orders to start and stop, the
\* sessions and their exits alone.
LEMMA ConnectionUntouched ==
  ASSUME LinuxInv, active' = active, stopRequested' = stopRequested,
         session' = session, stopSignal' = stopSignal,
         \A g \in Nat : /\ In(Pending', {Start(g)}) <=> In(Pending, {Start(g)})
                        /\ In(Pending', {Stop(g)}) <=> In(Pending, {Stop(g)})
                        /\ In(events', ExitsOf(g)) <=> In(events, ExitsOf(g)),
         AtMostOne(Pending, {Start(active)}) => AtMostOne(Pending', {Start(active)}),
         Followed(Pending, {Start(active)}, {Stop(active)})
           => Followed(Pending', {Start(active)}, {Stop(active)}),
         AtMostOne(events, ExitsOf(active)) => AtMostOne(events', ExitsOf(active))
  PROVE  OnlyActive' /\ OneTrace' /\ StopFollows'
<1>1. active \in Nat
  BY GenerationNumbers DEF LinuxInv
<1> QED
  BY <1>1 DEF LinuxInv, OnlyActive, OneTrace, StopFollows

\* Storing the preference, or failing to.
LEMMA PersistStep ==
  ASSUME LinuxInv, ExecuteNext, Head(queue).kind = "PersistAutomatic"
  PROVE  LinuxInv'
<1> DEFINE a == Head(queue)
<1>1. /\ ControlInv' /\ queue' \in Seq(EngineActions)
      /\ \A i \in DOMAIN queue' : HasEffect(queue'[i])
      /\ a \in EngineActions
      /\ \A A, B :
           /\ In(Pending, A) <=> a \in A \/ In(Pending', A)
           /\ AtMostOne(Pending, A) <=> AtMostOne(Pending', A) /\ ~(a \in A /\ In(Pending', A))
           /\ Followed(Pending, A, B) <=>
                Followed(Pending', A, B) /\ (a \in A => In(Pending', B))
  BY ActionTaken
<1>2. a.enabled \in BOOLEAN /\ a = PersistAutomatic(a.enabled)
  BY <1>1, KindTells
<1>3. /\ UNCHANGED <<events, session, stopSignal, reported, timer, looseTimers, stopping>>
      /\ UNCHANGED controlVars
      /\ \/ preference' = a.enabled /\ unsaved' = FALSE
         \/ preference' = preference /\ unsaved' = TRUE
  BY DEF ExecuteNext, Execute, ExecutePersist, sessionVars, timerVars
<1> HIDE DEF a
<1>4. /\ \A g \in Nat : a \notin {Start(g)} /\ a \notin {Stop(g)}
      /\ a \notin {CancelRetry} /\ a \notin {ScheduleRetry}
  BY <1>2 DEF PersistAutomatic, Start, Stop, CancelRetry, ScheduleRetry
<1>5. active \in Nat /\ active' = active /\ stopRequested' = stopRequested
  BY <1>3, GenerationNumbers DEF LinuxInv, controlVars, engineVars
<1>6. OnlyActive' /\ OneTrace' /\ StopFollows'
  BY <1>1, <1>3, <1>4, <1>5, ConnectionUntouched
<1>7. QueuesTyped' /\ TasksTyped'
  BY <1>1, <1>2, <1>3 DEF LinuxInv, QueuesTyped, TasksTyped, Started, controlVars, engineVars
<1>8. RetryFollows'
  BY <1>1, <1>3, <1>4 DEF LinuxInv, RetryFollows, controlVars, engineVars, Elapsed
<1>9. PreferenceFollows'
  <2>1. automatic' = automatic /\ automatic \in BOOLEAN
    BY <1>3, GenerationNumbers DEF LinuxInv, controlVars, engineVars
  <2>2. /\ Followed(Pending, {PersistAutomatic(~automatic)}, {PersistAutomatic(automatic)})
        /\ unsaved \/ preference = automatic \/ In(Pending, {PersistAutomatic(automatic)})
    BY DEF LinuxInv, PreferenceFollows
  <2>3. a.enabled = automatic \/ a \in {PersistAutomatic(~automatic)}
    BY <1>2, <2>1
  <2> QED
    BY <1>1, <1>3, <2>1, <2>2, <2>3 DEF PreferenceFollows
<1> QED
  BY <1>1, <1>6, <1>7, <1>8, <1>9 DEF LinuxInv

\* A start, carried out or failed: the order leaves the queue, and a session or the report
\* of the failure takes its place.
LEMMA StartStep ==
  ASSUME LinuxInv, ExecuteNext, Head(queue).kind = "StartConnection"
  PROVE  LinuxInv'
<1> DEFINE a == Head(queue)
           e == Exited(active, 1, 0)
<1>1. /\ ControlInv' /\ queue' \in Seq(EngineActions)
      /\ \A i \in DOMAIN queue' : HasEffect(queue'[i])
      /\ a \in EngineActions
      /\ \A A, B :
           /\ In(Pending, A) <=> a \in A \/ In(Pending', A)
           /\ AtMostOne(Pending, A) <=> AtMostOne(Pending', A) /\ ~(a \in A /\ In(Pending', A))
           /\ Followed(Pending, A, B) <=>
                Followed(Pending', A, B) /\ (a \in A => In(Pending', B))
  BY ActionTaken
<1>2. a.gen \in Nat /\ a = Start(a.gen)
  BY <1>1, KindTells
<1>3. a.gen = active /\ active \in Generations /\ active \in Nat /\ active # NoGeneration
  BY <1>1, <1>2, GenerationNumbers DEF LinuxInv, OnlyActive
<1>4. /\ UNCHANGED <<stopSignal, reported, timer, looseTimers, preference, unsaved, stopping>>
      /\ UNCHANGED controlVars
      /\ \/ session' = [session EXCEPT ![active] = "running"] /\ events' = events
         \/ events' = Append(events, e) /\ session' = session
  BY <1>3 DEF ExecuteNext, Execute, ExecuteStart, timerVars, fileVars
<1>5. e \in ServiceEvents /\ e \in ExitsOf(active) /\ e.kind = "ConnectorExited" /\ e # Elapsed
      /\ \A g \in Nat : e \in ExitsOf(g) => g = active
  BY <1>3 DEF Exited, ServiceEvents, Exits, ExitsOf, Elapsed
<1> HIDE DEF a, e
<1>6. /\ a \in {Start(active)}
      /\ \A g \in Nat : a \notin {Stop(g)}
      /\ a \notin {CancelRetry} /\ a \notin {ScheduleRetry}
      /\ \A enabled \in BOOLEAN : a \notin {PersistAutomatic(enabled)}
  BY <1>2, <1>3 DEF PersistAutomatic, Start, Stop, CancelRetry, ScheduleRetry
<1>7. /\ ~In(Pending', {Start(active)})
      /\ session[active] = "none" /\ ~In(events, ExitsOf(active))
      /\ \A g \in Nat : /\ ~In(Pending', {Start(g)})
                        /\ In(Pending', {Stop(g)}) => g \in Generations
      /\ stopRequested => In(Pending', {Stop(active)})
  <2>1. In(Pending, {Start(active)})
    BY <1>1, <1>6
  <2>2. AtMostOne(Pending, {Start(active)}) /\ session[active] = "none"
        /\ ~In(events, ExitsOf(active))
    BY <1>3, <2>1 DEF LinuxInv, OneTrace, TasksTyped
  <2>3. ~In(Pending', {Start(active)})
    BY <1>1, <1>6, <2>2
  <2>4. \A g \in Nat : In(Pending', {Start(g)}) => g = active
    BY <1>1 DEF LinuxInv, OnlyActive
  <2>5. stopRequested => In(Pending', {Stop(active)})
    BY <1>1, <1>6 DEF LinuxInv, StopFollows
  <2>6. \A g \in Nat : In(Pending', {Stop(g)}) => g \in Generations
    BY <1>1 DEF LinuxInv, OnlyActive
  <2> QED
    BY <2>2, <2>3, <2>4, <2>5, <2>6
<1>8. session \in [Generations -> {"none", "running", "ended"}]
  BY DEF LinuxInv, TasksTyped
<1>9. /\ active' = active /\ stopRequested' = stopRequested /\ automatic' = automatic
      /\ automatic \in BOOLEAN /\ pendingRetry' = pendingRetry
      /\ nextGeneration' = nextGeneration
  BY <1>4, GenerationNumbers DEF LinuxInv, controlVars, engineVars
<1>10. PreferenceFollows'
  BY <1>1, <1>4, <1>6, <1>9 DEF LinuxInv, PreferenceFollows
<1>11. /\ events' \in Seq(ServiceEvents)
       /\ \A i \in DOMAIN events' :
            events'[i].kind = "ConnectorConnected" => events'[i].gen \in Started
       /\ \A A : In(events, A) => In(events', A)
       /\ session' = session => \A A : In(events', A) <=> In(events, A) \/ e \in A
       /\ session' = session => AtMostOne(events', ExitsOf(active))
  <2>1. CASE events' = events /\ session' # session
    BY <2>1 DEF LinuxInv, QueuesTyped
  <2>2. CASE events' = Append(events, e)
    <3>1. /\ events' \in Seq(ServiceEvents)
          /\ \A i \in DOMAIN events' :
               events'[i].kind = "ConnectorConnected" => events'[i].gen \in Started
          /\ \A A : /\ In(events', A) <=> In(events, A) \/ e \in A
                    /\ AtMostOne(events', A) <=>
                         AtMostOne(events, A) /\ ~(In(events, A) /\ e \in A)
      BY <1>5, <2>2, EventSent DEF LinuxInv
    <3> QED
      BY <1>7, <3>1, NoneIn
  <2>3. session' = [session EXCEPT ![active] = "running"] => session' # session
    BY <1>3, <1>7, <1>8
  <2> QED
    BY <1>4, <2>1, <2>2, <2>3
<1>12. RetryFollows'
  BY <1>1, <1>4, <1>6, <1>9, <1>11 DEF LinuxInv, RetryFollows, Elapsed
<1>13. QueuesTyped'
  BY <1>1, <1>9, <1>11 DEF QueuesTyped, Started
<1>14. TasksTyped'
  BY <1>3, <1>4, <1>8 DEF LinuxInv, TasksTyped
<1>15. OnlyActive' /\ OneTrace' /\ StopFollows'
  <2>1. CASE session' = [session EXCEPT ![active] = "running"] /\ events' = events
    <3>1. session'[active] = "running" /\ \A g \in Generations : g # active => session'[g] = session[g]
      BY <1>3, <1>8, <2>1
    <3>2. OnlyActive'
      <4>1. /\ \A g \in Nat : In(events', ExitsOf(g)) => g = active'
            /\ \A g \in Generations : session'[g] # "none" => g = active'
        BY <1>9, <2>1, <3>1 DEF LinuxInv, OnlyActive
      <4>2. \A g \in Nat : In(Pending', {Start(g)}) \/ In(events', ExitsOf(g))
                            => g = active' /\ g # NoGeneration
        BY <1>3, <1>7, <1>9, <4>1
      <4>3. \A g \in Nat : In(Pending', {Stop(g)}) => g \in Generations
        BY <1>7
      <4> QED
        BY <4>1, <4>2, <4>3 DEF OnlyActive
    <3>3. OneTrace'
      BY <1>3, <1>7, <1>9, <2>1, <3>1, NoneIn DEF OneTrace
    <3>4. StopFollows'
      BY <1>3, <1>7, <1>9, NoneIn DEF StopFollows
    <3> QED
      BY <3>2, <3>3, <3>4
  <2>2. CASE events' = Append(events, e) /\ session' = session
    <3>1. \A g \in Nat : In(events', ExitsOf(g)) => g = active
      BY <1>5, <1>11, <2>2 DEF LinuxInv, OnlyActive
    <3>2. In(events', ExitsOf(active)) /\ AtMostOne(events', ExitsOf(active))
      BY <1>5, <1>11, <2>2
    <3>3. OnlyActive'
      <4>1. \A g \in Generations : session'[g] # "none" => g = active'
        BY <1>9, <2>2 DEF LinuxInv, OnlyActive
      <4>2. \A g \in Nat : In(Pending', {Start(g)}) \/ In(events', ExitsOf(g))
                            => g = active' /\ g # NoGeneration
        BY <1>3, <1>7, <1>9, <3>1
      <4>3. \A g \in Nat : In(Pending', {Stop(g)}) => g \in Generations
        BY <1>7
      <4> QED
        BY <4>1, <4>2, <4>3 DEF OnlyActive
    <3>4. OneTrace'
      BY <1>3, <1>7, <1>9, <2>2, <3>2, NoneIn DEF OneTrace
    <3>5. StopFollows'
      BY <1>3, <1>7, <1>9, <2>2, NoneIn DEF StopFollows
    <3> QED
      BY <3>3, <3>4, <3>5
  <2> QED
    BY <1>4, <2>1, <2>2
<1> QED
  BY <1>1, <1>10, <1>12, <1>13, <1>14, <1>15 DEF LinuxInv

\* A stop, told to the session if there is one.
LEMMA StopStep ==
  ASSUME LinuxInv, ExecuteNext, Head(queue).kind = "StopConnection"
  PROVE  LinuxInv'
<1> DEFINE a == Head(queue)
<1>1. /\ ControlInv' /\ queue' \in Seq(EngineActions)
      /\ \A i \in DOMAIN queue' : HasEffect(queue'[i])
      /\ a \in EngineActions
      /\ \A A, B :
           /\ In(Pending, A) <=> a \in A \/ In(Pending', A)
           /\ AtMostOne(Pending, A) <=> AtMostOne(Pending', A) /\ ~(a \in A /\ In(Pending', A))
           /\ Followed(Pending, A, B) <=>
                Followed(Pending', A, B) /\ (a \in A => In(Pending', B))
  BY ActionTaken
<1>2. a.gen \in Nat /\ a = Stop(a.gen)
  BY <1>1, KindTells
<1>3. /\ UNCHANGED <<events, session, reported, timer, looseTimers, preference, unsaved, stopping>>
      /\ UNCHANGED controlVars
      /\ stopSignal' = IF session[a.gen] = "running" THEN stopSignal \cup {a.gen} ELSE stopSignal
  BY DEF ExecuteNext, Execute, ExecuteStop, timerVars, fileVars
<1> HIDE DEF a
<1>4. /\ \A g \in Nat : a \notin {Start(g)}
      /\ a \notin {CancelRetry} /\ a \notin {ScheduleRetry}
      /\ \A enabled \in BOOLEAN : a \notin {PersistAutomatic(enabled)}
      /\ \A g \in Nat : a \in {Stop(g)} => g = a.gen
  BY <1>2 DEF PersistAutomatic, Start, Stop, CancelRetry, ScheduleRetry
<1>5. /\ active' = active /\ stopRequested' = stopRequested /\ automatic' = automatic
      /\ automatic \in BOOLEAN /\ pendingRetry' = pendingRetry /\ active \in Nat
      /\ nextGeneration' = nextGeneration
      /\ stopRequested => active # NoGeneration
  BY <1>3, GenerationNumbers DEF LinuxInv, controlVars, engineVars
<1>6. OnlyActive' /\ OneTrace'
  BY <1>1, <1>3, <1>4, <1>5 DEF LinuxInv, OnlyActive, OneTrace
<1>7. StopFollows'
  <2> SUFFICES ASSUME stopRequested
               PROVE  /\ Followed(Pending', {Start(active)}, {Stop(active)})
                      /\ session[active] = "running"
                           => active \in stopSignal' \/ In(Pending', {Stop(active)})
    BY <1>3, <1>5 DEF StopFollows
  <2>1. /\ Followed(Pending, {Start(active)}, {Stop(active)})
        /\ session[active] = "running" => active \in stopSignal \/ In(Pending, {Stop(active)})
    BY DEF LinuxInv, StopFollows
  <2> QED
    BY <1>1, <1>3, <1>4, <1>5, <2>1
<1>8. QueuesTyped'
  <2>1. Started' = Started
    BY <1>5 DEF Started
  <2> QED
    BY <1>1, <1>3, <2>1 DEF LinuxInv, QueuesTyped
<1>9. TasksTyped'
  <2>1. a.gen \in Generations
    BY <1>1, <1>2 DEF LinuxInv, OnlyActive
  <2> QED
    BY <1>3, <2>1 DEF LinuxInv, TasksTyped
<1>10. PreferenceFollows' /\ RetryFollows'
  BY <1>1, <1>3, <1>4, <1>5 DEF LinuxInv, PreferenceFollows, RetryFollows, Elapsed
<1> QED
  BY <1>1, <1>6, <1>7, <1>8, <1>9, <1>10 DEF LinuxInv

\* A new timer in the executor's slot, or none: the one before is told to cancel.
LEMMA TimerStep ==
  ASSUME LinuxInv, ExecuteNext, Head(queue).kind \in {"ScheduleRetry", "CancelRetry"}
  PROVE  LinuxInv'
<1> DEFINE a == Head(queue)
           then == IF a = ScheduleRetry THEN "armed" ELSE "none"
<1>1. /\ ControlInv' /\ queue' \in Seq(EngineActions)
      /\ \A i \in DOMAIN queue' : HasEffect(queue'[i])
      /\ a \in EngineActions
      /\ \A A, B :
           /\ In(Pending, A) <=> a \in A \/ In(Pending', A)
           /\ AtMostOne(Pending, A) <=> AtMostOne(Pending', A) /\ ~(a \in A /\ In(Pending', A))
           /\ Followed(Pending, A, B) <=>
                Followed(Pending', A, B) /\ (a \in A => In(Pending', B))
  BY ActionTaken
<1>2. a = ScheduleRetry \/ a = CancelRetry
  BY <1>1, KindTells
<1>3. /\ UNCHANGED <<events, session, stopSignal, reported, preference, unsaved, stopping>>
      /\ UNCHANGED controlVars
      /\ timer = "armed" => looseTimers < MaxLooseTimers
      /\ looseTimers' = looseTimers + (IF timer = "armed" THEN 1 ELSE 0)
      /\ timer' = then
  BY <1>2 DEF ExecuteNext, Execute, ExecuteSchedule, ExecuteCancel, ReplaceTimer, sessionVars,
     fileVars, ScheduleRetry, CancelRetry
<1>4. (then = "armed" <=> a = ScheduleRetry) /\ then \in {"armed", "none"}
  OBVIOUS
<1> HIDE DEF a, then
<1>5. /\ \A g \in Nat : a \notin {Start(g)} /\ a \notin {Stop(g)}
      /\ \A enabled \in BOOLEAN : a \notin {PersistAutomatic(enabled)}
      /\ ScheduleRetry # CancelRetry
  BY <1>2 DEF PersistAutomatic, Start, Stop, CancelRetry, ScheduleRetry
<1>6. /\ active' = active /\ stopRequested' = stopRequested /\ automatic' = automatic
      /\ automatic \in BOOLEAN /\ pendingRetry' = pendingRetry /\ active \in Nat
      /\ nextGeneration' = nextGeneration
  BY <1>3, GenerationNumbers DEF LinuxInv, controlVars, engineVars
<1>7. OnlyActive' /\ OneTrace' /\ StopFollows'
  BY <1>1, <1>3, <1>5, <1>6, ConnectionUntouched
<1>8. QueuesTyped'
  <2>1. Started' = Started
    BY <1>6 DEF Started
  <2> QED
    BY <1>1, <1>3, <2>1 DEF LinuxInv, QueuesTyped
<1>9. TasksTyped'
  <2>1. /\ looseTimers \in Nat
        /\ looseTimers <= MaxLooseTimers + (IF stopping THEN 1 ELSE 0)
    BY DEF LinuxInv, TasksTyped
  <2>2. /\ looseTimers' \in Nat
        /\ looseTimers' <= MaxLooseTimers + (IF stopping' THEN 1 ELSE 0)
    BY <1>3, <2>1, LinuxAssumption
  <2> QED
    BY <1>3, <1>4, <2>2 DEF LinuxInv, TasksTyped
<1>10. PreferenceFollows'
  BY <1>1, <1>3, <1>5, <1>6 DEF LinuxInv, PreferenceFollows
<1>11. RetryFollows'
  <2> SUFFICES ASSUME pendingRetry # NoRetry, ~stopping, ~In(events, {Elapsed})
               PROVE  /\ Followed(Pending', {CancelRetry}, {ScheduleRetry})
                      /\ timer' = "armed" \/ In(Pending', {ScheduleRetry})
    BY <1>3, <1>6 DEF RetryFollows, Elapsed
  <2>1. Followed(Pending, {CancelRetry}, {ScheduleRetry})
    BY DEF LinuxInv, RetryFollows
  <2> QED
    BY <1>1, <1>2, <1>3, <1>4, <2>1
<1> QED
  BY <1>1, <1>7, <1>8, <1>9, <1>10, <1>11 DEF LinuxInv

\* The executor carries out one action.
LEMMA ExecuteStep == ASSUME LinuxInv, ExecuteNext PROVE LinuxInv'
BY PersistStep, StartStep, StopStep, TimerStep DEF ExecuteNext, Execute

-----------------------------------------------------------------------------
(* Publications, tasks and the process. *)

\* The next order goes from the engine's list to the executor's queue.
LEMMA PublishActionStep == ASSUME LinuxInv, PublishAction PROVE LinuxInv'
<1>1. ControlInv'
  BY PublishStep DEF LinuxInv, PublishAction
<1>2. /\ active' = active /\ stopRequested' = stopRequested /\ automatic' = automatic
      /\ pendingRetry' = pendingRetry /\ nextGeneration' = nextGeneration
      /\ UNCHANGED <<events, session, stopSignal, reported, timer, looseTimers, preference,
                     unsaved, stopping>>
      /\ automatic \in BOOLEAN /\ active \in Nat
  BY GenerationNumbers
     DEF LinuxInv, PublishAction, PublishNext, sessionVars, timerVars, fileVars
<1>3. /\ queue' \in Seq(EngineActions) /\ \A i \in DOMAIN queue' : HasEffect(queue'[i])
      /\ \A A, B \in SUBSET Effects :
           /\ In(Pending', A) <=> In(Pending, A)
           /\ AtMostOne(Pending', A) <=> AtMostOne(Pending, A)
           /\ Followed(Pending', A, B) <=> Followed(Pending, A, B)
  BY PendingPublished DEF LinuxInv
<1>4. OnlyActive' /\ OneTrace' /\ StopFollows'
  <2>1. \A g \in Nat : /\ In(Pending', {Start(g)}) <=> In(Pending, {Start(g)})
                       /\ In(Pending', {Stop(g)}) <=> In(Pending, {Stop(g)})
    BY <1>3, OrdersHaveEffect
  <2>2. /\ AtMostOne(Pending, {Start(active)}) => AtMostOne(Pending', {Start(active)})
        /\ Followed(Pending, {Start(active)}, {Stop(active)})
             => Followed(Pending', {Start(active)}, {Stop(active)})
    BY <1>2, <1>3, OrdersHaveEffect
  <2> QED
    BY <1>2, <2>1, <2>2, ConnectionUntouched
<1>5. QueuesTyped'
  <2>1. Started' = Started
    BY <1>2 DEF Started
  <2> QED
    BY <1>2, <1>3, <2>1 DEF LinuxInv, QueuesTyped
<1>6. TasksTyped'
  BY <1>2 DEF LinuxInv, TasksTyped
<1>7. RetryFollows'
  <2>1. /\ In(Pending', {ScheduleRetry}) <=> In(Pending, {ScheduleRetry})
        /\ Followed(Pending', {CancelRetry}, {ScheduleRetry})
             <=> Followed(Pending, {CancelRetry}, {ScheduleRetry})
    BY <1>3, OrdersHaveEffect
  <2> QED
    BY <1>2, <2>1 DEF LinuxInv, RetryFollows, Elapsed
<1>8. PreferenceFollows'
  <2>1. \A e, f \in BOOLEAN :
          /\ In(Pending', {PersistAutomatic(e)}) <=> In(Pending, {PersistAutomatic(e)})
          /\ Followed(Pending', {PersistAutomatic(f)}, {PersistAutomatic(e)})
               <=> Followed(Pending, {PersistAutomatic(f)}, {PersistAutomatic(e)})
    BY <1>3, OrdersHaveEffect
  <2>2. (~automatic) \in BOOLEAN
    OBVIOUS
  <2> QED
    BY <1>2, <2>1, <2>2 DEF LinuxInv, PreferenceFollows
<1> QED
  BY <1>1, <1>4, <1>5, <1>6, <1>7, <1>8 DEF LinuxInv

\* A step that leaves the engine, its status and the orders alone.
LEMMA EngineAtRest ==
  ASSUME LinuxInv, UNCHANGED <<engineVars, status, queue>>, replacing' \in ReplaceSteps
  PROVE  /\ ControlInv' /\ Pending' = Pending /\ Started' = Started
         /\ active' = active /\ stopRequested' = stopRequested /\ automatic' = automatic
         /\ pendingRetry' = pendingRetry
         /\ queue \in Seq(EngineActions) /\ \A i \in DOMAIN queue : HasEffect(queue[i])
BY WaitingStep DEF LinuxInv, QueuesTyped, Pending, Started, engineVars

\* A tunnel of the active generation: its session is still there.
LEMMA TunnelDetectedStep ==
  ASSUME LinuxInv, NEW g \in Generations, TunnelDetected(g) PROVE LinuxInv'
<1> DEFINE e == Connected(g)
<1>1. /\ UNCHANGED <<engineVars, status, queue>> /\ replacing' = replacing
      /\ UNCHANGED <<session, stopSignal, timer, looseTimers, preference, unsaved, stopping>>
      /\ session[g] = "running" /\ reported' = reported \cup {g} /\ events' = Append(events, e)
      /\ replacing' \in ReplaceSteps
  BY DEF TunnelDetected, timerVars, fileVars, controlVars, LinuxInv, ControlInv, StatusTypeOK
<1>2. g = active /\ g \in Started /\ active # NoGeneration
  <2>1. g = active
    BY <1>1 DEF LinuxInv, OnlyActive
  <2>2. active \in Nat /\ active < nextGeneration /\ nextGeneration \in Nat
        /\ NoGeneration \notin Generations
    BY GenerationNumbers DEF LinuxInv
  <2> QED
    BY <2>1, <2>2 DEF Started, NoGeneration
<1>3. e \in ServiceEvents /\ e.gen = g /\ e # Elapsed /\ \A h \in Nat : e \notin ExitsOf(h)
  <2>1. g \in Nat
    BY GenerationNumbers DEF LinuxInv
  <2> QED
    BY <2>1 DEF Connected, ServiceEvents, ExitsOf, Exits, Elapsed
<1> HIDE DEF e
<1>4. /\ ControlInv' /\ Pending' = Pending /\ Started' = Started
      /\ active' = active /\ stopRequested' = stopRequested /\ automatic' = automatic
      /\ pendingRetry' = pendingRetry
      /\ queue \in Seq(EngineActions) /\ \A i \in DOMAIN queue : HasEffect(queue[i])
  BY <1>1, EngineAtRest
<1>5. /\ events' \in Seq(ServiceEvents)
      /\ \A i \in DOMAIN events' :
           events'[i].kind = "ConnectorConnected" => events'[i].gen \in Started
      /\ \A A : /\ In(events', A) <=> In(events, A) \/ e \in A
                /\ AtMostOne(events', A) <=> AtMostOne(events, A) /\ ~(In(events, A) /\ e \in A)
  BY <1>1, <1>2, <1>3, EventSent DEF LinuxInv
<1>6. active \in Nat
  BY GenerationNumbers DEF LinuxInv
<1>7. OnlyActive' /\ OneTrace' /\ StopFollows'
  BY <1>1, <1>3, <1>4, <1>5, <1>6, ConnectionUntouched
<1>8. QueuesTyped'
  BY <1>1, <1>4, <1>5 DEF QueuesTyped
<1>9. TasksTyped'
  BY <1>1 DEF LinuxInv, TasksTyped
<1>10. RetryFollows' /\ PreferenceFollows'
  BY <1>1, <1>4, <1>5 DEF LinuxInv, RetryFollows, PreferenceFollows, Elapsed
<1> QED
  BY <1>4, <1>7, <1>8, <1>9, <1>10 DEF LinuxInv

\* The connector exits ...
LEMMA SessionEndsStep ==
  ASSUME LinuxInv, NEW g \in Generations, SessionEnds(g) PROVE LinuxInv'
<1>1. /\ UNCHANGED <<engineVars, status, queue>> /\ replacing' = replacing
      /\ UNCHANGED <<events, stopSignal, reported, timer, looseTimers, preference, unsaved,
                     stopping>>
      /\ session[g] = "running" /\ session' = [session EXCEPT ![g] = "ended"]
      /\ replacing' \in ReplaceSteps
  BY DEF SessionEnds, timerVars, fileVars, controlVars, LinuxInv, ControlInv, StatusTypeOK
<1>2. g = active
  BY <1>1 DEF LinuxInv, OnlyActive
<1>3. /\ ControlInv' /\ Pending' = Pending /\ Started' = Started
      /\ active' = active /\ stopRequested' = stopRequested /\ automatic' = automatic
      /\ pendingRetry' = pendingRetry
  BY <1>1, EngineAtRest
<1>4. session \in [Generations -> {"none", "running", "ended"}]
  BY DEF LinuxInv, TasksTyped
<1>5. /\ session' \in [Generations -> {"none", "running", "ended"}]
      /\ session'[active] = "ended"
      /\ \A h \in Generations : h # active => session'[h] = session[h]
  BY <1>1, <1>2, <1>4
<1>6. OnlyActive' /\ OneTrace' /\ StopFollows'
  BY <1>1, <1>2, <1>3, <1>5 DEF LinuxInv, OnlyActive, OneTrace, StopFollows
<1>7. QueuesTyped' /\ TasksTyped'
  BY <1>1, <1>3, <1>5 DEF LinuxInv, QueuesTyped, TasksTyped
<1>8. RetryFollows' /\ PreferenceFollows'
  BY <1>1, <1>3 DEF LinuxInv, RetryFollows, PreferenceFollows, Elapsed
<1> QED
  BY <1>3, <1>6, <1>7, <1>8 DEF LinuxInv

\* ... and is reported once it has left the map.
LEMMA SessionReportsStep ==
  ASSUME LinuxInv, NEW g \in Generations, SessionReports(g) PROVE LinuxInv'
<1>1. /\ UNCHANGED <<engineVars, status, queue>> /\ replacing' = replacing
      /\ UNCHANGED <<stopSignal, reported, timer, looseTimers, preference, unsaved, stopping>>
      /\ session[g] = "ended" /\ session' = [session EXCEPT ![g] = "none"]
      /\ replacing' \in ReplaceSteps
  BY DEF SessionReports, timerVars, fileVars, controlVars, LinuxInv, ControlInv, StatusTypeOK
<1>2. PICK outcome \in Outcomes : events' = Append(events, Exited(g, outcome[1], outcome[2]))
  BY DEF SessionReports
<1> DEFINE e == Exited(g, outcome[1], outcome[2])
<1>3. g = active /\ g \in Nat /\ active # NoGeneration
  BY <1>1, GenerationNumbers DEF LinuxInv, OnlyActive
<1>4. /\ e \in ServiceEvents /\ e \in ExitsOf(active) /\ e.kind = "ConnectorExited"
      /\ e # Elapsed /\ \A h \in Nat : e \in ExitsOf(h) => h = active
  BY <1>3 DEF Exited, Outcomes, ServiceEvents, Exits, ExitsOf, Elapsed
<1>5. events' = Append(events, e)
  BY <1>2
<1> HIDE DEF e
<1>6. /\ ControlInv' /\ Pending' = Pending /\ Started' = Started
      /\ active' = active /\ stopRequested' = stopRequested /\ automatic' = automatic
      /\ pendingRetry' = pendingRetry
      /\ queue \in Seq(EngineActions) /\ \A i \in DOMAIN queue : HasEffect(queue[i])
  BY <1>1, EngineAtRest
<1>7. /\ events' \in Seq(ServiceEvents)
      /\ \A i \in DOMAIN events' :
           events'[i].kind = "ConnectorConnected" => events'[i].gen \in Started
      /\ \A A : /\ In(events', A) <=> In(events, A) \/ e \in A
                /\ AtMostOne(events', A) <=> AtMostOne(events, A) /\ ~(In(events, A) /\ e \in A)
  BY <1>4, <1>5, EventSent DEF LinuxInv
<1>8. session \in [Generations -> {"none", "running", "ended"}]
  BY DEF LinuxInv, TasksTyped
<1>9. /\ session' \in [Generations -> {"none", "running", "ended"}]
      /\ session'[active] = "none"
      /\ \A h \in Generations : session'[h] # "none" => session[h] # "none"
  BY <1>1, <1>3, <1>8
<1>10. /\ ~In(Pending, {Start(active)}) /\ ~In(events, ExitsOf(active))
       /\ AtMostOne(events, ExitsOf(active)) /\ AtMostOne(Pending, {Start(active)})
  BY <1>1, <1>3 DEF LinuxInv, OneTrace
<1>11. OnlyActive'
  BY <1>3, <1>4, <1>6, <1>7, <1>9 DEF LinuxInv, OnlyActive
<1>12. OneTrace' /\ StopFollows'
  BY <1>4, <1>6, <1>7, <1>9, <1>10, NoneIn DEF LinuxInv, OneTrace, StopFollows
<1>13. QueuesTyped'
  BY <1>1, <1>6, <1>7 DEF QueuesTyped
<1>14. TasksTyped'
  BY <1>1, <1>9 DEF LinuxInv, TasksTyped
<1>15. RetryFollows' /\ PreferenceFollows'
  BY <1>1, <1>4, <1>6, <1>7 DEF LinuxInv, RetryFollows, PreferenceFollows, Elapsed
<1> QED
  BY <1>6, <1>11, <1>12, <1>13, <1>14, <1>15 DEF LinuxInv

\* The timer in the slot elapses, or one that was told to cancel ends, elapsed or not.
LEMMA TimerEventStep ==
  ASSUME LinuxInv, TimerFires \/ LooseTimerEnds PROVE LinuxInv'
<1>1. /\ UNCHANGED <<engineVars, status, queue>> /\ replacing' = replacing
      /\ UNCHANGED <<session, stopSignal, reported, preference, unsaved, stopping>>
      /\ replacing' \in ReplaceSteps
  BY DEF TimerFires, LooseTimerEnds, sessionVars, fileVars, controlVars, LinuxInv, ControlInv,
     StatusTypeOK
<1>2. \/ timer' = "none" /\ looseTimers' = looseTimers /\ events' = Append(events, Elapsed)
      \/ /\ timer' = timer /\ looseTimers > 0 /\ looseTimers' = looseTimers - 1
         /\ events' = events \/ events' = Append(events, Elapsed)
  BY DEF TimerFires, LooseTimerEnds
<1>3. Elapsed \in ServiceEvents /\ Elapsed.kind = "RetryElapsed"
      /\ \A h \in Nat : Elapsed \notin ExitsOf(h)
  BY DEF ServiceEvents, ExitsOf, Exits, Elapsed
<1>4. /\ ControlInv' /\ Pending' = Pending /\ Started' = Started
      /\ active' = active /\ stopRequested' = stopRequested /\ automatic' = automatic
      /\ pendingRetry' = pendingRetry
      /\ queue \in Seq(EngineActions) /\ \A i \in DOMAIN queue : HasEffect(queue[i])
  BY <1>1, EngineAtRest
<1>5. /\ events' \in Seq(ServiceEvents)
      /\ \A i \in DOMAIN events' :
           events'[i].kind = "ConnectorConnected" => events'[i].gen \in Started
      /\ \A A : Elapsed \notin A => /\ In(events', A) <=> In(events, A)
                                    /\ AtMostOne(events, A) => AtMostOne(events', A)
      /\ In(events, {Elapsed}) => In(events', {Elapsed})
      /\ events' # events => In(events', {Elapsed})
  <2>1. CASE events' = events
    BY <2>1 DEF LinuxInv, QueuesTyped
  <2>2. CASE events' = Append(events, Elapsed)
    <3>1. /\ events' \in Seq(ServiceEvents)
          /\ \A i \in DOMAIN events' :
               events'[i].kind = "ConnectorConnected" => events'[i].gen \in Started
          /\ \A A : /\ In(events', A) <=> In(events, A) \/ Elapsed \in A
                    /\ AtMostOne(events', A) <=>
                         AtMostOne(events, A) /\ ~(In(events, A) /\ Elapsed \in A)
      BY <1>3, <2>2, EventSent DEF LinuxInv
    <3> QED
      BY <3>1
  <2> QED
    BY <1>2, <2>1, <2>2
<1>6. active \in Nat
  BY GenerationNumbers DEF LinuxInv
<1>7. OnlyActive' /\ OneTrace' /\ StopFollows'
  BY <1>1, <1>3, <1>4, <1>5, <1>6, ConnectionUntouched
<1>8. QueuesTyped'
  BY <1>1, <1>4, <1>5 DEF QueuesTyped
<1>9. TasksTyped'
  <2>1. /\ looseTimers \in Nat /\ MaxLooseTimers \in Nat
        /\ looseTimers <= MaxLooseTimers + (IF stopping THEN 1 ELSE 0)
    BY LinuxAssumption DEF LinuxInv, TasksTyped
  <2>2. /\ looseTimers' \in Nat
        /\ looseTimers' <= MaxLooseTimers + (IF stopping THEN 1 ELSE 0)
    BY <1>2, <2>1
  <2> QED
    BY <1>1, <1>2, <2>2 DEF LinuxInv, TasksTyped
<1>10. RetryFollows'
  <2>1. timer' = timer \/ In(events', {Elapsed})
    <3>1. CASE timer' = "none" /\ events' = Append(events, Elapsed)
      <4>1. \A A : In(events', A) <=> In(events, A) \/ Elapsed \in A
        BY <1>3, <3>1, EventSent DEF LinuxInv
      <4> QED
        BY <4>1
    <3> QED
      BY <1>2, <3>1
  <2> QED
    BY <1>1, <1>4, <1>5, <2>1 DEF LinuxInv, RetryFollows, Elapsed
<1>11. PreferenceFollows'
  BY <1>1, <1>4 DEF LinuxInv, PreferenceFollows
<1> QED
  BY <1>4, <1>7, <1>8, <1>9, <1>10, <1>11 DEF LinuxInv

\* stop_all: every session and the timer are told, once.
LEMMA TerminateStep == ASSUME LinuxInv, Terminate PROVE LinuxInv'
<1>1. /\ UNCHANGED <<engineVars, status, queue>> /\ replacing' = replacing
      /\ UNCHANGED <<session, events, reported, preference, unsaved>>
      /\ stopSignal \subseteq stopSignal' /\ stopSignal' \subseteq stopSignal \cup Generations
      /\ ~stopping /\ stopping' = TRUE /\ timer' = "none"
      /\ looseTimers' = looseTimers + (IF timer = "armed" THEN 1 ELSE 0)
      /\ replacing' \in ReplaceSteps
  BY DEF Terminate, fileVars, controlVars, LinuxInv, ControlInv, StatusTypeOK
<1>2. /\ ControlInv' /\ Pending' = Pending /\ Started' = Started
      /\ active' = active /\ stopRequested' = stopRequested /\ automatic' = automatic
      /\ pendingRetry' = pendingRetry
  BY <1>1, EngineAtRest
<1>3. OnlyActive' /\ OneTrace' /\ StopFollows'
  BY <1>1, <1>2 DEF LinuxInv, OnlyActive, OneTrace, StopFollows
<1>4. QueuesTyped'
  BY <1>1, <1>2 DEF LinuxInv, QueuesTyped
<1>5. TasksTyped'
  <2>1. looseTimers \in Nat /\ looseTimers <= MaxLooseTimers /\ MaxLooseTimers \in Nat
    BY <1>1, LinuxAssumption DEF LinuxInv, TasksTyped
  <2>2. looseTimers' \in Nat /\ looseTimers' <= MaxLooseTimers + 1
    BY <1>1, <2>1
  <2> QED
    BY <1>1, <2>2 DEF LinuxInv, TasksTyped
<1>6. RetryFollows' /\ PreferenceFollows'
  BY <1>1, <1>2 DEF LinuxInv, RetryFollows, PreferenceFollows
<1> QED
  BY <1>2, <1>3, <1>4, <1>5, <1>6 DEF LinuxInv

\* Requests, the network, and the replacement of the credentials.
LEMMA RequestStep == ASSUME LinuxInv, UserOrNetwork \/ FinishReplacement PROVE LinuxInv'
<1>1. /\ UNCHANGED <<queue, events, sessionVars, timerVars, fileVars, stopping>>
      /\ replacing \in ReplaceSteps
  BY DEF UserOrNetwork, FinishReplacement, LinuxInv, ControlInv, StatusTypeOK
<1>2. CASE Request \/ NetworkWatch \/ ReplacementReconnects
  <2>1. /\ MutexFree /\ status' = status
        /\ UserEvent \/ NetworkEvent
        /\ replacing' \in ReplaceSteps
    BY <1>1, <1>2 DEF Request, NetworkWatch, ReplacementReconnects, Apply, UserEvent,
       NetworkEvent, ReplaceSteps
  <2> QED
    BY <1>1, <2>1, InputStep
<1>3. CASE CredentialsStored \/ AutomaticChecked
  <2>1. UNCHANGED <<engineVars, status, queue>> /\ replacing' \in ReplaceSteps
    BY <1>1, <1>3 DEF CredentialsStored, AutomaticChecked, ReplaceSteps
  <2>2. /\ ControlInv' /\ Pending' = Pending /\ Started' = Started
        /\ active' = active /\ stopRequested' = stopRequested /\ automatic' = automatic
        /\ pendingRetry' = pendingRetry
    BY <2>1, EngineAtRest
  <2> QED
    BY <1>1, <2>2
       DEF LinuxInv, QueuesTyped, TasksTyped, OnlyActive, OneTrace, StopFollows, RetryFollows,
           PreferenceFollows, sessionVars, timerVars, fileVars
<1> QED
  BY <1>2, <1>3 DEF UserOrNetwork, FinishReplacement

\* A new process: nothing is queued, nothing runs, and the stored preference is loaded.
Fresh ==
  /\ ControlInit /\ preference \in BOOLEAN /\ automatic = preference
  /\ queue = <<>> /\ events = <<>>
  /\ session = NoSessions /\ stopSignal = {} /\ reported = {}
  /\ timer = "none" /\ looseTimers = 0
  /\ stopping = FALSE /\ unsaved = FALSE

LEMMA FreshInv == Fresh => LinuxInv
<1> SUFFICES ASSUME Fresh PROVE LinuxInv
  OBVIOUS
<1>1. ControlInv /\ actions = <<>> /\ active = NoGeneration /\ pendingRetry = NoRetry
      /\ stopRequested = FALSE
  BY ControlInvInit DEF Fresh, ControlInit, Init
<1>2. Pending = <<>>
  BY <1>1 DEF Fresh, Pending
<1>3. \A A, B : ~In(<<>>, A) /\ Followed(<<>>, A, B)
  BY ShortView
<1>4. QueuesTyped
  BY DEF Fresh, QueuesTyped
<1>5. TasksTyped
  <2>1. looseTimers \in Nat /\ looseTimers <= MaxLooseTimers + (IF stopping THEN 1 ELSE 0)
    BY LinuxAssumption DEF Fresh
  <2>2. session \in [Generations -> {"none", "running", "ended"}]
    BY DEF Fresh, NoSessions
  <2> QED
    BY <2>1, <2>2 DEF Fresh, TasksTyped
<1>6. OnlyActive /\ OneTrace /\ StopFollows /\ RetryFollows /\ PreferenceFollows
  BY <1>1, <1>2, <1>3
     DEF Fresh, NoSessions, OnlyActive, OneTrace, StopFollows, RetryFollows, PreferenceFollows
<1> QED
  BY <1>1, <1>4, <1>5, <1>6 DEF LinuxInv

LEMMA RestartStep == ASSUME LinuxInv, Restart PROVE LinuxInv'
<1>1. preference \in BOOLEAN
  BY DEF LinuxInv, TasksTyped
<1>2. Fresh'
  BY <1>1 DEF Restart, Fresh, ControlInit, Init, NoSessions, NewStatus
<1>3. Fresh' => LinuxInv'
  BY FreshInv, PTL
<1> QED
  BY <1>2, <1>3

-----------------------------------------------------------------------------
(* The theorems. *)

\* The service, from any stored preference, keeps its invariant.
THEOREM LinuxInvariant == LinuxSpec => []LinuxInv
<1>1. LinuxInit => LinuxInv
  BY FreshInv DEF LinuxInit, Fresh
<1>2. LinuxInv /\ [LinuxNext]_linuxVars => LinuxInv'
  <2> SUFFICES ASSUME LinuxInv, [LinuxNext]_linuxVars PROVE LinuxInv'
    OBVIOUS
  <2>1. CASE UserOrNetwork \/ FinishReplacement
    BY <2>1, RequestStep
  <2>2. CASE PublishAction
    BY <2>2, PublishActionStep
  <2>3. CASE ExecuteNext
    BY <2>3, ExecuteStep
  <2>4. CASE HandleEvent
    BY <2>4, HandleEventStep
  <2>5. CASE TimerFires \/ LooseTimerEnds
    BY <2>5, TimerEventStep
  <2>6. CASE \E g \in Generations : SessionStep(g)
    BY <2>6, TunnelDetectedStep, SessionEndsStep, SessionReportsStep DEF SessionStep
  <2>7. CASE Terminate
    BY <2>7, TerminateStep
  <2>8. CASE Restart
    BY <2>8, RestartStep
  <2>9. CASE UNCHANGED linuxVars
    <3>1. UNCHANGED <<engineVars, status, queue>> /\ replacing' \in ReplaceSteps
      BY <2>9 DEF linuxVars, controlVars, LinuxInv, ControlInv, StatusTypeOK
    <3>2. /\ ControlInv' /\ Pending' = Pending /\ Started' = Started
          /\ active' = active /\ stopRequested' = stopRequested /\ automatic' = automatic
          /\ pendingRetry' = pendingRetry
      BY <3>1, EngineAtRest
    <3> QED
      BY <2>9, <3>2
         DEF LinuxInv, QueuesTyped, TasksTyped, OnlyActive, OneTrace, StopFollows,
             RetryFollows, PreferenceFollows, linuxVars, sessionVars, timerVars, fileVars
  <2> QED
    BY <2>1, <2>2, <2>3, <2>4, <2>5, <2>6, <2>7, <2>8, <2>9 DEF LinuxNext
<1> QED
  BY <1>1, <1>2, PTL DEF LinuxSpec

\* Two ways to say that an order is pending.
LEMMA PendingView == \A a : IsPending(a) <=> In(Pending, {a})
BY DEF IsPending, In

\* The generation the engine believes active is in exactly one place: its start is ordered,
\* or its session exists, or its exit is on the way.
THEOREM GenerationsAreAccounted == LinuxSpec => []GenerationAccounted
<1>1. LinuxInv => GenerationAccounted
  <2> SUFFICES ASSUME LinuxInv, active # NoGeneration PROVE GenerationAccounted
    BY DEF GenerationAccounted
  <2>1. IsPending(Start(active)) <=> In(Pending, {Start(active)})
    BY PendingView
  <2>2. Announced(active) <=> In(events, ExitsOf(active))
    <3>1. ASSUME NEW i \in DOMAIN events
          PROVE  events[i] \in ExitsOf(active)
                   <=> events[i].kind = "ConnectorExited" /\ events[i].gen = active
      <4>1. events[i] \in ServiceEvents
        BY ElementOfSeq, LenProperties DEF LinuxInv, QueuesTyped
      <4> QED
        BY <4>1 DEF ServiceEvents, Exits, ExitsOf
    <3> QED
      BY <3>1 DEF Announced, In
  <2> QED
    BY <2>1, <2>2 DEF LinuxInv, OneTrace, GenerationAccounted
<1> QED
  BY <1>1, LinuxInvariant, PTL

\* The stored preference is the engine's once the executor has caught up, unless the last
\* store failed.
THEOREM PreferenceIsStored == LinuxSpec => []PreferenceStored
<1>1. LinuxInv => PreferenceStored
  <2> SUFFICES ASSUME LinuxInv, ~unsaved,
                      \A enabled \in BOOLEAN : ~IsPending(PersistAutomatic(enabled))
               PROVE  preference = automatic
    BY DEF PreferenceStored
  <2>1. automatic \in BOOLEAN
    BY GenerationNumbers DEF LinuxInv
  <2> QED
    BY <2>1, PendingView DEF LinuxInv, PreferenceFollows
<1> QED
  BY <1>1, LinuxInvariant, PTL

\* Both: neither the connection nor the preference is lost on the way.
THEOREM NothingIsLost == LinuxSpec => []NothingLost
BY GenerationsAreAccounted, PreferenceIsStored, PTL DEF NothingLost

\* One connector at a time, each with its stop on the way when it has to end, and a timer
\* for each retry.
THEOREM ServiceIsSound == LinuxSpec => []ServiceSound
<1>1. LinuxInv => ServiceSound
  <2> SUFFICES ASSUME LinuxInv PROVE ServiceSound
    OBVIOUS
  <2>1. LinuxTypeOK
    <3>1. ControlTypeOK /\ replacing \in ReplaceSteps
      BY DEF LinuxInv, ControlInv, EngineInv, StatusTypeOK, ControlTypeOK
    <3>2. \A i \in DOMAIN events :
            events[i].kind \in {"ConnectorConnected", "ConnectorExited", "RetryElapsed"}
      <4> TAKE i \in DOMAIN events
      <4>1. events[i] \in ServiceEvents
        BY ElementOfSeq, LenProperties DEF LinuxInv, QueuesTyped
      <4> QED
        BY <4>1 DEF ServiceEvents, Exits
    <3>3. looseTimers \in 0 .. MaxLooseTimers + 1
      BY LinuxAssumption DEF LinuxInv, TasksTyped
    <3> QED
      BY <3>1, <3>2, <3>3 DEF LinuxInv, QueuesTyped, TasksTyped, LinuxTypeOK
  <2>2. OneRunner
    <3> DEFINE running == {g \in Generations : session[g] = "running"}
    <3>1. running \subseteq {active}
      BY DEF LinuxInv, OnlyActive
    <3>2. IsFiniteSet({active}) /\ Cardinality({active}) = 1
      BY FS_Singleton
    <3> HIDE DEF running
    <3>3. Cardinality(running) <= 1
      BY <3>1, <3>2, FS_Subset
    <3> QED
      BY <3>3 DEF running, OneRunner
  <2>3. StopReachesSession
    <3> SUFFICES ASSUME NEW g \in Generations, session[g] = "running", g # active \/ stopRequested
                 PROVE  g \in stopSignal \/ IsPending(Stop(g))
      BY DEF StopReachesSession
    <3>1. g = active
      BY DEF LinuxInv, OnlyActive
    <3> QED
      BY <3>1, PendingView DEF LinuxInv, StopFollows
  <2>4. RetryAccounted
    BY PendingView DEF LinuxInv, RetryFollows, RetryAccounted, In
  <2> QED
    BY <2>1, <2>2, <2>3, <2>4 DEF ServiceSound
<1> QED
  BY <1>1, LinuxInvariant, PTL

-----------------------------------------------------------------------------
(* The Windows service. *)

\* What a step of the Windows service does to the variables of LinuxService is a step of
\* LinuxService.
LEMMA WindowsStepIsLinux == ASSUME [WindowsNext]_windowsVars PROVE [LinuxNext]_linuxVars
<1>1. CASE DaemonExecutes \/ DaemonHandles
  BY <1>1 DEF DaemonExecutes, DaemonHandles, LinuxNext
<1>2. CASE WatchReports \/ HandleRequest
  BY <1>2 DEF WatchReports, HandleRequest, Unserved, UserOrNetwork, LinuxNext
<1>3. CASE Continue \/ Background \/ \E g \in Generations : TunnelSeen(g)
  BY <1>3 DEF Continue, Background, TunnelSeen, SessionStep, LinuxNext
<1>4. CASE StopAll \/ ProcessEnds
  BY <1>4 DEF StopAll, ProcessEnds, LinuxNext
<1>5. CASE ReportRunning \/ RunDaemon \/ AdapterChanges
  BY <1>5 DEF ReportRunning, RunDaemon, AdapterChanges
<1>6. CASE EndUnchanged \/ OpenPipe \/ AcceptClient \/ Answer
  BY <1>6 DEF EndUnchanged, OpenPipe, AcceptClient, Answer
<1>7. CASE ControlStop \/ Return \/ ReportStopped \/ \E t \in AllTasks : TaskEnds(t)
  BY <1>7 DEF ControlStop, Return, ReportStopped, TaskEnds
<1>8. CASE UNCHANGED windowsVars
  BY <1>8 DEF windowsVars
<1> QED
  BY <1>1, <1>2, <1>3, <1>4, <1>5, <1>6, <1>7, <1>8 DEF WindowsNext, Served, Stopping

\* The Windows service is a Linux service: whatever the pipe, the service control manager
\* and the adapters do, its executor, sessions and timers take LinuxService's steps.
THEOREM WindowsImplementsLinux == WindowsSpec => ImplementsLinux
<1>1. WindowsInit => LinuxInit
  BY DEF WindowsInit
<1>2. [WindowsNext]_windowsVars => [LinuxNext]_linuxVars
  BY WindowsStepIsLinux
<1> QED
  BY <1>1, <1>2, PTL DEF WindowsSpec, LinuxSpec, ImplementsLinux

WindowsTyped ==
  /\ scm \in {"StartPending", "Running", "Stopped"}
  /\ main \in {"boot", "failed", "serving", "stopping", "returned"}
  /\ shutdown \in BOOLEAN
  /\ tasks \subseteq AllTasks
  /\ pipe \in {"closed", "listening", "reading", "handling"}
  /\ adapter \in Generations \cup {NoGeneration}
  /\ noted \in [Generations -> {"none", "own", "foreign"}]

\* A session that began while no adapter was up has no other session's of ours in sight.
OwnAdapter ==
  \A g \in Generations :
    session[g] = "running" /\ noted[g] = "none" => adapter \in {NoGeneration, g}

\* The status tells the preference unless a request of the user is at work on it; a change
\* of the credentials that will reconnect does so while the preference is on.
PreferenceTold ==
  /\ pipe # "handling" \/ replacing # "none" => status.automatic = automatic
  /\ replacing = "confirmed" => automatic

WindowsInv ==
  /\ WindowsTyped /\ OneAtATime /\ NothingEarly
  /\ OwnAdapter /\ PreferenceTold

\* Nothing but a request of the user touches the preference.
LEMMA PreferenceUntouched == ASSUME NetworkWatch \/ HandleEvent PROVE automatic' = automatic
BY DEF NetworkWatch, HandleEvent, Apply, NetworkUnavailable, NetworkReady, EngineTakes,
   ConnectorConnected, ConnectorExited, ActiveExited, Stale, RetryElapsed

\* The publication of an action keeps a preference that was told.
LEMMA ToldWhilePublished ==
  ASSUME ControlInv, PublishNext, status.automatic = automatic
  PROVE  status'.automatic = automatic' /\ automatic' = automatic
<1>1. /\ actions # <<>> /\ automatic' = automatic
      /\ status' = StatusAfter(status, Head(actions)) /\ actions \in Seq(EngineActions)
      /\ status \in Statuses
  BY DEF PublishNext, ControlInv, ActionsAreCurrent, StatusTypeOK
<1>2. Head(actions) = actions[1] /\ 1 \in Places
  BY <1>1 DEF Places
<1>3. Head(actions).kind = "PersistAutomatic" => Head(actions).enabled = automatic
  BY <1>2 DEF ControlInv, ActionsAreCurrent
<1> QED
  BY <1>1, <1>3 DEF StatusAfter, ConnectedStatus, PublishedStatus, ErrorStatus, Statuses

\* Only a start makes a session run; the tasks leave the adapters to the driver, and forget
\* what was noted of a session with the session.
LEMMA OwnAdapterKept ==
  ASSUME WindowsInv, LinuxInv, UNCHANGED adapter,
         \A g \in Generations :
           session'[g] = "running" => session[g] = "running" /\ noted'[g] \in {noted[g], "own", "foreign"}
  PROVE  OwnAdapter'
BY DEF WindowsInv, OwnAdapter

\* The steps around the executor: the manager, the pipe between requests, and the tasks' end.
LEMMA AroundStep ==
  ASSUME WindowsInv, LinuxInv, UNCHANGED <<linuxVars, adapterVars>>,
         ReportRunning \/ RunDaemon \/ ControlStop \/ OpenPipe \/ AcceptClient \/ EndUnchanged
         \/ Answer \/ Return \/ ReportStopped \/ (\E t \in AllTasks : TaskEnds(t))
  PROVE  WindowsInv'
<1>1. /\ UNCHANGED <<session, queue, actions, replacing, status, automatic, adapter, noted>>
      /\ WindowsTyped /\ OneAtATime /\ NothingEarly /\ OwnAdapter /\ PreferenceTold
  BY DEF WindowsInv, linuxVars, controlVars, engineVars, sessionVars, adapterVars
<1>2. OwnAdapter'
  BY <1>1 DEF OwnAdapter
<1>3. CASE ReportRunning \/ RunDaemon \/ ControlStop \/ Return \/ ReportStopped
  <2>1. WindowsTyped'
    BY <1>1, <1>3 DEF WindowsTyped, ReportRunning, RunDaemon, ControlStop, Return, ReportStopped
  <2>2. UNCHANGED pipe /\ ("pipe" \in tasks => "pipe" \in tasks')
    BY <1>1, <1>3 DEF NothingEarly, ReportRunning, RunDaemon, ControlStop, Return, ReportStopped,
       AllTasks
  <2>3. NothingEarly'
    BY <1>1, <1>3 DEF NothingEarly, ReportRunning, RunDaemon, ControlStop, Return, ReportStopped
  <2> QED
    BY <1>1, <1>2, <2>1, <2>2, <2>3 DEF WindowsInv, OneAtATime, PreferenceTold
<1>4. CASE OpenPipe \/ AcceptClient \/ EndUnchanged \/ Answer
  <2>1. WindowsTyped' /\ UNCHANGED <<main, tasks>> /\ "pipe" \in tasks
    BY <1>1, <1>4 DEF WindowsTyped, OpenPipe, AcceptClient, EndUnchanged, Answer
  <2>2. replacing = "none" /\ status.automatic = automatic
    BY <1>1, <1>4, AgreesWhenFree DEF OneAtATime, PreferenceTold, OpenPipe, AcceptClient,
       EndUnchanged, Answer, LinuxInv, Agrees
  <2>3. NothingEarly'
    BY <1>1, <2>1 DEF NothingEarly
  <2> QED
    BY <1>1, <1>2, <2>1, <2>2, <2>3 DEF WindowsInv, OneAtATime, PreferenceTold
<1>5. ASSUME NEW t \in AllTasks, TaskEnds(t) PROVE WindowsInv'
  <2>1. WindowsTyped' /\ UNCHANGED main
    BY <1>1, <1>5 DEF WindowsTyped, TaskEnds
  <2>2. replacing # "none" => t # "pipe"
    BY <1>1, <1>5 DEF OneAtATime, TaskEnds
  <2>3. OneAtATime'
    BY <1>1, <1>5, <2>2 DEF OneAtATime, TaskEnds
  <2>4. NothingEarly'
    BY <1>1, <1>5, <2>1 DEF NothingEarly, TaskEnds
  <2>5. PreferenceTold'
    BY <1>1, <1>5 DEF PreferenceTold, TaskEnds
  <2> QED
    BY <1>2, <2>1, <2>3, <2>4, <2>5 DEF WindowsInv
<1> QED
  BY <1>3, <1>4, <1>5

\* A request begins with the status told, and alone.
LEMMA HandleRequestStep == ASSUME WindowsInv, LinuxInv, HandleRequest PROVE WindowsInv'
<1>1. /\ WindowsTyped /\ OneAtATime /\ NothingEarly /\ OwnAdapter /\ PreferenceTold
      /\ "pipe" \in tasks /\ pipe = "reading" /\ pipe' = "handling"
      /\ UNCHANGED <<scm, main, shutdown, tasks, adapter, noted, session, queue>>
  BY DEF WindowsInv, HandleRequest, Unserved, sessionVars, adapterVars
<1>2. replacing = "none" /\ status.automatic = automatic
  BY <1>1 DEF OneAtATime, PreferenceTold
<1>3. \/ replacing' = "none"
      \/ replacing' = "stored" /\ UNCHANGED <<status, automatic>>
  BY <1>2 DEF HandleRequest, Request, CredentialsStored, engineVars
<1>4. WindowsTyped'
  BY <1>1 DEF WindowsTyped
<1>5. OneAtATime' /\ PreferenceTold'
  BY <1>1, <1>2, <1>3 DEF OneAtATime, PreferenceTold
<1>6. NothingEarly'
  BY <1>1 DEF NothingEarly
<1>7. OwnAdapter'
  BY <1>1 DEF OwnAdapter
<1> QED
  BY <1>4, <1>5, <1>6, <1>7 DEF WindowsInv

\* The rest of a request, and the daemon's and the watch's events.
LEMMA WorkStep ==
  ASSUME WindowsInv, LinuxInv, Continue \/ DaemonHandles \/ WatchReports
  PROVE  WindowsInv'
<1>1. /\ WindowsTyped /\ OneAtATime /\ NothingEarly /\ OwnAdapter /\ PreferenceTold
      /\ UNCHANGED <<scm, main, shutdown, tasks, pipe, adapter, noted, session>>
  BY DEF WindowsInv, Continue, DaemonHandles, WatchReports, HandleEvent, PublishAction,
     FinishReplacement, Unserved, sessionVars, adapterVars, serviceVars
<1>2. tasks # {} \/ actions # <<>> \/ pipe # "closed"
  BY <1>1 DEF Continue, DaemonHandles, WatchReports, PublishAction, PublishNext, OneAtATime,
     FinishReplacement, AutomaticChecked, ReplacementReconnects
<1>3. WindowsTyped' /\ NothingEarly' /\ OwnAdapter'
  BY <1>1, <1>2 DEF WindowsTyped, NothingEarly, OwnAdapter
<1>4. CASE PublishAction
  <2>1. UNCHANGED replacing /\ PublishNext
    BY <1>4 DEF PublishAction, PublishNext
  <2>2. status.automatic = automatic => status'.automatic = automatic'
    BY <2>1, ToldWhilePublished DEF LinuxInv
  <2>3. automatic' = automatic
    BY <2>1 DEF PublishNext
  <2> QED
    BY <1>1, <1>3, <2>1, <2>2, <2>3 DEF WindowsInv, OneAtATime, PreferenceTold
<1>5. CASE FinishReplacement
  <2>1. pipe = "handling" /\ "pipe" \in tasks
    BY <1>1, <1>5 DEF OneAtATime, FinishReplacement, AutomaticChecked, ReplacementReconnects
  <2>2. \/ replacing' = "none"
        \/ replacing' = "confirmed" /\ automatic' /\ UNCHANGED <<status, automatic>>
           /\ status.automatic = automatic
    BY <1>1, <1>5 DEF FinishReplacement, AutomaticChecked, ReplacementReconnects,
       PreferenceTold, engineVars
  <2> QED
    BY <1>1, <1>3, <2>1, <2>2 DEF WindowsInv, OneAtATime, PreferenceTold
<1>6. CASE DaemonHandles \/ WatchReports
  <2>1. UNCHANGED <<replacing, status, automatic>>
    BY <1>6, PreferenceUntouched DEF DaemonHandles, WatchReports, HandleEvent, NetworkWatch, Apply
  <2> QED
    BY <1>1, <1>3, <2>1 DEF WindowsInv, OneAtATime, PreferenceTold
<1> QED
  BY <1>4, <1>5, <1>6 DEF Continue

\* The executor, the sessions, the timers and the driver leave the control plane alone; a
\* session that begins while another's adapter is up notes it, or one before it.
LEMMA SessionSideStep ==
  ASSUME WindowsInv, LinuxInv,
         DaemonExecutes \/ Background \/ AdapterChanges \/ StopAll
         \/ (\E g \in Generations : TunnelSeen(g))
  PROVE  WindowsInv'
<1>1. WindowsTyped /\ OneAtATime /\ NothingEarly /\ OwnAdapter /\ PreferenceTold
  BY DEF WindowsInv
<1>2. UNCHANGED <<controlVars, tasks, pipe>>
  BY DEF DaemonExecutes, ExecuteNext, Background, TimerFires, LooseTimerEnds, SessionEnds,
     SessionReports, AdapterChanges, linuxVars, StopAll, Terminate, TunnelSeen, TunnelDetected,
     serviceVars
<1>3. UNCHANGED <<replacing, status, automatic, actions>>
  BY <1>2 DEF controlVars, engineVars
<1>4. OneAtATime' /\ PreferenceTold'
  BY <1>1, <1>2, <1>3 DEF OneAtATime, PreferenceTold
<1>5. NothingEarly'
  <2>1. queue' = queue \/ "daemon" \in tasks
    BY DEF DaemonExecutes, Background, TimerFires, LooseTimerEnds, SessionEnds, SessionReports,
       AdapterChanges, linuxVars, StopAll, Terminate, TunnelSeen, TunnelDetected
  <2>2. main' = main \/ (main = "serving" /\ main' = "stopping")
    BY DEF DaemonExecutes, Background, AdapterChanges, StopAll, TunnelSeen, serviceVars
  <2> QED
    BY <1>1, <1>2, <1>3, <2>1, <2>2 DEF NothingEarly
<1>6. CASE DaemonExecutes
  <2>1. Found \subseteq {"none", "own", "foreign"} /\ ("none" \in Found => adapter = NoGeneration)
    BY DEF Found
  <2>2. PICK found \in Found :
          noted' = [g \in Generations |-> IF session[g] # "running" /\ session'[g] = "running"
                                          THEN found ELSE noted[g]]
    BY <1>6 DEF DaemonExecutes
  <2>3. WindowsTyped'
    BY <1>1, <1>6, <2>1, <2>2 DEF WindowsTyped, DaemonExecutes, serviceVars
  <2>4. OwnAdapter'
    BY <1>1, <1>6, <2>1, <2>2 DEF OwnAdapter, DaemonExecutes
  <2> QED
    BY <1>4, <1>5, <2>3, <2>4 DEF WindowsInv
<1>7. CASE AdapterChanges
  <2>1. WindowsTyped' /\ UNCHANGED <<session, noted>>
    BY <1>1, <1>7 DEF WindowsTyped, AdapterChanges, serviceVars, linuxVars, sessionVars
  <2>2. \A g, h \in Generations : session[g] = "running" /\ session[h] = "running" => g = h
    BY DEF LinuxInv, OnlyActive
  <2>3. OwnAdapter'
    BY <1>7, <2>1, <2>2 DEF OwnAdapter, AdapterChanges
  <2> QED
    BY <1>4, <1>5, <2>1, <2>3 DEF WindowsInv
<1>8. CASE Background \/ StopAll \/ \E g \in Generations : TunnelSeen(g)
  <2>1. /\ UNCHANGED adapter /\ noted' \in [Generations -> {"none", "own", "foreign"}]
        /\ \A h \in Generations :
             session'[h] = "running" => noted'[h] \in {noted[h], "own", "foreign"}
    <3>1. CASE Background \/ StopAll
      BY <1>1, <3>1 DEF WindowsTyped, Background, StopAll, adapterVars
    <3>2. CASE \E g \in Generations : TunnelSeen(g)
      BY <1>1, <3>2 DEF WindowsTyped, TunnelSeen, Found
    <3> QED
      BY <1>8, <3>1, <3>2
  <2>2. WindowsTyped'
    BY <1>1, <1>8, <2>1 DEF WindowsTyped, Background, StopAll, TunnelSeen, serviceVars, adapterVars
  <2>3. ASSUME NEW h \in Generations, session'[h] = "running" PROVE session[h] = "running"
    <3>1. CASE \E g \in Generations : SessionEnds(g) \/ SessionReports(g)
      BY <2>3, <3>1 DEF SessionEnds, SessionReports, LinuxInv, TasksTyped
    <3> QED
      BY <1>8, <2>3, <3>1 DEF Background, TimerFires, LooseTimerEnds, StopAll, Terminate,
         TunnelSeen, TunnelDetected, sessionVars
  <2> QED
    BY <1>4, <1>5, <2>1, <2>2, <2>3, OwnAdapterKept DEF WindowsInv
<1> QED
  BY <1>6, <1>7, <1>8

\* What WindowsInv says of a service that has not begun.
LEMMA WindowsFresh ==
  ASSUME Fresh, scm = "StartPending", main = "boot", shutdown = FALSE, tasks = {},
         pipe = "closed", noted = NothingFound, adapter \in Generations \cup {NoGeneration}
  PROVE  WindowsInv
<1>1. /\ replacing = "none" /\ status.automatic = automatic
      /\ queue = <<>> /\ actions = <<>> /\ session = NoSessions
  BY DEF Fresh, ControlInit, Init, NewStatus
<1> QED
  BY <1>1 DEF WindowsInv, WindowsTyped, OneAtATime, NothingEarly, OwnAdapter, PreferenceTold,
     NoSessions, NothingFound

\* The Windows service keeps its own invariant on top of LinuxService's.
THEOREM WindowsInvariant == WindowsSpec => [](LinuxInv /\ WindowsInv)
<1>1. WindowsInit => WindowsInv
  BY WindowsFresh DEF WindowsInit, LinuxInit, Fresh
<1>2. LinuxInv /\ LinuxInv' /\ WindowsInv /\ [WindowsNext]_windowsVars => WindowsInv'
  <2> SUFFICES ASSUME LinuxInv, WindowsInv, [WindowsNext]_windowsVars PROVE WindowsInv'
    OBVIOUS
  <2>1. CASE HandleRequest
    BY <2>1, HandleRequestStep
  <2>2. CASE Continue \/ DaemonHandles \/ WatchReports
    BY <2>2, WorkStep
  <2>3. CASE DaemonExecutes \/ Background \/ AdapterChanges \/ StopAll
             \/ \E g \in Generations : TunnelSeen(g)
    BY <2>3, SessionSideStep
  <2>4. CASE ReportRunning \/ RunDaemon \/ ControlStop \/ OpenPipe \/ AcceptClient
             \/ EndUnchanged \/ Answer \/ Return \/ ReportStopped
             \/ \E t \in AllTasks : TaskEnds(t)
    <3>1. UNCHANGED <<linuxVars, adapterVars>>
      BY <2>4 DEF ReportRunning, RunDaemon, ControlStop, OpenPipe, AcceptClient, EndUnchanged,
         Answer, Return, ReportStopped, TaskEnds
    <3> QED
      BY <2>4, <3>1, AroundStep
  <2>5. CASE ProcessEnds
    <3>1. preference \in BOOLEAN
      BY DEF LinuxInv, TasksTyped
    <3>2. Fresh'
      BY <2>5, <3>1 DEF ProcessEnds, Restart, Fresh, ControlInit, Init, NoSessions, NewStatus
    <3>3. /\ scm' = "StartPending" /\ main' = "boot" /\ shutdown' = FALSE /\ tasks' = {}
          /\ pipe' = "closed" /\ noted' = NothingFound /\ adapter' \in Generations \cup {NoGeneration}
      BY <2>5 DEF ProcessEnds, WindowsInv, WindowsTyped
    <3>4. /\ replacing' = "none" /\ status'.automatic = automatic'
          /\ queue' = <<>> /\ actions' = <<>> /\ session' = NoSessions
      BY <3>2 DEF Fresh, ControlInit, Init, NewStatus, NoSessions
    <3> QED
      BY <3>3, <3>4 DEF WindowsInv, WindowsTyped, OneAtATime, NothingEarly, OwnAdapter,
         PreferenceTold, NoSessions, NothingFound
  <2>6. CASE UNCHANGED windowsVars
    BY <2>6 DEF windowsVars, serviceVars, adapterVars, linuxVars, controlVars, engineVars,
       sessionVars, WindowsInv, WindowsTyped, OneAtATime, NothingEarly, OwnAdapter, PreferenceTold
  <2> QED
    BY <2>1, <2>2, <2>3, <2>4, <2>5, <2>6 DEF WindowsNext, Served, Stopping
<1>3. LinuxSpec => []LinuxInv
  BY LinuxInvariant
<1>4. WindowsSpec => LinuxSpec
  BY WindowsImplementsLinux DEF ImplementsLinux
<1> QED
  BY <1>1, <1>2, <1>3, <1>4, PTL DEF WindowsSpec

\* A change of the credentials is never interleaved with another request or cut off by a
\* stop, nothing works before the start is complete, and every variable has its type.
THEOREM WindowsIsSound == WindowsSpec => []WindowsSound
<1>1. WindowsInv /\ LinuxTypeOK => WindowsSound
  BY DEF WindowsInv, WindowsTyped, WindowsSound, WindowsTypeOK
<1>2. LinuxSpec => []LinuxTypeOK
  <2>1. ServiceSound => LinuxTypeOK
    BY DEF ServiceSound
  <2> QED
    BY <2>1, ServiceIsSound, PTL
<1> QED
  BY <1>1, <1>2, WindowsInvariant, WindowsImplementsLinux, PTL DEF ImplementsLinux

\* Through the pipe, one request after the other, replacing the credentials reconnects only
\* while automatic reconnection is on.
THEOREM WindowsReplacement == WindowsSpec => ReplacementHonoursPreference
<1>1. WindowsInv => (replacing = "confirmed" => automatic)
  BY DEF WindowsInv, PreferenceTold
<1>2. (replacing = "confirmed" => automatic)
        => [replacing = "confirmed" /\ replacing' = "none" => automatic]_controlVars
  OBVIOUS
<1> QED
  BY <1>1, <1>2, WindowsInvariant, PTL DEF ReplacementHonoursPreference

\* A tunnel is reported only for the generation whose adapter is up, unless another product's
\* adapter was found then or when the session began.
THEOREM WindowsTunnels == WindowsSpec => ReportsOwnTunnel
<1>1. LinuxInv /\ WindowsInv /\ [WindowsNext]_windowsVars
        => [\A g \in reported' \ reported :
              adapter = g \/ "foreign" \in {noted[g], noted'[g]}]_windowsVars
  <2> SUFFICES ASSUME LinuxInv, WindowsInv, WindowsNext, NEW g \in reported' \ reported
               PROVE  adapter = g \/ "foreign" \in {noted[g], noted'[g]}
    OBVIOUS
  <2>1. \E h \in Generations : TunnelSeen(h)
    <3>1. ~UNCHANGED reported /\ reported' # {}
      OBVIOUS
    <3>2. ~(DaemonExecutes \/ DaemonHandles \/ WatchReports \/ HandleRequest \/ Continue)
      BY <3>1 DEF DaemonExecutes, ExecuteNext, Execute, ExecutePersist, ExecuteStart,
         ExecuteStop, ExecuteSchedule, ExecuteCancel, ReplaceTimer, DaemonHandles, HandleEvent,
         WatchReports, HandleRequest, Continue, PublishAction, FinishReplacement, Unserved,
         sessionVars
    <3>3. ~(Background \/ StopAll \/ ProcessEnds)
      BY <3>1 DEF Background, TimerFires, LooseTimerEnds, SessionEnds, SessionReports, StopAll,
         Terminate, ProcessEnds, Restart, sessionVars
    <3>4. ~UNCHANGED linuxVars
      BY <3>1 DEF linuxVars, sessionVars
    <3>5. ~(\/ ReportRunning \/ RunDaemon \/ AdapterChanges \/ EndUnchanged \/ OpenPipe
            \/ AcceptClient \/ Answer \/ ControlStop \/ Return \/ ReportStopped
            \/ \E t \in AllTasks : TaskEnds(t))
      BY <3>4 DEF ReportRunning, RunDaemon, AdapterChanges, EndUnchanged, OpenPipe, AcceptClient,
         Answer, ControlStop, Return, ReportStopped, TaskEnds
    <3> QED
      BY <3>2, <3>3, <3>5 DEF WindowsNext, Served, Stopping
  <2> QED
    <3>1. g \in Generations /\ session[g] = "running" /\ TunnelSeen(g)
      BY <2>1 DEF TunnelSeen, TunnelDetected
    <3>2. PICK found \in Found : /\ found # "none" /\ (found = noted[g] => found = "foreign")
                                 /\ noted' = [noted EXCEPT ![g] = found]
      BY <3>1 DEF TunnelSeen
    <3>3. noted'[g] = found /\ noted[g] \in {"none", "own", "foreign"}
      BY <3>1, <3>2 DEF WindowsInv, WindowsTyped
    <3>4. found = "foreign" \/ (found = "own" /\ adapter # NoGeneration)
      BY <3>2 DEF Found
    <3> QED
      BY <3>1, <3>2, <3>3, <3>4 DEF WindowsInv, OwnAdapter
<1> QED
  BY <1>1, WindowsInvariant, PTL DEF WindowsSpec, ReportsOwnTunnel

=============================================================================
