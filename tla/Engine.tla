------------------------------- MODULE Engine -------------------------------
(*****************************************************************************)
(* The reconnect engine of rust/crates/hyu-vpn-core/src/state.rs: the one    *)
(* state machine every platform's service runs behind its control plane.     *)
(* Engine::handle takes one EngineEvent, changes the engine and returns      *)
(* the list of EngineActions the service must carry out.  Each event is an   *)
(* action of this module; the list it returns is the next value of           *)
(* `actions`.                                                                *)
(*                                                                           *)
(* The variable `stopRequested` is the only one the code does not have: it   *)
(* remembers that StopConnection was returned for the active generation.     *)
(*                                                                           *)
(* Here and in the other modules a definition named Defect_... is not part   *)
(* of the specification: it is the definition after it with a plausible      *)
(* mistake, kept to see that the properties notice the mistake.              *)
(*****************************************************************************)
EXTENDS Integers, Sequences

CONSTANTS
  Networks,       (* physical networks (interface and gateway) that may be ready *)
  NoNetwork,      (* Option::None of `network`                                   *)
  MaxGeneration,  (* bound: no connection is started past this generation        *)
  MaxFailures     (* where the failure counter saturates (u32::MAX in the code)  *)

ASSUME EngineAssumption ==
  /\ NoNetwork \notin Networks
  /\ MaxGeneration \in Nat
  /\ MaxFailures \in Nat \ {0}

VARIABLES
  state,                 (* what was last published: a VpnState                 *)
  automatic,             (* automatic_reconnect_enabled                         *)
  network,               (* the ready network, or NoNetwork                     *)
  active,                (* active_generation, or NoGeneration                  *)
  nextGeneration,        (* the generation the next connection gets             *)
  pendingRetry,          (* pending_retry_seconds, or NoRetry                   *)
  reconnectImmediately,  (* reconnect_immediately_after_stop                    *)
  failures,              (* policy.consecutive_failures                         *)
  actions,               (* what the last call of handle returned               *)
  stopRequested          (* history: active was told to stop                    *)

engineVars == <<state, automatic, network, active, nextGeneration, pendingRetry,
                reconnectImmediately, failures, actions, stopRequested>>

NoGeneration == 0
NoRetry == 0
VpnStates == {"Disabled", "WaitingForNetwork", "Connecting", "Connected",
              "Disconnecting", "Backoff"}
Generations == 1 .. MaxGeneration
\* Generations a connector can speak of: those already started, stale or not.
Started == 1 .. nextGeneration - 1

-----------------------------------------------------------------------------
(* EngineAction. *)

PersistAutomatic(enabled) == [kind |-> "PersistAutomatic", enabled |-> enabled]
PublishState(s) == [kind |-> "PublishState", state |-> s]
PublishError == [kind |-> "PublishError"]
Start(g) == [kind |-> "StartConnection", gen |-> g]
Stop(g) == [kind |-> "StopConnection", gen |-> g]
ScheduleRetry == [kind |-> "ScheduleRetry"]
CancelRetry == [kind |-> "CancelRetry"]

\* The one-element list <<a>> when c, the empty list otherwise.
When(c, a) == IF c THEN <<a>> ELSE <<>>
CancelIfPending == When(pendingRetry # NoRetry, CancelRetry)
Defect_PersistOnlyOn(enabled) == When(enabled /\ ~automatic, PersistAutomatic(TRUE))
PersistIfNewly(enabled) == When(automatic # enabled, PersistAutomatic(enabled))

-----------------------------------------------------------------------------
(* ReconnectPolicy. *)

ResetAfterSeconds == 300
LeastOf(a, b) == IF a <= b THEN a ELSE b

\* 10 * 2^(n-1) seconds for the n-th failure in a row, at most four doublings
\* and at most 120 seconds.
NextDelay(n) == LeastOf(120, 10 * <<1, 2, 4, 8, 16>>[LeastOf(n - 1, 4) + 1])

FailuresAfter(returnCode, runtime) ==
  IF returnCode = 0 \/ runtime >= ResetAfterSeconds
  THEN 0
  ELSE LeastOf(failures + 1, MaxFailures)

Defect_RetryNotArmed(returnCode, runtime) ==
  /\ failures' = FailuresAfter(returnCode, runtime)
  /\ UNCHANGED pendingRetry

Defect_DelayOfOldCount(returnCode, runtime) ==
  /\ failures' = FailuresAfter(returnCode, runtime)
  /\ pendingRetry' = NextDelay(IF failures = 0 THEN 1 ELSE failures)

RecordExit(returnCode, runtime) ==
  /\ failures' = FailuresAfter(returnCode, runtime)
  /\ pendingRetry' = NextDelay(IF failures' = 0 THEN 1 ELSE failures')

-----------------------------------------------------------------------------
(* Steps shared by several handlers. *)

\* Engine::start_connection, returned after the actions `before`.
StartConnection(before) ==
  /\ nextGeneration <= MaxGeneration
  /\ active' = nextGeneration
  /\ nextGeneration' = nextGeneration + 1
  /\ pendingRetry' = NoRetry
  /\ stopRequested' = FALSE
  /\ state' = "Connecting"
  /\ actions' = before \o <<PublishState("Connecting"), Start(nextGeneration)>>

\* Publish s; no connection is started or stopped.
OnlyPublish(before, s) ==
  /\ state' = s
  /\ actions' = Append(before, PublishState(s))
  /\ UNCHANGED <<active, nextGeneration, stopRequested>>

\* Publish s and tell the active connection to stop.
StopActive(before, s) ==
  /\ state' = s
  /\ stopRequested' = TRUE
  /\ actions' = before \o <<PublishState(s), Stop(active)>>
  /\ UNCHANGED <<active, nextGeneration>>

\* Return `list` and leave the engine as it is.
Ignore(list) ==
  /\ actions' = list
  /\ UNCHANGED <<state, active, nextGeneration, stopRequested>>

Defect_ForgetActiveSilently(s, list) ==
  /\ active' = NoGeneration
  /\ stopRequested' = FALSE
  /\ actions' = list
  /\ UNCHANGED <<state, nextGeneration>>

\* The active connector is gone: publish s after it.
ForgetActive(s, list) ==
  /\ active' = NoGeneration
  /\ stopRequested' = FALSE
  /\ state' = s
  /\ actions' = list
  /\ UNCHANGED nextGeneration

\* An event of a generation that is no longer the active one changes nothing.
Stale(g) ==
  /\ g # active
  /\ Ignore(<<>>)
  /\ UNCHANGED <<automatic, network, pendingRetry, reconnectImmediately, failures>>

-----------------------------------------------------------------------------
(* Requests of the user. *)

\* Engine::enable_and_connect.  A pending retry is dropped by start_connection
\* without a CancelRetry, and a connector that is still stopping is left alone.
ConnectRequested ==
  /\ automatic' = TRUE
  /\ UNCHANGED <<network, reconnectImmediately, failures>>
  /\ LET persist == PersistIfNewly(TRUE)
     IN \/ /\ active = NoGeneration
           /\ network # NoNetwork
           /\ StartConnection(persist)
        \/ /\ active = NoGeneration
           /\ network = NoNetwork
           /\ OnlyPublish(persist, "WaitingForNetwork")
           /\ UNCHANGED pendingRetry
        \/ /\ active # NoGeneration
           /\ Ignore(persist)
           /\ UNCHANGED pendingRetry

\* Engine::disconnect.
DisconnectRequested ==
  /\ automatic' = FALSE
  /\ reconnectImmediately' = FALSE
  /\ pendingRetry' = NoRetry
  /\ UNCHANGED <<network, failures>>
  /\ LET before == PersistIfNewly(FALSE) \o CancelIfPending
     IN \/ active # NoGeneration /\ StopActive(before, "Disconnecting")
        \/ active = NoGeneration /\ OnlyPublish(before, "Disabled")

\* Engine::reconnect.
ReconnectRequested ==
  /\ automatic' = TRUE
  /\ failures' = 0
  /\ pendingRetry' = NoRetry
  /\ UNCHANGED network
  /\ LET before == PersistIfNewly(TRUE) \o CancelIfPending
     IN \/ /\ active # NoGeneration
           /\ reconnectImmediately' = TRUE
           /\ StopActive(before, "Disconnecting")
        \/ /\ active = NoGeneration
           /\ network # NoNetwork
           /\ StartConnection(before)
           /\ UNCHANGED reconnectImmediately
        \/ /\ active = NoGeneration
           /\ network = NoNetwork
           /\ OnlyPublish(before, "WaitingForNetwork")
           /\ UNCHANGED reconnectImmediately

-----------------------------------------------------------------------------
(* Events of the network watch. *)

\* Engine::network_unavailable, for NetworkUnavailable and SleepResumed.
NetworkUnavailable ==
  LET settled == /\ network = NoNetwork
                 /\ state = "WaitingForNetwork"
                 /\ pendingRetry = NoRetry
  IN /\ UNCHANGED <<automatic, reconnectImmediately>>
     /\ \/ settled /\ Ignore(<<>>) /\ UNCHANGED <<network, failures, pendingRetry>>
        \/ /\ ~settled
           /\ network' = NoNetwork
           /\ failures' = 0
           /\ pendingRetry' = NoRetry
           /\ \/ /\ ~automatic
                 /\ Ignore(CancelIfPending)
              \/ /\ automatic
                 /\ active # NoGeneration
                 /\ StopActive(CancelIfPending, "WaitingForNetwork")
              \/ /\ automatic
                 /\ active = NoGeneration
                 /\ OnlyPublish(CancelIfPending, "WaitingForNetwork")

\* The part of Engine::network_ready for a network other than the one known.
NetworkChanged ==
  /\ failures' = 0
  /\ pendingRetry' = NoRetry
  /\ \/ /\ active # NoGeneration
        /\ state # "Disconnecting"
        /\ reconnectImmediately' = TRUE
        /\ StopActive(CancelIfPending, "Disconnecting")
     \/ /\ active # NoGeneration
        /\ state = "Disconnecting"
        /\ Ignore(CancelIfPending)
        /\ UNCHANGED reconnectImmediately
     \/ /\ active = NoGeneration
        /\ state # "Connected"
        /\ StartConnection(CancelIfPending)
        /\ UNCHANGED reconnectImmediately
     \/ /\ active = NoGeneration
        /\ state = "Connected"
        /\ Ignore(CancelIfPending)
        /\ UNCHANGED reconnectImmediately

\* The part of Engine::network_ready for the network already known.
NetworkConfirmed ==
  /\ UNCHANGED <<failures, reconnectImmediately>>
  /\ LET idle == /\ active = NoGeneration
                 /\ pendingRetry = NoRetry
                 /\ state # "Connected"
     IN \/ idle /\ StartConnection(<<>>)
        \/ ~idle /\ Ignore(<<>>) /\ UNCHANGED pendingRetry

Defect_ReadyIgnoresPreference(n) ==
  /\ network' = n
  /\ UNCHANGED automatic
  /\ \/ n # network /\ NetworkChanged
     \/ n = network /\ NetworkConfirmed

\* Engine::network_ready.
NetworkReady(n) ==
  /\ network' = n
  /\ UNCHANGED automatic
  /\ \/ /\ ~automatic
        /\ Ignore(<<>>)
        /\ UNCHANGED <<pendingRetry, reconnectImmediately, failures>>
     \/ automatic /\ n # network /\ NetworkChanged
     \/ automatic /\ n = network /\ NetworkConfirmed

-----------------------------------------------------------------------------
(* Events of the connector and of the retry timer. *)

\* Engine::connector_connected.
ConnectorConnected(g) ==
  \/ Stale(g)
  \/ /\ g = active
     /\ failures' = 0
     /\ OnlyPublish(<<>>, "Connected")
     /\ UNCHANGED <<automatic, network, pendingRetry, reconnectImmediately>>

\* Engine::connector_exited for the active generation.
ActiveExited(returnCode, runtime) ==
  /\ UNCHANGED <<automatic, network>>
  /\ \/ /\ ~automatic
        /\ ForgetActive("Disabled", <<PublishState("Disabled")>>)
        /\ UNCHANGED <<pendingRetry, reconnectImmediately, failures>>
     \/ /\ automatic
        /\ network = NoNetwork
        /\ ForgetActive("WaitingForNetwork", <<PublishState("WaitingForNetwork")>>)
        /\ UNCHANGED <<pendingRetry, reconnectImmediately, failures>>
     \/ /\ automatic
        /\ network # NoNetwork
        /\ reconnectImmediately
        /\ reconnectImmediately' = FALSE
        /\ StartConnection(<<>>)
        /\ UNCHANGED failures
     \/ /\ automatic
        /\ network # NoNetwork
        /\ ~reconnectImmediately
        /\ RecordExit(returnCode, runtime)
        /\ ForgetActive("Backoff", <<PublishState("Backoff"), ScheduleRetry>>)
        /\ UNCHANGED reconnectImmediately

\* Engine::connector_exited.
ConnectorExited(g, returnCode, runtime) ==
  \/ Stale(g)
  \/ g = active /\ ActiveExited(returnCode, runtime)

\* ConnectTimedOut is handled as an exit with code 1 after 0 seconds.
ConnectTimedOut(g) == ConnectorExited(g, 1, 0)

\* Engine::connector_error: the error is published but `state` keeps its value.
ConnectorError(g) ==
  \/ Stale(g)
  \/ /\ g = active
     /\ pendingRetry' = NoRetry
     /\ reconnectImmediately' = FALSE
     /\ ForgetActive(state, <<PublishError>>)
     /\ UNCHANGED <<automatic, network, failures>>

\* Engine::retry_elapsed.  It takes the pending retry before it looks at
\* `automatic`, and never looks at `active`.
RetryElapsed ==
  /\ pendingRetry' = NoRetry
  /\ UNCHANGED <<automatic, network, reconnectImmediately, failures>>
  /\ LET due == pendingRetry # NoRetry /\ automatic
     IN \/ ~due /\ Ignore(<<>>)
        \/ due /\ network # NoNetwork /\ StartConnection(<<>>)
        \/ due /\ network = NoNetwork /\ OnlyPublish(<<>>, "WaitingForNetwork")

\* Engine::session_expired.
SessionExpired ==
  /\ UNCHANGED <<automatic, network, pendingRetry, reconnectImmediately, failures>>
  /\ \/ active = NoGeneration /\ Ignore(<<>>)
     \/ active # NoGeneration /\ StopActive(<<>>, "Disconnecting")

-----------------------------------------------------------------------------
\* Engine::new.
Init ==
  /\ automatic \in BOOLEAN
  /\ state = IF automatic THEN "WaitingForNetwork" ELSE "Disabled"
  /\ network = NoNetwork
  /\ active = NoGeneration
  /\ nextGeneration = 1
  /\ pendingRetry = NoRetry
  /\ reconnectImmediately = FALSE
  /\ failures = 0
  /\ actions = <<>>
  /\ stopRequested = FALSE

\* Engine::handle with every event any service could send: a connector's event
\* may be of any generation already started, in any order and any number of
\* times.
UserEvent == ConnectRequested \/ DisconnectRequested \/ ReconnectRequested
NetworkEvent == NetworkUnavailable \/ \E n \in Networks : NetworkReady(n)
ConnectorEvent ==
  \E g \in Started :
    \/ ConnectorConnected(g)
    \/ \E returnCode \in {0, 1}, runtime \in {0, ResetAfterSeconds} :
         ConnectorExited(g, returnCode, runtime)
    \/ ConnectTimedOut(g)
    \/ ConnectorError(g)
TimerEvent == RetryElapsed \/ SessionExpired

Next == UserEvent \/ NetworkEvent \/ ConnectorEvent \/ TimerEvent

Spec == Init /\ [][Next]_engineVars

-----------------------------------------------------------------------------
(* Properties. *)

EngineTypeOK ==
  /\ state \in VpnStates
  /\ automatic \in BOOLEAN
  /\ network \in Networks \cup {NoNetwork}
  /\ active \in Generations \cup {NoGeneration}
  /\ nextGeneration \in 1 .. MaxGeneration + 1
  /\ pendingRetry \in {NoRetry, 10, 20, 40, 80, 120}
  /\ reconnectImmediately \in BOOLEAN
  /\ failures \in 0 .. MaxFailures
  /\ stopRequested \in BOOLEAN

\* retry_elapsed starts a connection without asking whether one is active.
\* That is safe because a retry is pending exactly while Backoff is the
\* published state, and then no connector is active and one is wanted.
RetryIffBackoff ==
  /\ pendingRetry # NoRetry <=> state = "Backoff"
  /\ pendingRetry # NoRetry =>
       active = NoGeneration /\ automatic /\ network # NoNetwork

\* A connection the user no longer wants, or whose network is gone, has been
\* told to stop: no order of requests, network changes and late connector
\* events leaves one running unnoticed.
UnwantedIsStopping ==
  active # NoGeneration /\ (~automatic \/ network = NoNetwork) => stopRequested

\* The engine has no connector but still holds the state of one.
Parked == active = NoGeneration /\ state \in {"Connecting", "Connected", "Disconnecting"}

\* While the user wants the VPN and a network is ready, the engine has a
\* connection or a retry under way, unless a connector error parked it.
NeverIdleWhileWanted ==
  automatic /\ network # NoNetwork /\ active = NoGeneration /\ ~Parked
    => pendingRetry # NoRetry

\* Only the publication of an error parks the engine: an exit, a timeout or a
\* change of network never ends in a state that nothing will leave.
ParkedOnlyByError == [][Parked' /\ ~Parked => actions' = <<PublishError>>]_engineVars

\* What the engine publishes is true of the engine: Disabled only when the user
\* turned it off and no connector is left, WaitingForNetwork only without a
\* network, Connecting only when wanted and not yet told to stop.  (Connected
\* makes no such promise: a late ConnectorConnected is published over a
\* Disconnecting or WaitingForNetwork.)
TruthfulState ==
  /\ state = "Disabled" => ~automatic /\ active = NoGeneration
  /\ state = "WaitingForNetwork" => automatic /\ network = NoNetwork
  /\ state = "Connecting" => automatic /\ network # NoNetwork /\ ~stopRequested
  /\ reconnectImmediately => automatic

\* The delay of a pending retry is the one for the failures counted so far: no
\* path resets the counter and keeps the old timer.
RetryDelayFollowsFailures ==
  pendingRetry # NoRetry => pendingRetry = NextDelay(IF failures = 0 THEN 1 ELSE failures)

\* A connection that ends although nobody asked it to (and is retried at all) is
\* followed by a backoff, never by an immediate restart.  README.md promises
\* that retries after an exit of the VPN process are limited by a backoff.
UnrequestedExitBacksOff ==
  [][active # NoGeneration /\ active' # active /\ ~stopRequested
       => active' = NoGeneration]_engineVars

\* The engine implements Supervisor.
Phase == IF active = NoGeneration THEN "idle"
         ELSE IF stopRequested THEN "stopping" ELSE "running"
Permitted == automatic /\ network # NoNetwork

Supervised == INSTANCE Supervisor
  WITH permitted <- Permitted, phase <- Phase, launched <- nextGeneration - 1
ImplementsSupervisor == Supervised!Spec

\* All of the above that a state can tell.
EngineSound ==
  /\ EngineTypeOK /\ RetryIffBackoff /\ UnwantedIsStopping
  /\ NeverIdleWhileWanted /\ TruthfulState /\ RetryDelayFollowsFailures

=============================================================================
