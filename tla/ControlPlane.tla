---------------------------- MODULE ControlPlane ----------------------------
(*****************************************************************************)
(* The control plane of rust/crates/hyu-vpn-daemon/src/runtime.rs: the       *)
(* engine behind a mutex, the status document behind a read-write lock, and  *)
(* the requests that arrive over IPC.                                        *)
(*                                                                           *)
(* apply_event holds the engine's mutex until every action handle returned   *)
(* has been published, but takes the status lock anew for each of them, so   *)
(* other tasks see the status between two actions.  `actions` is what is     *)
(* left to publish; the mutex is free exactly when it is empty.              *)
(*****************************************************************************)
EXTENDS Engine

VARIABLES
  status,    (* the VpnStatus document                                         *)
  replacing  (* where the handler of a ReplaceCredentials request has got to   *)

controlVars == <<engineVars, status, replacing>>

ReplaceSteps == {"none", "stored", "confirmed"}

\* The fields of VpnStatus that change: `tunnel` stands for connected_at,
\* last_successful_hip_at and tunnel_interface, which are set and cleared
\* together; `retryAt` and `error` for next_retry_at and error_code being set.
Statuses == [state : VpnStates \cup {"Error"}, automatic : BOOLEAN,
             tunnel : BOOLEAN, retryAt : BOOLEAN, error : BOOLEAN]

MutexFree == actions = <<>>

-----------------------------------------------------------------------------
(* The status document. *)

\* update_connected_status.
ConnectedStatus(st) ==
  [st EXCEPT !.state = "Connected", !.tunnel = TRUE, !.retryAt = FALSE, !.error = FALSE]

\* update_status_error.
ErrorStatus(st) ==
  [st EXCEPT !.state = "Error", !.tunnel = FALSE, !.retryAt = FALSE, !.error = TRUE]

Defect_TunnelKeptInBackoff(st, s) ==
  [st EXCEPT !.state = s,
             !.tunnel = @ /\ s \notin {"Disabled", "Connecting"},
             !.retryAt = @ /\ s = "Backoff",
             !.error = FALSE]

\* update_status_state.  The tunnel's details survive WaitingForNetwork and
\* Disconnecting: the tunnel may still be up then.
PublishedStatus(st, s) ==
  [st EXCEPT !.state = s,
             !.tunnel = @ /\ s \notin {"Disabled", "Connecting", "Backoff", "Error"},
             !.retryAt = @ /\ s = "Backoff",
             !.error = @ /\ s = "Error"]

Defect_PreferenceNotShown(st, a) ==
  CASE a.kind = "PublishState" ->
         IF a.state = "Connected" THEN ConnectedStatus(st) ELSE PublishedStatus(st, a.state)
    [] a.kind = "PublishError" -> ErrorStatus(st)
    [] a.kind = "ScheduleRetry" -> [st EXCEPT !.retryAt = TRUE]
    [] OTHER -> st

\* publish_actions, for one action.
StatusAfter(st, a) ==
  CASE a.kind = "PublishState" ->
         IF a.state = "Connected" THEN ConnectedStatus(st) ELSE PublishedStatus(st, a.state)
    [] a.kind = "PublishError" -> ErrorStatus(st)
    [] a.kind = "PersistAutomatic" -> [st EXCEPT !.automatic = a.enabled]
    [] a.kind = "ScheduleRetry" -> [st EXCEPT !.retryAt = TRUE]
    [] OTHER -> st

PublishNext ==
  /\ actions # <<>>
  /\ status' = StatusAfter(status, Head(actions))
  /\ actions' = Tail(actions)
  /\ UNCHANGED <<state, automatic, network, active, nextGeneration, pendingRetry,
                 reconnectImmediately, failures, stopRequested, replacing>>

-----------------------------------------------------------------------------
(* Events and requests. *)

\* apply_event: take the mutex and let the engine handle one event.
Apply(Event) == MutexFree /\ Event /\ UNCHANGED status

\* Connect, AutomaticOn, Disconnect, AutomaticOff and Reconnect.
Request == Apply(UserEvent) /\ UNCHANGED replacing

\* ReplaceCredentials: the credentials are stored on a blocking thread; only then
\* does the handler look at the status, and only after that at the engine.
CredentialsStored ==
  /\ replacing = "none"
  /\ replacing' = "stored"
  /\ UNCHANGED <<engineVars, status>>

AutomaticChecked ==
  /\ replacing = "stored"
  /\ replacing' = IF status.automatic THEN "confirmed" ELSE "none"
  /\ UNCHANGED <<engineVars, status>>

ReplacementReconnects ==
  /\ replacing = "confirmed"
  /\ Apply(ReconnectRequested)
  /\ replacing' = "none"

ReplaceCredentials == CredentialsStored \/ AutomaticChecked \/ ReplacementReconnects

-----------------------------------------------------------------------------
NewStatus(s, enabled) ==
  [state |-> s, automatic |-> enabled, tunnel |-> FALSE, retryAt |-> FALSE, error |-> FALSE]

\* ControlPlane::new.
ControlInit ==
  /\ Init
  /\ status = NewStatus(state, automatic)
  /\ replacing = "none"

ControlNext ==
  \/ Request
  \/ Apply(NetworkEvent \/ ConnectorEvent \/ TimerEvent) /\ UNCHANGED replacing
  \/ ReplaceCredentials
  \/ PublishNext

ControlSpec == ControlInit /\ [][ControlNext]_controlVars

-----------------------------------------------------------------------------
(* Properties. *)

ControlTypeOK ==
  /\ EngineTypeOK
  /\ status \in Statuses
  /\ replacing \in ReplaceSteps

\* Between two events the status tells the engine's state and preference.  The one
\* exception is an error, which the engine publishes without a state of its own
\* for it; it stays in the status only while there is no connection and no retry.
\* The time of the next retry is shown exactly while one is pending.
StatusFollowsEngine ==
  MutexFree =>
    /\ \/ status.state = state
       \/ status.state = "Error" /\ active = NoGeneration /\ pendingRetry = NoRetry
    /\ status.automatic = automatic
    /\ status.retryAt = (pendingRetry # NoRetry)

\* At every moment, also between two actions of one event, a reader of the
\* status sees fields that fit together: Connected comes with the tunnel's
\* details, an error code with Error, a retry time only with Backoff, and no
\* tunnel is shown once the connection is known to be over.
StatusConsistent ==
  /\ status.state = "Connected" => status.tunnel
  /\ status.tunnel => status.state \in {"Connected", "Disconnecting", "WaitingForNetwork"}
  /\ status.retryAt => status.state = "Backoff"
  /\ status.error <=> status.state = "Error"

\* What a reader of the status is shown is true of the engine when it is complete, and of
\* itself while it is not.
StatusSound == StatusFollowsEngine /\ StatusConsistent

\* Replacing the credentials reconnects only while automatic reconnection is on
\* (the test credential_replacement_cancels_backoff_and_reconnects_immediately_
\* when_automatic, and the handler's own `if`).
ReplacementHonoursPreference ==
  [][replacing = "confirmed" /\ replacing' = "none" => automatic]_controlVars

=============================================================================
