------------------------------- MODULE MenuApp -------------------------------
(*******************************************************************************)
(* The menu app of macOS: the coordinator of its operations                    *)
(* (AppLifecycleCoordinator and ServiceRefreshCoordinator of                   *)
(* macos/Sources/HYUVPNMenuCore), the delegate that carries the effects out    *)
(* (AppDelegate), the form for new credentials, and the client that sends one  *)
(* request after another to the service (RustIPCClient).                       *)
(*                                                                             *)
(* Main thread and client are apart: a request waits in `queue`, is answered   *)
(* while the main thread goes on, and its completion is handled later.  A menu *)
(* that is open keeps the items it was built with.                             *)
(*******************************************************************************)
EXTENDS Naturals, Sequences

CONSTANTS
  MaximumAttempts,  (* of the connect at launch (30 in the code)                   *)
  MaxInputs         (* bound on what the user and the system do                     *)

ASSUME MenuAssumption == MaximumAttempts \in Nat \ {0} /\ MaxInputs \in Nat

VARIABLES
  app,        (* the coordinator: gate is the active operation, startup whether it   *)
              (* is the connect of the launch, attempts those that failed; the      *)
              (* others are its flags                                              *)
  queue,      (* requests not completed yet: what they are, whether a status was     *)
              (* asked for after the last control, and the answer                  *)
  form,       (* the form for new credentials is open                              *)
  payload,    (* pendingResetPayload is set                                        *)
  refresh,    (* "idle", "active", or "again" with a replacement queued             *)
  shown,      (* currentStatus                                                    *)
  menu,       (* the enabled items of the open menu                                *)
  wanted,     (* the service wants the VPN                                         *)
  inputs,
  wish,       (* history: "off" after Disconnect, until the user asks for something  *)
              (* else                                                             *)
  refused,    (* history: credentials were refused since                           *)
  lastSent,   (* history: the operation last sent to the service                    *)
  behind      (* history: a control completed, and no status asked for since then    *)
              (* has been shown                                                   *)

clientVars == <<queue, refresh, shown, behind>>
historyVars == <<wish, refused>>
vars == <<app, queue, form, payload, refresh, shown, menu, wanted, inputs, wish,
          refused, lastSent, behind>>

None == "none"
Operations == {"connect", "reconnect", "disconnect", "credentialSave", "quit"}
Statuses == {"disabled", "disconnecting", "waiting", "connecting", "connected"}

ControlRequest(op) == [what |-> op, fresh |-> FALSE, answer |-> None]
StatusRequest == [what |-> "status", fresh |-> TRUE, answer |-> None]
OTPRequest == [what |-> "otp", fresh |-> FALSE, answer |-> None]

-----------------------------------------------------------------------------
(* AppLifecycleCoordinator: the coordinator after an event.                  *)

Defect_BeginUnguarded(a, op, startup) == [a EXCEPT !.gate = op, !.startup = startup]

\* startControlIfPossible, with OperationGate.begin.
Begin(a, op, startup) ==
  IF a.gate # None THEN a ELSE [a EXCEPT !.gate = op, !.startup = startup]

PrimaryRequested(op) ==
  LET a == [app EXCEPT !.retry = FALSE, !.paused = FALSE, !.pending = FALSE]
  IN IF a.terminating THEN a ELSE Begin(a, op, FALSE)

Defect_NotPaused ==
  LET a == [app EXCEPT !.retry = FALSE]
  IN IF a.terminating THEN [a EXCEPT !.pending = FALSE]
     ELSE IF a.gate = None THEN Begin([a EXCEPT !.pending = FALSE], "disconnect", FALSE)
     ELSE [a EXCEPT !.pending = @ \/ a.gate \in {"connect", "reconnect"}]

DisconnectRequested ==
  LET a == [app EXCEPT !.retry = FALSE, !.paused = TRUE]
  IN IF a.terminating THEN [a EXCEPT !.pending = FALSE]
     ELSE IF a.gate = None THEN Begin([a EXCEPT !.pending = FALSE], "disconnect", FALSE)
     ELSE [a EXCEPT !.pending = @ \/ a.gate \in {"connect", "reconnect"}]

CredentialResetRequested ==
  LET a == [app EXCEPT !.retry = FALSE, !.paused = TRUE, !.pending = FALSE]
  IN IF a.terminating THEN a ELSE Begin(a, "credentialSave", FALSE)

TerminateRequested ==
  LET a == [app EXCEPT !.retry = FALSE, !.paused = TRUE, !.pending = FALSE,
                       !.terminating = TRUE]
  IN IF app.terminating THEN a
     ELSE IF a.gate # None THEN [a EXCEPT !.attached = a.gate = "disconnect"]
     ELSE Begin(a, "quit", FALSE)

StartupRetryTimerFired ==
  LET a == [app EXCEPT !.retry = FALSE]
  IN IF a.paused \/ a.terminating THEN a ELSE Begin(a, "connect", TRUE)

\* StartupConnectPolicy.next: only a service that cannot be reached is tried again.
StartupPolicy(a, result) ==
  IF result # "unavailable" THEN [a EXCEPT !.retry = FALSE]
  ELSE [a EXCEPT !.attempts = @ + 1, !.retry = a.attempts + 1 < MaximumAttempts]

Replied(a, allowed) ==
  [a EXCEPT !.terminating = FALSE, !.attached = FALSE, !.pending = FALSE,
            !.resolved = allowed]

Defect_QuitForgotten(op, result) ==
  LET a == [app EXCEPT !.gate = None, !.startup = FALSE]
      b == IF app.startup /\ ~a.paused THEN StartupPolicy(a, result) ELSE a
  IN IF op = "quit" \/ app.attached THEN Replied(a, result = "ok")
     ELSE IF b.pending
          THEN Begin([b EXCEPT !.pending = FALSE], "disconnect", FALSE) ELSE b

Defect_PendingForgotten(op, result) ==
  LET a == [app EXCEPT !.gate = None, !.startup = FALSE]
  IN IF op = "quit" \/ app.attached THEN Replied(a, result = "ok")
     ELSE IF a.terminating THEN Begin(a, "quit", FALSE)
     ELSE IF app.startup /\ ~a.paused THEN StartupPolicy(a, result)
     ELSE [a EXCEPT !.pending = FALSE]

\* A termination is answered by its own disconnect or by the one it was attached to;
\* any other operation is followed by that disconnect.
ControlCompleted(op, result) ==
  LET a == [app EXCEPT !.gate = None, !.startup = FALSE]
      b == IF app.startup /\ ~a.paused THEN StartupPolicy(a, result) ELSE a
  IN IF op = "quit" \/ app.attached THEN Replied(a, result = "ok")
     ELSE IF a.terminating THEN Begin(a, "quit", FALSE)
     ELSE IF b.pending
          THEN Begin([b EXCEPT !.pending = FALSE], "disconnect", FALSE) ELSE b

\* With new credentials on the way a termination needs no disconnect.
CredentialTransactionCompleted ==
  LET a == [app EXCEPT !.gate = None, !.startup = FALSE, !.pending = FALSE]
  IN IF a.terminating THEN Replied(a, TRUE) ELSE a

ControlsDisabled == app.gate # None \/ app.terminating

-----------------------------------------------------------------------------
(* AppDelegate and ServiceRefreshCoordinator.                                *)

\* apply(transition), after which `rest` of the requests is left: an operation that
\* began is sent.
Apply(next, rest) ==
  /\ app' = next
  /\ LET started == next.gate \notin {None, app.gate}
     IN /\ queue' = IF started THEN Append(rest, ControlRequest(next.gate)) ELSE rest
        /\ lastSent' = IF started THEN next.gate ELSE lastSent

Defect_NotForced(requests) ==
  IF refresh = "idle"
  THEN refresh' = "active" /\ queue' = Append(requests, StatusRequest)
  ELSE UNCHANGED refresh /\ queue' = requests

\* refreshServiceSnapshot(force: true).
ForceRefresh(requests) ==
  IF refresh = "idle"
  THEN refresh' = "active" /\ queue' = Append(requests, StatusRequest)
  ELSE refresh' = "again" /\ queue' = requests

\* completeRefresh.
CompleteRefresh(rest) ==
  IF refresh = "again"
  THEN refresh' = "active" /\ queue' = Append(rest, StatusRequest)
  ELSE refresh' = "idle" /\ queue' = rest

Outdated(requests) ==
  [i \in DOMAIN requests |-> [requests[i] EXCEPT !.fresh = FALSE]]

\* primaryAction, disconnectEnabled and controlsDisabled, as the menu is built.
\* "connected" stands for backoff and error too, which only differ in the titles.
EnabledItems ==
  IF ControlsDisabled THEN {}
  ELSE {"reset", "quit"}
       \union (IF shown = "disabled" THEN {"connect"} ELSE {})
       \union (IF shown = "connected" THEN {"reconnect"} ELSE {})
       \union (IF shown \in {"connecting", "connected"} THEN {"disconnect"} ELSE {})

Running == ~app.resolved

Input == Running /\ inputs < MaxInputs /\ inputs' = inputs + 1

OpenMenu ==
  /\ Running /\ menu = {} /\ EnabledItems # {}
  /\ menu' = EnabledItems
  /\ UNCHANGED <<app, clientVars, form, payload, wanted, inputs, historyVars, lastSent>>

Press(item) ==
  /\ Input /\ item \in menu
  /\ menu' = {}

PrimaryConnection ==
  \E op \in {"connect", "reconnect"} :
    /\ Press(op)
    /\ Apply(PrimaryRequested(op), queue)
    /\ wish' = None /\ refused' = FALSE
    /\ UNCHANGED <<form, payload, refresh, shown, wanted, behind>>

\* While credentials are replaced the request is dropped on purpose.
Disconnect ==
  /\ Press("disconnect")
  /\ Apply(DisconnectRequested, queue)
  /\ IF app.terminating \/ app.gate = "credentialSave" THEN UNCHANGED <<wish, refused>>
     ELSE wish' = "off" /\ refused' = FALSE
  /\ UNCHANGED <<form, payload, refresh, shown, wanted, behind>>

ResetLoginInformation ==
  /\ Press("reset")
  /\ form' = (form \/ ~ControlsDisabled)
  /\ UNCHANGED <<app, clientVars, payload, wanted, historyVars, lastSent>>

CloseForm ==
  /\ Input /\ form /\ form' = FALSE
  /\ UNCHANGED <<app, clientVars, payload, menu, wanted, historyVars, lastSent>>

\* The form is saved with valid fields.  runCredentialTransaction takes the payload; a
\* transition without any effect drops it.
SaveForm ==
  /\ Input /\ form /\ form' = FALSE
  /\ LET next == CredentialResetRequested
         started == next.gate = "credentialSave" /\ app.gate = None
     IN /\ Apply(next, queue)
        /\ payload' = (~started /\ app.retry)
        /\ wish' = IF started THEN None ELSE wish
        /\ refused' = ~started
  /\ UNCHANGED <<refresh, shown, menu, wanted, behind>>

\* applicationShouldTerminate: from the menu, or when the user logs out.
Terminate ==
  /\ Input
  /\ form' = FALSE /\ payload' = FALSE
  /\ Apply(TerminateRequested, queue)
  /\ wish' = None /\ refused' = FALSE
  /\ menu' = {}
  /\ UNCHANGED <<refresh, shown, wanted, behind>>

StartupRetry ==
  /\ Running /\ app.retry
  /\ Apply(StartupRetryTimerFired, queue)
  /\ UNCHANGED <<form, payload, refresh, shown, menu, wanted, inputs, historyVars, behind>>

RefreshFromTimer ==
  /\ Running /\ refresh = "idle"
  /\ refresh' = "active" /\ queue' = Append(queue, StatusRequest)
  /\ UNCHANGED <<app, form, payload, shown, menu, wanted, inputs, historyVars, lastSent,
                 behind>>

BecomeActive ==
  /\ Input
  /\ ForceRefresh(queue)
  /\ UNCHANGED <<app, form, payload, shown, menu, wanted, historyVars, lastSent, behind>>

-----------------------------------------------------------------------------
(* RustIPCClient: one request at a time, in order.                           *)

Answers(request) ==
  CASE request.what = "status" ->
         {"unknown"} \union (IF wanted THEN {"waiting", "connecting", "connected"}
                                       ELSE {"disabled", "disconnecting"})
    [] request.what = "otp" -> {"ok"}
    [] OTHER -> {"ok", "unavailable", "failed"}

\* A request without a good answer may still have been carried out: it stopped being
\* waited for, or the answer was lost.
Serve ==
  /\ Running
  /\ \E i \in DOMAIN queue :
       /\ queue[i].answer = None
       /\ \A j \in 1 .. i - 1 : queue[j].answer # None
       /\ \E answer \in Answers(queue[i]), done \in BOOLEAN :
            /\ answer = "ok" => done
            /\ queue' = [queue EXCEPT ![i].answer = answer]
            /\ wanted' = IF ~done THEN wanted
                         ELSE IF queue[i].what \in {"connect", "reconnect"} THEN TRUE
                         ELSE IF queue[i].what \in {"disconnect", "quit"} THEN FALSE
                         ELSE wanted
  /\ UNCHANGED <<app, form, payload, refresh, shown, menu, inputs, historyVars, lastSent,
                 behind>>

Completes(what) ==
  /\ Running
  /\ queue # <<>> /\ Head(queue).what \in what /\ Head(queue).answer # None

\* The completion of runControl or of runCredentialTransaction.
HandleControl ==
  /\ Completes(Operations)
  /\ LET request == Head(queue)
         next == IF request.what = "credentialSave" THEN CredentialTransactionCompleted
                 ELSE ControlCompleted(request.what, request.answer)
         started == next.gate # None
     IN /\ app' = next
        /\ ForceRefresh(Outdated(Tail(queue))
                        \o (IF started THEN <<ControlRequest(next.gate)>> ELSE <<>>))
        /\ lastSent' = IF started THEN next.gate ELSE lastSent
  /\ payload' = (payload /\ app.terminating = app'.terminating)
  /\ behind' = TRUE
  /\ UNCHANGED <<form, shown, menu, wanted, inputs, historyVars>>

\* performRefresh: the answer is dropped when a replacement is queued.
HandleStatus ==
  /\ Completes({"status"})
  /\ IF refresh = "active"
     THEN /\ shown' = Head(queue).answer
          /\ behind' = (behind /\ ~Head(queue).fresh)
          /\ queue' = Append(Tail(queue), OTPRequest)
          /\ UNCHANGED refresh
     ELSE /\ CompleteRefresh(Tail(queue))
          /\ UNCHANGED <<shown, behind>>
  /\ UNCHANGED <<app, form, payload, menu, wanted, inputs, historyVars, lastSent>>

HandleOTP ==
  /\ Completes({"otp"})
  /\ CompleteRefresh(Tail(queue))
  /\ UNCHANGED <<app, form, payload, shown, menu, wanted, inputs, historyVars, lastSent,
                 behind>>

-----------------------------------------------------------------------------
\* applicationDidFinishLaunching: the launch asks for a connection.
Init ==
  /\ app = [gate |-> "connect", startup |-> TRUE, retry |-> FALSE, attempts |-> 0,
            paused |-> FALSE, pending |-> FALSE, terminating |-> FALSE,
            attached |-> FALSE, resolved |-> FALSE]
  /\ queue = <<ControlRequest("connect"), StatusRequest>>
  /\ refresh = "active" /\ shown = "unknown"
  /\ form = FALSE /\ payload = FALSE /\ menu = {}
  /\ wanted \in BOOLEAN
  /\ inputs = 0
  /\ wish = None /\ refused = FALSE
  /\ lastSent = "connect" /\ behind = FALSE

Next ==
  \/ OpenMenu \/ PrimaryConnection \/ Disconnect \/ ResetLoginInformation
  \/ CloseForm \/ SaveForm \/ Terminate \/ BecomeActive
  \/ StartupRetry \/ RefreshFromTimer
  \/ Serve \/ HandleControl \/ HandleStatus \/ HandleOTP

Spec == Init /\ [][Next]_vars

\* The client goes through its queue, and completions are handled.
FairSpec == Spec /\ WF_vars(Serve) /\ WF_vars(HandleControl) /\ WF_vars(HandleStatus)
                 /\ WF_vars(HandleOTP)

-----------------------------------------------------------------------------
(* Properties.                                                               *)

MenuTypeOK ==
  /\ app.gate \in {None} \union Operations
  /\ app.attempts \in 0 .. MaximumAttempts
  /\ \A flag \in {"startup", "retry", "paused", "pending", "terminating", "attached",
                  "resolved"} : app[flag] \in BOOLEAN
  /\ Len(queue) <= 2
  /\ refresh \in {"idle", "active", "again"}
  /\ shown \in {"unknown"} \union Statuses
  /\ lastSent \in Operations

\* The gate is closed exactly while the operation it was closed for is on its way: the
\* app never sends two operations at once, and never waits for one nobody sends.
GateIsOwed ==
  LET sent == {i \in DOMAIN queue : queue[i].what \in Operations}
  IN IF app.gate = None THEN sent = {}
     ELSE \E i \in sent : sent = {i} /\ queue[i].what = app.gate

\* Credentials typed into the form are not kept once they were handed over or refused.
NoPayloadKept == ~payload

\* An accepted Disconnect is the last word: once the app is at rest, a disconnect was
\* the last thing it sent.  Saving credentials that are refused is the exception:
\* credentialResetRequested forgets a waiting disconnect before it looks at the gate.
DisconnectCarriedOut ==
  app.gate = None /\ wish = "off" /\ ~refused => lastSent = "disconnect"

\* The connect at launch and its retries never follow what the user asked for since: not
\* a Disconnect, and not the end of the app.
NoUnaskedConnect ==
  [][app'.startup /\ ~app.startup => wish # "off" /\ ~app.terminating]_vars

\* The app agrees to end only after the service acknowledged a disconnect, or while
\* credentials were being replaced.
QuitDisconnects ==
  app.resolved => lastSent = "credentialSave" \/ (lastSent \in {"quit", "disconnect"} /\ ~wanted)

\* After an operation a status that was asked for later gets shown: a refresh is on its
\* way until then.
OperationIsShown == behind /\ Running => refresh # "idle"

\* The system is told whether the app ends, whatever was going on when it asked.
QuitAnswered == app.terminating ~> ~app.terminating

\* One operation at a time, and no credentials without one that carries them.
GateSound == MenuTypeOK /\ GateIsOwed /\ NoPayloadKept

\* A request to end the app is answered, with yes only when the VPN is off.
QuitSound == []QuitDisconnects /\ QuitAnswered

=============================================================================
