---------------------------- MODULE LinuxService ----------------------------
(*****************************************************************************)
(* The Linux service (rust/apps/hyu-vpn-linux-service/src/lib.rs, main.rs)   *)
(* around the control plane: the queue of actions and the queue of           *)
(* connector events that DaemonRuntime::run serves, LinuxActionExecutor      *)
(* with its sessions and its retry timer, the stored preference, and the     *)
(* end of the process at any moment.  The Windows service's executor         *)
(* (rust/apps/hyu-vpn-windows-service/src/runtime.rs) has the same shape.    *)
(*                                                                           *)
(* Time is left out: a timer may fire, a tunnel appear and a process exit    *)
(* whenever they could, in any order.                                        *)
(*****************************************************************************)
EXTENDS ControlPlane, FiniteSets

CONSTANTS
  MaxInputs,       (* bound: requests, replacements and network changes           *)
  MaxFaults,       (* bound: failures of a session, a load, a store; terminations *)
  MaxLooseTimers   (* bound: cancelled timers not yet gone                        *)

ASSUME LinuxAssumption ==
  MaxInputs \in Nat /\ MaxFaults \in Nat /\ MaxLooseTimers \in Nat \ {0}

VARIABLES
  queue,        (* the action channel, without the actions the executor ignores   *)
  events,       (* the channel of connector and timer events                      *)
  session,      (* per generation: none, running, or ended (gone from the map,    *)
                (* its ConnectorExited not sent yet)                              *)
  stopSignal,   (* generations whose watch channel says stop                      *)
  reported,     (* generations whose tunnel was detected                          *)
  timer,        (* whether the timer in the executor's retry slot is armed        *)
  looseTimers,  (* timers told to cancel that have not noticed yet                *)
  preference,   (* the automatic-reconnect file                                   *)
  stopping,     (* stop_all was called                                            *)
  inputs,       (* requests and network changes so far                            *)
  faults,       (* failures so far                                                *)
  unsaved       (* history: the last store of the preference failed               *)

sessionVars == <<session, stopSignal, reported>>
timerVars == <<timer, looseTimers>>
fileVars == <<preference, unsaved>>
budgetVars == <<inputs, faults>>
linuxVars == <<controlVars, queue, events, sessionVars, timerVars, fileVars,
               stopping, budgetVars>>

Connected(g) == [kind |-> "ConnectorConnected", gen |-> g]
Exited(g, code, runtime) ==
  [kind |-> "ConnectorExited", gen |-> g, code |-> code, runtime |-> runtime]
Elapsed == [kind |-> "RetryElapsed"]

HasEffect(a) == a.kind \notin {"PublishState", "PublishError"}

\* An exit before long with an error, and a long session that ended in order.
Outcomes == {<<1, 0>>, <<0, ResetAfterSeconds>>}

Fault == faults < MaxFaults /\ faults' = faults + 1 /\ UNCHANGED inputs
Input == inputs < MaxInputs /\ inputs' = inputs + 1 /\ UNCHANGED faults
NoBudget == UNCHANGED budgetVars

-----------------------------------------------------------------------------
(* Requests, network changes and the publication of actions. *)

\* The network watch reports a network only when it differs from the one it
\* reported last, which is the one the engine knows.
NetworkWatch ==
  /\ Apply(\/ network # NoNetwork /\ NetworkUnavailable
           \/ \E n \in Networks \ {network} : NetworkReady(n))
  /\ UNCHANGED replacing

UserOrNetwork ==
  /\ Request \/ NetworkWatch \/ CredentialsStored
  /\ Input
  /\ UNCHANGED <<queue, events, sessionVars, timerVars, fileVars, stopping>>

FinishReplacement ==
  /\ AutomaticChecked \/ ReplacementReconnects
  /\ UNCHANGED <<queue, events, sessionVars, timerVars, fileVars, stopping, budgetVars>>

\* publish_actions, for one action: the status, then the channel.
PublishAction ==
  /\ PublishNext
  /\ queue' = queue \o When(HasEffect(Head(actions)), Head(actions))
  /\ UNCHANGED <<events, sessionVars, timerVars, fileVars, stopping, budgetVars>>

-----------------------------------------------------------------------------
(* LinuxActionExecutor::execute, one action of the queue after another. *)

\* The result of the store is thrown away.
ExecutePersist(enabled) ==
  /\ UNCHANGED <<events, sessionVars, timerVars>>
  /\ \/ preference' = enabled /\ unsaved' = FALSE /\ NoBudget
     \/ UNCHANGED preference /\ unsaved' = TRUE /\ Fault

Defect_SilentLoadFailure(g) ==
  /\ UNCHANGED <<timerVars, fileVars, stopSignal, reported, events>>
  /\ \/ session' = [session EXCEPT ![g] = "running"] /\ NoBudget
     \/ UNCHANGED session /\ Fault

\* start_connection: the credentials and the secret may not load.
ExecuteStart(g) ==
  /\ UNCHANGED <<timerVars, fileVars, stopSignal, reported>>
  /\ \/ session' = [session EXCEPT ![g] = "running"] /\ UNCHANGED events /\ NoBudget
     \/ events' = Append(events, Exited(g, 1, 0)) /\ UNCHANGED session /\ Fault

Defect_StopOnlyWhenUp(g) ==
  /\ stopSignal' = IF session[g] = "running" /\ g \in reported
                   THEN stopSignal \cup {g} ELSE stopSignal
  /\ UNCHANGED <<events, session, reported, timerVars, fileVars, budgetVars>>

Defect_StopReportsAtOnce(g) ==
  /\ stopSignal' = IF session[g] = "running" THEN stopSignal \cup {g} ELSE stopSignal
  /\ events' = events \o When(session[g] = "running", Exited(g, 1, 0))
  /\ UNCHANGED <<session, reported, timerVars, fileVars, budgetVars>>

\* A session that is not in the map any more, or not yet, is not told.
ExecuteStop(g) ==
  /\ stopSignal' = IF session[g] = "running" THEN stopSignal \cup {g} ELSE stopSignal
  /\ UNCHANGED <<events, session, reported, timerVars, fileVars, budgetVars>>

\* The timer in the slot, if any, is told to cancel; `then` is what the slot holds
\* next.
ReplaceTimer(then) ==
  /\ timer = "armed" => looseTimers < MaxLooseTimers
  /\ looseTimers' = looseTimers + (IF timer = "armed" THEN 1 ELSE 0)
  /\ timer' = then
  /\ UNCHANGED <<events, sessionVars, fileVars, budgetVars>>

ExecuteSchedule == ReplaceTimer("armed")
ExecuteCancel == ReplaceTimer("none")

Execute(a) ==
  \/ a.kind = "PersistAutomatic" /\ ExecutePersist(a.enabled)
  \/ a.kind = "StartConnection" /\ ExecuteStart(a.gen)
  \/ a.kind = "StopConnection" /\ ExecuteStop(a.gen)
  \/ a.kind = "ScheduleRetry" /\ ExecuteSchedule
  \/ a.kind = "CancelRetry" /\ ExecuteCancel

ExecuteNext ==
  /\ queue # <<>>
  /\ Execute(Head(queue))
  /\ queue' = Tail(queue)
  /\ UNCHANGED <<controlVars, stopping>>

-----------------------------------------------------------------------------
(* Sessions and timers, each a task of its own. *)

\* The session's task sees a new tunnel interface.  It may do so even after it was
\* told to stop, until the connector is gone.
TunnelDetected(g) ==
  /\ session[g] = "running"
  /\ g \notin reported
  /\ reported' = reported \cup {g}
  /\ events' = Append(events, Connected(g))
  /\ UNCHANGED <<controlVars, queue, session, stopSignal, timerVars, fileVars,
                 stopping, budgetVars>>

\* The connector exits, told to or on its own, and leaves the map ...
SessionEnds(g) ==
  /\ session[g] = "running"
  /\ IF g \in stopSignal THEN NoBudget ELSE Fault
  /\ session' = [session EXCEPT ![g] = "ended"]
  /\ UNCHANGED <<controlVars, queue, events, stopSignal, reported, timerVars, fileVars,
                 stopping>>

\* ... and only then its task reports it.
SessionReports(g) ==
  /\ session[g] = "ended"
  /\ \E outcome \in Outcomes : events' = Append(events, Exited(g, outcome[1], outcome[2]))
  /\ session' = [session EXCEPT ![g] = "none"]
  /\ UNCHANGED <<controlVars, queue, stopSignal, reported, timerVars, fileVars,
                 stopping, budgetVars>>

TimerFires ==
  /\ timer = "armed"
  /\ timer' = "none"
  /\ events' = Append(events, Elapsed)
  /\ UNCHANGED <<controlVars, queue, sessionVars, looseTimers, fileVars, stopping, budgetVars>>

\* A timer told to cancel just as it elapses may take either branch of its select.
LooseTimerEnds ==
  /\ looseTimers > 0
  /\ looseTimers' = looseTimers - 1
  /\ events' = events \/ events' = Append(events, Elapsed)
  /\ UNCHANGED <<controlVars, queue, sessionVars, timer, fileVars, stopping, budgetVars>>

-----------------------------------------------------------------------------
(* DaemonRuntime::run, the branch of the connector events. *)

EngineTakes(e) ==
  \/ e.kind = "ConnectorConnected" /\ ConnectorConnected(e.gen)
  \/ e.kind = "ConnectorExited" /\ ConnectorExited(e.gen, e.code, e.runtime)
  \/ e.kind = "RetryElapsed" /\ RetryElapsed

HandleEvent ==
  /\ events # <<>>
  /\ Apply(EngineTakes(Head(events)))
  /\ events' = Tail(events)
  /\ UNCHANGED <<replacing, queue, sessionVars, timerVars, fileVars, stopping, budgetVars>>

-----------------------------------------------------------------------------
(* The process. *)

NoSessions == [g \in Generations |-> "none"]

\* main after a termination signal: stop_all.  The tasks may go on for a while.
Terminate ==
  /\ ~stopping
  /\ Fault
  /\ stopping' = TRUE
  /\ stopSignal' = stopSignal \cup {g \in Generations : session[g] = "running"}
  /\ looseTimers' = looseTimers + (IF timer = "armed" THEN 1 ELSE 0)
  /\ timer' = "none"
  /\ UNCHANGED <<controlVars, queue, events, session, reported, fileVars>>

\* The process is gone, after Terminate or by itself, and its connectors with it
\* (the unit's control group is killed); a new one loads the stored preference.
Restart ==
  /\ IF stopping THEN NoBudget ELSE Fault
  /\ automatic' = preference
  /\ state' = IF preference THEN "WaitingForNetwork" ELSE "Disabled"
  /\ network' = NoNetwork
  /\ active' = NoGeneration
  /\ nextGeneration' = 1
  /\ pendingRetry' = NoRetry
  /\ reconnectImmediately' = FALSE
  /\ failures' = 0
  /\ stopRequested' = FALSE
  /\ status' = NewStatus(state', preference)
  /\ replacing' = "none"
  /\ actions' = <<>> /\ queue' = <<>> /\ events' = <<>>
  /\ session' = NoSessions /\ stopSignal' = {} /\ reported' = {}
  /\ timer' = "none" /\ looseTimers' = 0
  /\ stopping' = FALSE /\ unsaved' = FALSE
  /\ UNCHANGED preference

-----------------------------------------------------------------------------
\* A preference that was never stored counts as TRUE.
LinuxInit ==
  /\ preference \in BOOLEAN
  /\ automatic = preference
  /\ ControlInit
  /\ queue = <<>> /\ events = <<>>
  /\ session = NoSessions /\ stopSignal = {} /\ reported = {}
  /\ timer = "none" /\ looseTimers = 0
  /\ stopping = FALSE /\ unsaved = FALSE
  /\ inputs = 0
  /\ faults = 0

SessionStep(g) == TunnelDetected(g) \/ SessionEnds(g) \/ SessionReports(g)

LinuxNext ==
  \/ UserOrNetwork
  \/ FinishReplacement
  \/ PublishAction
  \/ ExecuteNext
  \/ HandleEvent
  \/ TimerFires
  \/ LooseTimerEnds
  \/ \E g \in Generations : SessionStep(g)
  \/ Terminate
  \/ Restart

\* The tasks of the service take their turns, a connector told to stop exits (it is
\* killed after five seconds), and a terminating process ends.  Nothing is assumed
\* of users, networks, tunnels and failures.
Fairness ==
  /\ WF_linuxVars(FinishReplacement)
  /\ WF_linuxVars(PublishAction)
  /\ WF_linuxVars(ExecuteNext)
  /\ WF_linuxVars(HandleEvent)
  /\ WF_linuxVars(TimerFires)
  /\ WF_linuxVars(LooseTimerEnds)
  /\ \A g \in Generations :
       /\ WF_linuxVars(g \in stopSignal /\ SessionEnds(g))
       /\ WF_linuxVars(SessionReports(g))
  /\ WF_linuxVars(stopping /\ Restart)

LinuxSpec == LinuxInit /\ [][LinuxNext]_linuxVars
FairLinuxSpec == LinuxSpec /\ Fairness

-----------------------------------------------------------------------------
(* Properties. *)

\* What the engine ordered and the executor has not done yet, the oldest first.
Pending == queue \o actions
IsPending(a) == \E i \in DOMAIN Pending : Pending[i] = a
Announced(g) == \E i \in DOMAIN events :
                  events[i].kind = "ConnectorExited" /\ events[i].gen = g

LinuxTypeOK ==
  /\ ControlTypeOK
  /\ \A i \in DOMAIN queue : HasEffect(queue[i])
  /\ \A i \in DOMAIN events :
       events[i].kind \in {"ConnectorConnected", "ConnectorExited", "RetryElapsed"}
  /\ session \in [Generations -> {"none", "running", "ended"}]
  /\ stopSignal \subseteq Generations
  /\ reported \subseteq Generations
  /\ timer \in {"none", "armed"}
  /\ looseTimers \in 0 .. MaxLooseTimers + 1
  /\ preference \in BOOLEAN /\ unsaved \in BOOLEAN /\ stopping \in BOOLEAN
  /\ replacing \in ReplaceSteps

\* At most one connector runs, whatever is queued: two openconnect processes would
\* fight over the routes.
OneRunner ==
  Cardinality({g \in Generations : session[g] = "running"}) <= 1

\* The generation the engine believes active is in exactly one place: its start is
\* still ordered, or its session exists, or its exit is on the way.  Otherwise the
\* engine would wait for ever for an exit nobody will report, or be told of it
\* twice.
GenerationAccounted ==
  active # NoGeneration =>
    LET ordered == IsPending(Start(active))
        exists == session[active] # "none"
        announced == Announced(active)
    IN /\ ordered \/ exists \/ announced
       /\ ~(ordered /\ (exists \/ announced))
       /\ ~(exists /\ announced)

\* A session the engine has given up on or told to stop is never left running:
\* either it has the signal or the order to stop is still in the queue.
StopReachesSession ==
  \A g \in Generations :
    session[g] = "running" /\ (g # active \/ stopRequested)
      => g \in stopSignal \/ IsPending(Stop(g))

\* While the engine waits for a retry a timer is armed for it, or is about to be, or
\* has just fired: no order of cancellations and starts loses it.  (A terminating
\* process gives up its timer.)
RetryAccounted ==
  pendingRetry # NoRetry =>
    \/ timer = "armed"
    \/ IsPending(ScheduleRetry)
    \/ \E i \in DOMAIN events : events[i] = Elapsed
    \/ stopping

\* The stored preference is the engine's once the executor has caught up, unless
\* the last store failed.
PreferenceStored ==
  ~unsaved /\ (\A enabled \in BOOLEAN : ~IsPending(PersistAutomatic(enabled)))
    => preference = automatic

\* A user who turns the VPN off (and does not turn it on again) sees it off: the
\* connector is gone and the status is Disabled, whatever was queued or failed.
Off == status.state = "Disabled" /\ \A g \in Generations : session[g] = "none"
DisconnectSettles == ~automatic ~> (automatic \/ Off)

\* The service always leaves the states it promises to leave by itself: a backoff
\* ends with the retry, a connection told to stop is over or replaced.
BackoffEnds == (state = "Backoff") ~> (state # "Backoff")
StopCompletes == stopRequested ~> ~stopRequested

\* README.md: the VPN reconnects by itself when the network comes back and after
\* exits and errors.  While the user wants it and a network stays ready, a
\* connector is eventually running.
WantedRuns ==
  Permitted ~> (~Permitted \/ \E g \in Generations : session[g] = "running")

\* One connector at a time, each with its stop on the way when it has to end, and a timer
\* for each retry: nothing the engine ordered gets lost between queues, map and timers.
ServiceSound == LinuxTypeOK /\ OneRunner /\ StopReachesSession /\ RetryAccounted

\* What the engine believes of its connector, and what the user last asked for, is not lost
\* between the queues, the sessions and the file.
NothingLost == GenerationAccounted /\ PreferenceStored

\* What the service has to leave by itself it leaves, off, stopping and backoff; and a VPN
\* that is wanted runs.
ServiceSettles == DisconnectSettles /\ StopCompletes /\ BackoffEnds /\ WantedRuns

=============================================================================
