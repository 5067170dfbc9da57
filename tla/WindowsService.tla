--------------------------- MODULE WindowsService ---------------------------
(*****************************************************************************)
(* The Windows service (rust/apps/hyu-vpn-windows-service/src/runtime.rs,    *)
(* main.rs).  Its executor is that of LinuxService, whose actions it takes   *)
(* over; what differs is around it:                                          *)
(*   - the service control manager starts and stops it, and is told how far  *)
(*     it has got;                                                           *)
(*   - requests come over a named pipe that serves one client at a time;     *)
(*   - a session recognises its tunnel by the first VPN adapter that is up,  *)
(*     whoever owns it, compared with the one that was when it began;        *)
(*   - the tasks of the service end, or are abandoned, one by one.           *)
(* Every step is a step of LinuxService or leaves its variables alone.       *)
(*****************************************************************************)
EXTENDS LinuxService

VARIABLES
  scm,       (* the state last reported to the service control manager          *)
  main,      (* where run_service has got to                                     *)
  shutdown,  (* the watch channel the control handler writes                     *)
  tasks,     (* which of the spawned tasks are alive                             *)
  pipe,      (* the named pipe: closed, listening, reading a request, handling   *)
  adapter,   (* the generation whose VPN adapter is up                           *)
  noted      (* what active_vpn_interface found for each session that runs: its  *)
             (* baseline, and from its report on the interface it reported       *)

serviceVars == <<scm, main, shutdown, tasks, pipe>>
adapterVars == <<adapter, noted>>
windowsVars == <<linuxVars, serviceVars, adapterVars>>

AllTasks == {"daemon", "network", "pipe"}
NothingFound == [g \in Generations |-> "none"]

-----------------------------------------------------------------------------
(* run_service and run_daemon, up to the wait for a stop. *)

\* The runtime may not build: then the manager is told at once.
ReportRunning ==
  /\ main = "boot" /\ scm = "StartPending"
  /\ \/ scm' = "Running" /\ UNCHANGED main
     \/ scm' = "Stopped" /\ main' = "failed"
  /\ UNCHANGED <<linuxVars, shutdown, tasks, pipe, adapterVars>>

\* run_daemon: the preference and the connector's paths are read before any task is
\* spawned.
RunDaemon ==
  /\ main = "boot" /\ scm = "Running"
  /\ \/ main' = "serving" /\ tasks' = AllTasks /\ UNCHANGED scm
     \/ main' = "failed" /\ scm' = "Stopped" /\ UNCHANGED tasks
  /\ UNCHANGED <<linuxVars, shutdown, pipe, adapterVars>>

\* The control handler, on a thread of the manager's.  Controls are accepted while
\* the service is Running; the stop is kept in the channel until run_daemon looks.
ControlStop ==
  /\ scm = "Running"
  /\ ~shutdown
  /\ shutdown' = TRUE
  /\ UNCHANGED <<linuxVars, scm, main, tasks, pipe, adapterVars>>

-----------------------------------------------------------------------------
(* The tasks: the daemon, the network watch and the pipe. *)

Unserved == UNCHANGED <<queue, events, sessionVars, timerVars, fileVars, stopping>>

Defect_NoBaseline ==
  /\ "daemon" \in tasks
  /\ ExecuteNext
  /\ UNCHANGED <<serviceVars, adapterVars>>

\* What active_vpn_interface may find: the first adapter of the table that is up and looks
\* like one of a VPN by its name or its driver.  Those of other products come and go at any
\* moment, before or behind ours in the table.
Found == {"foreign", IF adapter = NoGeneration THEN "none" ELSE "own"}

\* start_connection notes which adapter is up before it spawns the session.
DaemonExecutes ==
  /\ "daemon" \in tasks
  /\ ExecuteNext
  /\ \E found \in Found :
       noted' = [g \in Generations |-> IF session[g] # "running" /\ session'[g] = "running"
                                       THEN found ELSE noted[g]]
  /\ UNCHANGED <<serviceVars, adapter>>

DaemonHandles ==
  /\ "daemon" \in tasks
  /\ HandleEvent
  /\ UNCHANGED <<serviceVars, adapterVars>>

WatchReports ==
  /\ "network" \in tasks
  /\ NetworkWatch
  /\ Input
  /\ Unserved
  /\ UNCHANGED <<serviceVars, adapterVars>>

Defect_ListensWhileHandling ==
  /\ "pipe" \in tasks
  /\ pipe \in {"closed", "handling"}
  /\ pipe' = "listening"
  /\ UNCHANGED <<linuxVars, scm, main, shutdown, tasks, adapterVars>>

\* serve_pipe makes a pipe for the next client, once the last one is gone.
OpenPipe ==
  /\ "pipe" \in tasks
  /\ pipe = "closed"
  /\ pipe' = "listening"
  /\ UNCHANGED <<linuxVars, scm, main, shutdown, tasks, adapterVars>>

\* A client connects; one of another session or without an identity is sent away.
AcceptClient ==
  /\ "pipe" \in tasks
  /\ pipe = "listening"
  /\ pipe' \in {"reading", "closed"}
  /\ UNCHANGED <<linuxVars, scm, main, shutdown, tasks, adapterVars>>

\* serve_connection, one request: the user's, new credentials, or ...
HandleRequest ==
  /\ "pipe" \in tasks
  /\ pipe = "reading"
  /\ pipe' = "handling"
  /\ Request \/ CredentialsStored
  /\ Input
  /\ Unserved
  /\ UNCHANGED <<scm, main, shutdown, tasks, adapterVars>>

\* ... one that changes nothing, a frame that is none, or a client that hangs up.
EndUnchanged ==
  /\ "pipe" \in tasks
  /\ pipe = "reading"
  /\ pipe' = "closed"
  /\ UNCHANGED <<linuxVars, scm, main, shutdown, tasks, adapterVars>>

\* The handler answers when everything it does is done.
Answer ==
  /\ "pipe" \in tasks
  /\ pipe = "handling" /\ replacing = "none" /\ MutexFree
  /\ pipe' = "closed"
  /\ UNCHANGED <<linuxVars, scm, main, shutdown, tasks, adapterVars>>

\* The rest of what a handler does once it has begun.
Continue ==
  /\ PublishAction \/ FinishReplacement
  /\ UNCHANGED <<serviceVars, adapterVars>>

-----------------------------------------------------------------------------
(* Sessions, timers and adapters. *)

\* An adapter that has not the name of the first one is taken for the session's own.  Ours
\* all have the same; two of other products may have the same or not.
TunnelSeen(g) ==
  /\ \E found \in Found :
       /\ found # "none" /\ (found = noted[g] => found = "foreign")
       /\ noted' = [noted EXCEPT ![g] = found]
  /\ TunnelDetected(g)
  /\ UNCHANGED <<serviceVars, adapter>>

Background ==
  /\ \/ TimerFires
     \/ LooseTimerEnds
     \/ \E g \in Generations : SessionEnds(g) \/ SessionReports(g)
  /\ noted' = [g \in Generations |-> IF session'[g] = "running" THEN noted[g] ELSE "none"]
  /\ UNCHANGED <<serviceVars, adapter>>

\* The driver: a connector brings its adapter up, and one goes down with its
\* connector, before it, or some time after it.
AdapterChanges ==
  /\ \/ \E g \in Generations : session[g] = "running" /\ adapter' = g
     \/ adapter' = NoGeneration
  /\ adapter' # adapter
  /\ UNCHANGED <<linuxVars, serviceVars, noted>>

-----------------------------------------------------------------------------
(* The end. *)

Defect_StopTellsNobody ==
  /\ main = "serving" /\ shutdown
  /\ ~stopping /\ stopping' = TRUE
  /\ Fault
  /\ main' = "stopping"
  /\ UNCHANGED <<controlVars, queue, events, sessionVars, timerVars, fileVars,
                 scm, shutdown, tasks, pipe, adapterVars>>

\* run_daemon notices the stop: stop_all, and the daemon's own channel.
StopAll ==
  /\ main = "serving" /\ shutdown
  /\ Terminate
  /\ main' = "stopping"
  /\ UNCHANGED <<scm, shutdown, tasks, pipe, adapterVars>>

Defect_ClientInterrupted(t) ==
  /\ t \in tasks /\ shutdown
  /\ t = "daemon" => main # "serving"
  /\ tasks' = tasks \ {t}
  /\ pipe' = IF t = "pipe" THEN "closed" ELSE pipe
  /\ UNCHANGED <<linuxVars, scm, main, shutdown, adapterVars>>

\* The daemon looks at its channel between two actions, the other two at theirs
\* whenever they wait for something of their own; a client is not interrupted.
TaskEnds(t) ==
  /\ t \in tasks /\ shutdown
  /\ t = "daemon" => main # "serving"
  /\ t = "pipe" => pipe \in {"closed", "listening"}
  /\ tasks' = tasks \ {t}
  /\ pipe' = IF t = "pipe" THEN "closed" ELSE pipe
  /\ UNCHANGED <<linuxVars, scm, main, shutdown, adapterVars>>

Defect_WaitsForTasks ==
  /\ main = "stopping" /\ tasks = {}
  /\ main' = "returned"
  /\ UNCHANGED <<linuxVars, scm, shutdown, tasks, pipe, adapterVars>>

\* run_daemon waits for each task, but not for ever, and not for the sessions.
Return ==
  /\ main = "stopping"
  /\ main' = "returned"
  /\ UNCHANGED <<linuxVars, scm, shutdown, tasks, pipe, adapterVars>>

ReportStopped ==
  /\ main = "returned" /\ scm = "Running"
  /\ scm' = "Stopped"
  /\ UNCHANGED <<linuxVars, main, shutdown, tasks, pipe, adapterVars>>

\* run_service returns and drops the runtime, or the process dies: its tasks are gone,
\* and closing its job objects kills the connectors that are left.  Later the manager
\* starts the service anew.
ProcessEnds ==
  /\ Restart
  /\ scm' = "StartPending" /\ main' = "boot"
  /\ shutdown' = FALSE
  /\ tasks' = {} /\ pipe' = "closed"
  /\ noted' = NothingFound
  /\ UNCHANGED adapter

-----------------------------------------------------------------------------
WindowsInit ==
  /\ LinuxInit
  /\ scm = "StartPending" /\ main = "boot"
  /\ shutdown = FALSE
  /\ tasks = {} /\ pipe = "closed"
  /\ adapter = NoGeneration /\ noted = NothingFound

Served == HandleRequest \/ EndUnchanged \/ OpenPipe \/ AcceptClient \/ Answer
Stopping == ControlStop \/ StopAll \/ Return \/ ReportStopped \/ \E t \in AllTasks : TaskEnds(t)

\* A bound: no failure spends what the stop that was asked for needs.
StopAffordable == shutdown /\ ~stopping => faults < MaxFaults

WindowsNext ==
  /\ \/ ReportRunning \/ RunDaemon
     \/ DaemonExecutes \/ DaemonHandles \/ WatchReports \/ Continue
     \/ Served
     \/ Background \/ AdapterChanges
     \/ \E g \in Generations : TunnelSeen(g)
     \/ Stopping
     \/ ProcessEnds
  /\ StopAffordable'

\* The main thread goes on.  Nothing is assumed of the tasks, clients and sessions.
WindowsFairness ==
  /\ WF_windowsVars(ReportRunning)
  /\ WF_windowsVars(RunDaemon)
  /\ WF_windowsVars(StopAll)
  /\ WF_windowsVars(Return)
  /\ WF_windowsVars(ReportStopped)

WindowsSpec == WindowsInit /\ [][WindowsNext]_windowsVars
FairWindowsSpec == WindowsSpec /\ WindowsFairness

-----------------------------------------------------------------------------
(* Properties. *)

WindowsTypeOK ==
  /\ LinuxTypeOK
  /\ scm \in {"StartPending", "Running", "Stopped"}
  /\ main \in {"boot", "failed", "serving", "stopping", "returned"}
  /\ shutdown \in BOOLEAN
  /\ tasks \subseteq AllTasks
  /\ pipe \in {"closed", "listening", "reading", "handling"}
  /\ adapter \in Generations \cup {NoGeneration}
  /\ noted \in [Generations -> {"none", "own", "foreign"}]

\* A change of the credentials is the request the pipe is busy with, to its end: nothing
\* the user asks for comes between its steps, and a stop does not cut it off half-way.
OneAtATime == replacing # "none" => pipe = "handling" /\ "pipe" \in tasks

\* Nothing works before run_daemon has spawned it, or once a start has failed.
NothingEarly ==
  main \in {"boot", "failed"} =>
    tasks = {} /\ pipe = "closed" /\ queue = <<>> /\ actions = <<>>

WindowsSound == WindowsTypeOK /\ OneAtATime /\ NothingEarly

\* The service keeps what LinuxService promises: its steps are steps of LinuxService,
\* whatever the pipe, the manager and the adapters do.
ImplementsLinux == LinuxSpec

\* A session never takes the adapter of the one before it, still going down, for its
\* own: when a tunnel is reported, it is that generation's that is up.  This fails when
\* another VPN product has a part in it, and only then: its adapter is the one found (and
\* reported as ours), or was found when the session began, so that an earlier adapter of
\* ours behind it was not noted.
ReportsOwnTunnel ==
  [][\A g \in reported' \ reported :
       adapter = g \/ "foreign" \in {noted[g], noted'[g]}]_windowsVars

\* A stop asked of the service, however early, is reported to be over, unless the process
\* dies first: no client, task or session can hold it up.
StopIsReported == shutdown ~> scm # "Running"

=============================================================================
