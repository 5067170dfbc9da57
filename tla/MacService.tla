------------------------------ MODULE MacService ------------------------------
(******************************************************************************)
(* The macOS service (rust/apps/hyu-vpn-macos-service/src/lib.rs and the      *)
(* helper client rust/crates/hyu-vpn-platform-macos/src/helper.rs) around the *)
(* engine: the loop of DaemonRuntime::run, MacActionExecutor with one task    *)
(* per session, the task that owns the session's `sudo helper start`, the     *)
(* reconciliation with the helper before every connection, and the shutdown.  *)
(*                                                                            *)
(* The helper is here what its commands answer (PrivilegedHelper is its       *)
(* inside): stopped, running, or in need of repair.  Time is left out: a      *)
(* deadline passes, a timer fires and a process exits whenever it could.      *)
(******************************************************************************)
EXTENDS Engine, FiniteSets

CONSTANTS
  Attempts,       (* attempts of a reconciliation (4 in the code)              *)
  MaxInputs,      (* bound: requests, network changes and shutdowns              *)
  MaxFaults,      (* bound: failures, deadlines, exits and crashes              *)
  MaxLooseTimers  (* bound: cancelled timers not yet gone                       *)

ASSUME MacAssumption ==
  /\ Attempts \in Nat \ {0} /\ MaxLooseTimers \in Nat \ {0}
  /\ MaxInputs \in Nat /\ MaxFaults \in Nat

VARIABLES
  queue,         (* the action channel, without the actions that have no effect *)
  events,        (* the channel of connector and timer events                    *)
  helper,        (* what the helper's status says                                *)
  owner,         (* the generation whose child holds what runs; 0: an orphan     *)
  task,          (* per generation: the session's task                           *)
  child,         (* per generation: the task of its helper process, or its result *)
  faulty,        (* generations whose child task met an error of the protocol     *)
  sessions,      (* the generations in the executor's map                         *)
  cancelled,     (* generations whose watch channel says cancel                   *)
  repairBlocked, (* the last session left a repair behind                         *)
  starting,      (* the generation start_connection is busy with, and how far     *)
  reconcile,     (* the reconciliation of the executor and the one of main        *)
  timer, looseTimers, preference,
  proc,          (* how far run_service has got                                   *)
  looping,       (* whether DaemonRuntime::run goes round                         *)
  taken,         (* the sessions shutdown_sessions has taken and not joined yet   *)
  inputs, faults

helperVars == <<helper, owner>>
sessionVars == <<task, child, faulty, sessions, cancelled, repairBlocked>>
startVars == <<starting, reconcile>>
timerVars == <<timer, looseTimers>>
procVars == <<proc, looping, taken>>
budgetVars == <<inputs, faults>>
macVars == <<engineVars, queue, events, helperVars, sessionVars, startVars, timerVars,
             preference, procVars, budgetVars>>

Connected(g) == [kind |-> "ConnectorConnected", gen |-> g]
Exited(g, code) == [kind |-> "ConnectorExited", gen |-> g, code |-> code]
Failed(g) == [kind |-> "ConnectorError", gen |-> g]
TimedOut(g) == [kind |-> "ConnectTimedOut", gen |-> g]
Elapsed == [kind |-> "RetryElapsed"]

NotStarting == [gen |-> NoGeneration]
NotReconciling == [step |-> "off"]
NewReconciliation == [step |-> "status", left |-> Attempts]
Nothing == [g \in Generations |-> "none"]

HasEffect(a) == a.kind \notin {"PublishState", "PublishError"}
Fault == faults < MaxFaults /\ faults' = faults + 1 /\ UNCHANGED inputs
Input == inputs < MaxInputs /\ inputs' = inputs + 1 /\ UNCHANGED faults
NoBudget == UNCHANGED budgetVars

\* Of the at most four actions the engine returns, those that have an effect.
Effective(list) ==
  LET kept(i) == When(i <= Len(list) /\ HasEffect(list[i]), list[i])
  IN kept(1) \o kept(2) \o kept(3) \o kept(4)

\* apply_event: what the engine returns goes to the action channel.
Apply(Event) == Event /\ queue' = queue \o Effective(actions')

-----------------------------------------------------------------------------
(* What a command does to the helper.  A failure may happen before or after the *)
(* command had its effect.                                                     *)

\* `stop`: what runs is torn down, or what is left of it needs a repair.
HelperStop ==
  \/ helper # "running" /\ UNCHANGED helperVars /\ NoBudget
  \/ helper = "running" /\ owner' = 0 /\ helper' = "stopped" /\ NoBudget
  \/ helper = "running" /\ owner' = 0 /\ helper' = "repair" /\ Fault
  \/ helper = "running" /\ UNCHANGED helperVars /\ Fault

\* `repair`, which refuses while something runs.
HelperRepair ==
  /\ UNCHANGED owner
  /\ \/ helper # "repair" /\ UNCHANGED helper /\ NoBudget
     \/ helper = "repair" /\ helper' = "stopped" /\ NoBudget
     \/ helper = "repair" /\ UNCHANGED helper /\ Fault

\* A `start` that lost its parent notices that its input has closed.
OrphanEnds ==
  /\ helper = "running" /\ owner = 0
  /\ \/ helper' = "stopped" /\ NoBudget
     \/ helper' = "repair" /\ Fault
  /\ UNCHANGED <<engineVars, queue, events, owner, sessionVars, startVars, timerVars,
                 preference, procVars>>

-----------------------------------------------------------------------------
(* reconcile_helper_at_startup, of main or of the executor.                    *)

Settle(c, step) == reconcile' = [reconcile EXCEPT ![c].step = step]
TryAgain(c) ==
  reconcile' = [reconcile EXCEPT ![c] = IF @.left = 1 THEN [@ EXCEPT !.step = "failed"]
                                        ELSE [step |-> "status", left |-> @.left - 1]]

ReconcileStatus(c) ==
  /\ reconcile[c].step = "status"
  /\ UNCHANGED helperVars
  /\ \/ TryAgain(c) /\ Fault
     \/ helper = "stopped" /\ Settle(c, "ok") /\ NoBudget
     \/ helper = "running" /\ Settle(c, "stop") /\ NoBudget
     \/ helper = "repair" /\ Settle(c, "repair") /\ NoBudget

Defect_ReconcileTrusts(c) ==
  /\ \/ reconcile[c].step = "stop" /\ HelperStop
     \/ reconcile[c].step = "repair" /\ HelperRepair
  /\ Settle(c, "ok")

ReconcileCommand(c) ==
  /\ \/ reconcile[c].step = "stop" /\ HelperStop
     \/ reconcile[c].step = "repair" /\ HelperRepair
  /\ IF helper' = "stopped" THEN Settle(c, "ok") ELSE TryAgain(c)

Reconcile(c) ==
  /\ ReconcileStatus(c) \/ ReconcileCommand(c)
  /\ UNCHANGED <<engineVars, queue, events, sessionVars, starting>>
  /\ UNCHANGED <<timerVars, preference, procVars>>

-----------------------------------------------------------------------------
(* DaemonRuntime::run.  After the shutdown signal it finishes the turn it is in,  *)
(* or takes one more, and ends.                                                 *)

IdleLoop == looping /\ starting = NotStarting
TurnEnds == looping' = (proc = "serving")

ExecutePersist(enabled) ==
  /\ UNCHANGED <<sessionVars, timerVars, startVars>> /\ TurnEnds
  /\ \/ preference' = enabled /\ NoBudget
     \/ UNCHANGED preference /\ Fault

ExecuteStart(g) ==
  /\ starting' = [gen |-> g, pc |-> "reconciling"]
  /\ reconcile' = [reconcile EXCEPT !["exec"] = NewReconciliation]
  /\ UNCHANGED <<sessionVars, timerVars, preference, looping, budgetVars>>

Defect_StopEstablishedOnly(g) ==
  /\ cancelled' = cancelled \union (IF task[g] = "established" THEN {g} \intersect sessions ELSE {})
  /\ TurnEnds
  /\ UNCHANGED <<task, child, faulty, sessions, repairBlocked, startVars>>
  /\ UNCHANGED <<timerVars, preference, budgetVars>>

ExecuteStop(g) ==
  /\ cancelled' = cancelled \union ({g} \intersect sessions)
  /\ TurnEnds
  /\ UNCHANGED <<task, child, faulty, sessions, repairBlocked, startVars>>
  /\ UNCHANGED <<timerVars, preference, budgetVars>>

\* schedule_retry and cancel_retry.
ReplaceTimer(then) ==
  /\ timer = "armed" => looseTimers < MaxLooseTimers
  /\ looseTimers' = looseTimers + (IF timer = "armed" THEN 1 ELSE 0)
  /\ timer' = then

ExecuteTimer(then) ==
  ReplaceTimer(then) /\ TurnEnds /\ UNCHANGED <<sessionVars, startVars, preference, budgetVars>>

Execute(a) ==
  \/ a.kind = "PersistAutomatic" /\ ExecutePersist(a.enabled)
  \/ a.kind = "StartConnection" /\ ExecuteStart(a.gen)
  \/ a.kind = "StopConnection" /\ ExecuteStop(a.gen)
  \/ a.kind = "ScheduleRetry" /\ ExecuteTimer("armed")
  \/ a.kind = "CancelRetry" /\ ExecuteTimer("none")

ExecuteNext ==
  /\ IdleLoop /\ queue # <<>>
  /\ Execute(Head(queue))
  /\ queue' = Tail(queue)
  /\ UNCHANGED <<engineVars, events, helperVars, proc, taken>>

EngineTakes(e) ==
  \/ e.kind = "ConnectorConnected" /\ ConnectorConnected(e.gen)
  \/ e.kind = "ConnectorExited" /\ ConnectorExited(e.gen, e.code, 0)
  \/ e.kind = "ConnectorError" /\ ConnectorError(e.gen)
  \/ e.kind = "ConnectTimedOut" /\ ConnectTimedOut(e.gen)
  \/ e.kind = "RetryElapsed" /\ RetryElapsed

HandleEvent ==
  /\ IdleLoop /\ events # <<>>
  /\ Apply(EngineTakes(Head(events)))
  /\ events' = Tail(events)
  /\ TurnEnds
  /\ UNCHANGED <<helperVars, sessionVars, startVars, timerVars>>
  /\ UNCHANGED <<preference, proc, taken, budgetVars>>

LoopEnds ==
  /\ IdleLoop /\ proc # "serving"
  /\ looping' = FALSE
  /\ UNCHANGED <<engineVars, queue, events, helperVars, sessionVars, startVars, timerVars,
                 preference, proc, taken, budgetVars>>

-----------------------------------------------------------------------------
(* start_connection.  The loop waits for it; requests and sessions do not.       *)

StartOver == starting' = NotStarting /\ reconcile' = [reconcile EXCEPT !["exec"] = NotReconciling]
StartUnchanged == UNCHANGED <<engineVars, queue, helperVars, timerVars, preference, proc, taken>>

StartRefused ==
  /\ reconcile["exec"].step = "failed"
  /\ events' = Append(events, Failed(starting.gen))
  /\ StartOver /\ TurnEnds
  /\ UNCHANGED <<sessionVars, budgetVars>>
  /\ StartUnchanged

\* A second reconciliation when a session left a repair behind.
StartAgain ==
  /\ reconcile["exec"].step = "ok" /\ starting.pc = "reconciling" /\ repairBlocked
  /\ starting' = [starting EXCEPT !.pc = "unblocking"]
  /\ reconcile' = [reconcile EXCEPT !["exec"] = NewReconciliation]
  /\ UNCHANGED <<events, sessionVars, looping, budgetVars>>
  /\ StartUnchanged

MayStart == reconcile["exec"].step = "ok" /\ (starting.pc = "unblocking" \/ ~repairBlocked)

\* The credentials, the secret or the prompt input are not usable.
StartFails ==
  /\ MayStart /\ Fault
  /\ repairBlocked' = FALSE
  /\ events' = Append(events, Exited(starting.gen, 1))
  /\ StartOver /\ TurnEnds
  /\ UNCHANGED <<task, child, faulty, sessions, cancelled>>
  /\ StartUnchanged

\* The task is spawned and registered under one lock.
StartSession ==
  /\ MayStart
  /\ repairBlocked' = FALSE
  /\ task' = [task EXCEPT ![starting.gen] = "spawned"]
  /\ sessions' = sessions \union {starting.gen}
  /\ StartOver /\ TurnEnds
  /\ UNCHANGED <<events, child, faulty, cancelled, budgetVars>>
  /\ StartUnchanged

StartStep == StartRefused \/ StartAgain \/ StartFails \/ StartSession

-----------------------------------------------------------------------------
(* run_start_child: the task that owns `sudo helper start`.                     *)

ChildResults == {"clean", "exited", "stopped", "failed", "unrepaired", "error"}
ChildBecomes(g, step) == child' = [child EXCEPT ![g] = step]
ChildUnchanged == UNCHANGED <<engineVars, queue, events, task, sessions, cancelled, repairBlocked,
                              startVars, timerVars, preference, procVars>>

\* The process exits: its helper was torn down by another command, or ends by itself.
ChildExits(g) ==
  /\ child[g] = "run"
  /\ \/ owner # g /\ UNCHANGED helperVars /\ NoBudget
     \/ owner = g /\ owner' = 0 /\ helper' \in {"stopped", "repair"} /\ Fault
  /\ \/ ChildBecomes(g, "exited")
     \/ helper' = "stopped" /\ ChildBecomes(g, "clean")
  /\ UNCHANGED faulty
  /\ ChildUnchanged

\* Output or a prompt breaks the protocol, or a code cannot be had.
ChildFaults(g) ==
  /\ child[g] = "run" /\ Fault
  /\ faulty' = faulty \union {g}
  /\ ChildBecomes(g, "term")
  /\ UNCHANGED helperVars
  /\ ChildUnchanged

ChildCancelled(g) ==
  /\ child[g] = "run" /\ task[g] \in {"stopping", "deadline", "abandoned"}
  /\ ChildBecomes(g, "term")
  /\ UNCHANGED <<helperVars, faulty, budgetVars>>
  /\ ChildUnchanged

\* graceful_signal_child: SIGTERM, and SIGKILL two seconds later, which takes sudo
\* away from its helper.
ChildTerminated(g) ==
  /\ child[g] = "term"
  /\ \/ owner # g /\ UNCHANGED helperVars /\ NoBudget
     \/ owner = g /\ owner' = 0 /\ helper' = "stopped" /\ NoBudget
     \/ owner = g /\ owner' = 0 /\ helper' \in {"repair", "running"} /\ Fault
  /\ ChildBecomes(g, "status")
  /\ UNCHANGED faulty
  /\ ChildUnchanged

\* The status after the cleanup, and the one after the repair.
ChildChecks(g) ==
  /\ child[g] \in {"status", "recheck"}
  /\ \/ ChildBecomes(g, "error") /\ Fault
     \/ helper = "stopped" /\ ChildBecomes(g, "stopped") /\ NoBudget
     \/ helper = "running" /\ ChildBecomes(g, "failed") /\ NoBudget
     \/ /\ helper = "repair" /\ NoBudget
        /\ ChildBecomes(g, IF child[g] = "status" THEN "repair" ELSE "unrepaired")
  /\ UNCHANGED <<helperVars, faulty>>
  /\ ChildUnchanged

ChildRepairs(g) ==
  /\ child[g] = "repair"
  /\ HelperRepair
  /\ \/ helper' = "stopped" /\ ChildBecomes(g, "recheck")
     \/ helper' # "stopped" /\ child' \in {[child EXCEPT ![g] = r] : r \in {"unrepaired", "error"}}
  /\ UNCHANGED faulty
  /\ ChildUnchanged

ChildStep(g) == ChildExits(g) \/ ChildFaults(g) \/ ChildCancelled(g) \/ ChildTerminated(g)
                \/ ChildChecks(g) \/ ChildRepairs(g)

-----------------------------------------------------------------------------
(* The task of a session.                                                      *)

\* session_error_code and outcome_to_exit.
Verdict(g) ==
  CASE child[g] = "unrepaired" -> "repair"
    [] child[g] = "failed" \/ (child[g] = "error" /\ g \in faulty) -> "unavailable"
    [] child[g] \in {"clean", "stopped"} /\ g \notin faulty -> "clean"
    [] OTHER -> "exited"

TaskBecomes(g, step) == task' = [task EXCEPT ![g] = step]
TaskUnchanged == UNCHANGED <<engineVars, queue, startVars, timerVars, preference, procVars>>

\* What is left of a session that has published: shutdown_sessions may still ask for
\* the outcome.
Forget(g, outcome) ==
  /\ sessions' = sessions \ {g}
  /\ cancelled' = cancelled \ {g}
  /\ child' = [child EXCEPT ![g] = IF g \in taken THEN outcome ELSE "none"]
  /\ faulty' = IF g \in taken THEN faulty ELSE faulty \ {g}

Launch(g) ==
  /\ task[g] = "spawned"
  /\ \/ /\ TaskBecomes(g, "connecting") /\ ChildBecomes(g, "run")
        /\ IF helper = "stopped" THEN helper' = "running" /\ owner' = g ELSE UNCHANGED helperVars
        /\ UNCHANGED <<events, sessions, cancelled, faulty, budgetVars>>
     \/ /\ Fault /\ TaskBecomes(g, "none") /\ Forget(g, "error")
        /\ events' = Append(events, Exited(g, 1))
        /\ UNCHANGED helperVars
  /\ UNCHANGED repairBlocked
  /\ TaskUnchanged

\* The helper said that the report was submitted and the tunnel is up.
Establish(g) ==
  /\ task[g] = "connecting" /\ child[g] = "run"
  /\ TaskBecomes(g, "established")
  /\ events' = Append(events, Connected(g))
  /\ UNCHANGED <<helperVars, child, faulty, sessions, cancelled, repairBlocked, budgetVars>>
  /\ TaskUnchanged

CancelSeen(g) ==
  /\ task[g] \in {"connecting", "established"} /\ g \in cancelled
  /\ TaskBecomes(g, "stopping")
  /\ UNCHANGED <<events, helperVars, child, faulty, sessions, cancelled>>
  /\ UNCHANGED <<repairBlocked, budgetVars>>
  /\ TaskUnchanged

DeadlinePasses(g) ==
  /\ task[g] = "connecting" /\ Fault
  /\ TaskBecomes(g, "deadline")
  /\ UNCHANGED <<events, helperVars, child, faulty, sessions, cancelled, repairBlocked>>
  /\ TaskUnchanged

\* publish_session_outcome.
Outcome(g, verdict) ==
  /\ repairBlocked' = (repairBlocked \/ verdict \in {"repair", "unavailable"})
  /\ events' = Append(events, IF verdict \in {"repair", "unavailable"} THEN Failed(g)
                              ELSE Exited(g, IF verdict = "clean" THEN 0 ELSE 1))

\* The result is there: it is published and the session leaves the map, under one
\* lock.
Publish(g) ==
  /\ task[g] \in {"connecting", "established", "stopping", "deadline"}
  /\ child[g] \in ChildResults
  /\ IF task[g] = "deadline" /\ Verdict(g) = "clean"
     THEN events' = Append(events, TimedOut(g)) /\ UNCHANGED repairBlocked
     ELSE Outcome(g, Verdict(g))
  /\ TaskBecomes(g, "none") /\ Forget(g, child[g])
  /\ UNCHANGED <<helperVars, budgetVars>>
  /\ TaskUnchanged

\* The cleanup after the deadline takes more than five seconds: the session gives up
\* on it, and it goes on by itself.
Abandon(g) ==
  /\ task[g] = "deadline" /\ child[g] \notin ChildResults /\ Fault
  /\ Outcome(g, "repair")
  /\ TaskBecomes(g, "abandoned")
  /\ sessions' = sessions \ {g} /\ cancelled' = cancelled \ {g}
  /\ UNCHANGED <<helperVars, child, faulty>>
  /\ TaskUnchanged

AbandonedEnds(g) ==
  /\ task[g] = "abandoned" /\ child[g] \in ChildResults /\ g \notin taken
  /\ TaskBecomes(g, "none") /\ ChildBecomes(g, "none")
  /\ faulty' = faulty \ {g}
  /\ UNCHANGED <<events, helperVars, sessions, cancelled, repairBlocked, budgetVars>>
  /\ TaskUnchanged

SessionStep(g) == Launch(g) \/ Establish(g) \/ CancelSeen(g) \/ DeadlinePasses(g)
                  \/ Publish(g) \/ Abandon(g) \/ AbandonedEnds(g)

-----------------------------------------------------------------------------
(* Timers, users and networks.                                                 *)

TimersOnly == UNCHANGED <<engineVars, queue, helperVars, sessionVars, startVars, preference,
                          procVars, budgetVars>>

TimerFires ==
  /\ timer = "armed" /\ timer' = "none"
  /\ events' = Append(events, Elapsed)
  /\ UNCHANGED looseTimers
  /\ TimersOnly

LooseTimerEnds ==
  /\ looseTimers > 0 /\ looseTimers' = looseTimers - 1
  /\ events' = events \/ events' = Append(events, Elapsed)
  /\ UNCHANGED timer
  /\ TimersOnly

\* The socket is served until the shutdown has drained its connections; the watch is awaited
\* last, and ends the round it is in beside shutdown_sessions.
UserOrNetwork ==
  /\ Input
  /\ Apply(\/ proc \in {"serving", "draining"} /\ UserEvent
           \/ /\ proc \in {"serving", "draining", "joining", "repairing"}
              /\ \/ network # NoNetwork /\ NetworkUnavailable
                 \/ \E n \in Networks \ {network} : NetworkReady(n))
  /\ UNCHANGED <<events, helperVars, sessionVars, startVars, timerVars, preference, procVars>>

-----------------------------------------------------------------------------
(* run_service.                                                                *)

\* The process is gone, its tasks and their sudo processes with it; the engine is
\* that of the next one.
ProcessEnds(how) ==
  /\ proc' = how /\ looping' = FALSE /\ taken' = {}
  /\ automatic' = preference
  /\ state' = IF preference THEN "WaitingForNetwork" ELSE "Disabled"
  /\ network' = NoNetwork /\ active' = NoGeneration /\ nextGeneration' = 1
  /\ pendingRetry' = NoRetry /\ reconnectImmediately' = FALSE /\ failures' = 0
  /\ actions' = <<>> /\ stopRequested' = FALSE
  /\ queue' = <<>> /\ events' = <<>>
  /\ task' = Nothing /\ child' = Nothing /\ faulty' = {}
  /\ sessions' = {} /\ cancelled' = {} /\ repairBlocked' = FALSE
  /\ starting' = NotStarting
  /\ reconcile' = [c \in {"main", "exec"} |-> NotReconciling]
  /\ timer' = "none" /\ looseTimers' = 0
  /\ owner' = 0
  /\ UNCHANGED <<helper, preference>>

Crash == proc \notin {"stopped", "failed"} /\ Fault /\ ProcessEnds("failed")

MainOnly == UNCHANGED <<engineVars, queue, events, helperVars, starting, preference>>

Restart ==
  /\ proc \in {"stopped", "failed"}
  /\ proc' = "starting"
  /\ reconcile' = [reconcile EXCEPT !["main"] = NewReconciliation]
  /\ UNCHANGED <<sessionVars, timerVars, looping, taken, budgetVars>>
  /\ MainOnly

Serve ==
  /\ proc = "starting" /\ reconcile["main"].step = "ok"
  /\ proc' = "serving" /\ looping' = TRUE
  /\ reconcile' = [reconcile EXCEPT !["main"] = NotReconciling]
  /\ UNCHANGED <<sessionVars, timerVars, taken, budgetVars>>
  /\ MainOnly

Unrepaired ==
  /\ proc \in {"starting", "repairing"} /\ reconcile["main"].step = "failed"
  /\ ProcessEnds("failed") /\ NoBudget

Shutdown ==
  /\ proc = "serving" /\ Input
  /\ proc' = "draining"
  /\ UNCHANGED <<sessionVars, timerVars, reconcile, looping, taken>>
  /\ MainOnly

\* shutdown_sessions takes the map, whatever start_connection is about to put in it.
TakeSessions ==
  /\ proc = "draining"
  /\ proc' = "joining"
  /\ taken' = sessions /\ sessions' = {} /\ cancelled' = cancelled \union sessions
  /\ ReplaceTimer("none")
  /\ UNCHANGED <<task, child, faulty, repairBlocked, reconcile, looping, budgetVars>>
  /\ MainOnly

Joined(g) == proc = "joining" /\ g \in taken /\ task[g] \in {"none", "abandoned"}
Completion(g) == IF task[g] = "abandoned" THEN "repair" ELSE Verdict(g)

JoinClean(g) ==
  /\ Joined(g) /\ Completion(g) = "clean"
  /\ taken' = taken \ {g} /\ child' = [child EXCEPT ![g] = "none"]
  /\ UNCHANGED <<task, faulty, sessions, cancelled, repairBlocked, reconcile, timerVars, proc,
                 looping, budgetVars>>
  /\ MainOnly

JoinRepairs(g) ==
  /\ Joined(g) /\ Completion(g) = "repair"
  /\ proc' = "repairing" /\ taken' = taken \ {g}
  /\ child' = IF task[g] = "abandoned" THEN child ELSE [child EXCEPT ![g] = "none"]
  /\ reconcile' = [reconcile EXCEPT !["main"] = NewReconciliation]
  /\ UNCHANGED <<task, faulty, sessions, cancelled, repairBlocked, timerVars, looping, budgetVars>>
  /\ MainOnly

Repaired ==
  /\ proc = "repairing" /\ reconcile["main"].step = "ok"
  /\ proc' = "joining" /\ repairBlocked' = FALSE
  /\ reconcile' = [reconcile EXCEPT !["main"] = NotReconciling]
  /\ UNCHANGED <<task, child, faulty, sessions, cancelled, timerVars, looping, taken, budgetVars>>
  /\ MainOnly

\* The outcome is neither clean nor repaired, or the join takes too long.
JoinFails(g) ==
  /\ proc = "joining" /\ g \in taken
  /\ IF task[g] \in {"none", "abandoned"}
     THEN Completion(g) \in {"exited", "unavailable"} /\ NoBudget
     ELSE Fault
  /\ ProcessEnds("failed")

Defect_ExitUnjoined ==
  /\ proc = "joining" /\ ~looping
  /\ ProcessEnds("stopped") /\ NoBudget

\* The loop is awaited last.
Exit ==
  /\ proc = "joining" /\ taken = {} /\ ~looping
  /\ ProcessEnds("stopped") /\ NoBudget

Join(g) == JoinClean(g) \/ JoinRepairs(g) \/ JoinFails(g)
MainStep == Restart \/ Serve \/ Unrepaired \/ TakeSessions \/ Repaired \/ Exit

-----------------------------------------------------------------------------
\* At boot the helper has nothing running; it may have something left to repair.
MacInit ==
  /\ preference \in BOOLEAN /\ automatic = preference
  /\ Init
  /\ helper \in {"stopped", "repair"} /\ owner = 0
  /\ queue = <<>> /\ events = <<>>
  /\ task = Nothing /\ child = Nothing /\ faulty = {}
  /\ sessions = {} /\ cancelled = {} /\ repairBlocked = FALSE
  /\ starting = NotStarting
  /\ reconcile = [c \in {"main", "exec"} |-> NotReconciling]
  /\ timer = "none" /\ looseTimers = 0
  /\ proc = "failed" /\ looping = FALSE /\ taken = {}
  /\ inputs = 0 /\ faults = 0

MacNext ==
  \/ UserOrNetwork
  \/ ExecuteNext \/ HandleEvent \/ LoopEnds \/ StartStep
  \/ \E c \in {"main", "exec"} : Reconcile(c)
  \/ \E g \in Generations : ChildStep(g) \/ SessionStep(g) \/ Join(g)
  \/ TimerFires \/ LooseTimerEnds
  \/ OrphanEnds
  \/ MainStep \/ Shutdown \/ Crash

\* The tasks take their turns, the commands of the helper end (each has its timeout),
\* a cancelled child ends (it is killed), and a helper that lost its parent notices.
\* Nothing is assumed of users, networks, tunnels, deadlines and failures.
Fairness ==
  /\ WF_macVars(ExecuteNext) /\ WF_macVars(HandleEvent) /\ WF_macVars(LoopEnds)
  /\ WF_macVars(StartStep) /\ WF_macVars(TimerFires) /\ WF_macVars(LooseTimerEnds)
  /\ \A c \in {"main", "exec"} : WF_macVars(Reconcile(c))
  /\ \A g \in Generations :
       /\ WF_macVars(Launch(g) \/ CancelSeen(g) \/ Publish(g) \/ AbandonedEnds(g))
       /\ WF_macVars(ChildCancelled(g) \/ ChildTerminated(g) \/ ChildChecks(g) \/ ChildRepairs(g)
                     \/ (owner # g /\ ChildExits(g)))
       /\ WF_macVars(Join(g))
  /\ WF_macVars(OrphanEnds)
  /\ WF_macVars(MainStep)

MacSpec == MacInit /\ [][MacNext]_macVars
FairMacSpec == MacSpec /\ Fairness

-----------------------------------------------------------------------------
(* Properties. *)

InQueue(a) == \E i \in DOMAIN queue : queue[i] = a
Announced(g) == \E i \in DOMAIN events :
                  /\ events[i].kind \in {"ConnectorExited", "ConnectorError", "ConnectTimedOut"}
                  /\ events[i].gen = g
Busy(g) == child[g] \notin ChildResults \union {"none"}

MacTypeOK ==
  /\ EngineTypeOK
  /\ helper \in {"stopped", "running", "repair"} /\ owner \in Generations \union {0}
  /\ task \in [Generations -> {"none", "spawned", "connecting", "established", "stopping",
                               "deadline", "abandoned"}]
  /\ child \in [Generations -> {"none", "run", "term", "status", "repair", "recheck"}
                               \union ChildResults]
  /\ faulty \subseteq Generations /\ sessions \subseteq Generations
  /\ cancelled \subseteq Generations /\ taken \subseteq Generations
  /\ starting.gen \in Generations \union {NoGeneration}
  /\ \A c \in {"main", "exec"} :
       \/ reconcile[c] = NotReconciling
       \/ /\ reconcile[c].step \in {"status", "stop", "repair", "ok", "failed"}
          /\ reconcile[c].left \in 1 .. Attempts
  /\ timer \in {"none", "armed"} /\ looseTimers \in 0 .. MaxLooseTimers + 1
  /\ proc \in {"starting", "serving", "draining", "joining", "repairing", "stopped", "failed"}

\* While the service runs, the generation the engine believes active is in exactly one
\* place: its start is ordered, or under way, or its session is in the map, or the
\* news of its end is on the way.  Otherwise the engine waits for ever, or is told
\* twice.
GenerationAccounted ==
  proc = "serving" /\ active # NoGeneration =>
    Cardinality({place \in {"ordered", "starting", "session", "announced"} :
                   \/ place = "ordered" /\ InQueue(Start(active))
                   \/ place = "starting" /\ starting.gen = active
                   \/ place = "session" /\ active \in sessions
                   \/ place = "announced" /\ Announced(active)}) = 1

\* A session the engine has given up on or told to stop is never left alone: it has
\* the signal, or the order to stop is still queued, also when it was given while
\* start_connection was busy.
StopReachesSession ==
  \A g \in sessions :
    task[g] \in {"spawned", "connecting", "established"} /\ (g # active \/ stopRequested)
      => g \in cancelled \/ InQueue(Stop(g))

\* A helper is only ever started when the last one is gone and needs no repair: the
\* reconciliation before it is not undone by anything that still goes on.
StartsFromStopped ==
  [][\A g \in Generations : child[g] = "none" /\ child'[g] = "run" => helper = "stopped"]_macVars

\* When a session is launched no other session's task is still at work on the helper,
\* except for a cleanup that was abandoned: that is the one case in which a start can
\* meet a repair of the session before it.
AloneAtLaunch ==
  [][\A g, h \in Generations :
       task[g] = "spawned" /\ task'[g] = "connecting" /\ h # g /\ Busy(h)
         => task[h] = "abandoned"]_macVars

\* When the service ends in order, every session shutdown_sessions found in the map is
\* over.  What may be left is a session abandoned before, or put into the map after.
CleanExitJoined ==
  [][proc # "stopped" /\ proc' = "stopped" =>
       \A g \in Generations : task[g] \in {"none", "abandoned"} \/ g \in sessions]_macVars

\* Whatever a session was doing when the user disconnects, connecting, cleaning up or
\* not even started, nothing runs in the end, unless the user connects again.
DisconnectSettles ==
  (proc = "serving" /\ ~automatic) ~> (helper # "running" \/ automatic)

\* A generation told to stop is over in the end: the engine never waits for ever.
StopCompletes ==
  \A g \in Generations : (active = g /\ stopRequested) ~> (active # g \/ ~stopRequested)

\* Each generation in one place, and each that has to end told so.
MacSound == MacTypeOK /\ GenerationAccounted /\ StopReachesSession

\* The helper serves one session at a time.
HelperIsAlone == StartsFromStopped /\ AloneAtLaunch

\* What was told to end is over in the end.
MacSettles == DisconnectSettles /\ StopCompletes

=============================================================================
