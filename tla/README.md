# EZ-HYU-VPN in TLA+

TLA+ models of the program in this repository: the reconnect engine and the control plane
around it, the Linux, Windows and macOS services that carry its actions out, the session
with the connector, the network watch, the privileged helper of macOS with the wrapper
that changes the network, the menu app, and the small files all of them keep. TLC checks
the models on small instances; TLAPS proves theorems about fifteen of them for every value
of the constants.

    tlc -config MCFiles.cfg MCFiles            # a run: any MC*.cfg with its module
    tlapm EngineProofs.tla                     # proofs: any *Proofs.tla

`PROJECT.json` lists the components, the runs, the lines each definition stands for, the
hazards, the theorems, and for every checked property a mutated definition under which it
fails (`Defect_...`, kept just before the definition it mutates).

## 1. The system

| Component | State it keeps | Operations | Hard behaviour |
|---|---|---|---|
| Reconnect engine, `rust/crates/hyu-vpn-core/src/state.rs` | wanted or not, ready network, active generation, pending retry, restart flag, failure count, last published state | `handle` of 12 events, returns actions | events of earlier generations, late or repeated; retries racing requests |
| Control plane, `rust/crates/hyu-vpn-daemon/src/runtime.rs` | engine (mutex), status document (rwlock), credentials | IPC requests, `apply_event`, `publish_actions` | status read between two actions; checks made before an await and used after it |
| Daemon runtime, same file | action channel, event channel | one `select!` loop | order between the two queues, shutdown |
| Linux and Windows services, `rust/apps/hyu-vpn-{linux,windows}-service` | sessions per generation, retry timer, preference file | start, stop, schedule, cancel, persist, `stop_all` | a task per session and timer; failures to load or store; termination, crash, restart |
| Windows frame of that service, `.../runtime.rs`, `main.rs` | state told to the service control manager, stop flag, named pipe, adapter seen | start, control handler, `serve_pipe`, stop | a stop during the start; tasks that do not end; adapters of earlier sessions |
| macOS service, `rust/apps/hyu-vpn-macos-service` | helper sessions, repair block, the same | the same, and reconciliation with the helper | establish deadline, abandoned cleanup, shutdown while starting |
| Network watch, in each service | candidate, stable samples, published network; on macOS health failures, cooldown | sample, probe the portal, probe the tunnel, observe | the route changes between sample and probe; flapping; a cooldown that must end |
| Code guard, `rust/crates/hyu-vpn-core/src/totp.rs` | counter file, lock file | `reserve` | several processes, crashes between rename and use, the clock set back |
| Preference file, in each service | one small file | load, store | a crash between any two calls; Windows removes before it renames |
| Credential repository, `rust/crates/hyu-vpn-platform-*/src/storage.rs` | key file, sealed credentials | replace, load, present | two files that belong together, replaced one after the other |
| Connector session, `rust/crates/hyu-vpn-platform-*/src/process.rs`, `.../hyu-vpn-platform-macos/src/helper.rs` | child, prompt detector, events reported | answer prompts, report, stop, wait | prompts cut over reads and pipes, stop during a prompt, a child that does not end |
| Privileged helper, `macos/Sources/HYUVPNPrivilegedHelper/Core.swift` | session record, lock, child process | start, stop, repair, status | killed between any two steps; power lost; process numbers reused |
| Network wrapper, `.../NetworkWrapper.swift`, `NetworkLedger.swift` | ledger of the network as it was | runs the script, undoes it, repairs | routes and DNS changed by others meanwhile; cut off anywhere |
| Menu app, `macos/Sources/HYUVPNMenuCore`, `HYUVPNMenuApp` | the operation under way, waiting disconnect, launch connect | connect, disconnect, reset, quit | menus and forms kept open; quit during an operation; answers out of date |
| Credential transaction, `.../ControlTowerCore.swift` | originals, keys changed | apply, roll back | every step may fail, those of the rollback too |
| status file, readiness gate, routes, HIP report, user interfaces, installers | little or none | | see section 6 |

Interaction. A request (IPC) or a network event calls `apply_event`, which locks the
engine, lets it handle the event, and publishes the returned actions one by one: into the
status document, and into the action channel. `DaemonRuntime::run` takes actions from that
channel and gives them to the platform's executor, and takes the executor's events (tunnel
detected, connector exited, retry elapsed) from a second channel and applies them.
Sessions and timers are tasks of their own that only share the session map, a stop signal
and the event channel with the executor. On macOS the executor does not run the connector
itself: a session is a `sudo helper start`, which runs openconnect, which runs the wrapper;
helper and wrapper leave a record and a ledger on disk, and the service reconciles with
them (status, stop, repair) before each connection. The menu app, the GTK window and the
tray are clients of the IPC socket.

What makes each component correct:

- engine: one connector at a time; one nobody wants is told to stop; a wanted VPN with a
  network has a connector or a retry; backoff after every failure; what is published is
  true;
- control plane: the status agrees with the engine, and with itself at every moment; a
  request takes effect on the preference the user last set;
- services: no connection, stop, retry or preference is lost or carried out twice; turning
  the VPN off settles; on macOS a helper is only started when the last one is gone;
- network watch: no event from one stray sample; a steady network is published; a cooldown
  holds and ends;
- files: no code twice; the old or the new preference; credentials stay readable; a
  transaction is all or nothing;
- connector session: each prompt answered once with what it asked for; a stop ends it;
  nothing it started is left;
- helper and wrapper: whatever runs or was changed is on record before it can matter, and
  is undone in the end, wherever a process was cut off;
- menu app: one operation at a time; a disconnect is the last word; a request to quit is
  answered.

## 2. Modules

| Module | Stands for | Extends |
|---|---|---|
| `Supervisor` | what a supervisor promises: launched only while permitted, one at a time, stopped in the step that revokes the permission | |
| `Engine` | `Engine::handle`, an action per event and a helper per private function | |
| `ControlPlane` | `ControlPlane`: `actions` not yet published keep the mutex; the status fields; ReplaceCredentials in its three steps | `Engine` |
| `LinuxService` | `DaemonRuntime::run`, `LinuxActionExecutor`, `main`: queues, sessions, timers, preference, termination and restart | `ControlPlane` |
| `WindowsService` | the service control manager, `run_service`, the tasks, the pipe with one client at a time, the adapters, around the same executor | `LinuxService` |
| `MacService` | the same of macOS with `MacActionExecutor`, `run_start_child`'s cleanup, the reconciliation, `shutdown_sessions`, `run_service` | `Engine` |
| `NetworkTracker` | `run_network_watch` and `NetworkReadinessTracker` of Linux and Windows | |
| `MacNetworkTracker` | those of macOS: health probe and cooldown | `NetworkTracker` |
| `CounterGuard` | `CounterGuard::reserve` and `next_code`, several processes | |
| `Preference` | what the preference promises: a store takes effect at once or not at all | |
| `PreferenceFile` | `AutomaticPreference` call by call, Unix and Windows | |
| `CredentialRepository` | `replace`, `load` and `present` call by call | |
| `CredentialTransaction` | `CredentialTransaction` and its store, step by step | |
| `PromptSession` | `run_interactive_openconnect` of Linux and Windows, `run_start_child` of macOS | |
| `PrivilegedHelper` | the commands of the helper, the record, the lock, the process table | |
| `NetworkWrapper` | the wrapper, its script, the ledger, the repairs, and who else moves routes and DNS | |
| `MenuApp` | the coordinators, the delegate, the form, the client's queue | |
| `*Proofs` | theorems; `LinuxServiceProofs` also those of the control plane and of Windows, `StoresProofs` those of the four files, `NetworkTrackerProofs` those of both watches, `PrivilegedHelperProofs` those of the wrapper | the modules they are about |
| `MC...` | the instances TLC checks | |

How state and actions correspond.

- `Engine`: each variable is the field of the same meaning (`active` is
  `active_generation`, 0 is `None`); `actions` is the list the last `handle` returned;
  `stopRequested` is a history variable. Network identities are model values, because the
  engine only compares them. SleepResumed is handled by the code exactly as
  NetworkUnavailable, and so has no action of its own. Generations end at `MaxGeneration`,
  where no further connection is started; the u32 of the failure count saturates at
  `MaxFailures`. Return codes are 0 or 1 and run times 0 or 300 seconds, the two sides of
  each comparison.
- `ControlPlane`: one `PublishNext` per action, so other steps see the status between two
  actions, but no event is handled before the list is empty. The fields that are set and
  cleared together are one Boolean. One `ReplaceCredentials` is in progress at a time.
  Requests that only read are left out.
- `LinuxService`: `queue` and `events` are the two unbounded channels; `queue` leaves out
  the publications, which the executor ignores. A session is `running` from its insertion
  into the map, `ended` once it left the map, `none` once its exit was sent. A timer told
  to cancel becomes a *loose* timer until it notices: if it elapses at that very moment its
  `select!` may take either branch. A restart resets everything but the file; the
  connectors die with the service's control group (`packaging/linux/hyu-vpn.service`).
- `WindowsService`: the executor, its queues and its sessions are the actions of
  `LinuxService`, so every step is one of its steps or leaves its variables alone. `main` is
  where `run_service` has got to, `scm` what it last reported, `tasks` what it has spawned
  and not lost, `shutdown` the watch channel. The pipe is closed, listening, reading or
  handling: of the framing there is what it does to the pipe, one frame, one answer, or an
  end at any point. `adapter` is whose VPN adapter is up; ours all have one name.
  `active_vpn_interface` takes the first adapter that looks like one of a VPN, whoever owns
  it, so what it finds is ours, if one is up, or at any moment another product's. `noted`
  is its baseline of each session and then what the session reported; a session that
  noted our own name reports no tunnel until it finds another name.
- `MacService`: the helper is what its commands answer: stopped, running or in need of a
  repair, with `owner` the session whose `start` is its parent. The status document is
  left out, so an event and its actions are one step. `task` is the session's task, `child`
  the task that owns `sudo`, with the commands of its cleanup. `taken` is the map that
  `shutdown_sessions` took. A start is on record as soon as it is launched; the run time
  of a session is always 0, as in the code; an error of the client is exit code 1.
  The watch ends the round it is in beside `shutdown_sessions`, so the network may still
  change when no request comes in any more.
- `NetworkTracker`, `MacNetworkTracker`: the route and the portal are the environment and
  change at any step. A monitor that fails ends the round with nothing changed on Linux and
  Windows; on macOS it counts as no network (`lib.rs:962`), as a route that is gone for one
  sample does. On macOS time goes on in steps of five seconds between the rounds. `seen`, `unhealthy` and `lost`
  are history variables.
- `CounterGuard`, `PreferenceFile`, `CredentialRepository`: an action per call that can
  fail, or between which a process can die or another can run. A file is named by who wrote
  it and is whole or not; contents are left out. `past` and `crossed` are history: which
  replacements were over when one began, and whether two got in each other's way.
- `CredentialTransaction`: an operation of the store is one step (it holds a lock and
  replaces its document by a rename). Values are named by the transaction that wrote them.
- `PromptSession`: output is a sequence of pieces: the two halves of a line, those of a
  prompt and the blank after it; a read takes any number of them from one pipe. The pumps
  and their bounded channel only decide how far a read goes, and are left out.
- `PrivilegedHelper`: a command is a process with a program counter; `birth` tells a
  process from another one with the same number (the start time the code compares), and
  `user` is the console user a session was started for. Commands run at any time and beside
  each other; only a start takes a lock, the one of its user, and only after it has looked
  for a record. `stuck` are the ledgers no repair can retire (`NetworkWrapper` says which
  those are); `lost` and `resumed` record what the properties except. Checking who a
  process is and signalling it is one step.
- `NetworkWrapper`: two destinations and the four places a resolver is set; a value is
  the VPN's, the network's, the user's or none. The script is a process of its own that
  outlives a wrapper that is killed. `happened` records what the properties except.
- `MenuApp`: `app.gate` is the operation under way, `queue` what the client still has to
  send or to hand back. The work item of the launch retry and its flag agree, so they are
  one; so are `credentialTransactionRunning` and the gate's `credentialSave`. A request
  that timed out was carried out at once or never is. The alerts are left out.

## 3. Runs

| Run | Question | Answer |
|---|---|---|
| `MCEngineBackoff.cfg` | is every exit nobody asked for followed by a backoff? | no, see below |
| `MCControlPlane.cfg` | every event in any order, generations late or repeated: is the engine sound and a `Supervisor`, does the status fit it and itself, also between two actions? | yes |
| `MCControlPlaneReplace.cfg` | does ReplaceCredentials respect the preference? | no, see below |
| `MCLinuxService.cfg` | is anything lost or doubled between engine, queues, sessions, timers and file; do disconnects settle, backoffs and stops end, does a wanted VPN run? | nothing is; they do |
| `MCWindowsService.cfg` | is the Windows service a `LinuxService`, is the tunnel it reports its own, does a replacement respect the preference there, is a stop reported? | yes |
| `MCMacService.cfg` | the same on macOS, and: is the helper ever shared or started on top of another, is a clean exit clean? | it is not; it is |
| `MCNetworkTracker.cfg` | are events confirmed by two samples, is a steady network followed, does a cooldown hold, double and end? | yes |
| `MCNetworkWrapper.cfg` | is every change of the network in the ledger, never the VPN itself, undone in the end, and nothing of the user's with it? | yes, with the exceptions the properties name |
| `MCPrivilegedHelper.cfg` | is what runs on record, the evidence kept, the record retired, nobody else struck? | yes, with the exceptions the properties name |
| `MCMenuApp.cfg` | one operation at a time, is a disconnect carried out, a quit answered, a launch connect never against the user? | yes |
| `MCFiles.cfg` | is a code sent twice, a preference or credential lost, a transaction half done? | no, but for credentials whose replacements cross (`Crosses`) |
| `MCPromptSession.cfg` | is each prompt answered once and rightly, is a stop obeyed, is anything left running? | yes, with the exception `PromptAnswered` names |

Some checked properties are conjunctions of named parts, each with a comment of its own in
the module: `EngineSound`, `StatusSound`, `ServiceSound`, `NothingLost` and
`ServiceSettles`, `WindowsSound`, `MacSound`, `HelperIsAlone` and `MacSettles`,
`ConfirmedTwice`, `CooldownKept`, `NetworkFollowed`, `BaselineSound`, `HelperSound`,
`GateSound` and `QuitSound`, `PreferenceSound`, `RepositorySound`, `AllOrNothing`,
`AnswersSound` and `SessionGoesOn`.

Two runs put modules side by side. `MCNetworkTracker` takes one of the two watches at the
start of a behaviour; `MCFiles` one of the four stores. They share no variable, so a
behaviour is one of a single module, and the others stay where they began; the states add
up and do not multiply.

**Bounds.**

- `MCControlPlane`: two networks tell a change from a confirmation; eight generations are
  enough for five failures in a row, the point where the delay stops doubling, and for the
  counter to saturate at six. The two runs that look for a violation need no more than four
  generations.
- `MCLinuxService`: three inputs and two failures in any order; they start at most six
  connections and leave at most two loose timers, so neither `MaxGeneration` nor
  `MaxLooseTimers` ever holds a step back. The length of a backoff makes no difference
  here, so the failure count saturates at once.
- `MCWindowsService`: two inputs and one failure, stop or crash, on one network: what
  differs from Linux is around the executor. `StopAffordable` keeps a failure from spending
  what the stop that was asked for needs.
- `MCMacService`: three inputs (requests, networks, a shutdown) and two failures,
  deadlines, exits or crashes; one network, since a change is to the executor a stop and a
  start, which a reconnect gives as well. Two attempts of a reconciliation (four in the
  code) have a first, a last and a retry.
- `MCNetworkTracker`: two networks; a counter that saturates just past the two samples; the
  delay of a cooldown reaches its cap at the fifth loss in a row and the count of episodes
  saturates at the sixth.
- `MCNetworkWrapper`: three networks over two interfaces, so that the gateway or the
  interface changes; two disturbances, one of them at most a move of the network, the user
  or the machine: two faults cut off a session and then its repair.
- `MCPrivilegedHelper`: two users, two commands and two process numbers; of processes
  spawned, commands killed, operations that fail, losses of power, numbers taken by others
  and changes of the user, any three in any order (`MaxEvents`): two sessions, one after the
  other or one while a command is still at work on the other, and one mishap; or one session
  and two. That is where every exception of the properties first occurs.
- `MCMenuApp`: five inputs: a menu kept open over the launch, a form kept open over a
  retry, a second wish, a quit and a quit repeated; three attempts of the launch connect
  (30 in the code).
- `MCFiles`: three interchangeable processes over three steps of the clock; four stores
  and three faults (a crash that leaves a temporary file, a cleanup that fails, and a store
  after each); three replacements, beside or after each other, one load and one fault; two
  transactions and four faults (a step that fails and all of the rollback). Two
  replacements that overlap put one key over another, three share a temporary file.
- `MCPromptSession`: three lines or prompts, two answers on macOS: a prompt with output of
  both pipes around it, two prompts in a row, and one more than macOS allows.

Where inputs and failures are used up the system may be at rest, so those runs do not
check for deadlock; their liveness properties show that nothing is owed at rest. The
control plane and the watch never stop, and are checked for deadlock.

**Fairness** is assumed only of the program's own tasks and of commands with a timeout,
never of users, networks, tunnels or failures.

- `LinuxService`: `DaemonRuntime::run` selects at random between its queues, so both are
  served; the thread in `publish_actions` goes on; timers elapse; a session told to stop
  ends, because its connector is killed five seconds after it was asked to go, and then
  reports; a terminating process ends. Weak fairness of `HandleEvent` is enough because
  the inputs are bounded; with a request at every moment the mutex would have to be fair.
- `WindowsService`: the main thread goes on; nothing is assumed of tasks, clients and
  sessions, since `StopIsReported` is to hold without them.
- `MacService`: tasks take their turns, the commands of the helper end (each has its
  timeout), a cancelled child is killed, an orphaned helper notices its closed input.
- The watches go on round after round and the monitor does not fail for ever; on macOS time
  passes between the rounds (strong, since a round may be under way whenever it could).
- `NetworkWrapper`: a wrapper goes on, a script ends or is timed out, and the helper
  repairs again after a repair that failed, as each start of the service makes it.
- `PrivilegedHelper`: a command that runs takes its next step, a killed process ends, and
  the user at the console goes on asking for a stop when the status says running and for a
  repair when it says repair-required, as the service does at its start.
- `MenuApp`: the client goes through its queue, completions are handled.
- `PromptSession`: the task goes on; `select!` is random, so a branch that is ready again
  and again is taken (strong); time passes; a child that waits for an answer reads it.

**Findings.**

1. `UnrequestedExitBacksOff` fails. `connector_exited` returns for a missing network
   before it takes `reconnect_immediately_after_stop` (`state.rs:303-306`). Reconnect,
   network lost, exit: the flag survives. The network returns, a new connection starts,
   and when that one ends by itself it is restarted at once. `README.md:42` promises a
   limited backoff after an exit of the VPN process.
2. `ReplacementHonoursPreference` fails. `ReplaceCredentials` reads
   `automatic_reconnect_enabled` and then applies `ReconnectRequested`, which turns
   it on (`runtime.rs:371-373`); a Disconnect between the two is undone. On Windows the pipe serves one
   client at a time and it holds (`WindowsReplacement`).

## 4. What the properties leave out

Behaviour met while modelling that no promise of the repository forbids, and that a
property therefore states as its exception, or the model leaves out.

- Engine: a late `ConnectorConnected` may be published over Disconnecting, so
  `TruthfulState` says nothing of Connected. An error leaves the engine in the state it
  had, and only an error does (`ParkedOnlyByError`).
- Preference: the result of a store is thrown away, so `PreferenceStored` excludes the time
  after one that failed. Windows removes the old file before it renames the new one
  (`hyu-vpn-windows-service/src/lib.rs:104`): a crash in between turns off into on, and
  `Preference` is *forgetful* there.
- Windows service: the tunnel is the first adapter that is up and looks like a VPN's
  (`hyu-vpn-platform-windows/src/network.rs:157`), compared with the one before the session.
  Another VPN product's that comes up while we connect is reported as our tunnel
  (`runtime.rs:143`), and one that goes down may uncover our own of the session before;
  `ReportsOwnTunnel` excepts both. A session that began while our own adapter was up never
  reports its tunnel as long as no other is found, although it may run: the status stays at
  Connecting (`runtime.rs:125`). `run_daemon`
  tells the sessions to stop and waits for the daemon, the watch and the pipe, but for no
  session (`runtime.rs:273`): the process may end, and its job objects kill a connector in
  the middle of its teardown, before the Ctrl-C that `process.rs:302` has a console for
  has had its effect.
- macOS service: a cleanup that is abandoned at its deadline goes on beside the next start
  (`AloneAtLaunch`); a shutdown while `start_connection` reconciles leaves that session
  behind (`CleanExitJoined`, `lib.rs:678`).
- macOS watch: a cooldown that ended during an outage leaves its count to the next network
  (`lib.rs:853`); one sample of another network cancels a cooldown.
- Credentials: on Linux and macOS the connections of two clients are served side by side,
  and nothing locks `replace`. Of two that find no key both may make one, be acknowledged,
  and leave credentials sealed with the key that was lost (`storage.rs:62`); of three that
  share the name of the temporary file, which only depends on the process, one may rename
  that of another before it is written. These two ways and no other (`Crosses`) are excepted
  by `StaysReadable`, `AckIsKept` and `LoadsOldOrNew`; on Windows, which serves its pipe one
  client after another, they do not occur. A crash between the key and the
  credentials reads as corrupt until the next replacement.
- Credential transaction: one that is killed leaves a mixture; nothing but tests uses it
  (the factory that wires it is unused, the app sends credentials to the service).
- Connector session: the log of openconnect is assumed to hold no prompt word followed by a
  colon. On macOS both pipes share one tail and one line, so output of one may hide a
  prompt on the other: the deadline ends such a session before both events were reported,
  afterwards nothing does (`PromptAnswered`). On Linux a TERM that is obeyed, or an error,
  may leave the scripts of openconnect running (`TreeIsGone`).
- Privileged helper: commands overlap, because the client kills `sudo` after five seconds
  (two for a status) while `terminateVerified` may need seven. Stop and repair take no lock
  and remove whatever record there is (`Core.swift:1118`, `:1144`); a start looks for a
  record before it takes its lock (`:1024`), and the lock is one per user where the record is
  one for all. In these ways (`Lost`) a session may lose its record to another, and
  `RunningIsOnRecord` and `EvidenceIsKept` except it. A helper killed between the spawn
  and the save leaves a suspended process; `abortSpawn` resumes the process it is about to
  kill and asks nobody whose group that is (`:663`). `RecordIsRetired` excepts the records
  nobody can retire: one whose ledger the wrapper refuses for good, and a live one with a
  dirty ledger (`:1182`) or of a user who is not at the console (`:1151`), which the status
  calls to be repaired, and which repair refuses because it lives (`:1141`).
- Network wrapper: a wrapper killed after the script changed DNS and before that was
  recorded leaves a ledger no repair can retire (*unrecorded*); a script that outlives its
  wrapper may change the network after the repair (*orphan*, `NetworkWrapper.swift:101`);
  after a reconnect the baseline of a route may be the VPN's own (*reconnect*, `:779`); a
  route of the user that appears while the script runs is taken for the script's, and then
  any later one of his over the same gateway too: `deleteRoute` names the gateway and not
  the interface (`:248`), so `RepairSparesOthers` compares gateways.
- Menu app: credentials typed while another operation is under way are dropped;
  `credentialResetRequested` forgets a waiting disconnect (`ControlTowerCore.swift:217`,
  *refused*); a quit during a replacement of credentials ends the app without a disconnect.

## 5. Proofs

Every theorem is for all values of the constants; the assumptions are those the modules
declare on their constants (`EngineAssumption` and the like: bounds are natural numbers, a
sentinel is not a member of its set) and no others. Eight modules hold theorems.

**`EngineProofs`**: all parts of `EngineSound`, `ParkedOnlyByError`, and that the engine
implements `Supervisor`. None of the invariants is inductive alone: that `retry_elapsed`
never starts a second connector (`RetryIffBackoff`) needs that a pending retry means
Backoff, and Backoff a pending retry; that `NetworkUnavailable` may return early when it is
already WaitingForNetwork needs `TruthfulState` and `UnwantedIsStopping`, the connector was
told to stop when the state was published; the latter needs `ActiveWasStarted`, only an
active generation can have been told. `EngineInv` is their conjunction with the types.
There is one lemma per event, and in it one step per conjunct. `NeverIdleWhileWanted`
follows from the invariant. For the refinement `SupervisorStep` sorts the disjuncts of
`Next` by what they do to the active generation (kept, launched, relaunched, halted,
finished) and maps each to an action of `Supervisor` or a stutter, with
`permitted <- automatic and a network`, `phase <- idle, running or stopping`.

**`LinuxServiceProofs`**, first the control plane: the engine keeps `EngineSound` behind
the mutex, implements `Supervisor` and is parked only by an error, and `StatusSound` holds:
`StatusFollowsEngine` and `StatusConsistent`. The second is about moments when the status
does *not* agree with the engine: the list of actions is half published.
`ControlInv` therefore says what is still owed: `ActionsAreCurrent`, what is left to
publish is about the engine as it is, and a retry is scheduled directly after the
publication of Backoff; and `DifferencesAreOwed`, where a field of the status differs from
the engine an action that mends it is still in the list. A lemma for each shape of list an
event may return shows that the event leaves its duty in the list; `PublishStep` that
taking the first action keeps it. With the list empty nothing is owed.

Then the service around it: `NothingLost` (`GenerationAccounted` and `PreferenceStored`) and `ServiceSound`,
for any networks, inputs and failures, across exits and restarts. The hazard is order: between
the engine and the executor lie two queues, and an action the executor has not reached is
about an engine that has moved on. `Pending` is therefore one queue, what is to be
published behind what is in the channel, and the invariant says what is in it and what has
to come after what: `OnlyActive`, a start in it is of the active generation;
`OneTrace`, of a generation there is one trace only, its start, its session or its exit;
`StopFollows`, a start or a session that must end has its stop behind it; `RetryFollows`
and `PreferenceFollows`, what is armed and stored is what the last action in the queue, or
without one the engine, says. The engine is looked at through `ControlInv`; one lemma per
event says what it may add to the queue, and lemmas on `In`, `AtMostOne` and `Followed`
(in `EngineProofs`, for both services) carry the order over concatenation and removal.

Last the Windows service: that it implements `LinuxService` (`WindowsStepIsLinux`, step by
step), and with it has `LinuxInv` at every moment; on top of that `WindowsSound`,
`ReplacementHonoursPreference` and `ReportsOwnTunnel`. `WindowsInv` adds `OwnAdapter`, a
session that runs and noted no adapter when it began has none of ours in sight but its own; and
`PreferenceTold`, the status tells the preference unless a request of the user is at work on
it, which none is while the pipe handles a replacement, so what the handler read is still
so when it reconnects.

**`MacServiceProofs`**: `MacSound`, `HelperIsAlone` and `CleanExitJoined`, for any number of
attempts, inputs and failures, across crashes and restarts. Nothing is published one action
at a time here, so the engine is looked at through `EngineInv` alone, and the queue is the
action channel. `OneTrace` has four places instead of three: a start may be ordered, under
way, a session, or over and told. `StopFollows` has to say of each where its stop is: behind
the start in the queue, in the queue while the start is under way, the signal or the queue
once there is a session. Of the helper, `HelperReady` says that from the end of the
reconciliation to the launch of the session it is *stopped*. That nothing undoes this in
between needs that nobody else is at work on it: `ChildrenHaveTasks`, a child of a session
has that session's task, which is over or abandoned when the next start begins
(`FreshTasks`, `OneTrace`); and `Settled`, no command of an abandoned cleanup ever makes
anything run. `SessionsHeld` accounts for the shutdown: a session that has not told its end
is in the map or was taken from it. A repair of an abandoned cleanup may still meet the
start, which is why `AloneAtLaunch` excepts it.

**`NetworkTrackerProofs`**: `ConfirmedTwice` for any networks and samples, on Linux and
Windows and, with its probes of the tunnel, on macOS; and `CooldownKept` there. `TrackerInv`
adds to the types `CandidateWasSeen`: the count of stable samples is backed by the rounds in
`seen`. `MacInv` adds `FailureSeen`, the first of two failed probes is remembered while its
network is published; `Barred`, while a cooldown runs no sample counts; and `LossFollowed`,
the barred network and its delay are those of the last loss and what is left of the
cooldown with what has passed makes the delay. That a cooldown ends exactly at zero needs
that it is a multiple of the step.

**`StoresProofs`**: the four small stores.

- `CounterGuard`: `UsedOnce` for any number of processes and any clock. `GuardInv` adds: who
  is between lock and return holds the lock, so what it read is still in the file; who has
  won a counter is alone with it, has not used it, and the file is at or past it; a used
  counter is at or below the file's. Winning therefore needs a counter above all that were
  ever won.
- `PreferenceFile`: `PreferenceSound`, and that the file implements `Preference`, for any
  number of stores, failures and crashes. `FileInv` adds what a refusal leaves
  (`RefusedOnce`) and that what a load would return is among the choices the store has
  (`LoadInChoice`, `Chosen`).
- `CredentialRepository`: `RepositorySound` and `StaysReadable` for any number of
  replacements, however they overlap. `Histories` says what holds of a request whatever the
  others do: the temporary file it writes has its own name on it, or of nobody, or of one
  that was not over when it began, so a request that renames one without crossing renames
  its own. While none have crossed, `Orderly` adds that a key is put only where there is
  none, that who has sealed its credentials did so with the key in place, and that who has
  stored them finds its own or those of one that was not over when it began; so what is in
  place is whole and belongs together (`InPlace`), and a load under way knows the key
  (`ReaderKnows`). `OthersStay` proves once what a step of one request leaves of all others.
- `CredentialTransaction`: `AllOrNothing` for any number of transactions and failures.
  `TransactionInv` says per stage what was read and written: while keys are read nothing is
  written; the keys written are a prefix of the order, and `changed` is that prefix
  reversed; from the first write on the originals are known; during the rollback only keys
  still in `changed`, or that failed, differ from before.

**`MenuAppProofs`**: `GateSound`, `DisconnectCarriedOut`, `OperationIsShown`,
`NoUnaskedConnect` and the safety half of `QuitSound` (`QuitDisconnects`). `MenuInv` says
how the flags of the coordinators fit together (`FlagsAgree`), that the queue holds the
operation of the gate and the lookup of the refresh and nothing else, in either order
(`Holds`), and what the history has to do with both.

**`PromptSessionProofs`**: `AnswersSound` and `TreeIsGone`, for sessions of any length and
any cut of the output into reads. `SessionInv` follows the one prompt the child waits at:
before it is found it is the end of what was heard and what is still in the pipe, with no
part of another before it; on macOS, where both pipes share one detector, it is whole in
its pipe, or its first half was heard, or it is hidden by other output and never found.
With the prompt answered there is none in the output, so nothing is answered twice.

**`PrivilegedHelperProofs`**: `HelperSound` and `EvidenceIsKept` for any number of users,
commands, process numbers, sessions and faults, with no assumption on who runs what beside
what. `RunningIsOnRecord` is not inductive: a start that commits must know that its record
is still there or was taken, a stop that removes it that the process is gone for good
although its number is taken again. `HelperInv` adds what makes that so. `StartsLocked`: a
start that got its lock holds it to its end, so there is one of each user.
`SessionsPaired`: a session is known by the birth of its process, however many commands work
on it. `ChildrenKept`: the child of a start that waits is that start's until it has
asked for it. `CommandsKnow`: what a command has learned of its session stays true
whatever the others do, from the wait on the session does not live, from the verification
on its ledger is retired, and a process that never ran, or only to be killed, has changed
no network. Most steps bring no process to life and add no ledger; `StepKeeps` proves the
invariant for all of those at once.

Then the network wrapper: `BaselineSound`, `ChangesAreRecorded` and `RepairSparesOthers`, for
any networks and any number of moves and faults. The argument goes by what the ledger
knows. `NothingBefore`: as long as it has no routes, the script has not run, and nothing of
the VPN is there; so a baseline taken now is not the VPN's. From the intent on every route
has a record, and the script may do as it likes. `Removable`: a wrapper about to remove the
ledger has seen that nothing is left, which is true of every one of the ways to get there
(`RestoredIsClean`, `StaleIsClean`, `RetiredIsClean`) because the baseline it compares with
is not the VPN's (`BaselineIsNotVpn`, `HostBefore`), no other service was touched
(`SamePlace`), and the running resolver has the VPN's values only with the tunnel's key
(`DynamicKeyed`, which is what lets a stale ledger go without comparing them). `PlanFits`: a
route to delete is in the ledger, and one of the user's only if the ledger took it for the
script's. `SystemMoves` covers the network, the user and the script at once: whatever they
do, something of the VPN comes only while a wrapper with all routes in the ledger waits for
its script.

Only model-checked: all liveness properties, with the halves of `QuitSound` and the like that
are liveness: fairness and ENABLED are out of the prover's reach, as are induction over data and RECURSIVE operators, which the modules
therefore do without (`Effective` filters a list of at most four actions without SelectSeq).

## 6. Not modelled

- Time, except in the macOS watch: timers and deadlines fire in any order, so no other
  property speaks of seconds except the delay the engine asks for.
- A loss of power that takes back a rename (the files are synced, their directories are
  not).
- The contents of codes, credentials, ledgers and reports; parsing of routes, plists,
  process tables and answers of system tools; checks of owner and mode.
- IPC: lengths, serialisation and parsing of frames. The owner socket of Linux and macOS:
  its connections are tasks side by side, so the modules take requests in any order; its
  peer check only refuses.
- Status file: one atomic replacement a second by one task, read by nobody here.
- Readiness gate: used by tests only.
- HIP report: a program that prints a report once.
- User interfaces of Linux and Windows: they show the status and send requests.
- Login item, update check and presentation of the menu app; installers and scripts.

What could come next: the owner socket, with the deadline that may cut a replacement off
between its steps; `PrivilegedHelper` as the refined form of the helper in `MacService`.
