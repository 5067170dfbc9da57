--------------------------- MODULE PrivilegedHelper ---------------------------
(*****************************************************************************)
(* The macOS privileged helper                                               *)
(* (macos/Sources/HYUVPNPrivilegedHelper/Core.swift): the commands start,    *)
(* stop, repair and status, each a process of its own, that meet only in the *)
(* session record on disk, in file locks, one per user, that start alone     *)
(* takes, in the process table and in the ledger of the session              *)
(* (NetworkWrapper).  They are run at any time and beside each other.        *)
(*                                                                           *)
(* start stays for as long as openconnect runs, and is its parent.  Any      *)
(* command may be killed between two of its steps, the machine may lose its  *)
(* power, and the system gives the number of a process that is gone to       *)
(* another.  Checking who a process is and signalling it is one step here:   *)
(* the few instructions between the two are not modelled.                    *)
(*****************************************************************************)
EXTENDS Integers

CONSTANTS
  Users,         (* who may be at the console ...                               *)
  FirstUser,     (* ... and who is there first                                  *)
  Cmds,          (* the processes of the helper                                 *)
  Pids,          (* process numbers                                             *)
  MaxEvents      (* bound: openconnect processes ever spawned, commands killed, *)
                 (* operations that fail, power lost, numbers taken by others,  *)
                 (* users that come to the console: all together                *)

NoCmd == "nobody"

ASSUME HelperAssumption == FirstUser \in Users /\ NoCmd \notin Cmds /\ MaxEvents \in Nat

VARIABLES
  console,    (* the user at the console                                         *)
  record,     (* session.json: the session it names                              *)
  lock,       (* who holds the lock of each user                                 *)
  procs,      (* the process table: who has each number                          *)
  ledgers,    (* the sessions whose ledger is not retired ...                    *)
  dirty,      (* ... those of them whose ledger asks for a repair ...            *)
  stuck,      (* ... and those of them that no repair can retire                 *)
  cmd,        (* what each command is doing                                      *)
  births,     (* the openconnect processes spawned so far                        *)
  events,     (* the other events of the bound                                   *)
  resumed,    (* history: sessions a start resumed only to kill them             *)
  struck,     (* history: whether terminateVerified signalled somebody else's process *)
  lost        (* history: sessions whose record another's command took (Lost)     *)

networkVars == <<ledgers, dirty, stuck>>
traces == <<resumed, struck, lost>>
vars == <<console, record, lock, procs, networkVars, cmd, births, events, traces>>

NoRecord == [birth |-> 0]
Free == [state |-> "free"]
Idle == [pc |-> "idle"]
Stranger == [state |-> "other"]

\* One session: the number of its process, when that process was born, and whose it is.
Session(pid, user) == [pid |-> pid, birth |-> births + 1, user |-> user]

Alive(p) == procs[p].state \in {"suspended", "running"}
IsChildOf(p, c) == procs[p].state \in {"suspended", "running", "zombie"} /\ procs[p].parent = c

\* liveMatches, of liveIdentity: a zombie has no executable and a reused number
\* another time of birth.
Live(session) == Alive(session.pid) /\ procs[session.pid].birth = session.birth

\* validateLive, of a command begun now: a session that lives, and is of the user who is
\* at the console.  Who that is a command asks once, when it begins.
ValidLive(session) == Live(session) /\ session.user = console

\* status: the document it prints.  To name the tunnel it reads the ledger of the
\* session, and a ledger that asks for a repair is an error like any other.
StatusReport == IF record = NoRecord THEN "stopped"
                ELSE IF ValidLive(record) /\ record.birth \notin dirty THEN "running"
                ELSE "repair-required"

Goto(c, pc) == cmd' = [cmd EXCEPT ![c].pc = pc]
End(c) == cmd' = [cmd EXCEPT ![c] = Idle]
Release(c) == lock' = [u \in Users |-> IF lock[u] = c THEN NoCmd ELSE lock[u]]
At(c, kinds, pc) == cmd[c].pc = pc /\ cmd[c].kind \in kinds
Room == births + events < MaxEvents
Event == Room /\ events' = events + 1

\* The session on record when c overwrites or removes the record of another: the record of
\* a session whose own start is there is safe from the other starts of its user, which the
\* lock keeps out, but not from a stop or a repair of a session before, nor from the start
\* of another user; and with its own start gone not from one that looked before the save.
Attended(s) ==
  \E c \in Cmds : cmd[c].pc \notin {"idle", "lock", "spawn"} /\ cmd[c].kind = "start"
                 /\ cmd[c].session = s

Lost(c) ==
  {b \in {record.birth} :
     /\ record \notin {NoRecord, cmd[c].session}
     /\ cmd[c].kind = "start" => record.user # cmd[c].session.user \/ ~Attended(record)}

Init ==
  /\ console = FirstUser
  /\ record = NoRecord /\ lock = [u \in Users |-> NoCmd]
  /\ ledgers = {} /\ dirty = {} /\ stuck = {}
  /\ procs = [p \in Pids |-> Free]
  /\ cmd = [c \in Cmds |-> Idle]
  /\ births = 0 /\ events = 0
  /\ resumed = {} /\ struck = FALSE /\ lost = {}

-----------------------------------------------------------------------------
(* The process table.                                                       *)

\* A signal to a process group, whoever has the number; TERM waits for a process that is
\* suspended.
Signal(p, signal) ==
  procs' = IF Alive(p) THEN [procs EXCEPT ![p].signal = signal]
           ELSE IF procs[p].state = "other" /\ signal = "kill" THEN [procs EXCEPT ![p] = Free]
           ELSE procs

\* What is left of a process that ends: a zombie until its parent has asked for
\* it; the system buries at once what has no parent.
Remains(p) ==
  IF procs[p].parent \in Cmds THEN [procs[p] EXCEPT !.state = "zombie", !.signal = "none"]
  ELSE Free

\* The processes once c is gone; the system buries the zombies it inherits.
Orphaned(c) ==
  [p \in Pids |-> IF ~IsChildOf(p, c) THEN procs[p]
                 ELSE IF procs[p].state = "zombie" THEN Free
                 ELSE [procs[p] EXCEPT !.parent = NoCmd]]

\* openconnect brings its network up through the wrapper.
Connect(p) ==
  /\ procs[p].state = "running"
  /\ procs[p].birth \notin ledgers
  /\ ledgers' = ledgers \union {procs[p].birth}
  /\ UNCHANGED <<console, record, lock, procs, dirty, stuck, cmd, births, events, traces>>

\* A reconnect of openconnect whose wrapper fails; openconnect goes on.
ReconnectFails(p) ==
  /\ procs[p].state = "running" /\ procs[p].birth \in ledgers \ dirty /\ Event
  /\ dirty' = dirty \union {procs[p].birth}
  /\ UNCHANGED <<console, record, lock, procs, ledgers, stuck, cmd, births, traces>>

\* openconnect ends, of itself or because it was told to.  The wrapper takes the
\* network down and retires the ledger, or it fails; a killed one does not run.
Exit(p) ==
  /\ \/ procs[p].state = "running"
     \/ procs[p].state = "suspended" /\ procs[p].signal = "kill"
  /\ procs' = [procs EXCEPT ![p] = Remains(p)]
  /\ \/ procs[p].signal # "kill" /\ ledgers' = ledgers \ {procs[p].birth}
     \/ procs[p].birth \in ledgers /\ UNCHANGED ledgers
     \/ procs[p].signal = "kill" /\ UNCHANGED ledgers
  /\ dirty' = dirty \intersect ledgers'
  /\ UNCHANGED <<console, record, lock, stuck, cmd, births, events, traces>>

\* Somebody else's process takes a number that is free.
Reuse(p) ==
  /\ procs[p] = Free /\ Event
  /\ procs' = [procs EXCEPT ![p] = Stranger]
  /\ UNCHANGED <<console, record, lock, networkVars, cmd, births, traces>>

Kernel(p) == Connect(p) \/ ReconnectFails(p) \/ Exit(p) \/ Reuse(p)

-----------------------------------------------------------------------------
(* Steps the commands share: waiting for the end of the process, the proof that *)
(* its network is down, and the removal of the record.                         *)

\* waitForExit: the parent buries its child; anybody else waits until nobody has
\* the number.
Ended(c) ==
  LET p == cmd[c].session.pid IN
  procs[p].state = "free" \/ (procs[p].state = "zombie" /\ IsChildOf(p, c))

Bury(c) ==
  LET p == cmd[c].session.pid IN
  procs' = IF procs[p].state = "zombie" THEN [procs EXCEPT ![p] = Free] ELSE procs

\* A wait for a killed process that takes too long: the process hangs, or the
\* number is somebody else's.
Hangs(session) == IF Live(session) THEN Event ELSE UNCHANGED events

Failed(c, next) == IF cmd[c].kind = "start" THEN Goto(c, next) ELSE End(c)

\* One that is meant for the session's own processes.
SignalOwn(c, signal) ==
  LET s == cmd[c].session
  IN  /\ Signal(s.pid, signal)
      /\ struck' = (struck \/ procs[s.pid].state = "other"
                           \/ (procs[s.pid] # Free /\ procs[s.pid].birth # s.birth))

\* terminateVerified, first half: TERM to a group that is still the session's, whose user
\* was at the console when the command began (StopLoad, and always in a start).  A start
\* that finds another, or a process already gone, tries to abort it; in its last attempt,
\* and in a stop, that is an error.
Terminate(c) ==
  /\ cmd[c].pc = "terminate"
  /\ IF Live(cmd[c].session)
     THEN SignalOwn(c, "term") /\ Goto(c, "terminated")
     ELSE /\ Failed(c, IF cmd[c].last THEN "giveUp" ELSE "abort")
          /\ UNCHANGED <<procs, struck>>
  /\ UNCHANGED <<console, record, lock, networkVars, births, events, resumed, lost>>

Defect_TermTimeout(c) ==
  /\ cmd[c].pc = "terminated" /\ ~Ended(c)
  /\ SignalOwn(c, "term") /\ Goto(c, "terminated")
  /\ UNCHANGED <<console, record, lock, networkVars, births, events, resumed, lost>>

\* The second half, after five seconds: KILL, to a group checked once more.
TermTimeout(c) ==
  /\ cmd[c].pc = "terminated" /\ ~Ended(c)
  /\ IF Live(cmd[c].session)
     THEN SignalOwn(c, "kill") /\ Goto(c, "killed")
     ELSE /\ Failed(c, IF cmd[c].last THEN "giveUp" ELSE "abort")
          /\ UNCHANGED <<procs, struck>>
  /\ UNCHANGED <<console, record, lock, networkVars, births, events, resumed, lost>>

KillTimeout(c) ==
  /\ cmd[c].pc = "killed" /\ ~Ended(c) /\ Hangs(cmd[c].session)
  /\ Failed(c, IF cmd[c].last THEN "giveUp" ELSE "abort")
  /\ UNCHANGED <<console, record, lock, procs, networkVars, births, traces>>

WaitForExit(c) ==
  /\ cmd[c].pc \in {"terminated", "killed"} /\ Ended(c)
  /\ Bury(c) /\ Goto(c, "verify")
  /\ UNCHANGED <<console, record, lock, networkVars, births, events, traces>>

Defect_VerifyTeardownComplete(c) ==
  /\ cmd[c].pc = "verify" /\ Goto(c, "remove")
  /\ UNCHANGED <<console, record, lock, procs, networkVars, births, events, traces>>

\* verifyTeardownComplete: the session's ledger is gone.  If not, the record has
\* to stay; a start tries once more to be rid of the process.
VerifyTeardownComplete(c) ==
  /\ cmd[c].pc = "verify"
  /\ IF cmd[c].session.birth \notin ledgers THEN Goto(c, "remove")
     ELSE Failed(c, IF cmd[c].last THEN "giveUp" ELSE "abort")
  /\ UNCHANGED <<console, record, lock, procs, networkVars, births, events, traces>>

\* store.remove, lock.release: whatever record is there; only a start holds the lock.
RemoveRecord(c) ==
  /\ cmd[c].pc = "remove"
  /\ record' = NoRecord /\ lost' = lost \union Lost(c)
  /\ Release(c) /\ End(c)
  /\ UNCHANGED <<console, procs, networkVars, births, events, resumed, struck>>

-----------------------------------------------------------------------------
(* start.                                                                   *)

\* The user at the console runs a start, whatever else is running.  The record is looked up
\* before the lock is taken.
StartCheck(c) ==
  /\ cmd[c] = Idle /\ Room
  /\ record = NoRecord
  /\ cmd' = [cmd EXCEPT ![c] = [pc |-> "lock", kind |-> "start", last |-> FALSE,
                                user |-> console]]
  /\ UNCHANGED <<console, record, lock, procs, networkVars, births, events, traces>>

Acquire(c) ==
  /\ At(c, {"start"}, "lock")
  /\ IF lock[cmd[c].user] = NoCmd
     THEN lock' = [lock EXCEPT ![cmd[c].user] = c] /\ Goto(c, "spawn")
     ELSE End(c) /\ UNCHANGED lock
  /\ UNCHANGED <<console, record, procs, networkVars, births, events, traces>>

Defect_PrepareSpawn(c) ==
  /\ At(c, {"start"}, "spawn") /\ Room
  /\ \E p \in Pids :
       /\ procs[p] = Free
       /\ procs' = [procs EXCEPT ![p] = [state |-> "running", birth |-> births + 1,
                                         parent |-> c, signal |-> "none"]]
       /\ cmd' = [cmd EXCEPT ![c] = [pc |-> "save", kind |-> "start", last |-> FALSE,
                                     session |-> Session(p, cmd[c].user), committed |-> FALSE]]
  /\ births' = births + 1
  /\ UNCHANGED <<console, record, lock, networkVars, events, traces>>

\* prepareSpawn: openconnect, suspended before its first instruction.
PrepareSpawn(c) ==
  /\ At(c, {"start"}, "spawn") /\ Room
  /\ \E p \in Pids :
       /\ procs[p] = Free
       /\ procs' = [procs EXCEPT ![p] = [state |-> "suspended", birth |-> births + 1,
                                         parent |-> c, signal |-> "none"]]
       /\ cmd' = [cmd EXCEPT ![c] = [pc |-> "save", kind |-> "start", last |-> FALSE,
                                     session |-> Session(p, cmd[c].user), committed |-> FALSE]]
  /\ births' = births + 1
  /\ UNCHANGED <<console, record, lock, networkVars, events, traces>>

SpawnFails(c) ==
  /\ At(c, {"start"}, "spawn")
  /\ IF Room /\ \E p \in Pids : procs[p] = Free THEN Event ELSE UNCHANGED events
  /\ Release(c) /\ End(c)
  /\ UNCHANGED <<console, record, procs, networkVars, births, traces>>

SaveRecord(c) ==
  /\ At(c, {"start"}, "save")
  /\ record' = cmd[c].session /\ lost' = lost \union Lost(c)
  /\ Goto(c, "commit")
  /\ UNCHANGED <<console, lock, procs, networkVars, births, events, resumed, struck>>

SaveFails(c) ==
  /\ At(c, {"start"}, "save") /\ Event
  /\ Goto(c, "abort")
  /\ UNCHANGED <<console, record, lock, procs, networkVars, births, traces>>

\* commitSpawn: only now may openconnect run.
CommitSpawn(c) ==
  /\ At(c, {"start"}, "commit")
  /\ LET p == cmd[c].session.pid IN
     procs' = IF procs[p].state = "suspended" THEN [procs EXCEPT ![p].state = "running"]
              ELSE procs
  /\ cmd' = [cmd EXCEPT ![c].pc = "monitor", ![c].committed = TRUE]
  /\ UNCHANGED <<console, record, lock, networkVars, births, events, traces>>

\* monitorForeground: the child ended ...
ChildExited(c) ==
  /\ At(c, {"start"}, "monitor") /\ procs[cmd[c].session.pid].state = "zombie"
  /\ Bury(c) /\ Goto(c, "verify")
  /\ UNCHANGED <<console, record, lock, networkVars, births, events, traces>>

\* ... or the caller closed the channel, sent a signal, or is gone.
ChannelLost(c) ==
  /\ At(c, {"start"}, "monitor")
  /\ Goto(c, "terminate")
  /\ UNCHANGED <<console, record, lock, procs, networkVars, births, events, traces>>

\* abortSpawn, first half: it resumes the process, whoever has the number.
AbortResume(c) ==
  /\ At(c, {"start"}, "abort")
  /\ LET p == cmd[c].session.pid IN
     /\ procs' = IF procs[p].state = "suspended" THEN [procs EXCEPT ![p].state = "running"]
                 ELSE procs
     /\ resumed' = IF procs[p].state = "suspended" THEN resumed \union {procs[p].birth}
                   ELSE resumed
  /\ Goto(c, "abortKill")
  /\ UNCHANGED <<console, record, lock, networkVars, births, events, struck, lost>>

\* The second half: it kills the group that has the number.
AbortKill(c) ==
  /\ At(c, {"start"}, "abortKill")
  /\ Signal(cmd[c].session.pid, "kill")
  /\ Goto(c, "aborted")
  /\ UNCHANGED <<console, record, lock, networkVars, births, events, traces>>

\* A start that never let openconnect run has no network to verify.
Aborted(c) ==
  /\ At(c, {"start"}, "aborted") /\ Ended(c)
  /\ Bury(c)
  /\ IF ~cmd[c].committed \/ cmd[c].session.birth \notin ledgers THEN Goto(c, "remove")
     ELSE cmd' = [cmd EXCEPT ![c].pc = "terminate", ![c].last = TRUE]
  /\ UNCHANGED <<console, record, lock, networkVars, births, events, traces>>

AbortTimeout(c) ==
  /\ At(c, {"start"}, "aborted") /\ ~Ended(c) /\ Hangs(cmd[c].session)
  /\ cmd' = [cmd EXCEPT ![c].pc = "terminate", ![c].last = TRUE]
  /\ UNCHANGED <<console, record, lock, procs, networkVars, births, traces>>

\* The teardown was not proven: the record stays, for a stop or a repair.
GiveUp(c) ==
  /\ At(c, {"start"}, "giveUp")
  /\ procs' = Orphaned(c)
  /\ Release(c) /\ End(c)
  /\ UNCHANGED <<console, record, networkVars, births, events, traces>>

Start(c) ==
  \/ StartCheck(c) \/ Acquire(c) \/ PrepareSpawn(c) \/ SpawnFails(c) \/ SaveRecord(c)
  \/ SaveFails(c) \/ CommitSpawn(c) \/ ChildExited(c) \/ ChannelLost(c) \/ AbortResume(c)
  \/ AbortKill(c) \/ Aborted(c) \/ AbortTimeout(c) \/ GiveUp(c)

-----------------------------------------------------------------------------
(* stop and repair.  Neither takes the lock.                                  *)

\* A stop refuses a session whose process is not alive, or that is another user's.
StopLoad(c) ==
  /\ cmd[c] = Idle /\ record # NoRecord /\ ValidLive(record)
  /\ cmd' = [cmd EXCEPT ![c] = [pc |-> "terminate", kind |-> "stop", last |-> FALSE,
                                session |-> record]]
  /\ UNCHANGED <<console, record, lock, procs, networkVars, births, events, traces>>

\* A repair refuses a session whose process is alive, whosever it is.
RepairLoad(c) ==
  /\ cmd[c] = Idle /\ record # NoRecord /\ ~Live(record)
  /\ cmd' = [cmd EXCEPT ![c] = [pc |-> "repair", kind |-> "repair", last |-> FALSE,
                                session |-> record]]
  /\ UNCHANGED <<console, record, lock, procs, networkVars, births, events, traces>>

\* ledgerCoordinator.repair: the wrapper with reason "repair".
RepairLedger(c) ==
  /\ At(c, {"repair"}, "repair") /\ cmd[c].session.birth \notin stuck
  /\ ledgers' = ledgers \ {cmd[c].session.birth}
  /\ dirty' = dirty \ {cmd[c].session.birth}
  /\ Goto(c, "verify")
  /\ UNCHANGED <<console, record, lock, procs, stuck, births, events, traces>>

\* It fails, this time or as often as it is asked: the wrapper was killed before it wrote
\* down what its script did, a script outlived it, the machine is in another network.
RepairFails(c) ==
  /\ At(c, {"repair"}, "repair")
  /\ \/ Event /\ UNCHANGED stuck
     \/ /\ cmd[c].session.birth \in ledgers
        /\ stuck' = stuck \union {cmd[c].session.birth} /\ UNCHANGED events
  /\ End(c)
  /\ UNCHANGED <<console, record, lock, procs, ledgers, dirty, births, traces>>

Shared(c) == \/ Terminate(c) \/ TermTimeout(c) \/ KillTimeout(c) \/ WaitForExit(c)
             \/ VerifyTeardownComplete(c) \/ RemoveRecord(c)

-----------------------------------------------------------------------------
(* Faults.                                                                  *)

\* A command is killed; the system drops its lock.
Killed(c) ==
  /\ cmd[c] # Idle /\ Event
  /\ procs' = Orphaned(c)
  /\ Release(c) /\ End(c)
  /\ UNCHANGED <<console, record, networkVars, births, traces>>

PowerLoss ==
  /\ Event
  /\ procs' = [p \in Pids |-> Free]
  /\ lock' = [u \in Users |-> NoCmd] /\ cmd' = [c \in Cmds |-> Idle]
  /\ UNCHANGED <<console, record, networkVars, births, traces>>

\* Another user comes to the console.
SwitchUser ==
  /\ Event /\ console' \in Users \ {console}
  /\ UNCHANGED <<record, lock, procs, networkVars, cmd, births, traces>>

Next ==
  \/ \E c \in Cmds : Start(c) \/ StopLoad(c) \/ RepairLoad(c) \/ RepairLedger(c)
                     \/ RepairFails(c) \/ Shared(c) \/ Killed(c)
  \/ \E p \in Pids : Kernel(p)
  \/ PowerLoss \/ SwitchUser

\* The step of a command that runs; only a start that monitors may wait for ever, for the
\* end of its process or of its channel.
Goes(c) ==
  \/ Shared(c) \/ RepairLedger(c) \/ (UNCHANGED events /\ RepairFails(c))
  \/ Start(c) /\ cmd[c] # Idle /\ (cmd[c].pc = "monitor" => cmd'[c].pc = "verify")

\* The user at the console asks, as reconcile_helper_at_startup does: for a stop when the
\* status says running, for a repair when it says repair-required.
Asked(c) ==
  \/ StatusReport = "running" /\ StopLoad(c)
  \/ StatusReport = "repair-required" /\ RepairLoad(c)

\* Commands go on, a process that is killed ends, and the user goes on asking.
Fairness ==
  /\ \A c \in Cmds : WF_vars(Goes(c))
  /\ WF_vars(\E p \in Pids : Exit(p) /\ procs[p].signal = "kill")
  /\ WF_vars(\E c \in Cmds : Asked(c))

Spec == Init /\ [][Next]_vars /\ Fairness

-----------------------------------------------------------------------------
(* Properties.                                                              *)

Births == 1..MaxEvents
Sessions == [pid : Pids, birth : Births, user : Users]
Pcs == {"lock", "spawn", "save", "commit", "monitor", "terminate", "terminated", "killed",
        "verify", "remove", "abort", "abortKill", "aborted", "giveUp", "repair"}

\* Types.  A command past its first steps works on one session.
HelperTypeOK ==
  /\ console \in Users
  /\ record \in Sessions \union {NoRecord}
  /\ lock \in [Users -> Cmds \union {NoCmd}]
  /\ procs \in [Pids -> {Free, Stranger}
                \union [state : {"suspended", "running", "zombie"}, birth : Births,
                        parent : Cmds \union {NoCmd}, signal : {"none", "term", "kill"}]]
  /\ ledgers \subseteq Births /\ dirty \subseteq ledgers
  /\ stuck \subseteq Births /\ resumed \subseteq Births /\ lost \subseteq Births
  /\ births \in Nat /\ events \in Nat /\ births + events <= MaxEvents
  /\ \A c \in Cmds :
       \/ cmd[c] = Idle
       \/ /\ cmd[c].pc \in Pcs /\ cmd[c].kind \in {"start", "stop", "repair"}
          /\ cmd[c].last \in BOOLEAN
          /\ IF cmd[c].pc \in {"lock", "spawn"} THEN cmd[c].user \in Users
             ELSE cmd[c].session \in Sessions
  /\ struck \in BOOLEAN

\* Whatever openconnect runs is the session on record, so that status shows it, stop
\* stops it and no second start joins it, through every crash of a helper and of the
\* machine and whatever other command runs beside it (start saves the record before it
\* commits the spawn, and removes it only after the teardown is proven).  Two exceptions.  A
\* process that a failed start resumes in order to kill it: a helper killed in between
\* leaves it running.  And a record that a command of another session took (Lost): a stop
\* or a repair still at work on the session before, which removes whatever record there is,
\* a start of another user, or one that looked for a record before this one was saved and
\* got the lock when the start that saved it was gone.  As long as its own start is there,
\* no start of the same user takes it: that is what the lock is for.
RunningIsOnRecord ==
  \A p \in Pids : procs[p].state = "running" /\ procs[p].birth \notin resumed \union lost
                   => record # NoRecord /\ record.pid = p /\ record.birth = procs[p].birth

\* A ledger that is not retired has its session on record: the evidence a repair
\* needs is never dropped while the network may still be changed, neither by a command of
\* the session (verifyTeardownComplete before every store.remove) nor, but for the ways of
\* Lost, by any other.
EvidenceIsKept == \A b \in ledgers : b \notin resumed \union lost => record.birth = b

\* terminateVerified signals nobody but the session's own processes, whoever gets their
\* numbers while it waits.  abortSpawn, which asks nobody whose group it kills, is left out.
StrangersSpared == ~struck

\* A session on record is retired in the end, however its helper, its process or the
\* machine died, if the user at the console goes on asking for what the status calls for.
\* Three records are kept although somebody asks: one whose ledger no repair can retire;
\* one that lives with a ledger that asks for a repair, and one that lives while another
\* user is at the console: for both the status calls for a repair, which refuses what lives.
\* (NobodyLeft is the bound on commands: all of them are starts that wait for their process,
\* and the model has none to ask with.)
AskedInVain ==
  \/ record.birth \in stuck
  \/ Live(record) /\ (record.birth \in dirty \/ record.user # console)
NobodyLeft == \A c \in Cmds : cmd[c].pc = "monitor"
RecordIsRetired == record # NoRecord ~> record = NoRecord \/ AskedInVain \/ NobodyLeft

\* What runs is on record, and nothing else is ever terminated.
HelperSound == HelperTypeOK /\ RunningIsOnRecord /\ StrangersSpared

=============================================================================
