----------------------- MODULE PrivilegedHelperProofs -----------------------
(* Proofs about the privileged helper: its commands (PrivilegedHelper) for any number of     *)
(* users, commands, process numbers and sessions, and then its network wrapper               *)
(* (NetworkWrapper) for any networks and however often the network, the user and the faults  *)
(* come in.                                                                                  *)
EXTENDS PrivilegedHelper, NetworkWrapper, TLAPS

ProcTypes ==
  {Free, Stranger}
  \union [state : {"suspended", "running", "zombie"}, birth : Births,
          parent : Cmds \union {NoCmd}, signal : {"none", "term", "kill"}]

\* A start has its process from the spawn on; a stop and a repair begin with one.
StartPcs == {"save", "commit", "monitor", "terminate", "terminated", "killed", "verify",
             "remove", "abort", "abortKill", "aborted", "giveUp"}
StopPcs == {"terminate", "terminated", "killed", "verify", "remove"}
RepairPcs == {"repair", "verify", "remove"}

NewStart == [pc : {"lock", "spawn"}, kind : {"start"}, last : {FALSE}, user : Users]
Starts == [pc : StartPcs, kind : {"start"}, last : BOOLEAN, session : Sessions,
           committed : BOOLEAN]
Stops == [pc : StopPcs, kind : {"stop"}, last : {FALSE}, session : Sessions]
Repairs == [pc : RepairPcs, kind : {"repair"}, last : {FALSE}, session : Sessions]
CmdTypes == {Idle} \union NewStart \union Starts \union Stops \union Repairs

IsProc(p) == procs[p].state \in {"suspended", "running", "zombie"}
HasSession(c) == cmd[c] \in Starts \union Stops \union Repairs
IsStart(c) == cmd[c] \in Starts
Waits(c) == cmd[c].pc \in {"save", "commit", "monitor"}

Typed ==
  /\ HelperTypeOK /\ procs \in [Pids -> ProcTypes] /\ cmd \in [Cmds -> CmdTypes]
  /\ ledgers \subseteq 1 .. births

\* Sessions that the record or a command names are told apart by their births: a process
\* with the birth of such a session is the one with its number.
InHand(s) == s = record \/ \E c \in Cmds : HasSession(c) /\ s = cmd[c].session

Paired(s) ==
  /\ s.birth <= births
  /\ \A p \in Pids : IsProc(p) /\ procs[p].birth = s.birth => p = s.pid

SessionsPaired ==
  /\ \A s \in Sessions : InHand(s) => Paired(s)
  /\ \A p \in Pids : IsProc(p) => procs[p].birth <= births

\* A start holds the lock of its user from the spawn on, and is the only one of its session.
StartsLocked ==
  /\ \A c \in Cmds : cmd[c].pc = "spawn" => lock[cmd[c].user] = c
  /\ \A c \in Cmds : IsStart(c) => lock[cmd[c].session.user] = c
  /\ \A c, d \in Cmds :
       IsStart(c) /\ IsStart(d) /\ cmd[c].session.birth = cmd[d].session.birth => c = d

\* Until it is told to end it, the process of a start is its child, alive or a zombie.
HasChild(c, p) == IsProc(p) /\ procs[p].birth = cmd[c].session.birth /\ procs[p].parent = c
ChildrenKept == \A c \in Cmds : Waits(c) => HasChild(c, cmd[c].session.pid)

\* A process that was never let run, or only to be killed, has changed no network.
NeverRan(birth) ==
  birth \in resumed \/ (/\ birth \notin ledgers
                        /\ \A p \in Pids : procs[p].state = "running" => procs[p].birth # birth)

\* What a command knows of its session at its step.
Knows(c, s) ==
  /\ cmd[c].pc \in {"verify", "remove", "repair"} => ~Live(s)
  /\ cmd[c].pc = "remove" => s.birth \notin ledgers \ resumed
  /\ cmd[c].pc = "commit" => record = s \/ s.birth \in lost \/ ~Live(s)
  /\ IsStart(c) /\ ~cmd[c].committed => NeverRan(s.birth)
CommandsKnow ==
  \A c \in Cmds : HasSession(c) => \A s \in Sessions : s = cmd[c].session => Knows(c, s)

HelperInv ==
  /\ Typed /\ SessionsPaired /\ StartsLocked /\ ChildrenKept /\ CommandsKnow
  /\ RunningIsOnRecord /\ EvidenceIsKept /\ StrangersSpared

-----------------------------------------------------------------------------
(* Shapes of the records.                                                    *)

LEMMA ProcShape ==
  ASSUME HelperInv, NEW p \in Pids
  PROVE  /\ procs[p] \in ProcTypes
         /\ IsProc(p) => procs[p] \in [state : {"suspended", "running", "zombie"},
                            birth : Births, parent : Cmds \union {NoCmd},
                            signal : {"none", "term", "kill"}]
         /\ procs[p] = Free => procs[p].state = "free"
         /\ ~IsProc(p) => procs[p].state \in {"free", "other"}
         /\ procs[p].state = "free" => procs[p] = Free
         /\ Alive(p) => IsProc(p)
<1>1. procs[p] \in ProcTypes
  BY DEF HelperInv, Typed
<1>2. Free.state = "free" /\ Stranger.state = "other"
  BY DEF Free, Stranger
<1> QED BY <1>1, <1>2 DEF ProcTypes, IsProc, Alive

\* What the fields of a command say of it.
LEMMA CmdRecords ==
  ASSUME NEW x \in CmdTypes
  PROVE  /\ x = Idle <=> x.pc = "idle"
         /\ x \in NewStart <=> x.pc \in {"lock", "spawn"}
         /\ x \in NewStart => x.kind = "start" /\ x.user \in Users /\ x.last \in BOOLEAN
         /\ x \in Starts \union Stops \union Repairs <=> x.pc \notin {"idle", "lock", "spawn"}
         /\ x \in Starts \union Stops \union Repairs =>
              /\ x.session \in Sessions /\ x.last \in BOOLEAN /\ x.pc \in Pcs
              /\ x.kind \in {"start", "stop", "repair"}
              /\ x.kind = "start" <=> x \in Starts
              /\ x.kind = "stop" <=> x \in Stops
              /\ x.kind = "repair" <=> x \in Repairs
         /\ x.pc \in {"save", "commit", "monitor"} => x \in Starts
<1>1. Idle.pc = "idle"
  BY DEF Idle
<1>2. \A y \in NewStart : /\ y.pc \in {"lock", "spawn"} /\ y.kind = "start"
                          /\ y.user \in Users /\ y.last \in BOOLEAN
  BY DEF NewStart
<1>3. \A y \in Starts : /\ y.pc \in StartPcs /\ y.kind = "start" /\ y.last \in BOOLEAN
                        /\ y.session \in Sessions
  BY DEF Starts
<1>4. \A y \in Stops : /\ y.pc \in StopPcs /\ y.kind = "stop" /\ y.last \in BOOLEAN
                       /\ y.session \in Sessions
  BY DEF Stops
<1>5. \A y \in Repairs : /\ y.pc \in RepairPcs /\ y.kind = "repair" /\ y.last \in BOOLEAN
                         /\ y.session \in Sessions
  BY DEF Repairs
<1>6. /\ {"idle", "lock", "spawn"} \intersect (StartPcs \union StopPcs \union RepairPcs) = {}
      /\ {"save", "commit", "monitor"} \intersect (StopPcs \union RepairPcs) = {}
      /\ StartPcs \union StopPcs \union RepairPcs \subseteq Pcs
  BY DEF StartPcs, StopPcs, RepairPcs, Pcs
<1> HIDE DEF Idle
<1> QED BY <1>1, <1>2, <1>3, <1>4, <1>5, <1>6 DEF CmdTypes

LEMMA CmdShape ==
  ASSUME HelperInv, NEW c \in Cmds
  PROVE  /\ cmd[c] \in CmdTypes
         /\ cmd[c] = Idle <=> cmd[c].pc = "idle"
         /\ cmd[c] \in NewStart <=> cmd[c].pc \in {"lock", "spawn"}
         /\ cmd[c] \in NewStart => cmd[c].user \in Users
         /\ HasSession(c) <=> cmd[c].pc \notin {"idle", "lock", "spawn"}
         /\ HasSession(c) => /\ cmd[c].session \in Sessions /\ cmd[c].last \in BOOLEAN
                             /\ cmd[c].kind \in {"start", "stop", "repair"}
                             /\ cmd[c].kind = "start" <=> IsStart(c)
                             /\ cmd[c].kind = "start" <=> cmd[c] \in Starts
                             /\ cmd[c].kind = "stop" <=> cmd[c] \in Stops
                             /\ cmd[c].kind = "repair" <=> cmd[c] \in Repairs
         /\ IsStart(c) => HasSession(c)
         /\ Waits(c) => IsStart(c)
<1>1. cmd[c] \in CmdTypes
  BY DEF HelperInv, Typed
<1> QED BY <1>1, CmdRecords DEF HasSession, IsStart, Waits

\* The shapes after the step.
LEMMA CmdShapeNext ==
  ASSUME cmd' \in [Cmds -> CmdTypes], NEW c \in Cmds
  PROVE  /\ cmd'[c] \in CmdTypes
         /\ cmd'[c] = Idle <=> cmd'[c].pc = "idle"
         /\ cmd'[c] \in NewStart <=> cmd'[c].pc \in {"lock", "spawn"}
         /\ cmd'[c] \in NewStart =>
              cmd'[c].kind = "start" /\ cmd'[c].last \in BOOLEAN /\ cmd'[c].user \in Users
         /\ HasSession(c)' <=> cmd'[c].pc \notin {"idle", "lock", "spawn"}
         /\ HasSession(c)' => /\ cmd'[c].kind = "start" <=> IsStart(c)'
                              /\ cmd'[c].session \in Sessions
                              /\ cmd'[c].kind \in {"start", "stop", "repair"}
                              /\ cmd'[c].pc \in Pcs /\ cmd'[c].last \in BOOLEAN
         /\ IsStart(c)' => HasSession(c)'
         /\ Waits(c)' => IsStart(c)'
<1>1. cmd'[c] \in CmdTypes
  OBVIOUS
<1> QED BY <1>1, CmdRecords DEF HasSession, IsStart, Waits

\* The session of a command.
LEMMA SessionFacts ==
  ASSUME HelperInv, NEW c \in Cmds, HasSession(c)
  PROVE  /\ cmd[c].session \in Sessions /\ cmd[c].session.pid \in Pids
         /\ cmd[c].session.user \in Users /\ InHand(cmd[c].session)
         /\ Knows(c, cmd[c].session) /\ Paired(cmd[c].session)
<1>1. cmd[c].session \in Sessions
  BY CmdShape
<1>2. InHand(cmd[c].session)
  BY DEF InHand
<1>3. Knows(c, cmd[c].session)
  BY <1>1 DEF HelperInv, CommandsKnow
<1> QED BY <1>1, <1>2, <1>3 DEF HelperInv, SessionsPaired, Sessions

LEMMA InvFacts ==
  ASSUME HelperInv
  PROVE  /\ console \in Users /\ record \in Sessions \union {NoRecord}
         /\ lock \in [Users -> Cmds \union {NoCmd}]
         /\ procs \in [Pids -> ProcTypes] /\ cmd \in [Cmds -> CmdTypes]
         /\ stuck \subseteq Births /\ resumed \subseteq Births /\ lost \subseteq Births
         /\ births \in Nat /\ events \in Nat /\ births + events <= MaxEvents
         /\ ledgers \subseteq 1 .. births /\ dirty \subseteq ledgers
         /\ NoRecord.birth = 0 /\ NoRecord \notin Sessions
         /\ \A s \in Sessions : /\ s.birth >= 1 /\ s.birth \in Births /\ s.birth \in Nat
                                /\ s.pid \in Pids /\ s.user \in Users
         /\ \A b \in ledgers : b >= 1 /\ b \in Nat
<1>1. NoRecord.birth = 0
  BY DEF NoRecord
<1>2. \A s \in Sessions : /\ s.birth >= 1 /\ s.birth \in Births /\ s.birth \in Nat
                          /\ s.pid \in Pids /\ s.user \in Users
  BY DEF Sessions, Births
<1>3. NoRecord \notin Sessions
  BY <1>1, <1>2
<1>4. \A b \in ledgers : b >= 1 /\ b \in Nat
  BY DEF HelperInv, Typed
<1> QED BY <1>1, <1>2, <1>3, <1>4 DEF HelperInv, Typed, HelperTypeOK

-----------------------------------------------------------------------------
(* What the steps have in common.                                            *)

\* No process is born, and none comes to life.
Tame ==
  \A p \in Pids : IsProc(p)' =>
    /\ IsProc(p) /\ procs'[p].birth = procs[p].birth
    /\ Alive(p)' => Alive(p)

\* Children whose parents wait for them stay.
ParentsKept ==
  \A p \in Pids : \A c \in Cmds :
    IsProc(p) /\ procs[p].parent = c /\ Waits(c)' => IsProc(p)' /\ procs'[p].parent = c

NoneRuns == \A p \in Pids : procs'[p].state = "running" => procs[p].state = "running"

\* A start gets the lock of its user.
Enters(c) ==
  /\ cmd[c].pc = "lock" /\ cmd'[c].pc = "spawn"
  /\ cmd'[c].user = cmd[c].user /\ lock'[cmd[c].user] = c

\* The others keep what they have of it.
LocksKept ==
  \A u \in Users : \A c \in Cmds : lock[u] = c /\ cmd'[c].pc # "idle" => lock'[u] = c

\* What a command has, it had, or it is on record.
CmdsKept ==
  \A c \in Cmds :
    /\ HasSession(c)' => InHand(cmd'[c].session)
    /\ IsStart(c)' => IsStart(c) /\ cmd'[c].session = cmd[c].session
    /\ Waits(c)' => Waits(c)
    /\ cmd'[c].pc = "spawn" => cmd'[c] = cmd[c] \/ Enters(c)

LEMMA FrameKept ==
  ASSUME HelperInv, cmd' \in [Cmds -> CmdTypes], births' = births, Tame, ParentsKept, LocksKept,
         CmdsKept, \A s \in Sessions : s = record' => InHand(s)
  PROVE  SessionsPaired' /\ StartsLocked' /\ ChildrenKept'
<1>1. SessionsPaired'
  <2>1. ASSUME NEW s \in Sessions, InHand(s)' PROVE Paired(s)'
    <3>1. InHand(s)
      BY <2>1 DEF InHand, CmdsKept
    <3>2. Paired(s)
      BY <3>1 DEF HelperInv, SessionsPaired
    <3> QED BY <3>2 DEF Paired, Tame
  <2>2. \A p \in Pids : IsProc(p)' => procs'[p].birth <= births'
    BY DEF HelperInv, SessionsPaired, Tame
  <2> QED BY <2>1, <2>2 DEF SessionsPaired
<1>2. StartsLocked'
  <2>1. ASSUME NEW c \in Cmds, cmd'[c].pc = "spawn" PROVE lock'[cmd'[c].user] = c
    <3>1. CASE Enters(c)
      BY <3>1 DEF Enters
    <3>2. CASE cmd'[c] = cmd[c]
      <4>1. cmd[c].user \in Users /\ lock[cmd[c].user] = c
        BY <2>1, <3>2, CmdShape DEF HelperInv, StartsLocked
      <4> QED BY <2>1, <3>2, <4>1 DEF LocksKept
    <3> QED BY <2>1, <3>1, <3>2 DEF CmdsKept
  <2>2. ASSUME NEW c \in Cmds, IsStart(c)' PROVE lock'[cmd'[c].session.user] = c
    <3>1. IsStart(c) /\ cmd'[c].session = cmd[c].session
      BY <2>2 DEF CmdsKept
    <3>2. cmd[c].session.user \in Users /\ lock[cmd[c].session.user] = c
      BY <3>1, CmdShape, SessionFacts DEF HelperInv, StartsLocked
    <3>3. cmd'[c].pc # "idle"
      BY <2>2, CmdShapeNext
    <3> QED BY <3>1, <3>2, <3>3 DEF LocksKept
  <2>3. \A c, d \in Cmds : IsStart(c)' /\ IsStart(d)' /\ cmd'[c].session.birth = cmd'[d].session.birth
                           => c = d
    BY DEF HelperInv, StartsLocked, CmdsKept
  <2> QED BY <2>1, <2>2, <2>3 DEF StartsLocked
<1>3. ChildrenKept'
  <2>1. ASSUME NEW c \in Cmds, Waits(c)' PROVE HasChild(c, cmd[c].session.pid)'
    <3>1. /\ Waits(c) /\ cmd'[c].session = cmd[c].session /\ cmd[c].session.pid \in Pids
          /\ HasChild(c, cmd[c].session.pid)
      BY <2>1, CmdShape, CmdShapeNext, SessionFacts DEF CmdsKept, HelperInv, ChildrenKept
    <3>2. PICK p \in Pids : p = cmd[c].session.pid /\ HasChild(c, p)
      BY <3>1
    <3>3. HasChild(c, p)'
      BY <2>1, <3>1, <3>2 DEF HasChild, ParentsKept, Tame
    <3> QED BY <3>1, <3>2, <3>3 DEF HasChild, IsProc
  <2> QED BY <2>1 DEF ChildrenKept
<1> QED BY <1>1, <1>2, <1>3

\* HelperTypeOK, from the finer types.
LEMMA TypesNext ==
  ASSUME console' \in Users, record' \in Sessions \union {NoRecord},
         lock' \in [Users -> Cmds \union {NoCmd}],
         procs' \in [Pids -> ProcTypes], cmd' \in [Cmds -> CmdTypes],
         dirty' \subseteq ledgers', stuck' \subseteq Births, resumed' \subseteq Births,
         lost' \subseteq Births, births' \in Nat, events' \in Nat,
         births' + events' <= MaxEvents, ledgers' \subseteq 1 .. births', struck' \in BOOLEAN
  PROVE  Typed'
<1>1. ledgers' \subseteq Births
  <2>1. \A b, e \in Nat : b + e <= MaxEvents => 1 .. b \subseteq 1 .. MaxEvents
    BY HelperAssumption
  <2> QED BY <2>1 DEF Births
<1>2. ASSUME NEW c \in Cmds
      PROVE  \/ cmd'[c] = Idle
             \/ /\ cmd'[c].pc \in Pcs /\ cmd'[c].kind \in {"start", "stop", "repair"}
                /\ cmd'[c].last \in BOOLEAN
                /\ IF cmd'[c].pc \in {"lock", "spawn"} THEN cmd'[c].user \in Users
                   ELSE cmd'[c].session \in Sessions
  <2>1. {"lock", "spawn"} \subseteq Pcs
    BY DEF Pcs
  <2>2. cmd'[c] = Idle \/ cmd'[c] \in NewStart \/ HasSession(c)'
    BY CmdShapeNext DEF CmdTypes, HasSession
  <2> HIDE DEF Idle
  <2> QED BY <2>1, <2>2, CmdShapeNext
<1>3. procs' \in [Pids -> {Free, Stranger}
                \union [state : {"suspended", "running", "zombie"}, birth : Births,
                        parent : Cmds \union {NoCmd}, signal : {"none", "term", "kill"}]]
  BY DEF ProcTypes
<1> QED BY <1>1, <1>2, <1>3 DEF Typed, HelperTypeOK

\* A command that the step leaves alone knows what it knew.
LEMMA BystanderKnows ==
  ASSUME NEW c \in Cmds, NEW s \in Sessions, Knows(c, s), cmd'[c] = cmd[c],
         ~Live(s) => ~Live(s)', lost \subseteq lost',
         s.birth \notin ledgers \ resumed /\ ~Live(s) => s.birth \notin ledgers' \ resumed',
         record = s /\ cmd[c].pc = "commit" => record' = s \/ s.birth \in lost' \/ ~Live(s)',
         IsStart(c) /\ NeverRan(s.birth) => NeverRan(s.birth)'
  PROVE  Knows(c, s)'
<1>1. IsStart(c)' => IsStart(c)
  BY DEF IsStart
<1> QED BY <1>1 DEF Knows

LEMMA DeadStays ==
  ASSUME HelperInv, Tame, NEW s \in Sessions
  PROVE  ~Live(s) => ~Live(s)'
<1>1. s.pid \in Pids
  BY DEF Sessions
<1>2. Alive(s.pid)' => IsProc(s.pid)'
  BY DEF Alive, IsProc
<1> QED BY <1>1, <1>2 DEF Tame, Live

LEMMA NeverRanStays ==
  ASSUME Tame, NoneRuns, ledgers' \subseteq ledgers, resumed \subseteq resumed', NEW b
  PROVE  NeverRan(b) => NeverRan(b)'
<1>1. \A p \in Pids : procs'[p].state = "running" =>
        procs[p].state = "running" /\ procs'[p].birth = procs[p].birth
  BY DEF Tame, NoneRuns, IsProc
<1> QED BY <1>1 DEF NeverRan

-----------------------------------------------------------------------------
(* Most steps bring no process to life, add no ledger and keep the record.     *)

Quiet ==
  /\ UNCHANGED <<record, births, traces>>
  /\ ledgers' \subseteq ledgers /\ dirty' \subseteq ledgers' /\ stuck' \subseteq Births
  /\ console' \in Users
  /\ events' \in Nat /\ births + events' <= MaxEvents
  /\ lock' \in [Users -> Cmds \union {NoCmd}] /\ LocksKept
  /\ procs' \in [Pids -> ProcTypes] /\ Tame /\ NoneRuns /\ ParentsKept

\* A command goes on with its session.
Moves(c) ==
  /\ HasSession(c) /\ HasSession(c)'
  /\ cmd'[c].kind = cmd[c].kind /\ cmd'[c].session = cmd[c].session
  /\ cmd[c].kind = "start" => cmd'[c].committed = cmd[c].committed
  /\ ~Waits(c)'
  /\ cmd'[c].pc \in {"verify", "remove", "repair"} =>
       \A s \in Sessions : s = cmd[c].session => ~Live(s)'
  /\ cmd'[c].pc = "remove" => cmd[c].session.birth \notin ledgers' \ resumed'

CmdsGoOn ==
  /\ cmd' \in [Cmds -> CmdTypes]
  /\ \A c \in Cmds : cmd'[c] = cmd[c] \/ cmd'[c] = Idle \/ Moves(c) \/ Enters(c)

\* The step of most actions.
LEMMA StepKeeps ==
  ASSUME HelperInv, Quiet, CmdsGoOn
  PROVE  HelperInv'
<1>1. /\ UNCHANGED <<record, births, resumed, struck, lost>> /\ ledgers' \subseteq ledgers
      /\ Tame /\ NoneRuns /\ ParentsKept /\ LocksKept /\ cmd' \in [Cmds -> CmdTypes]
  BY DEF Quiet, CmdsGoOn, traces
<1>2. Typed'
  <2>1. /\ record' \in Sessions \union {NoRecord} /\ resumed' \subseteq Births
        /\ lost' \subseteq Births /\ births' \in Nat /\ struck' \in BOOLEAN
        /\ ledgers' \subseteq 1 .. births'
    BY <1>1 DEF HelperInv, Typed, HelperTypeOK
  <2> QED BY <1>1, <2>1, TypesNext DEF Quiet
<1>3. ASSUME NEW c \in Cmds
      PROVE  /\ HasSession(c)' => /\ HasSession(c) /\ cmd'[c].session = cmd[c].session
                                  /\ cmd'[c] = cmd[c] \/ Moves(c)
             /\ IsStart(c)' => IsStart(c)
             /\ Waits(c)' => Waits(c)
             /\ cmd'[c].pc = "spawn" => cmd'[c] = cmd[c] \/ Enters(c)
  <2>1. CASE cmd'[c] = cmd[c]
    BY <2>1 DEF HasSession, IsStart, Waits
  <2>2. CASE cmd'[c] = Idle
    BY <1>1, <2>2, CmdShapeNext
  <2>3. CASE Moves(c)
    <3>1. /\ HasSession(c) /\ HasSession(c)' /\ ~Waits(c)' /\ cmd'[c].kind = cmd[c].kind
          /\ cmd'[c].session = cmd[c].session
      BY <2>3 DEF Moves
    <3> QED BY <1>1, <2>3, <3>1, CmdShape, CmdShapeNext
  <2>4. CASE Enters(c)
    BY <1>1, <2>4, CmdShapeNext DEF Enters
  <2> QED BY <2>1, <2>2, <2>3, <2>4 DEF CmdsGoOn
<1>4. SessionsPaired' /\ StartsLocked' /\ ChildrenKept'
  <2>1. CmdsKept
    <3>1. \A c \in Cmds : HasSession(c)' => InHand(cmd'[c].session)
      BY <1>3 DEF InHand
    <3>2. \A c \in Cmds : IsStart(c)' => IsStart(c) /\ cmd'[c].session = cmd[c].session
      BY <1>1, <1>3, CmdShapeNext
    <3> QED BY <1>3, <3>1, <3>2 DEF CmdsKept
  <2>2. \A s \in Sessions : s = record' => InHand(s)
    BY <1>1 DEF InHand
  <2> QED BY <1>1, <2>1, <2>2, FrameKept
<1>5. CommandsKnow'
  <2>1. ASSUME NEW c \in Cmds, HasSession(c)', NEW s \in Sessions, s = cmd'[c].session
        PROVE  Knows(c, s)'
    <3>1. HasSession(c) /\ s = cmd[c].session /\ Knows(c, s)
      BY <1>3, <2>1, SessionFacts
    <3>2. (~Live(s) => ~Live(s)') /\ (NeverRan(s.birth) => NeverRan(s.birth)')
      BY <1>1, DeadStays, NeverRanStays
    <3>3. CASE cmd'[c] = cmd[c]
      BY <1>1, <3>1, <3>2, <3>3, BystanderKnows
    <3>4. CASE Moves(c)
      <4>1. /\ cmd'[c].pc \in {"verify", "remove", "repair"} => ~Live(s)'
            /\ cmd'[c].pc = "remove" => s.birth \notin ledgers' \ resumed'
            /\ cmd'[c].pc # "commit"
        BY <3>1, <3>4 DEF Moves, Waits
      <4>2. IsStart(c)' /\ ~cmd'[c].committed => NeverRan(s.birth)'
        <5> SUFFICES ASSUME IsStart(c)', ~cmd'[c].committed PROVE NeverRan(s.birth)'
          OBVIOUS
        <5>1. IsStart(c) /\ cmd[c].kind = "start"
          BY <1>3, CmdShape
        <5> QED BY <3>1, <3>2, <3>4, <5>1 DEF Moves, Knows
      <4> QED BY <4>1, <4>2 DEF Knows
    <3> QED BY <1>3, <2>1, <3>3, <3>4
  <2> QED BY <1>1, <2>1 DEF CommandsKnow
<1>6. RunningIsOnRecord' /\ EvidenceIsKept' /\ StrangersSpared'
  <2>1. \A p \in Pids : procs'[p].state = "running" =>
          procs[p].state = "running" /\ procs'[p].birth = procs[p].birth
    BY <1>1 DEF Tame, NoneRuns, IsProc
  <2>2. RunningIsOnRecord'
    BY <1>1, <2>1 DEF HelperInv, RunningIsOnRecord
  <2> QED BY <1>1, <2>2 DEF HelperInv, EvidenceIsKept, StrangersSpared
<1> QED BY <1>2, <1>4, <1>5, <1>6 DEF HelperInv

-----------------------------------------------------------------------------
(* What the actions are made of.                                             *)

ProcsFine == procs' \in [Pids -> ProcTypes] /\ Tame /\ NoneRuns /\ ParentsKept
LocksFine == lock' \in [Users -> Cmds \union {NoCmd}] /\ LocksKept
EventsFine == events' \in Nat /\ births + events' <= MaxEvents

LEMMA Rests ==
  ASSUME HelperInv
  PROVE  /\ UNCHANGED cmd => CmdsGoOn
         /\ UNCHANGED procs => ProcsFine
         /\ UNCHANGED lock => LocksFine
<1>1. UNCHANGED cmd => CmdsGoOn
  BY InvFacts DEF CmdsGoOn
<1>2. UNCHANGED procs => ProcsFine
  BY InvFacts DEF ProcsFine, Tame, NoneRuns, ParentsKept, Alive, IsProc
<1>3. UNCHANGED lock => LocksFine
  BY InvFacts DEF LocksFine, LocksKept
<1> QED BY <1>1, <1>2, <1>3

\* A command that ends does nothing and waits for nothing.
LEMMA Ends ==
  ASSUME HelperInv, NEW c \in Cmds, End(c)
  PROVE  /\ CmdsGoOn /\ ~Waits(c)' /\ cmd'[c].pc = "idle"
         /\ \A d \in Cmds \ {c} : cmd'[d] = cmd[d]
         /\ Release(c) => LocksFine
<1>1. Idle \in CmdTypes /\ Idle.pc = "idle"
  BY DEF CmdTypes, Idle
<1> HIDE DEF Idle
<1>2. /\ cmd' \in [Cmds -> CmdTypes] /\ cmd'[c] = Idle
      /\ \A d \in Cmds \ {c} : cmd'[d] = cmd[d]
  BY <1>1, InvFacts DEF End
<1>3. CmdsGoOn
  BY <1>2 DEF CmdsGoOn
<1>4. ASSUME Release(c) PROVE LocksFine
  <2>1. lock' = [u \in Users |-> IF lock[u] = c THEN NoCmd ELSE lock[u]]
    BY <1>4 DEF Release
  <2>2. LocksKept
    BY <1>1, <1>2, <2>1 DEF LocksKept
  <2> QED BY <2>1, <2>2, InvFacts DEF LocksFine
<1> QED BY <1>1, <1>2, <1>3, <1>4 DEF Waits

\* A command that goes on: new is what it becomes.
LEMMA GoesOn ==
  ASSUME HelperInv, NEW c \in Cmds, HasSession(c), NEW new \in Starts \union Stops \union Repairs,
         cmd' = [cmd EXCEPT ![c] = new],
         new.kind = cmd[c].kind, new.session = cmd[c].session,
         cmd[c].kind = "start" => new.committed = cmd[c].committed,
         new.pc \notin {"save", "commit", "monitor"},
         new.pc \in {"verify", "remove", "repair"} =>
           \A s \in Sessions : s = cmd[c].session => ~Live(s)',
         new.pc = "remove" => cmd[c].session.birth \notin ledgers' \ resumed'
  PROVE  CmdsGoOn
<1>1. cmd' \in [Cmds -> CmdTypes] /\ cmd'[c] = new /\ \A d \in Cmds \ {c} : cmd'[d] = cmd[d]
  BY InvFacts DEF CmdTypes
<1>2. HasSession(c)'
  BY <1>1 DEF HasSession
<1>3. Moves(c)
  BY <1>1, <1>2 DEF Moves, Waits
<1> QED BY <1>1, <1>3 DEF CmdsGoOn

LEMMA GoesTo ==
  ASSUME HelperInv, NEW c \in Cmds, HasSession(c), NEW pc, Goto(c, pc),
         cmd[c].kind = "start" => pc \in StartPcs,
         cmd[c].kind = "stop" => pc \in StopPcs,
         cmd[c].kind = "repair" => pc \in RepairPcs,
         pc \notin {"save", "commit", "monitor"},
         pc \in {"verify", "remove", "repair"} =>
           \A s \in Sessions : s = cmd[c].session => ~Live(s)',
         pc = "remove" => cmd[c].session.birth \notin ledgers' \ resumed'
  PROVE  CmdsGoOn
<1> DEFINE new == [cmd[c] EXCEPT !.pc = pc]
<1>1. cmd' = [cmd EXCEPT ![c] = new]
  BY DEF Goto
<1>2. CASE cmd[c] \in Starts
  <2>1. /\ new \in Starts /\ new.pc = pc /\ new.kind = cmd[c].kind
        /\ new.session = cmd[c].session /\ new.committed = cmd[c].committed
    BY <1>2 DEF Starts
  <2> HIDE DEF new
  <2> QED BY <1>1, <2>1, GoesOn
<1>3. CASE cmd[c] \in Stops
  <2>1. /\ new \in Stops /\ new.pc = pc /\ new.kind = cmd[c].kind
        /\ new.session = cmd[c].session /\ cmd[c].kind # "start"
    BY <1>3 DEF Stops
  <2> HIDE DEF new
  <2> QED BY <1>1, <2>1, GoesOn
<1>4. CASE cmd[c] \in Repairs
  <2>1. /\ new \in Repairs /\ new.pc = pc /\ new.kind = cmd[c].kind
        /\ new.session = cmd[c].session /\ cmd[c].kind # "start"
    BY <1>4 DEF Repairs
  <2> HIDE DEF new
  <2> QED BY <1>1, <2>1, GoesOn
<1> QED BY <1>2, <1>3, <1>4 DEF HasSession

\* Where it goes it does not wait.
LEMMA PcNext ==
  ASSUME HelperInv, NEW c \in Cmds, cmd[c] # Idle, NEW pc, Goto(c, pc)
  PROVE  cmd'[c].pc = pc /\ \A d \in Cmds \ {c} : cmd'[d] = cmd[d]
<1> DEFINE new == [cmd[c] EXCEPT !.pc = pc]
<1>1. cmd' = [cmd EXCEPT ![c] = new]
  BY DEF Goto
<1>2. new.pc = pc
  <2>1. cmd[c] \in NewStart \union Starts \union Stops \union Repairs
    BY CmdShape DEF CmdTypes
  <2> QED BY <2>1 DEF NewStart, Starts, Stops, Repairs
<1> HIDE DEF new
<1> QED BY <1>1, <1>2, InvFacts

\* The start tries once more.
LEMMA TriesAgain ==
  ASSUME HelperInv, NEW c \in Cmds, HasSession(c), cmd[c].kind = "start",
         cmd' = [cmd EXCEPT ![c].pc = "terminate", ![c].last = TRUE]
  PROVE  CmdsGoOn /\ ~Waits(c)'
<1> DEFINE new == [[cmd[c] EXCEPT !.pc = "terminate"] EXCEPT !.last = TRUE]
<1>1. cmd[c] \in Starts /\ "terminate" \in StartPcs
  BY CmdShape DEF StartPcs
<1>2. /\ new \in Starts /\ new.pc = "terminate" /\ new.kind = cmd[c].kind
      /\ new.session = cmd[c].session /\ new.committed = cmd[c].committed
  BY <1>1 DEF Starts
<1>3. cmd' = [cmd EXCEPT ![c] = new]
  BY InvFacts
<1> HIDE DEF new
<1>4. cmd'[c] = new
  BY <1>3, InvFacts
<1> QED BY <1>2, <1>3, <1>4, GoesOn DEF Waits

\* One process changes, comes to no life, and leaves no parent that waits.
LEMMA OneProc ==
  ASSUME HelperInv, NEW p \in Pids, NEW new \in ProcTypes, procs' = [procs EXCEPT ![p] = new],
         \/ /\ new.state \in {"free", "other"}
            /\ IsProc(p) => \A d \in Cmds : d = procs[p].parent => ~Waits(d)'
         \/ /\ IsProc(p) /\ new.birth = procs[p].birth /\ new.parent = procs[p].parent
            /\ new.state = procs[p].state \/ new.state = "zombie"
  PROVE  ProcsFine /\ procs'[p] = new
<1>1. procs' \in [Pids -> ProcTypes] /\ procs'[p] = new /\ \A q \in Pids \ {p} : procs'[q] = procs[q]
  BY InvFacts
<1>2. ASSUME NEW q \in Pids
      PROVE  /\ IsProc(q)' => /\ IsProc(q) /\ procs'[q].birth = procs[q].birth
                              /\ Alive(q)' => Alive(q)
             /\ procs'[q].state = "running" => procs[q].state = "running"
             /\ \A d \in Cmds : IsProc(q) /\ procs[q].parent = d /\ Waits(d)' =>
                  IsProc(q)' /\ procs'[q].parent = d
  <2>1. CASE q = p
    BY <1>1, <2>1 DEF IsProc, Alive
  <2>2. CASE q # p
    BY <1>1, <2>2 DEF IsProc, Alive
  <2> QED BY <2>1, <2>2
<1> QED BY <1>1, <1>2 DEF ProcsFine, Tame, NoneRuns, ParentsKept

LEMMA SignalFine ==
  ASSUME HelperInv, NEW p \in Pids, NEW signal \in {"term", "kill"}, Signal(p, signal)
  PROVE  ProcsFine
<1>1. CASE Alive(p)
  <2> DEFINE new == [procs[p] EXCEPT !.signal = signal]
  <2>1. procs' = [procs EXCEPT ![p] = new]
    BY <1>1 DEF Signal
  <2>2. /\ IsProc(p) /\ new \in ProcTypes /\ new.birth = procs[p].birth
        /\ new.state = procs[p].state /\ new.parent = procs[p].parent
    BY <1>1, ProcShape DEF ProcTypes
  <2> HIDE DEF new
  <2> QED BY <2>1, <2>2, OneProc
<1>2. CASE procs[p].state = "other" /\ procs' = [procs EXCEPT ![p] = Free]
  <2>1. Free \in ProcTypes /\ Free.state = "free" /\ ~IsProc(p)
    BY <1>2 DEF ProcTypes, Free, IsProc
  <2> HIDE DEF Free
  <2> QED BY <1>2, <2>1, OneProc
<1>3. CASE UNCHANGED procs
  BY <1>3, Rests
<1> QED BY <1>1, <1>2, <1>3 DEF Signal

\* Its own processes are the only ones it signals.
LEMMA SignalOwnFine ==
  ASSUME HelperInv, NEW c \in Cmds, HasSession(c), NEW signal \in {"term", "kill"},
         Live(cmd[c].session), SignalOwn(c, signal)
  PROVE  ProcsFine /\ UNCHANGED struck
<1>1. PICK p \in Pids : p = cmd[c].session.pid
  BY SessionFacts
<1>2. Signal(p, signal)
  BY <1>1 DEF SignalOwn
<1>3. struck' = (struck \/ procs[p].state = "other"
                        \/ (procs[p] # Free /\ procs[p].birth # cmd[c].session.birth))
  BY <1>1 DEF SignalOwn
<1>4. procs[p].state # "other" /\ procs[p].birth = cmd[c].session.birth
  BY <1>1 DEF Live, Alive
<1>5. struck = FALSE
  BY DEF HelperInv, StrangersSpared, Typed, HelperTypeOK
<1>6. struck' = FALSE
  BY <1>3, <1>4, <1>5
<1> QED BY <1>2, <1>5, <1>6, SignalFine

\* Once a process has ended and is buried it does not live.
LEMMA Buried ==
  ASSUME HelperInv, NEW c \in Cmds, HasSession(c), Bury(c),
         Ended(c) \/ procs[cmd[c].session.pid].state = "zombie"
  PROVE  \A s \in Sessions : s = cmd[c].session => ~Live(s)'
<1>1. PICK p \in Pids : p = cmd[c].session.pid
  BY SessionFacts
<1>2. procs'[p].state = "free"
  <2>1. CASE procs[p].state = "zombie"
    <3>1. procs' = [procs EXCEPT ![p] = Free]
      BY <1>1, <2>1 DEF Bury
    <3>2. Free.state = "free"
      BY DEF Free
    <3> QED BY <3>1, <3>2, InvFacts
  <2>2. CASE procs[p].state # "zombie"
    BY <1>1, <2>2 DEF Bury, Ended
  <2> QED BY <2>1, <2>2
<1> QED BY <1>1, <1>2 DEF Live, Alive

LEMMA BuryFine ==
  ASSUME HelperInv, NEW c \in Cmds, HasSession(c), Bury(c), ~Waits(c)', Ended(c) \/ Waits(c)
  PROVE  ProcsFine
<1>1. PICK p \in Pids : p = cmd[c].session.pid
  BY SessionFacts
<1>2. CASE procs[p].state = "zombie"
  <2>1. procs' = [procs EXCEPT ![p] = Free]
    BY <1>1, <1>2 DEF Bury
  <2>2. procs[p].parent = c
    BY <1>1, <1>2 DEF Ended, IsChildOf, HelperInv, ChildrenKept, HasChild
  <2>3. Free \in ProcTypes /\ Free.state = "free"
    BY DEF ProcTypes, Free
  <2> HIDE DEF Free
  <2> QED BY <2>1, <2>2, <2>3, OneProc
<1>3. CASE procs[p].state # "zombie"
  BY <1>1, <1>3, Rests DEF Bury
<1> QED BY <1>2, <1>3

LEMMA OrphanFine ==
  ASSUME HelperInv, NEW c \in Cmds, procs' = Orphaned(c), ~Waits(c)'
  PROVE  ProcsFine
<1> DEFINE new(p) == IF ~IsChildOf(p, c) THEN procs[p]
                     ELSE IF procs[p].state = "zombie" THEN Free
                     ELSE [procs[p] EXCEPT !.parent = NoCmd]
<1>1. procs' = [p \in Pids |-> new(p)]
  BY DEF Orphaned
<1>2. Free \in ProcTypes /\ Free.state = "free"
  BY DEF ProcTypes, Free
<1>3. ASSUME NEW p \in Pids
      PROVE  /\ new(p) \in ProcTypes
             /\ \/ new(p) = procs[p]
                \/ procs[p].parent = c /\ new(p).state = "free"
                \/ /\ procs[p].parent = c /\ new(p).state = procs[p].state
                   /\ new(p).birth = procs[p].birth
  <2>1. IsChildOf(p, c) => IsProc(p) /\ procs[p].parent = c
    BY DEF IsChildOf, IsProc
  <2>2. IsProc(p) =>
          /\ [procs[p] EXCEPT !.parent = NoCmd] \in ProcTypes
          /\ [procs[p] EXCEPT !.parent = NoCmd].state = procs[p].state
          /\ [procs[p] EXCEPT !.parent = NoCmd].birth = procs[p].birth
    BY ProcShape DEF ProcTypes
  <2> QED BY <1>2, <2>1, <2>2, ProcShape
<1> HIDE DEF new
<1>4. procs' \in [Pids -> ProcTypes] /\ \A p \in Pids : procs'[p] = new(p)
  BY <1>1, <1>3
<1> QED BY <1>3, <1>4 DEF ProcsFine, Tame, NoneRuns, ParentsKept, IsProc, Alive

LEMMA EventFine ==
  ASSUME HelperInv, Event \/ UNCHANGED events
  PROVE  EventsFine
<1>1. births \in Nat /\ events \in Nat /\ births + events <= MaxEvents /\ MaxEvents \in Nat
  BY InvFacts, HelperAssumption
<1> QED BY <1>1 DEF Event, Room, EventsFine

\* The steps below are of this kind.
LEMMA QuietStep ==
  ASSUME HelperInv, ProcsFine, CmdsGoOn, LocksFine, EventsFine,
         UNCHANGED <<record, births, resumed, struck, lost>>,
         console' \in Users, ledgers' \subseteq ledgers, dirty' \subseteq ledgers',
         stuck' \subseteq Births
  PROVE  HelperInv'
BY StepKeeps DEF ProcsFine, LocksFine, EventsFine, Quiet, traces

LEMMA FailedFine ==
  ASSUME HelperInv, NEW c \in Cmds, HasSession(c), NEW next \in {"giveUp", "abort"},
         Failed(c, next)
  PROVE  CmdsGoOn
<1>1. CASE cmd[c].kind = "start"
  <2>1. Goto(c, next) /\ next \in StartPcs
    BY <1>1 DEF Failed, StartPcs
  <2> QED BY <1>1, <2>1, GoesTo
<1>2. CASE cmd[c].kind # "start"
  BY <1>2, Ends DEF Failed
<1> QED BY <1>1, <1>2

-----------------------------------------------------------------------------
(* The commands.                                                             *)

\* Terminating the session and proving it: what the commands share.
LEMMA SharedSteps ==
  ASSUME HelperInv, NEW c \in Cmds,
         Terminate(c) \/ TermTimeout(c) \/ KillTimeout(c) \/ WaitForExit(c)
           \/ VerifyTeardownComplete(c)
  PROVE  HelperInv'
<1>1. HasSession(c) /\ cmd[c] # Idle
  BY CmdShape DEF Terminate, TermTimeout, KillTimeout, WaitForExit, VerifyTeardownComplete
<1>2. cmd[c].session.pid \in Pids /\ cmd[c].session \in Sessions
  BY <1>1, SessionFacts
<1>3. /\ UNCHANGED <<record, births, resumed, lost, console, ledgers, dirty, stuck, lock>>
      /\ console' \in Users /\ ledgers' \subseteq ledgers /\ dirty' \subseteq ledgers'
      /\ stuck' \subseteq Births /\ LocksFine
  <2>1. UNCHANGED <<record, births, resumed, lost, console, ledgers, dirty, stuck, lock>>
    BY DEF Terminate, TermTimeout, KillTimeout, WaitForExit, VerifyTeardownComplete,
       networkVars, traces
  <2> QED BY <2>1, InvFacts, Rests
<1>4. cmd[c].kind = "repair" => cmd[c].pc \in {"repair", "verify", "remove"}
  BY <1>1, CmdShape DEF Repairs, RepairPcs
<1>5. CASE Terminate(c) \/ TermTimeout(c)
  <2>1. PICK signal \in {"term", "kill"}, pc \in {"terminated", "killed"} :
          /\ cmd[c].kind # "repair" /\ UNCHANGED events
          /\ \/ Live(cmd[c].session) /\ SignalOwn(c, signal) /\ Goto(c, pc)
             \/ /\ Failed(c, IF cmd[c].last THEN "giveUp" ELSE "abort")
                /\ UNCHANGED <<procs, struck>>
    <3>1. CASE Terminate(c)
      BY <1>4, <3>1 DEF Terminate
    <3>2. CASE TermTimeout(c)
      BY <1>4, <3>2 DEF TermTimeout
    <3> QED BY <1>5, <3>1, <3>2
  <2>2. ProcsFine /\ UNCHANGED struck
    BY <1>1, <2>1, SignalOwnFine, Rests
  <2>3. CmdsGoOn
    <3>1. pc \in StartPcs /\ pc \in StopPcs
      BY DEF StartPcs, StopPcs
    <3>2. Goto(c, pc) => CmdsGoOn
      BY <1>1, <2>1, <3>1, GoesTo
    <3> QED BY <1>1, <2>1, <3>2, FailedFine
  <2> QED BY <1>3, <2>1, <2>2, <2>3, EventFine, QuietStep
<1>6. CASE KillTimeout(c)
  <2>1. Event \/ UNCHANGED events
    BY <1>6 DEF KillTimeout, Hangs
  <2>2. UNCHANGED <<procs, struck>>
    BY <1>6 DEF KillTimeout, traces
  <2>3. CmdsGoOn
    BY <1>1, <1>6, FailedFine DEF KillTimeout
  <2> QED BY <1>3, <2>1, <2>2, <2>3, Rests, EventFine, QuietStep
<1>7. CASE WaitForExit(c)
  <2>1. Ended(c) /\ Bury(c) /\ Goto(c, "verify") /\ UNCHANGED <<events, struck>>
    BY <1>7 DEF WaitForExit, traces
  <2>2. \A s \in Sessions : s = cmd[c].session => ~Live(s)'
    BY <1>1, <2>1, Buried
  <2>3. "verify" \in StartPcs \intersect StopPcs \intersect RepairPcs
    BY DEF StartPcs, StopPcs, RepairPcs
  <2>4. CmdsGoOn /\ ~Waits(c)'
    BY <1>1, <2>1, <2>2, <2>3, GoesTo, PcNext DEF Waits
  <2>5. ProcsFine
    BY <1>1, <2>1, <2>4, BuryFine
  <2> QED BY <1>3, <2>1, <2>4, <2>5, EventFine, QuietStep
<1>8. CASE VerifyTeardownComplete(c)
  <2>1. cmd[c].pc = "verify" /\ UNCHANGED <<procs, events, struck>>
    BY <1>8 DEF VerifyTeardownComplete, traces
  <2>2. ~Live(cmd[c].session)
    BY <1>1, <2>1, SessionFacts DEF Knows
  <2>3. \A s \in Sessions : s = cmd[c].session => ~Live(s)'
    BY <2>1, <2>2 DEF Live, Alive
  <2>4. "remove" \in StartPcs \intersect StopPcs \intersect RepairPcs
    BY DEF StartPcs, StopPcs, RepairPcs
  <2>5. CmdsGoOn
    <3>1. CASE cmd[c].session.birth \notin ledgers
      <4>1. Goto(c, "remove")
        BY <1>8, <3>1 DEF VerifyTeardownComplete
      <4>2. cmd[c].session.birth \notin ledgers' \ resumed'
        BY <1>3, <3>1
      <4> QED BY <1>1, <2>3, <2>4, <4>1, <4>2, GoesTo
    <3>2. CASE cmd[c].session.birth \in ledgers
      BY <1>1, <1>8, <3>2, FailedFine DEF VerifyTeardownComplete
    <3> QED BY <3>1, <3>2
  <2> QED BY <1>3, <2>1, <2>5, Rests, EventFine, QuietStep
<1> QED BY <1>5, <1>6, <1>7, <1>8

\* The steps of a start that spawn, save, commit and remove nothing.
LEMMA StartSteps ==
  ASSUME HelperInv, NEW c \in Cmds,
         Acquire(c) \/ SpawnFails(c) \/ SaveFails(c) \/ ChildExited(c) \/ ChannelLost(c)
           \/ AbortKill(c) \/ Aborted(c) \/ AbortTimeout(c) \/ GiveUp(c)
  PROVE  HelperInv'
<1>1. /\ UNCHANGED <<record, births, resumed, struck, lost, console, ledgers, dirty, stuck>>
      /\ console' \in Users /\ ledgers' \subseteq ledgers /\ dirty' \subseteq ledgers'
      /\ stuck' \subseteq Births /\ cmd[c] # Idle
  <2>1. UNCHANGED <<record, births, resumed, struck, lost, console, ledgers, dirty, stuck>>
    BY DEF Acquire, SpawnFails, SaveFails, ChildExited, ChannelLost, AbortKill, Aborted,
       AbortTimeout, GiveUp, networkVars, traces
  <2>2. cmd[c].pc # "idle"
    BY DEF Acquire, SpawnFails, SaveFails, ChildExited, ChannelLost, AbortKill, Aborted,
       AbortTimeout, GiveUp, At
  <2> QED BY <2>1, <2>2, InvFacts, CmdShape
<1>2. CASE Acquire(c)
  <2>1. cmd[c].pc = "lock" /\ UNCHANGED <<procs, events>>
    BY <1>2 DEF Acquire, At
  <2>2. CASE lock[cmd[c].user] = NoCmd
    <3> DEFINE new == [cmd[c] EXCEPT !.pc = "spawn"]
    <3>1. /\ cmd[c] \in NewStart /\ cmd[c].user \in Users
          /\ new \in NewStart /\ new.pc = "spawn" /\ new.user = cmd[c].user
      BY <2>1, CmdShape DEF NewStart
    <3>2. cmd' = [cmd EXCEPT ![c] = new] /\ lock' = [lock EXCEPT ![cmd[c].user] = c]
      BY <1>2, <2>2 DEF Acquire, Goto
    <3> HIDE DEF new
    <3>3. /\ cmd' \in [Cmds -> CmdTypes] /\ cmd'[c] = new
          /\ \A d \in Cmds \ {c} : cmd'[d] = cmd[d]
      BY <3>1, <3>2, InvFacts DEF CmdTypes
    <3>4. /\ lock' \in [Users -> Cmds \union {NoCmd}] /\ lock'[cmd[c].user] = c
          /\ \A u \in Users \ {cmd[c].user} : lock'[u] = lock[u]
      BY <3>1, <3>2, InvFacts
    <3>5. CmdsGoOn
      BY <2>1, <3>1, <3>3, <3>4 DEF CmdsGoOn, Enters
    <3>6. LocksFine
      BY <2>2, <3>4, HelperAssumption DEF LocksFine, LocksKept
    <3> QED BY <1>1, <2>1, <3>5, <3>6, Rests, EventFine, QuietStep
  <2>3. CASE lock[cmd[c].user] # NoCmd
    <3>1. End(c) /\ UNCHANGED lock
      BY <1>2, <2>3 DEF Acquire
    <3> QED BY <1>1, <2>1, <3>1, Ends, Rests, EventFine, QuietStep
  <2> QED BY <2>2, <2>3
<1>3. CASE SpawnFails(c)
  <2>1. End(c) /\ Release(c) /\ UNCHANGED procs /\ (Event \/ UNCHANGED events)
    BY <1>3 DEF SpawnFails
  <2> QED BY <1>1, <2>1, Ends, Rests, EventFine, QuietStep
<1>4. CASE SaveFails(c)
  <2>1. /\ cmd[c].pc = "save" /\ cmd[c].kind = "start" /\ Goto(c, "abort") /\ Event
        /\ UNCHANGED <<lock, procs>>
    BY <1>4 DEF SaveFails, At
  <2>2. HasSession(c) /\ "abort" \in StartPcs
    BY <2>1, CmdShape DEF StartPcs
  <2>3. CmdsGoOn
    BY <2>1, <2>2, GoesTo
  <2> QED BY <1>1, <2>1, <2>3, Rests, EventFine, QuietStep
<1>5. CASE ChildExited(c)
  <2>1. /\ cmd[c].pc = "monitor" /\ cmd[c].kind = "start" /\ Goto(c, "verify") /\ Bury(c)
        /\ procs[cmd[c].session.pid].state = "zombie" /\ UNCHANGED <<lock, events>>
    BY <1>5 DEF ChildExited, At
  <2>2. HasSession(c) /\ "verify" \in StartPcs /\ Waits(c)
    BY <2>1, CmdShape DEF StartPcs, Waits
  <2>3. \A s \in Sessions : s = cmd[c].session => ~Live(s)'
    BY <2>1, <2>2, Buried
  <2>4. CmdsGoOn /\ ~Waits(c)'
    BY <1>1, <2>1, <2>2, <2>3, GoesTo, PcNext DEF Waits
  <2>5. ProcsFine
    BY <2>1, <2>2, <2>4, BuryFine
  <2> QED BY <1>1, <2>1, <2>4, <2>5, Rests, EventFine, QuietStep
<1>6. CASE ChannelLost(c)
  <2>1. /\ cmd[c].pc = "monitor" /\ cmd[c].kind = "start" /\ Goto(c, "terminate")
        /\ UNCHANGED <<lock, procs, events>>
    BY <1>6 DEF ChannelLost, At
  <2>2. HasSession(c) /\ "terminate" \in StartPcs
    BY <2>1, CmdShape DEF StartPcs
  <2>3. CmdsGoOn
    BY <2>1, <2>2, GoesTo
  <2> QED BY <1>1, <2>1, <2>3, Rests, EventFine, QuietStep
<1>7. CASE AbortKill(c)
  <2>1. /\ cmd[c].pc = "abortKill" /\ cmd[c].kind = "start" /\ Goto(c, "aborted")
        /\ Signal(cmd[c].session.pid, "kill") /\ UNCHANGED <<lock, events>>
    BY <1>7 DEF AbortKill, At
  <2>2. HasSession(c) /\ "aborted" \in StartPcs
    BY <2>1, CmdShape DEF StartPcs
  <2>3. CmdsGoOn
    BY <2>1, <2>2, GoesTo
  <2>4. ProcsFine
    BY <2>1, <2>2, SessionFacts, SignalFine
  <2> QED BY <1>1, <2>1, <2>3, <2>4, Rests, EventFine, QuietStep
<1>8. CASE Aborted(c)
  <2>1. /\ cmd[c].pc = "aborted" /\ cmd[c].kind = "start" /\ Ended(c) /\ Bury(c)
        /\ UNCHANGED <<lock, events>>
    BY <1>8 DEF Aborted, At
  <2>2. HasSession(c) /\ "remove" \in StartPcs /\ IsStart(c)
    BY <2>1, CmdShape DEF StartPcs
  <2>3. \A s \in Sessions : s = cmd[c].session => ~Live(s)'
    BY <2>1, <2>2, Buried
  <2>4. CmdsGoOn /\ ~Waits(c)'
    <3>1. CASE ~cmd[c].committed \/ cmd[c].session.birth \notin ledgers
      <4>1. Goto(c, "remove")
        BY <1>8, <3>1 DEF Aborted
      <4>2. ~cmd[c].committed => NeverRan(cmd[c].session.birth)
        BY <2>2, SessionFacts DEF Knows
      <4>3. cmd[c].session.birth \notin ledgers' \ resumed'
        BY <1>1, <3>1, <4>2 DEF NeverRan
      <4> QED BY <1>1, <2>1, <2>2, <2>3, <4>1, <4>3, GoesTo, PcNext DEF Waits
    <3>2. CASE ~(~cmd[c].committed \/ cmd[c].session.birth \notin ledgers)
      BY <1>8, <2>1, <2>2, <3>2, TriesAgain DEF Aborted
    <3> QED BY <3>1, <3>2
  <2>5. ProcsFine
    BY <2>1, <2>2, <2>4, BuryFine
  <2> QED BY <1>1, <2>1, <2>4, <2>5, Rests, EventFine, QuietStep
<1>9. CASE AbortTimeout(c)
  <2>1. /\ cmd[c].pc = "aborted" /\ cmd[c].kind = "start"
        /\ Hangs(cmd[c].session) /\ UNCHANGED <<lock, procs>>
        /\ cmd' = [cmd EXCEPT ![c].pc = "terminate", ![c].last = TRUE]
    BY <1>9 DEF AbortTimeout, At
  <2>2. HasSession(c) /\ (Event \/ UNCHANGED events)
    BY <2>1, CmdShape DEF Hangs
  <2>3. CmdsGoOn
    BY <2>1, <2>2, TriesAgain
  <2> QED BY <1>1, <2>1, <2>2, <2>3, Rests, EventFine, QuietStep
<1>10. CASE GiveUp(c)
  <2>1. procs' = Orphaned(c) /\ Release(c) /\ End(c) /\ UNCHANGED events
    BY <1>10 DEF GiveUp
  <2>2. ProcsFine
    BY <2>1, Ends, OrphanFine
  <2> QED BY <1>1, <2>1, <2>2, Ends, EventFine, QuietStep
<1> QED BY <1>2, <1>3, <1>4, <1>5, <1>6, <1>7, <1>8, <1>9, <1>10

\* A repair, what is killed, the loss of power, and who is at the console.
LEMMA RepairSteps ==
  ASSUME HelperInv, NEW c \in Cmds, RepairLedger(c) \/ RepairFails(c) \/ Killed(c)
  PROVE  HelperInv'
<1>1. /\ UNCHANGED <<record, births, resumed, struck, lost, console>> /\ console' \in Users
  <2>1. UNCHANGED <<record, births, resumed, struck, lost, console>>
    BY DEF RepairLedger, RepairFails, Killed, traces
  <2> QED BY <2>1, InvFacts
<1>2. CASE RepairLedger(c)
  <2>1. /\ cmd[c].pc = "repair" /\ cmd[c].kind = "repair" /\ Goto(c, "verify")
        /\ ledgers' = ledgers \ {cmd[c].session.birth}
        /\ dirty' = dirty \ {cmd[c].session.birth} /\ UNCHANGED <<lock, procs, events, stuck>>
    BY <1>2 DEF RepairLedger, At
  <2>2. HasSession(c) /\ "verify" \in RepairPcs
    BY <2>1, CmdShape DEF RepairPcs
  <2>3. ~Live(cmd[c].session)
    BY <2>1, <2>2, SessionFacts DEF Knows
  <2>4. \A s \in Sessions : s = cmd[c].session => ~Live(s)'
    BY <2>1, <2>3 DEF Live, Alive
  <2>5. CmdsGoOn
    BY <2>1, <2>2, <2>4, GoesTo
  <2>6. ledgers' \subseteq ledgers /\ dirty' \subseteq ledgers' /\ stuck' \subseteq Births
    BY <2>1, InvFacts
  <2> QED BY <1>1, <2>1, <2>5, <2>6, Rests, EventFine, QuietStep
<1>3. CASE RepairFails(c)
  <2>1. /\ cmd[c].pc = "repair" /\ End(c) /\ UNCHANGED <<lock, procs, ledgers, dirty>>
        /\ Event \/ UNCHANGED events
        /\ stuck' \subseteq stuck \union {cmd[c].session.birth}
    BY <1>3 DEF RepairFails, At
  <2>2. stuck' \subseteq Births
    <3>1. cmd[c].session \in Sessions
      BY <2>1, CmdShape
    <3> QED BY <2>1, <3>1, InvFacts
  <2>3. ledgers' \subseteq ledgers /\ dirty' \subseteq ledgers'
    BY <2>1, InvFacts
  <2> QED BY <1>1, <2>1, <2>2, <2>3, Ends, Rests, EventFine, QuietStep
<1>4. CASE Killed(c)
  <2>1. /\ procs' = Orphaned(c) /\ Release(c) /\ End(c) /\ Event
        /\ UNCHANGED <<ledgers, dirty, stuck>>
    BY <1>4 DEF Killed, networkVars
  <2>2. ProcsFine
    BY <2>1, Ends, OrphanFine
  <2>3. ledgers' \subseteq ledgers /\ dirty' \subseteq ledgers' /\ stuck' \subseteq Births
    BY <2>1, InvFacts
  <2> QED BY <1>1, <2>1, <2>2, <2>3, Ends, EventFine, QuietStep
<1> QED BY <1>2, <1>3, <1>4

LEMMA WorldSteps ==
  ASSUME HelperInv, PowerLoss \/ SwitchUser
  PROVE  HelperInv'
<1>1. /\ UNCHANGED <<record, births, resumed, struck, lost, ledgers, dirty, stuck>> /\ Event
      /\ ledgers' \subseteq ledgers /\ dirty' \subseteq ledgers' /\ stuck' \subseteq Births
  <2>1. /\ UNCHANGED <<record, births, resumed, struck, lost, ledgers, dirty, stuck>> /\ Event
    BY DEF PowerLoss, SwitchUser, networkVars, traces
  <2> QED BY <2>1, InvFacts
<1>2. CASE PowerLoss
  <2>1. /\ procs' = [p \in Pids |-> Free] /\ lock' = [u \in Users |-> NoCmd]
        /\ cmd' = [c \in Cmds |-> Idle] /\ console' = console
    BY <1>2 DEF PowerLoss
  <2>2. /\ Free \in ProcTypes /\ Free.state = "free"
        /\ Idle \in CmdTypes /\ Idle.pc = "idle"
    BY DEF ProcTypes, Free, CmdTypes, Idle
  <2> HIDE DEF Free, Idle
  <2>3. CmdsGoOn
    BY <2>1, <2>2 DEF CmdsGoOn
  <2>4. ProcsFine
    BY <2>1, <2>2 DEF ProcsFine, Tame, NoneRuns, ParentsKept, IsProc, Waits
  <2>5. LocksFine
    BY <2>1, <2>2 DEF LocksFine, LocksKept
  <2>6. console' \in Users
    BY <2>1, InvFacts
  <2> QED BY <1>1, <2>3, <2>4, <2>5, <2>6, EventFine, QuietStep
<1>3. CASE SwitchUser
  <2>1. UNCHANGED <<lock, procs, cmd>> /\ console' \in Users
    BY <1>3 DEF SwitchUser
  <2> QED BY <1>1, <2>1, Rests, EventFine, QuietStep
<1> QED BY <1>2, <1>3

-----------------------------------------------------------------------------
(* The processes.                                                            *)

LEMMA KernelSteps ==
  ASSUME HelperInv, NEW p \in Pids, Exit(p) \/ Reuse(p) \/ ReconnectFails(p)
  PROVE  HelperInv'
<1>1. /\ UNCHANGED <<record, births, resumed, struck, lost, cmd, lock>>
      /\ console' \in Users /\ stuck' \subseteq Births
  <2>1. UNCHANGED <<record, births, resumed, struck, lost, cmd, lock, console, stuck>>
    BY DEF Exit, Reuse, ReconnectFails, networkVars, traces
  <2> QED BY <2>1, InvFacts
<1>2. CASE Exit(p)
  <2>1. /\ procs[p].state \in {"running", "suspended"}
        /\ procs' = [procs EXCEPT ![p] = Remains(p)]
        /\ ledgers' \subseteq ledgers /\ dirty' = dirty \intersect ledgers'
        /\ UNCHANGED events
    BY <1>2 DEF Exit
  <2>2. IsProc(p)
    BY <2>1 DEF IsProc
  <2>3. /\ Remains(p) \in ProcTypes
        /\ \/ Remains(p).state = "free" /\ procs[p].parent \notin Cmds
           \/ /\ Remains(p).state = "zombie" /\ Remains(p).birth = procs[p].birth
              /\ Remains(p).parent = procs[p].parent
    BY <2>2, ProcShape DEF Remains, ProcTypes, Free
  <2>4. ProcsFine
    BY <2>1, <2>2, <2>3, OneProc
  <2> QED BY <1>1, <2>1, <2>4, Rests, EventFine, QuietStep
<1>3. CASE Reuse(p)
  <2>1. /\ procs[p] = Free /\ Event /\ procs' = [procs EXCEPT ![p] = Stranger]
        /\ UNCHANGED <<ledgers, dirty>>
    BY <1>3 DEF Reuse, networkVars
  <2>2. Stranger \in ProcTypes /\ Stranger.state = "other" /\ ~IsProc(p)
    BY <2>1 DEF ProcTypes, Stranger, Free, IsProc
  <2>3. ledgers' \subseteq ledgers /\ dirty' \subseteq ledgers'
    BY <2>1, InvFacts
  <2> HIDE DEF Stranger, Free
  <2>4. ProcsFine
    BY <2>1, <2>2, OneProc
  <2> QED BY <1>1, <2>1, <2>3, <2>4, Rests, EventFine, QuietStep
<1>4. CASE ReconnectFails(p)
  <2>1. /\ procs[p].birth \in ledgers \ dirty /\ Event
        /\ dirty' = dirty \union {procs[p].birth} /\ UNCHANGED <<procs, ledgers>>
    BY <1>4 DEF ReconnectFails
  <2>2. ledgers' \subseteq ledgers /\ dirty' \subseteq ledgers'
    BY <2>1, InvFacts
  <2> QED BY <1>1, <2>1, <2>2, Rests, EventFine, QuietStep
<1> QED BY <1>2, <1>3, <1>4

\* The types, for the steps that follow.
LEMMA TypedNext ==
  ASSUME HelperInv, record' \in Sessions \union {NoRecord},
         lock' \in [Users -> Cmds \union {NoCmd}],
         procs' \in [Pids -> ProcTypes], cmd' \in [Cmds -> CmdTypes],
         UNCHANGED <<console, dirty, stuck, events, struck>>, ledgers \subseteq ledgers',
         resumed' \subseteq Births, lost' \subseteq Births,
         births' \in Nat, births' + events <= MaxEvents, ledgers' \subseteq 1 .. births'
  PROVE  Typed' /\ StrangersSpared'
<1>1. /\ dirty' \subseteq ledgers' /\ stuck' \subseteq Births /\ console' \in Users
      /\ events' \in Nat /\ births' + events' <= MaxEvents /\ struck' \in BOOLEAN
  BY InvFacts DEF HelperInv, Typed, HelperTypeOK
<1>2. Typed'
  BY <1>1, TypesNext
<1>3. StrangersSpared'
  BY DEF HelperInv, StrangersSpared
<1> QED BY <1>2, <1>3

LEMMA NothingMoves ==
  ASSUME HelperInv, UNCHANGED procs
  PROVE  /\ ProcsFine /\ \A s \in Sessions : Live(s)' <=> Live(s)
         /\ \A p \in Pids : IsProc(p)' <=> IsProc(p)
<1>1. ProcsFine
  BY Rests
<1> QED BY <1>1 DEF Live, Alive, IsProc

\* A network comes up only of a process that runs: nobody believes it to be gone.
LEMMA ConnectStep ==
  ASSUME HelperInv, NEW p \in Pids, Connect(p)
  PROVE  HelperInv'
<1>1. /\ procs[p].state = "running" /\ ledgers' = ledgers \union {procs[p].birth}
      /\ UNCHANGED <<console, record, lock, procs, dirty, stuck, cmd, births, events, resumed,
                     struck, lost>>
  BY DEF Connect, traces
<1>2. IsProc(p) /\ procs[p].birth \in Births /\ procs[p].birth <= births
  <2>1. IsProc(p)
    BY <1>1 DEF IsProc
  <2> QED BY <2>1, ProcShape DEF HelperInv, SessionsPaired
<1>3. Typed' /\ StrangersSpared'
  <2>1. ledgers' \subseteq 1 .. births'
    BY <1>1, <1>2, InvFacts DEF Births
  <2> QED BY <1>1, <2>1, InvFacts, TypedNext
<1>4. SessionsPaired' /\ StartsLocked' /\ ChildrenKept' /\ RunningIsOnRecord'
  BY <1>1 DEF HelperInv, SessionsPaired, InHand, HasSession, Paired, IsProc, StartsLocked,
     IsStart, ChildrenKept, Waits, HasChild, RunningIsOnRecord
<1>5. EvidenceIsKept'
  <2>1. procs[p].birth \notin resumed \union lost => record.birth = procs[p].birth
    BY <1>1 DEF HelperInv, RunningIsOnRecord
  <2> QED BY <1>1, <2>1 DEF HelperInv, EvidenceIsKept
<1>6. CommandsKnow'
  <2>1. ASSUME NEW c \in Cmds, HasSession(c), NEW s \in Sessions, s = cmd[c].session
        PROVE  Knows(c, s)'
    <3>1. Knows(c, s) /\ Paired(s)
      BY <2>1, SessionFacts
    <3>2. s.birth = procs[p].birth => Live(s)
      BY <1>1, <1>2, <3>1 DEF Paired, Live, Alive
    <3>3. s.birth \notin ledgers \ resumed /\ ~Live(s) => s.birth \notin ledgers' \ resumed'
      BY <1>1, <3>2
    <3>4. NeverRan(s.birth) => NeverRan(s.birth)'
      BY <1>1 DEF NeverRan
    <3>5. ~Live(s) => ~Live(s)'
      BY <1>1, NothingMoves
    <3> QED BY <1>1, <3>1, <3>3, <3>4, <3>5, BystanderKnows
  <2> QED BY <1>1, <2>1 DEF CommandsKnow, HasSession
<1> QED BY <1>3, <1>4, <1>5, <1>6 DEF HelperInv

-----------------------------------------------------------------------------
(* Beginning, saving, letting run, and removing.                             *)

\* Commands that begin.
LEMMA BeginSteps ==
  ASSUME HelperInv, NEW c \in Cmds, StartCheck(c) \/ StopLoad(c) \/ RepairLoad(c)
  PROVE  HelperInv'
<1>1. PICK new \in NewStart \union Stops \union Repairs :
        /\ cmd' = [cmd EXCEPT ![c] = new]
        /\ new.pc = "lock" \/ (record # NoRecord /\ new.session = record)
        /\ \/ new \in NewStart /\ new.pc = "lock"
           \/ new \in Stops /\ new.pc = "terminate"
           \/ new \in Repairs /\ new.pc = "repair" /\ ~Live(record)
  <2>1. CASE StartCheck(c)
    <3> DEFINE x == [pc |-> "lock", kind |-> "start", last |-> FALSE, user |-> console]
    <3>1. x \in NewStart /\ x.pc = "lock"
      BY InvFacts DEF NewStart
    <3>2. cmd' = [cmd EXCEPT ![c] = x]
      BY <2>1 DEF StartCheck
    <3> HIDE DEF x
    <3> QED BY <3>1, <3>2
  <2>2. CASE StopLoad(c)
    <3> DEFINE x == [pc |-> "terminate", kind |-> "stop", last |-> FALSE, session |-> record]
    <3>1. /\ x \in Stops /\ x.pc = "terminate" /\ x.session = record /\ record # NoRecord
          /\ cmd' = [cmd EXCEPT ![c] = x]
      BY <2>2, InvFacts DEF StopLoad, Stops, StopPcs
    <3> HIDE DEF x
    <3> QED BY <3>1
  <2>3. CASE RepairLoad(c)
    <3> DEFINE x == [pc |-> "repair", kind |-> "repair", last |-> FALSE, session |-> record]
    <3>1. /\ x \in Repairs /\ x.pc = "repair" /\ x.session = record /\ record # NoRecord
          /\ ~Live(record) /\ cmd' = [cmd EXCEPT ![c] = x]
      BY <2>3, InvFacts DEF RepairLoad, Repairs, RepairPcs
    <3> HIDE DEF x
    <3> QED BY <3>1
  <2> QED BY <2>1, <2>2, <2>3
<1>2. /\ cmd[c] = Idle
      /\ UNCHANGED <<console, record, lock, procs, ledgers, dirty, stuck, births, events,
                     resumed, struck, lost>>
  BY DEF StartCheck, StopLoad, RepairLoad, networkVars, traces
<1>3. /\ cmd' \in [Cmds -> CmdTypes] /\ cmd'[c] = new
      /\ \A d \in Cmds \ {c} : cmd'[d] = cmd[d]
  BY <1>1, InvFacts DEF CmdTypes
<1>4. /\ ~IsStart(c)' /\ ~Waits(c)' /\ new.pc \notin {"spawn", "verify", "remove", "commit"}
      /\ HasSession(c)' => record # NoRecord /\ new.session = record
                           /\ (new.pc = "repair" => ~Live(record))
  <2>1. new.pc \in {"lock", "terminate", "repair"}
    BY <1>1
  <2>2. ~IsStart(c)'
    <3>1. new \in NewStart => new \notin Starts
      BY <1>3, CmdShapeNext DEF IsStart, HasSession
    <3>2. new \in Stops \union Repairs => new.kind \in {"stop", "repair"}
      BY DEF Stops, Repairs
    <3>3. new \in Starts => new.kind = "start"
      BY DEF Starts
    <3> QED BY <1>1, <1>3, <3>1, <3>2, <3>3 DEF IsStart
  <2>3. HasSession(c)' => new.pc # "lock"
    BY <1>3, CmdShapeNext
  <2> QED BY <1>1, <1>3, <2>1, <2>2, <2>3 DEF Waits
<1>5. Typed' /\ StrangersSpared'
  BY <1>2, <1>3, InvFacts, TypedNext
<1>6. ProcsFine /\ LocksFine
  BY <1>2, Rests
<1>7. CmdsKept
  <2>1. ASSUME NEW d \in Cmds, d # c
        PROVE  /\ HasSession(d)' => InHand(cmd'[d].session)
               /\ IsStart(d)' => IsStart(d) /\ cmd'[d].session = cmd[d].session
               /\ Waits(d)' => Waits(d)
               /\ cmd'[d].pc = "spawn" => cmd'[d] = cmd[d] \/ Enters(d)
    BY <1>3, <2>1 DEF HasSession, InHand, IsStart, Waits
  <2>2. HasSession(c)' => InHand(cmd'[c].session)
    BY <1>3, <1>4 DEF InHand
  <2> QED BY <1>3, <1>4, <2>1, <2>2 DEF CmdsKept
<1>8. SessionsPaired' /\ StartsLocked' /\ ChildrenKept'
  <2>1. \A s \in Sessions : s = record' => InHand(s)
    BY <1>2 DEF InHand
  <2> QED BY <1>2, <1>3, <1>6, <1>7, <2>1, FrameKept DEF ProcsFine, LocksFine
<1>9. CommandsKnow'
  <2>1. ASSUME NEW d \in Cmds, HasSession(d)', NEW s \in Sessions, s = cmd'[d].session
        PROVE  Knows(d, s)'
    <3>1. (Live(s)' <=> Live(s)) /\ (NeverRan(s.birth)' <=> NeverRan(s.birth))
      BY <1>2, NothingMoves DEF NeverRan
    <3>2. CASE d = c
      BY <1>3, <1>4, <2>1, <3>1, <3>2 DEF Knows
    <3>3. CASE d # c
      <4>1. HasSession(d) /\ cmd'[d] = cmd[d]
        BY <1>3, <2>1, <3>3 DEF HasSession
      <4> QED BY <1>2, <2>1, <3>1, <4>1, SessionFacts, BystanderKnows
    <3> QED BY <3>2, <3>3
  <2> QED BY <1>3, <2>1 DEF CommandsKnow
<1>10. RunningIsOnRecord' /\ EvidenceIsKept'
  BY <1>2 DEF HelperInv, RunningIsOnRecord, EvidenceIsKept
<1> QED BY <1>5, <1>8, <1>9, <1>10 DEF HelperInv

\* What a command takes from the record is its own session, or is lost: the start of the
\* session on record has the lock that a start of the same user would need.
LEMMA RecordTaken ==
  ASSUME HelperInv, NEW c \in Cmds, HasSession(c), lost' = lost \union Lost(c)
  PROVE  /\ record \in {NoRecord, cmd[c].session} \/ record.birth \in lost'
         /\ lost' \subseteq Births /\ lost \subseteq lost'
<1>1. ASSUME record \notin {NoRecord, cmd[c].session} PROVE record.birth \in Lost(c)
  <2> SUFFICES ASSUME cmd[c].kind = "start", record.user = cmd[c].session.user,
                      Attended(record)
               PROVE  FALSE
    BY <1>1 DEF Lost
  <2>1. PICK d \in Cmds : /\ cmd[d].pc \notin {"idle", "lock", "spawn"}
                          /\ cmd[d].kind = "start" /\ cmd[d].session = record
    BY DEF Attended
  <2>2. IsStart(d) /\ IsStart(c)
    BY <2>1, CmdShape
  <2>3. lock[record.user] = d /\ lock[record.user] = c
    BY <2>1, <2>2 DEF HelperInv, StartsLocked
  <2> QED BY <1>1, <2>1, <2>3
<1>2. Lost(c) \subseteq Births
  BY InvFacts DEF Lost
<1> QED BY <1>1, <1>2, InvFacts

\* store.remove: the session is proven to be gone, so nothing of it on record is lost.
LEMMA RemoveStep ==
  ASSUME HelperInv, NEW c \in Cmds, RemoveRecord(c)
  PROVE  HelperInv'
<1>1. /\ cmd[c].pc = "remove" /\ record' = NoRecord /\ Release(c) /\ End(c)
      /\ lost' = lost \union Lost(c)
      /\ UNCHANGED <<console, procs, ledgers, dirty, stuck, births, events, resumed, struck>>
  BY DEF RemoveRecord, networkVars
<1>2. HasSession(c)
  BY <1>1, CmdShape
<1>3. PICK t \in Sessions : t = cmd[c].session
  BY <1>2, SessionFacts
<1>4. ~Live(t) /\ t.birth \notin ledgers \ resumed
  BY <1>1, <1>2, <1>3, SessionFacts DEF Knows
<1>5. /\ record \in {NoRecord, t} \/ record.birth \in lost'
      /\ lost' \subseteq Births /\ lost \subseteq lost'
  BY <1>1, <1>2, <1>3, RecordTaken
<1>6. /\ CmdsGoOn /\ cmd' \in [Cmds -> CmdTypes] /\ cmd'[c].pc = "idle"
      /\ \A d \in Cmds \ {c} : cmd'[d] = cmd[d]
      /\ LocksFine /\ ProcsFine
  BY <1>1, Ends, Rests DEF CmdsGoOn
<1>7. Typed' /\ StrangersSpared'
  BY <1>1, <1>5, <1>6, InvFacts, TypedNext DEF LocksFine
<1>8. ~HasSession(c)' /\ ~IsStart(c)' /\ ~Waits(c)'
  BY <1>6, CmdShapeNext
<1>9. SessionsPaired' /\ StartsLocked' /\ ChildrenKept'
  <2>1. CmdsKept
    <3>1. ASSUME NEW d \in Cmds, d # c
          PROVE  /\ HasSession(d)' => InHand(cmd'[d].session)
                 /\ IsStart(d)' => IsStart(d) /\ cmd'[d].session = cmd[d].session
                 /\ Waits(d)' => Waits(d)
                 /\ cmd'[d].pc = "spawn" => cmd'[d] = cmd[d] \/ Enters(d)
      BY <1>6, <3>1 DEF HasSession, InHand, IsStart, Waits
    <3> QED BY <1>6, <1>8, <3>1 DEF CmdsKept
  <2>2. \A s \in Sessions : s = record' => InHand(s)
    BY <1>1, InvFacts
  <2> QED BY <1>1, <1>6, <2>1, <2>2, FrameKept DEF ProcsFine, LocksFine
<1>10. CommandsKnow'
  <2>1. ASSUME NEW d \in Cmds, HasSession(d)', NEW s \in Sessions, s = cmd'[d].session
        PROVE  Knows(d, s)'
    <3>1. d # c /\ HasSession(d) /\ cmd'[d] = cmd[d] /\ s = cmd[d].session /\ Knows(d, s)
      <4>1. d # c /\ cmd'[d] = cmd[d]
        BY <1>6, <1>8, <2>1
      <4>2. HasSession(d)
        BY <2>1, <4>1 DEF HasSession
      <4> QED BY <2>1, <4>1, <4>2, SessionFacts
    <3>2. (Live(s)' <=> Live(s)) /\ (NeverRan(s.birth)' <=> NeverRan(s.birth))
      BY <1>1, NothingMoves DEF NeverRan
    <3>3. record = s => s.birth \in lost' \/ ~Live(s)'
      BY <1>4, <1>5, <3>2, InvFacts
    <3> QED BY <1>1, <1>5, <3>1, <3>2, <3>3, BystanderKnows
  <2> QED BY <1>6, <2>1 DEF CommandsKnow
<1>11. RunningIsOnRecord'
  <2>1. ASSUME NEW p \in Pids, procs[p].state = "running",
               procs[p].birth \notin resumed \union lost'
        PROVE  FALSE
    <3>1. record # NoRecord /\ record.pid = p /\ record.birth = procs[p].birth
      BY <1>5, <2>1 DEF HelperInv, RunningIsOnRecord
    <3>2. record = t
      BY <1>5, <2>1, <3>1
    <3>3. Live(t)
      BY <2>1, <3>1, <3>2 DEF Live, Alive
    <3> QED BY <1>4, <3>3
  <2> QED BY <1>1, <2>1 DEF RunningIsOnRecord
<1>12. EvidenceIsKept'
  <2>1. ASSUME NEW b \in ledgers, b \notin resumed \union lost' PROVE FALSE
    <3>1. record.birth = b /\ b >= 1
      BY <1>5, <2>1, InvFacts DEF HelperInv, EvidenceIsKept
    <3>2. record = t
      BY <1>5, <2>1, <3>1, InvFacts
    <3> QED BY <1>4, <2>1, <3>1, <3>2
  <2> QED BY <1>1, <2>1 DEF EvidenceIsKept
<1> QED BY <1>7, <1>9, <1>10, <1>11, <1>12 DEF HelperInv

\* prepareSpawn: a session later than every other, whose process has not run.
LEMMA SpawnStep ==
  ASSUME HelperInv, NEW c \in Cmds, PrepareSpawn(c)
  PROVE  HelperInv'
<1>1. /\ cmd[c].pc = "spawn" /\ births' = births + 1 /\ births + events < MaxEvents
      /\ UNCHANGED <<console, record, lock, ledgers, dirty, stuck, events, resumed, struck, lost>>
  BY DEF PrepareSpawn, At, Room, networkVars, traces
<1>2. cmd[c].user \in Users /\ lock[cmd[c].user] = c
  BY <1>1, CmdShape DEF HelperInv, StartsLocked
<1> DEFINE proc == [state |-> "suspended", birth |-> births + 1, parent |-> c,
                    signal |-> "none"]
           new(p) == [pc |-> "save", kind |-> "start", last |-> FALSE,
                      session |-> Session(p, cmd[c].user), committed |-> FALSE]
<1>3. PICK p \in Pids : /\ procs[p] = Free /\ procs' = [procs EXCEPT ![p] = proc]
                        /\ cmd' = [cmd EXCEPT ![c] = new(p)]
  BY DEF PrepareSpawn
<1>4. /\ births \in Nat /\ births + 1 \in Births /\ births' \in Nat
      /\ births' + events <= MaxEvents /\ 1 .. births \subseteq 1 .. births'
  BY <1>1, InvFacts, HelperAssumption DEF Births
<1>5. /\ proc \in ProcTypes /\ proc.birth = births + 1 /\ proc.state = "suspended"
      /\ proc.parent = c
  BY <1>4 DEF ProcTypes
<1>6. /\ Session(p, cmd[c].user) \in Sessions /\ Session(p, cmd[c].user).birth = births + 1
      /\ Session(p, cmd[c].user).pid = p /\ Session(p, cmd[c].user).user = cmd[c].user
  BY <1>2, <1>4 DEF Session, Sessions
<1>7. PICK t \in Sessions : t = Session(p, cmd[c].user)
  BY <1>6
<1>8. /\ new(p) \in Starts /\ new(p).pc = "save" /\ new(p).session = t
      /\ t.pid = p /\ t.birth = births + 1 /\ t.user = cmd[c].user
  BY <1>6, <1>7 DEF Starts, StartPcs
<1> HIDE DEF proc, new, Free
<1>9. /\ procs' \in [Pids -> ProcTypes] /\ procs'[p] = proc
      /\ \A q \in Pids \ {p} : procs'[q] = procs[q]
  BY <1>3, <1>5, InvFacts
<1>10. /\ cmd' \in [Cmds -> CmdTypes] /\ cmd'[c] = new(p)
       /\ \A d \in Cmds \ {c} : cmd'[d] = cmd[d]
  BY <1>3, <1>8, InvFacts DEF CmdTypes
<1>11. IsStart(c)' /\ HasSession(c)' /\ cmd'[c].session = t /\ cmd'[c].pc = "save"
  BY <1>8, <1>10 DEF IsStart, HasSession
<1>12. ~IsProc(p) /\ IsProc(p)'
  BY <1>3, <1>5, <1>9, ProcShape DEF IsProc
<1>13. ASSUME NEW q \in Pids \ {p}
       PROVE  /\ procs'[q] = procs[q] /\ (IsProc(q)' <=> IsProc(q))
              /\ IsProc(q) => procs[q].birth <= births /\ procs[q].birth \in Nat
  <2>1. procs'[q] = procs[q]
    BY <1>9
  <2>2. IsProc(q) => procs[q].birth <= births /\ procs[q].birth \in Births
    BY ProcShape DEF HelperInv, SessionsPaired
  <2> QED BY <2>1, <2>2 DEF Births, IsProc
<1>14. \A q \in Pids : procs'[q].state = "running" =>
         q # p /\ procs[q].state = "running" /\ procs'[q] = procs[q] /\ IsProc(q)
  BY <1>5, <1>9 DEF IsProc
<1>15. ASSUME NEW d \in Cmds, d # c
       PROVE  /\ HasSession(d)' => HasSession(d) /\ cmd'[d] = cmd[d]
              /\ IsStart(d)' => IsStart(d) /\ cmd'[d] = cmd[d]
              /\ Waits(d)' => Waits(d) /\ cmd'[d] = cmd[d]
              /\ cmd'[d].pc = "spawn" => cmd[d].pc = "spawn" /\ cmd'[d] = cmd[d]
  BY <1>10, <1>15 DEF HasSession, IsStart, Waits
<1>16. Typed' /\ StrangersSpared'
  <2>1. ledgers' \subseteq 1 .. births'
    BY <1>1, <1>4, InvFacts
  <2> QED BY <1>1, <1>4, <1>9, <1>10, <2>1, InvFacts, TypedNext
<1>17. ASSUME NEW s \in Sessions, InHand(s)' PROVE s = t \/ (InHand(s) /\ Paired(s))
  <2>1. s = t \/ InHand(s)
    <3>1. CASE s = record'
      BY <1>1, <3>1 DEF InHand
    <3>2. CASE s # record'
      <4>1. PICK d \in Cmds : HasSession(d)' /\ s = cmd'[d].session
        BY <1>17, <3>2 DEF InHand
      <4> QED BY <1>11, <1>15, <4>1 DEF InHand
    <3> QED BY <3>1, <3>2
  <2> QED BY <2>1 DEF HelperInv, SessionsPaired
<1>18. SessionsPaired'
  <2>1. Paired(t)'
    <3>1. \A q \in Pids : IsProc(q)' /\ procs'[q].birth = t.birth => q = t.pid
      BY <1>4, <1>8, <1>13
    <3> QED BY <1>1, <1>4, <1>8, <3>1 DEF Paired
  <2>2. ASSUME NEW s \in Sessions, Paired(s) PROVE Paired(s)'
    <3>1. s.birth <= births /\ s.birth \in Nat
      BY <2>2, InvFacts DEF Paired
    <3>2. \A q \in Pids : IsProc(q)' /\ procs'[q].birth = s.birth => q = s.pid
      BY <1>4, <1>5, <1>9, <1>13, <2>2, <3>1 DEF Paired
    <3> QED BY <1>1, <1>4, <3>1, <3>2 DEF Paired
  <2>3. \A q \in Pids : IsProc(q)' => procs'[q].birth <= births'
    BY <1>1, <1>4, <1>5, <1>9, <1>13
  <2> QED BY <1>17, <2>1, <2>2, <2>3 DEF SessionsPaired
<1>19. StartsLocked'
  <2>1. \A d \in Cmds : cmd'[d].pc = "spawn" => lock'[cmd'[d].user] = d
    BY <1>1, <1>11, <1>15 DEF HelperInv, StartsLocked
  <2>2. \A d \in Cmds : IsStart(d)' => lock'[cmd'[d].session.user] = d
    BY <1>1, <1>2, <1>8, <1>11, <1>15 DEF HelperInv, StartsLocked
  <2>3. ASSUME NEW d \in Cmds, NEW e \in Cmds, IsStart(d)', IsStart(e)',
               cmd'[d].session.birth = cmd'[e].session.birth
        PROVE  d = e
    <3>1. \A f \in Cmds : IsStart(f) =>
            cmd[f].session.birth <= births /\ cmd[f].session.birth \in Nat
      BY CmdShape, SessionFacts, InvFacts DEF Paired
    <3>2. t.birth = births + 1 /\ births \in Nat
      BY <1>4, <1>8
    <3>3. CASE d # c /\ e # c
      BY <1>15, <2>3, <3>3 DEF HelperInv, StartsLocked
    <3>4. CASE d = c /\ e # c
      BY <1>11, <1>15, <2>3, <3>1, <3>2, <3>4
    <3>5. CASE d # c /\ e = c
      BY <1>11, <1>15, <2>3, <3>1, <3>2, <3>5
    <3> QED BY <3>3, <3>4, <3>5
  <2> QED BY <2>1, <2>2, <2>3 DEF StartsLocked
<1>20. ChildrenKept'
  <2>1. ASSUME NEW d \in Cmds, Waits(d)' PROVE HasChild(d, cmd[d].session.pid)'
    <3>1. CASE d = c
      BY <1>5, <1>8, <1>9, <1>11, <1>12, <3>1 DEF HasChild, IsProc
    <3>2. CASE d # c
      <4>1. /\ Waits(d) /\ cmd'[d] = cmd[d] /\ cmd[d].session.pid \in Pids
            /\ HasChild(d, cmd[d].session.pid)
        BY <1>15, <2>1, <3>2, CmdShape, SessionFacts DEF HelperInv, ChildrenKept
      <4> QED BY <1>12, <1>13, <4>1 DEF HasChild, IsProc
    <3> QED BY <3>1, <3>2
  <2> QED BY <2>1 DEF ChildrenKept
<1>21. CommandsKnow'
  <2>1. Knows(c, t)'
    <3>1. t.birth \notin ledgers'
      BY <1>1, <1>4, <1>8, InvFacts
    <3>2. \A q \in Pids : procs'[q].state = "running" => procs'[q].birth # t.birth
      BY <1>4, <1>8, <1>13, <1>14
    <3>3. NeverRan(t.birth)'
      BY <3>1, <3>2 DEF NeverRan
    <3> QED BY <1>11, <3>3 DEF Knows
  <2>2. ASSUME NEW d \in Cmds, d # c, HasSession(d)', NEW s \in Sessions, s = cmd'[d].session
        PROVE  Knows(d, s)'
    <3>1. /\ HasSession(d) /\ cmd'[d] = cmd[d] /\ s = cmd[d].session /\ Knows(d, s)
          /\ s.birth <= births /\ s.birth \in Nat
      BY <1>15, <2>2, SessionFacts, InvFacts DEF Paired
    <3>2. ~Live(s) => ~Live(s)'
      <4>1. s.pid = p => ~Live(s)'
        BY <1>4, <1>5, <1>9, <3>1 DEF Live
      <4>2. s.pid \in Pids
        BY InvFacts
      <4> QED BY <1>9, <4>1, <4>2 DEF Live, Alive
    <3>3. NeverRan(s.birth) => NeverRan(s.birth)'
      BY <1>1, <1>14 DEF NeverRan
    <3> QED BY <1>1, <3>1, <3>2, <3>3, BystanderKnows
  <2>3. ASSUME NEW d \in Cmds, HasSession(d)', NEW s \in Sessions, s = cmd'[d].session
        PROVE  Knows(d, s)'
    BY <1>11, <2>1, <2>2, <2>3
  <2> QED BY <1>10, <2>3 DEF CommandsKnow
<1>22. RunningIsOnRecord' /\ EvidenceIsKept'
  BY <1>1, <1>14 DEF HelperInv, RunningIsOnRecord, EvidenceIsKept
<1> QED BY <1>16, <1>18, <1>19, <1>20, <1>21, <1>22 DEF HelperInv

\* store.save: what it overwrites is lost.
LEMMA SaveStep ==
  ASSUME HelperInv, NEW c \in Cmds, SaveRecord(c)
  PROVE  HelperInv'
<1> DEFINE new == [cmd[c] EXCEPT !.pc = "commit"]
<1>1. /\ cmd[c].pc = "save" /\ cmd[c].kind = "start" /\ record' = cmd[c].session
      /\ lost' = lost \union Lost(c) /\ cmd' = [cmd EXCEPT ![c] = new]
      /\ UNCHANGED <<console, lock, procs, ledgers, dirty, stuck, births, events, resumed, struck>>
  BY DEF SaveRecord, At, Goto, networkVars
<1>2. HasSession(c) /\ cmd[c] \in Starts /\ IsStart(c) /\ Waits(c)
  BY <1>1, CmdShape DEF Waits
<1>3. PICK t \in Sessions : t = cmd[c].session
  BY <1>2, SessionFacts
<1>4. /\ new \in Starts /\ new.pc = "commit" /\ new.session = t
      /\ new.committed = cmd[c].committed
  BY <1>2, <1>3 DEF Starts, StartPcs
<1> HIDE DEF new
<1>5. /\ cmd' \in [Cmds -> CmdTypes] /\ cmd'[c] = new
      /\ \A d \in Cmds \ {c} : cmd'[d] = cmd[d]
  BY <1>1, <1>4, InvFacts DEF CmdTypes
<1>6. /\ record \in {NoRecord, t} \/ record.birth \in lost'
      /\ lost' \subseteq Births /\ lost \subseteq lost'
  BY <1>1, <1>2, <1>3, RecordTaken
<1>7. ProcsFine /\ LocksFine
  BY <1>1, Rests
<1>8. Typed' /\ StrangersSpared'
  BY <1>1, <1>3, <1>5, <1>6, InvFacts, TypedNext
<1>9. SessionsPaired' /\ StartsLocked' /\ ChildrenKept'
  <2>1. CmdsKept
    <3>1. ASSUME NEW d \in Cmds, d # c
          PROVE  /\ HasSession(d)' => InHand(cmd'[d].session)
                 /\ IsStart(d)' => IsStart(d) /\ cmd'[d].session = cmd[d].session
                 /\ Waits(d)' => Waits(d)
                 /\ cmd'[d].pc = "spawn" => cmd'[d] = cmd[d] \/ Enters(d)
      BY <1>5, <3>1 DEF HasSession, InHand, IsStart, Waits
    <3>2. InHand(cmd'[c].session) /\ cmd'[c].session = cmd[c].session /\ cmd'[c].pc # "spawn"
      BY <1>2, <1>3, <1>4, <1>5 DEF InHand
    <3> QED BY <1>2, <3>1, <3>2 DEF CmdsKept
  <2>2. \A s \in Sessions : s = record' => InHand(s)
    BY <1>1, <1>2 DEF InHand
  <2> QED BY <1>1, <1>5, <1>7, <2>1, <2>2, FrameKept DEF ProcsFine, LocksFine
<1>10. CommandsKnow'
  <2>1. ASSUME NEW d \in Cmds, HasSession(d)', NEW s \in Sessions, s = cmd'[d].session
        PROVE  Knows(d, s)'
    <3>1. (Live(s)' <=> Live(s)) /\ (NeverRan(s.birth)' <=> NeverRan(s.birth))
      BY <1>1, NothingMoves DEF NeverRan
    <3>2. CASE d = c
      <4>1. s = t /\ Knows(c, t) /\ cmd'[c].pc = "commit" /\ record' = s
        BY <1>1, <1>2, <1>3, <1>4, <1>5, <2>1, <3>2, SessionFacts
      <4>2. ~cmd'[c].committed => NeverRan(t.birth)'
        BY <1>2, <1>4, <1>5, <3>1, <4>1 DEF Knows
      <4> QED BY <3>2, <4>1, <4>2 DEF Knows
    <3>3. CASE d # c
      <4>1. HasSession(d) /\ cmd'[d] = cmd[d] /\ s = cmd[d].session /\ Knows(d, s)
        <5>1. cmd'[d] = cmd[d]
          BY <1>5, <3>3
        <5>2. HasSession(d)
          BY <2>1, <5>1 DEF HasSession
        <5> QED BY <2>1, <5>1, <5>2, SessionFacts
      <4>2. record = s => record' = s \/ s.birth \in lost'
        BY <1>1, <1>3, <1>6, InvFacts
      <4> QED BY <1>1, <1>6, <3>1, <4>1, <4>2, BystanderKnows
    <3> QED BY <3>2, <3>3
  <2> QED BY <1>5, <2>1 DEF CommandsKnow
<1>11. RunningIsOnRecord'
  <2>1. ASSUME NEW p \in Pids, procs[p].state = "running",
               procs[p].birth \notin resumed \union lost'
        PROVE  t # NoRecord /\ t.pid = p /\ t.birth = procs[p].birth
    <3>1. record # NoRecord /\ record.pid = p /\ record.birth = procs[p].birth
      BY <1>6, <2>1 DEF HelperInv, RunningIsOnRecord
    <3> QED BY <1>6, <2>1, <3>1, InvFacts
  <2> QED BY <1>1, <1>3, <2>1 DEF RunningIsOnRecord
<1>12. EvidenceIsKept'
  <2>1. ASSUME NEW b \in ledgers, b \notin resumed \union lost' PROVE t.birth = b
    <3>1. record.birth = b /\ b >= 1
      BY <1>6, <2>1, InvFacts DEF HelperInv, EvidenceIsKept
    <3> QED BY <1>6, <2>1, <3>1, InvFacts
  <2> QED BY <1>1, <1>3, <2>1 DEF EvidenceIsKept
<1> QED BY <1>8, <1>9, <1>10, <1>11, <1>12 DEF HelperInv

\* commitSpawn lets run what is on record, abortSpawn only what it is about to kill.
LEMMA RunSteps ==
  ASSUME HelperInv, NEW c \in Cmds, CommitSpawn(c) \/ AbortResume(c)
  PROVE  HelperInv'
<1>1. /\ cmd[c].kind = "start"
      /\ \/ CommitSpawn(c) /\ cmd[c].pc = "commit" /\ resumed' = resumed
         \/ AbortResume(c) /\ cmd[c].pc = "abort"
      /\ UNCHANGED <<console, record, lock, ledgers, dirty, stuck, births, events, struck, lost>>
  BY DEF CommitSpawn, AbortResume, At, networkVars, traces
<1>2. HasSession(c) /\ cmd[c] \in Starts /\ IsStart(c)
  BY <1>1, CmdShape
<1>3. PICK s \in Sessions : s = cmd[c].session
  BY <1>2, SessionFacts
<1>4. Paired(s) /\ Knows(c, s) /\ s.pid \in Pids
  BY <1>2, <1>3, SessionFacts, InvFacts
<1>5. PICK new \in Starts :
        /\ cmd' = [cmd EXCEPT ![c] = new] /\ new.session = s
        /\ \/ CommitSpawn(c) /\ new.pc = "monitor" /\ new.committed
           \/ AbortResume(c) /\ new.pc = "abortKill" /\ new.committed = cmd[c].committed
  <2>1. CASE CommitSpawn(c)
    <3> DEFINE x == [[cmd[c] EXCEPT !.pc = "monitor"] EXCEPT !.committed = TRUE]
    <3>1. cmd' = [cmd EXCEPT ![c] = x]
      BY <2>1, InvFacts DEF CommitSpawn
    <3>2. x \in Starts /\ x.session = s /\ x.pc = "monitor" /\ x.committed = TRUE
      BY <1>2, <1>3 DEF Starts, StartPcs
    <3> QED BY <2>1, <3>1, <3>2
  <2>2. CASE AbortResume(c)
    <3> DEFINE x == [cmd[c] EXCEPT !.pc = "abortKill"]
    <3>1. cmd' = [cmd EXCEPT ![c] = x]
      BY <2>2 DEF AbortResume, Goto
    <3>2. /\ x \in Starts /\ x.session = s /\ x.pc = "abortKill"
          /\ x.committed = cmd[c].committed
      BY <1>2, <1>3 DEF Starts, StartPcs
    <3> QED BY <2>2, <3>1, <3>2
  <2> QED BY <1>1, <2>1, <2>2
<1>6. /\ cmd' \in [Cmds -> CmdTypes] /\ cmd'[c] = new
      /\ \A d \in Cmds \ {c} : cmd'[d] = cmd[d]
  BY <1>5, InvFacts DEF CmdTypes
\* the process that begins to run is its own, or it is noted that it is to be killed
<1>7. /\ procs' \in [Pids -> ProcTypes]
      /\ \A q \in Pids : /\ IsProc(q)' <=> IsProc(q)
                         /\ Alive(q)' <=> Alive(q)
                         /\ IsProc(q) => /\ procs'[q].birth = procs[q].birth
                                         /\ procs'[q].parent = procs[q].parent
                         /\ procs'[q].state = "running" =>
                              procs[q].state = "running" \/ (q = s.pid /\ procs[q].state = "suspended")
  <2>1. CASE procs[s.pid].state = "suspended"
    <3> DEFINE proc == [procs[s.pid] EXCEPT !.state = "running"]
    <3>1. procs' = [procs EXCEPT ![s.pid] = proc]
      BY <1>1, <1>3, <2>1 DEF CommitSpawn, AbortResume
    <3>2. IsProc(s.pid)
      BY <2>1 DEF IsProc
    <3>3. /\ proc \in ProcTypes /\ proc.state = "running" /\ proc.birth = procs[s.pid].birth
          /\ proc.parent = procs[s.pid].parent
      BY <1>4, <2>1, <3>2, ProcShape DEF ProcTypes
    <3> HIDE DEF proc
    <3>4. /\ procs' \in [Pids -> ProcTypes] /\ procs'[s.pid] = proc
          /\ \A q \in Pids \ {s.pid} : procs'[q] = procs[q]
      BY <1>4, <3>1, <3>3, InvFacts
    <3>5. ASSUME NEW q \in Pids
          PROVE  /\ IsProc(q)' <=> IsProc(q)
                 /\ Alive(q)' <=> Alive(q)
                 /\ procs'[q].birth = procs[q].birth
                 /\ procs'[q].parent = procs[q].parent
                 /\ procs'[q].state = "running" => procs[q].state = "running" \/ q = s.pid
      <4>1. CASE q = s.pid
        BY <2>1, <3>3, <3>4, <4>1 DEF IsProc, Alive
      <4>2. CASE q # s.pid
        BY <3>4, <4>2 DEF IsProc, Alive
      <4> QED BY <4>1, <4>2
    <3> QED BY <2>1, <3>4, <3>5
  <2>2. CASE procs[s.pid].state # "suspended"
    <3>1. procs' = procs
      BY <1>1, <1>3, <2>2 DEF CommitSpawn, AbortResume
    <3> QED BY <3>1, InvFacts DEF IsProc, Alive
  <2> QED BY <2>1, <2>2
<1>8. /\ resumed \subseteq resumed' /\ resumed' \subseteq Births
      /\ procs[s.pid].state = "suspended" =>
           \/ procs[s.pid].birth \in resumed'
           \/ CommitSpawn(c) /\ cmd[c].pc = "commit" /\ procs[s.pid].birth = s.birth
  <2>1. CASE CommitSpawn(c) /\ cmd[c].pc = "commit" /\ resumed' = resumed
    <3>1. HasChild(c, s.pid)
      BY <1>3, <2>1 DEF HelperInv, ChildrenKept, Waits
    <3> QED BY <1>3, <2>1, <3>1, InvFacts DEF HasChild
  <2>2. CASE AbortResume(c)
    <3>1. resumed' = IF procs[s.pid].state = "suspended"
                     THEN resumed \union {procs[s.pid].birth} ELSE resumed
      BY <1>3, <2>2 DEF AbortResume
    <3>2. procs[s.pid].state = "suspended" => procs[s.pid].birth \in Births
      BY <1>4, ProcShape DEF IsProc
    <3> QED BY <3>1, <3>2, InvFacts
  <2> QED BY <1>1, <2>1, <2>2
<1>9. Typed' /\ StrangersSpared'
  BY <1>1, <1>6, <1>7, <1>8, InvFacts, TypedNext
<1>10. Tame /\ ParentsKept
  BY <1>7 DEF Tame, ParentsKept, Alive, IsProc
<1>11. IsStart(c)' /\ cmd'[c].session = s /\ (Waits(c)' => Waits(c)) /\ cmd'[c].pc # "spawn"
  BY <1>1, <1>5, <1>6 DEF IsStart, Waits, CommitSpawn, AbortResume, At
<1>12. SessionsPaired' /\ StartsLocked' /\ ChildrenKept'
  <2>1. CmdsKept
    <3>1. ASSUME NEW d \in Cmds, d # c
          PROVE  /\ HasSession(d)' => InHand(cmd'[d].session)
                 /\ IsStart(d)' => IsStart(d) /\ cmd'[d].session = cmd[d].session
                 /\ Waits(d)' => Waits(d)
                 /\ cmd'[d].pc = "spawn" => cmd'[d] = cmd[d] \/ Enters(d)
      BY <1>6, <3>1 DEF HasSession, InHand, IsStart, Waits
    <3>2. InHand(cmd'[c].session) /\ cmd'[c].session = cmd[c].session
      BY <1>2, <1>3, <1>11 DEF InHand
    <3> QED BY <1>2, <1>11, <3>1, <3>2 DEF CmdsKept
  <2>2. \A t \in Sessions : t = record' => InHand(t)
    BY <1>1 DEF InHand
  <2>3. LocksKept
    BY <1>1 DEF LocksKept
  <2> QED BY <1>1, <1>6, <1>10, <2>1, <2>2, <2>3, FrameKept
<1>13. CommandsKnow'
  <2>1. ASSUME NEW d \in Cmds, HasSession(d)', NEW t \in Sessions, t = cmd'[d].session
        PROVE  Knows(d, t)'
    <3>1. ~Live(t) => ~Live(t)'
      BY <1>10, DeadStays
    <3>2. ASSUME NeverRan(t.birth), t.birth # s.birth \/ ~CommitSpawn(c) PROVE NeverRan(t.birth)'
      <4>1. \A q \in Pids : procs'[q].state = "running" /\ procs'[q].birth = t.birth =>
              t.birth \in resumed' \/ (procs[q].state = "running" /\ procs[q].birth = t.birth)
        BY <1>7, <1>8, <3>2 DEF IsProc
      <4> QED BY <1>1, <1>8, <3>2, <4>1 DEF NeverRan
    <3>3. CASE d = c
      <4>1. cmd'[c] = new /\ t = s
        BY <1>5, <1>6, <2>1, <3>3
      <4>2. ~new.committed => NeverRan(s.birth)'
        <5> SUFFICES ASSUME ~new.committed PROVE NeverRan(s.birth)'
          OBVIOUS
        <5>1. AbortResume(c) /\ ~cmd[c].committed /\ ~CommitSpawn(c)
          BY <1>1, <1>5 DEF CommitSpawn, AbortResume, At
        <5> QED BY <1>2, <1>4, <3>2, <4>1, <5>1 DEF Knows
      <4>3. new.pc \in {"monitor", "abortKill"}
        BY <1>5
      <4> QED BY <3>3, <4>1, <4>2, <4>3 DEF Knows
    <3>4. CASE d # c
      <4>1. cmd'[d] = cmd[d]
        BY <1>6, <3>4
      <4>2. HasSession(d)
        BY <2>1, <4>1 DEF HasSession
      <4>3. t = cmd[d].session /\ Knows(d, t)
        BY <2>1, <4>1, <4>2, SessionFacts
      <4>4. IsStart(d) => t.birth # s.birth
        BY <1>2, <1>3, <3>4, <4>3 DEF HelperInv, StartsLocked
      <4> QED BY <1>1, <1>8, <3>1, <3>2, <4>1, <4>3, <4>4, BystanderKnows
    <3> QED BY <3>3, <3>4
  <2> QED BY <1>6, <2>1 DEF CommandsKnow
<1>14. RunningIsOnRecord'
  <2>1. ASSUME NEW q \in Pids, procs'[q].state = "running",
               procs'[q].birth \notin resumed' \union lost
        PROVE  record # NoRecord /\ record.pid = q /\ record.birth = procs'[q].birth
    <3>1. IsProc(q) /\ procs'[q].birth = procs[q].birth
      BY <1>7, <2>1 DEF IsProc
    <3>2. CASE procs[q].state = "running"
      BY <1>8, <2>1, <3>1, <3>2 DEF HelperInv, RunningIsOnRecord
    <3>3. CASE q = s.pid /\ procs[q].state = "suspended"
      <4>1. cmd[c].pc = "commit" /\ procs[q].birth = s.birth
        BY <1>8, <2>1, <3>1, <3>3
      <4>2. Live(s)
        BY <3>3, <4>1 DEF Live, Alive
      <4>3. record = s
        BY <1>4, <2>1, <3>1, <4>1, <4>2 DEF Knows
      <4> QED BY <3>1, <3>3, <4>1, <4>3, InvFacts
    <3> QED BY <1>7, <2>1, <3>2, <3>3
  <2> QED BY <1>1, <2>1 DEF RunningIsOnRecord
<1>15. EvidenceIsKept'
  BY <1>1, <1>8 DEF HelperInv, EvidenceIsKept
<1> QED BY <1>9, <1>12, <1>13, <1>14, <1>15 DEF HelperInv

-----------------------------------------------------------------------------
(* The theorems.                                                             *)

LEMMA HelperStarts ==
  ASSUME Init
  PROVE  HelperInv
<1>1. /\ console = FirstUser /\ record = NoRecord /\ lock = [u \in Users |-> NoCmd]
      /\ ledgers = {} /\ dirty = {} /\ stuck = {}
      /\ procs = [p \in Pids |-> Free] /\ cmd = [c \in Cmds |-> Idle]
      /\ births = 0 /\ events = 0 /\ resumed = {} /\ struck = FALSE /\ lost = {}
  BY DEF Init
<1>2. /\ Free \in ProcTypes /\ Free.state = "free"
      /\ Idle \in CmdTypes /\ Idle.pc = "idle"
  BY DEF ProcTypes, Free, CmdTypes, Idle
<1> HIDE DEF Free, Idle
<1>3. Idle \notin NewStart \union Starts \union Stops \union Repairs
  BY <1>2, CmdRecords
<1>4. /\ \A c \in Cmds : cmd[c] = Idle /\ ~HasSession(c) /\ ~IsStart(c) /\ ~Waits(c)
                         /\ cmd[c].pc = "idle"
      /\ \A p \in Pids : procs[p] = Free /\ ~IsProc(p) /\ procs[p].state # "running"
  BY <1>1, <1>2, <1>3 DEF HasSession, IsStart, Waits, IsProc
<1>5. /\ procs \in [Pids -> ProcTypes] /\ cmd \in [Cmds -> CmdTypes]
  BY <1>1, <1>2
<1>6. Typed
  <2>1. 0 \in Nat /\ 0 + 0 <= MaxEvents /\ FirstUser \in Users
    BY HelperAssumption
  <2> QED BY <1>1, <1>4, <1>5, <2>1 DEF Typed, HelperTypeOK, ProcTypes
<1>7. SessionsPaired /\ StartsLocked /\ ChildrenKept /\ CommandsKnow
  <2>1. \A s \in Sessions : ~InHand(s)
    <3>1. NoRecord \notin Sessions
      BY DEF NoRecord, Sessions, Births
    <3> QED BY <1>1, <1>4, <3>1 DEF InHand
  <2> QED BY <1>1, <1>4, <2>1 DEF SessionsPaired, StartsLocked, ChildrenKept, CommandsKnow
<1>8. RunningIsOnRecord /\ EvidenceIsKept /\ StrangersSpared
  BY <1>1, <1>4 DEF RunningIsOnRecord, EvidenceIsKept, StrangersSpared
<1> QED BY <1>6, <1>7, <1>8 DEF HelperInv

LEMMA HelperSteps ==
  ASSUME HelperInv, [Next]_vars
  PROVE  HelperInv'
<1>1. CASE UNCHANGED vars
  <2>1. /\ UNCHANGED <<console, record, lock, procs, ledgers, dirty, stuck, cmd, births>>
        /\ UNCHANGED <<events, resumed, struck, lost>>
    BY <1>1 DEF vars, networkVars, traces
  <2>2. /\ console' \in Users /\ ledgers' \subseteq ledgers /\ dirty' \subseteq ledgers'
        /\ stuck' \subseteq Births
    BY <2>1, InvFacts
  <2> QED BY <2>1, <2>2, Rests, EventFine, QuietStep
<1>2. ASSUME NEW c \in Cmds, Start(c) PROVE HelperInv'
  BY <1>2, StartSteps, BeginSteps, SpawnStep, SaveStep, RunSteps DEF Start
<1>3. ASSUME NEW c \in Cmds, Shared(c) PROVE HelperInv'
  BY <1>3, SharedSteps, RemoveStep DEF Shared
<1>4. ASSUME NEW p \in Pids, Kernel(p) PROVE HelperInv'
  BY <1>4, KernelSteps, ConnectStep DEF Kernel
<1> QED BY <1>1, <1>2, <1>3, <1>4, BeginSteps, RepairSteps, WorldSteps DEF Next

\* The record, the process table, the locks and what each command knows of its session fit
\* together at every step of every command, of the system and of a fault (Core.swift), for
\* any number of users and of commands, whatever they run beside each other.
THEOREM HelperInvariant == Spec => []HelperInv
<1>1. Init => HelperInv
  BY HelperStarts
<1>2. HelperInv /\ [Next]_vars => HelperInv'
  BY HelperSteps
<1> QED BY <1>1, <1>2, PTL DEF Spec

\* Whatever openconnect runs is the session on record, unless a failed start resumed it
\* to kill it or a command of another session took the record in one of the ways Lost names,
\* through every crash of a command and of the machine; and terminateVerified signals nobody
\* else's process.
THEOREM HelperIsSound == Spec => []HelperSound
<1>1. Spec => []HelperInv
  BY HelperInvariant
<1>2. HelperInv => HelperSound
  BY DEF HelperInv, Typed, HelperSound
<1> QED BY <1>1, <1>2, PTL

\* The record of a session outlives its ledger, with the same exceptions: what a repair
\* needs is not removed while the network may be changed (verifyTeardownComplete before every
\* store.remove).
THEOREM EvidenceStays == Spec => []EvidenceIsKept
<1>1. Spec => []HelperInv
  BY HelperInvariant
<1>2. HelperInv => EvidenceIsKept
  BY DEF HelperInv
<1> QED BY <1>1, <1>2, PTL

-----------------------------------------------------------------------------
(* The network wrapper: its inductive invariant.                             *)

\* Values that occur.
Gateways == {n.gateway : n \in Networks} \union {"none", "vpn", "other"}
Interfaces == Services \union {"none", "utun"}
Routes == [gateway : Gateways, interface : Interfaces]
DnsValues == {"own", "vpn", "other"}
Resolvers ==
  [service : Services, active : Services \union {"utun"}, servers : DnsValues,
   search : DnsValues, dynamic : DnsValues, tunnelKey : {"unasked", "present", "absent"}]
Records == [before : Routes, applied : Routes, after : Routes]
Ledgers ==
  [status : {"recorded", "repair-required"}, boot : Nat, service : Services,
   gateway : Gateways, tunnel : BOOLEAN,
   records : [{} -> Records] \union [Destinations -> Records],
   dnsBefore : Resolvers, dnsApplied : Resolvers \union {NoResolver}]

Steps == [dest : Destinations, delete : Gateways, restore : Routes]
Plans == [routes : SUBSET Steps, fields : SUBSET {"servers", "search", "dynamic"},
          check : {"retire", "restored"}]
Reasons == {"pre-init", "connect", "reconnect", "disconnect", "repair"}
Phases == {"sample", "drift", "baseline", "preflight", "intent", "launch", "script", "after",
           "undo", "plan", "apply", "remove"}
Identities == {<<>>} \union (Nat \X Networks)
Runs == [pc : Phases, reason : Reasons, identity : Identities, plan : Plans \union {<<>>},
         code : {0, 1}]

SystemTyped ==
  /\ net \in Networks /\ boot \in Nat
  /\ routes \in [Destinations -> Routes] /\ original \in [Destinations -> Routes]
  /\ setup \in [Services -> [servers : DnsValues, search : DnsValues]]
  /\ dynamic \in DnsValues /\ tunnelKey \in BOOLEAN /\ tunnel \in BOOLEAN
  /\ session \in {"new", "prepared", "opened", "connected", "closing", "gone"}

RunTyped ==
  /\ run \in {NoRun} \union Runs /\ script \in {"none"} \union Reasons
  /\ ledger \in {NoLedger} \union Ledgers

\* The tunnel's routes are the VPN's and go with it.
TunnelRoutes ==
  /\ \A d \in Destinations : routes[d].interface = "utun" => routes[d].gateway = "vpn" /\ tunnel
  /\ \A d \in Known : ledger.records[d].applied.interface = "utun"
                        => ledger.records[d].applied.gateway = "vpn"

ScriptOfRun ==
  /\ run.pc = "script" => script = run.reason
  /\ script # "none" /\ run.pc # "script" => "orphan" \in happened

\* What a run may be at, and for which reason.
Sampling == {"drift", "sample", "baseline"}
Connecting == {"intent", "launch", "script", "after"}
RunFits ==
  run # NoRun =>
    /\ run.pc \notin {"sample", "baseline"} => ledger # NoLedger
    /\ run.pc \in Sampling => run.reason \in ConnectReasons \union {"pre-init"} /\ Known = {}
    /\ run.pc = "preflight" => run.reason \in ConnectReasons \union {"pre-init"}
    /\ run.pc = "intent" => run.reason \in ConnectReasons
    /\ run.pc \in {"launch", "script", "after"} => run.reason # "repair"
    /\ run.pc \in Connecting \union {"preflight"} /\ run.reason \in ConnectReasons
         => Known = Destinations
    /\ run.reason = "pre-init" => Known = {}
    /\ run.pc \in {"undo", "plan", "apply", "remove"} => run.reason \in {"disconnect", "repair"}
    /\ run.pc = "apply" => run.plan # <<>>

RunOfSession ==
  /\ run # NoRun =>
       /\ run.reason = "pre-init" => session = "prepared"
       /\ run.reason \in ConnectReasons => session = "connected"
       /\ run.reason = "reconnect" => "reconnect" \in happened
       /\ run.reason = "disconnect" => session = "closing"
       /\ run.reason = "repair" => session = "gone"
  /\ session \in {"new", "prepared", "opened"} => Known = {}
  /\ session = "new" => ledger = NoLedger

LedgerShape == ledger # NoLedger => (ledger.tunnel <=> Known = Destinations)

Alone == "orphan" \notin happened
Plain == happened \subseteq {"unrecorded"}
Late == session \in {"closing", "gone"}

NothingBefore == Alone /\ Known = {} /\ (Late => Plain) => ~VpnLeft
Removable == run.pc = "remove" /\ Plain => ~VpnLeft

SamePlace ==
  "elsewhere" \notin happened =>
    /\ ledger # NoLedger => ledger.boot = boot /\ ledger.service = net.service
    /\ \A s \in Services \ {net.service} : "vpn" \notin {setup[s].servers, setup[s].search}

DynamicKeyed == Alone /\ dynamic = "vpn" => tunnelKey

HostBefore ==
  ledger # NoLedger /\ Alone /\ "reconnect" \notin happened /\ "vpnHost" \in Known
    => ledger.records["vpnHost"].before \in {NoRoute, original["vpnHost"]}

AfterIsBefore ==
  run # NoRun /\ run.reason = "connect" /\ run.pc \in Connecting \union {"preflight"}
    => \A d \in Known : ledger.records[d].after = ledger.records[d].before

PlanFits ==
  run.pc = "apply" =>
    \A s \in run.plan.routes :
      /\ s.dest \in Known
      /\ s.dest = "campus" /\ s.delete = "other"
           => ledger.records["campus"].applied.gateway = "other"

WrapperInv ==
  /\ SystemTyped /\ RunTyped /\ TunnelRoutes /\ ScriptOfRun /\ RunFits /\ RunOfSession
  /\ LedgerShape /\ NothingBefore /\ Removable /\ SamePlace /\ DynamicKeyed
  /\ BaselineIsNotVpn /\ HostBefore /\ AfterIsBefore /\ PlanFits

-----------------------------------------------------------------------------
(* The network as a run sees it. *)

\* A physical network is not the VPN's.
LEMMA PhysicalNetworks ==
  \A n \in Networks :
    /\ n.service \in Services /\ n.gateway \in Gateways
    /\ n.service # "utun" /\ n.gateway # "vpn"
    /\ Via(n.gateway, n.service) \in Routes /\ Via("vpn", n.service) \in Routes
    /\ Via("other", n.service) \in Routes
BY WrapperAssumption DEF Services, Gateways, Routes, Interfaces, Via

LEMMA RoutesTyped == NoRoute \in Routes /\ Via("vpn", "utun") \in Routes
BY DEF NoRoute, Via, Routes, Gateways, Interfaces

\* What a snapshot says, for the destinations it is asked for, is so.
Faithful(cur, dests, named) ==
  /\ cur.boot = boot /\ cur.service = net.service /\ cur.gateway = net.gateway
  /\ cur.resolver \in Resolvers
  /\ cur.resolver.servers = setup[net.service].servers
  /\ cur.resolver.search = setup[net.service].search
  /\ cur.resolver.dynamic = dynamic
  /\ cur.resolver.tunnelKey = "present" => tunnelKey
  /\ cur.resolver.tunnelKey = "absent" => ~tunnelKey
  /\ named => cur.resolver.tunnelKey # "unasked"
  /\ DOMAIN cur.routes \subseteq dests
  /\ \A d \in dests : /\ d \in DOMAIN cur.routes <=> routes[d] # NoRoute
                      /\ d \in DOMAIN cur.routes => cur.routes[d] = routes[d]
                      /\ RouteOf(cur, d) = routes[d]

LEMMA SnapshotSeen ==
  ASSUME SystemTyped, NEW dests \in {{}, Destinations}, NEW named \in BOOLEAN, NEW cur,
         cur = Snapshot(dests, named)
  PROVE  Faithful(cur, dests, named)
<1> DEFINE seen == RoutesSeen(dests)
           live == \E d \in DOMAIN seen : seen[d].interface = "utun"
           asked == live \/ named
           act == IF live THEN "utun" ELSE net.service
           resolver == ResolverSeen(asked, act)
<1>1. /\ DOMAIN seen = {d \in dests : routes[d] # NoRoute}
      /\ \A d \in DOMAIN seen : seen[d] = routes[d]
  BY DEF RoutesSeen
<1>2. /\ cur.boot = boot /\ cur.service = net.service /\ cur.gateway = net.gateway
      /\ cur.routes = seen /\ cur.resolver = resolver
  BY DEF Snapshot
<1>3. act \in Services \union {"utun"} /\ asked \in BOOLEAN
  BY PhysicalNetworks DEF SystemTyped
<1> HIDE DEF act, seen
<1>4. /\ resolver \in Resolvers
      /\ resolver.servers = setup[net.service].servers
      /\ resolver.search = setup[net.service].search
      /\ resolver.dynamic = dynamic
      /\ resolver.tunnelKey = TunnelEntry(asked)
  BY <1>3, PhysicalNetworks DEF SystemTyped, ResolverSeen, Resolvers, TunnelEntry
<1> HIDE DEF resolver
<1>5. /\ TunnelEntry(asked) = "present" => tunnelKey
      /\ TunnelEntry(asked) = "absent" => ~tunnelKey
      /\ named => TunnelEntry(asked) # "unasked"
  BY DEF TunnelEntry
<1> HIDE DEF asked, live
<1>6. \A d \in dests : RouteOf(cur, d) = routes[d]
  BY <1>1, <1>2 DEF RouteOf
<1> QED
  BY <1>1, <1>2, <1>4, <1>5, <1>6 DEF Faithful

-----------------------------------------------------------------------------
(* Ledgers. *)

\* What two ledgers have in common when only the status may differ.
Alike(l, m) ==
  /\ m.boot = l.boot /\ m.service = l.service /\ m.gateway = l.gateway
  /\ m.tunnel = l.tunnel /\ m.records = l.records
  /\ m.dnsBefore = l.dnsBefore /\ m.dnsApplied = l.dnsApplied

LEMMA MarkedAlike == \A l \in Ledgers : Marked(l) \in Ledgers /\ Alike(l, Marked(l))
<1> SUFFICES ASSUME NEW l \in Ledgers PROVE Marked(l) \in Ledgers /\ Alike(l, Marked(l))
  OBVIOUS
<1>1. Marked(l) = [status |-> "repair-required", boot |-> l.boot, service |-> l.service,
                   gateway |-> l.gateway, tunnel |-> l.tunnel, records |-> l.records,
                   dnsBefore |-> l.dnsBefore, dnsApplied |-> l.dnsApplied]
  BY DEF Marked, Ledgers
<1> QED
  BY <1>1 DEF Alike, Ledgers

\* There is a ledger before and after, and only its status may differ; or there is none.
SameLedger ==
  \/ ledger' = ledger
  \/ ledger # NoLedger /\ ledger' = Marked(ledger)

LEMMA LedgerOrNone == ASSUME RunTyped PROVE NoLedger \notin Ledgers /\ (ledger # NoLedger => ledger \in Ledgers)
<1>1. NoLedger.status = "none"
  BY DEF NoLedger
<1> QED
  BY <1>1 DEF RunTyped, Ledgers

LEMMA SameLedgerView ==
  ASSUME RunTyped, SameLedger
  PROVE  /\ ledger' \in {NoLedger} \union Ledgers
         /\ ledger' = NoLedger <=> ledger = NoLedger
         /\ Known' = Known
         /\ ledger # NoLedger => Alike(ledger, ledger')
<1>1. CASE ledger' = ledger
  BY <1>1 DEF RunTyped, Known, Alike
<1>2. CASE ledger # NoLedger /\ ledger' = Marked(ledger)
  <2>1. ledger \in Ledgers /\ NoLedger \notin Ledgers
    BY <1>2, LedgerOrNone
  <2>2. ledger' \in Ledgers /\ Alike(ledger, ledger')
    BY <1>2, <2>1, MarkedAlike
  <2> QED
    BY <1>2, <2>1, <2>2 DEF Known, Alike
<1> QED
  BY <1>1, <1>2 DEF SameLedger

\* The conjuncts that speak of the ledger alone stay when it does.
LEMMA LedgerKept ==
  ASSUME WrapperInv, SameLedger, happened \subseteq happened', original' = original
  PROVE  /\ \A d \in Known' : ledger'.records[d].applied.interface = "utun"
                                => ledger'.records[d].applied.gateway = "vpn"
         /\ LedgerShape' /\ BaselineIsNotVpn' /\ HostBefore'
<1>1. /\ ledger' = NoLedger <=> ledger = NoLedger
      /\ Known' = Known
      /\ ledger # NoLedger => Alike(ledger, ledger')
  BY SameLedgerView DEF WrapperInv
<1>2. \A d \in Known : ledger # NoLedger /\ d \in DOMAIN ledger.records
  BY DEF Known
<1>3. ledger # NoLedger => ledger.records = ledger'.records /\ ledger.tunnel = ledger'.tunnel
                             /\ ledger.dnsBefore = ledger'.dnsBefore
  BY <1>1 DEF Alike
<1>4. \A d \in Known' : ledger'.records[d].applied.interface = "utun"
                          => ledger'.records[d].applied.gateway = "vpn"
  BY <1>1, <1>2, <1>3 DEF WrapperInv, TunnelRoutes
<1>5. LedgerShape'
  BY <1>1, <1>3 DEF WrapperInv, LedgerShape
<1>6. BaselineIsNotVpn'
  BY <1>1, <1>3 DEF WrapperInv, BaselineIsNotVpn
<1>7. HostBefore'
  BY <1>1, <1>3 DEF WrapperInv, HostBefore, Alone
<1> QED
  BY <1>4, <1>5, <1>6, <1>7

\* The conjuncts that speak of the network alone stay when it does.
LEMMA NetworkKept ==
  ASSUME WrapperInv, SameLedger, UNCHANGED <<systemVars, session, original>>,
         happened \subseteq happened'
  PROVE  /\ SystemTyped' /\ TunnelRoutes' /\ SamePlace' /\ DynamicKeyed'
         /\ LedgerShape' /\ BaselineIsNotVpn' /\ HostBefore'
         /\ NothingBefore' /\ (VpnLeft' <=> VpnLeft) /\ (Plain' => Plain)
<1>1. UNCHANGED <<net, boot, routes, setup, dynamic, tunnelKey, tunnel, session, original>>
  BY DEF systemVars
<1>2. /\ ledger' \in {NoLedger} \union Ledgers
      /\ ledger' = NoLedger <=> ledger = NoLedger
      /\ Known' = Known
      /\ ledger # NoLedger => Alike(ledger, ledger')
  BY SameLedgerView DEF WrapperInv
<1>3. /\ \A d \in Known' : ledger'.records[d].applied.interface = "utun"
                             => ledger'.records[d].applied.gateway = "vpn"
      /\ LedgerShape' /\ BaselineIsNotVpn' /\ HostBefore'
  BY <1>1, LedgerKept
<1>4. SystemTyped'
  BY <1>1 DEF WrapperInv, SystemTyped
<1>5. TunnelRoutes'
  BY <1>1, <1>3 DEF WrapperInv, TunnelRoutes
<1>6. SamePlace'
  BY <1>1, <1>2 DEF WrapperInv, SamePlace, Alike
<1>7. DynamicKeyed'
  BY <1>1 DEF WrapperInv, DynamicKeyed, Alone
<1>8. VpnLeft' <=> VpnLeft
  BY <1>1 DEF VpnLeft, VpnRoute
<1>9. (Plain' => Plain) /\ (Alone' => Alone) /\ Late' = Late
  BY <1>1 DEF Plain, Alone, Late
<1>10. NothingBefore'
  BY <1>2, <1>8, <1>9 DEF WrapperInv, NothingBefore
<1> QED
  BY <1>3, <1>4, <1>5, <1>6, <1>7, <1>8, <1>9, <1>10

\* A run goes on, and the network stays as it is.
LEMMA RunGoesOn ==
  ASSUME WrapperInv, run # NoRun, SameLedger,
         UNCHANGED <<systemVars, session, script, history>>,
         run' \in Runs, run'.reason = run.reason,
         run.pc # "script", run'.pc # "script",
         RunFits', PlanFits',
         run'.pc \in Connecting \union {"preflight"} =>
           run.pc \in Connecting \union {"preflight"} \/ run.reason # "connect",
         run'.pc = "remove" /\ Plain => ~VpnLeft
  PROVE  WrapperInv'
<1>1. /\ UNCHANGED <<session, original, happened, script>>
  BY DEF history
<1>2. /\ SystemTyped' /\ TunnelRoutes' /\ SamePlace' /\ DynamicKeyed'
      /\ LedgerShape' /\ BaselineIsNotVpn' /\ HostBefore'
      /\ NothingBefore' /\ (VpnLeft' <=> VpnLeft) /\ (Plain' => Plain)
  BY <1>1, NetworkKept
<1>3. /\ ledger' \in {NoLedger} \union Ledgers
      /\ ledger' = NoLedger <=> ledger = NoLedger
      /\ Known' = Known
      /\ ledger # NoLedger => Alike(ledger, ledger')
  BY SameLedgerView DEF WrapperInv
<1>4. RunTyped' /\ run' # NoRun
  <2>1. run' # NoRun
    BY DEF NoRun, Runs, Phases
  <2> QED
    BY <1>1, <1>3, <2>1 DEF WrapperInv, RunTyped
<1>5. ScriptOfRun'
  BY <1>1 DEF WrapperInv, ScriptOfRun
<1>6. RunOfSession'
  BY <1>1, <1>3, <1>4 DEF WrapperInv, RunOfSession
<1>7. Removable'
  BY <1>2 DEF Removable
<1>8. AfterIsBefore'
  <2>1. Known # {} => ledger # NoLedger
    BY DEF Known
  <2> QED
    BY <1>3, <2>1 DEF WrapperInv, AfterIsBefore, Alike
<1> QED
  BY <1>2, <1>4, <1>5, <1>6, <1>7, <1>8 DEF WrapperInv

\* A run ends, and the network stays as it is.  A script it waited for has ended, or
\* outlives it.
LEMMA RunEnds ==
  ASSUME WrapperInv, SameLedger, run' = NoRun,
         script' = "none" \/ (script' = script /\ (run.pc = "script" => "orphan" \in happened')),
         UNCHANGED <<systemVars, session, original>>,
         happened \subseteq happened'
  PROVE  WrapperInv'
<1>1. /\ SystemTyped' /\ TunnelRoutes' /\ SamePlace' /\ DynamicKeyed'
      /\ LedgerShape' /\ BaselineIsNotVpn' /\ HostBefore' /\ NothingBefore'
  BY NetworkKept
<1>2. /\ ledger' \in {NoLedger} \union Ledgers
      /\ ledger' = NoLedger <=> ledger = NoLedger
      /\ Known' = Known
  BY SameLedgerView DEF WrapperInv
<1>3. RunTyped'
  BY <1>2 DEF WrapperInv, RunTyped
<1>4. RunFits' /\ Removable' /\ AfterIsBefore' /\ PlanFits' /\ run'.pc # "script"
  <2>1. run'.pc = "idle"
    BY DEF NoRun
  <2> QED
    BY <2>1 DEF RunFits, Removable, AfterIsBefore, PlanFits
<1>5. ScriptOfRun'
  BY <1>4 DEF WrapperInv, ScriptOfRun
<1>6. RunOfSession'
  BY <1>2 DEF WrapperInv, RunOfSession
<1> QED
  BY <1>1, <1>3, <1>4, <1>5, <1>6 DEF WrapperInv

-----------------------------------------------------------------------------
(* The wrapper's steps that leave the ledger's records alone. *)

LEMMA Proceeds ==
  ASSUME WrapperInv, run # NoRun, NEW pc \in Phases, Proceed(pc)
  PROVE  /\ run' \in Runs /\ run' # NoRun
         /\ run'.pc = pc /\ run'.reason = run.reason /\ run'.plan = run.plan
<1>1. run \in Runs
  BY DEF WrapperInv, RunTyped
<1> QED
  BY <1>1 DEF Proceed, Runs, NoRun, Phases

\* The step of a run that goes on to pc, when nothing but the run changes.
LEMMA ProceedKeeps ==
  ASSUME WrapperInv, run # NoRun, NEW pc \in Phases \ {"script", "apply"}, Proceed(pc),
         run.pc # "script", UNCHANGED ledger, Only,
         pc \notin {"sample", "baseline"} => ledger # NoLedger,
         pc \in Sampling => run.reason \in ConnectReasons \union {"pre-init"} /\ Known = {},
         pc = "preflight" => run.reason \in ConnectReasons \union {"pre-init"},
         pc = "intent" => run.reason \in ConnectReasons,
         pc \in {"launch", "after"} => run.reason # "repair",
         pc \in Connecting \union {"preflight"} =>
           run.pc \in Connecting \union {"preflight"} \/ run.reason \notin ConnectReasons,
         pc \in {"undo", "plan", "remove"} => run.reason \in {"disconnect", "repair"},
         pc = "remove" /\ Plain => ~VpnLeft
  PROVE  WrapperInv'
<1>1. /\ run' \in Runs /\ run' # NoRun
      /\ run'.pc = pc /\ run'.reason = run.reason /\ run'.plan = run.plan
  BY Proceeds
<1>2. UNCHANGED <<systemVars, session, script, history, ledger>> /\ Known' = Known
  BY DEF Only, Keeps, Known
<1>3. RunFits'
  BY <1>1, <1>2 DEF WrapperInv, RunFits
<1>4. PlanFits'
  BY <1>1 DEF PlanFits
<1>5. SameLedger
  BY DEF SameLedger
<1>6. run'.pc # "script" /\ (run'.pc = "remove" /\ Plain => ~VpnLeft)
  BY <1>1
<1>7. run'.pc \in Connecting \union {"preflight"} =>
        run.pc \in Connecting \union {"preflight"} \/ run.reason # "connect"
  BY <1>1 DEF ConnectReasons
<1> QED
  BY <1>1, <1>2, <1>3, <1>4, <1>5, <1>6, <1>7, RunGoesOn

\* A run that refuses, or just ends.
LEMMA RefuseKeeps ==
  ASSUME WrapperInv, run # NoRun, run.pc # "script",
         UNCHANGED <<systemVars, session, script, history>>,
         (Refuse /\ ledger # NoLedger) \/ (EndRun /\ UNCHANGED ledger)
  PROVE  WrapperInv'
<1>1. SameLedger /\ run' = NoRun
  BY DEF Refuse, EndRun, Store, SameLedger
<1>2. UNCHANGED <<original, happened, script, session>>
  BY DEF history
<1> QED
  BY <1>1, <1>2, RunEnds

LEMMA OnlyKeeps == ASSUME Only PROVE UNCHANGED <<systemVars, session, script, history>>
BY DEF Only, Keeps

LEMMA CheckDriftStep == ASSUME WrapperInv, run # NoRun, CheckDrift PROVE WrapperInv'
<1>1. run.pc = "drift" /\ ledger # NoLedger /\ Only
  BY DEF CheckDrift, WrapperInv, RunFits
<1>2. CASE Proceed("sample") /\ UNCHANGED ledger
  <2>1. run.reason \in ConnectReasons \union {"pre-init"} /\ Known = {}
    BY <1>1 DEF WrapperInv, RunFits, Sampling
  <2> QED
    BY <1>1, <1>2, <2>1, ProceedKeeps DEF Phases, Connecting
<1>3. CASE Refuse
  BY <1>1, <1>3, RefuseKeeps, OnlyKeeps
<1> QED
  BY <1>2, <1>3 DEF CheckDrift

LEMMA FirstSampleStep == ASSUME WrapperInv, run # NoRun, FirstSample PROVE WrapperInv'
<1>1. run.pc = "sample" /\ run \in Runs /\ UNCHANGED ledger
  BY DEF FirstSample, WrapperInv, RunTyped
<1>2. NetworkIdentity \in Identities
  BY DEF NetworkIdentity, Identities, WrapperInv, SystemTyped
<1>3. /\ run' \in Runs /\ run' # NoRun
      /\ run'.pc = "baseline" /\ run'.reason = run.reason
  BY <1>1, <1>2 DEF FirstSample, Runs, NoRun, Phases
<1>4. UNCHANGED <<systemVars, session, script, history>> /\ Known' = Known
  BY <1>1, OnlyKeeps DEF FirstSample, Known
<1>5. RunFits' /\ PlanFits'
  BY <1>1, <1>3, <1>4 DEF WrapperInv, RunFits, PlanFits, Sampling, Connecting
<1>6. SameLedger
  BY <1>1 DEF SameLedger
<1> QED
  BY <1>1, <1>3, <1>4, <1>5, <1>6, RunGoesOn DEF Connecting

LEMMA PreflightStep == ASSUME WrapperInv, run # NoRun, Preflight PROVE WrapperInv'
<1>1. /\ run.pc = "preflight" /\ ledger # NoLedger /\ Only
      /\ run.reason \in ConnectReasons \union {"pre-init"}
  BY DEF Preflight, WrapperInv, RunFits
<1>2. CASE Refuse
  BY <1>1, <1>2, RefuseKeeps, OnlyKeeps
<1>3. CASE /\ Proceed(IF run.reason = "pre-init" THEN "launch" ELSE "intent")
           /\ UNCHANGED ledger
  <2>1. CASE run.reason = "pre-init"
    BY <1>1, <1>3, <2>1, ProceedKeeps DEF Phases, Connecting, Sampling
  <2>2. CASE run.reason # "pre-init"
    BY <1>1, <1>3, <2>2, ProceedKeeps DEF Phases, Connecting, Sampling
  <2> QED
    BY <2>1, <2>2
<1> QED
  BY <1>2, <1>3 DEF Preflight

LEMMA AfterPreInitStep == ASSUME WrapperInv, run # NoRun, AfterPreInit PROVE WrapperInv'
<1>1. run.pc = "after" /\ ledger # NoLedger /\ Only
  BY DEF AfterPreInit, WrapperInv, RunFits
<1>2. Refuse \/ (EndRun /\ UNCHANGED ledger)
  BY DEF AfterPreInit
<1> QED
  BY <1>1, <1>2, RefuseKeeps, OnlyKeeps

LEMMA AfterDisconnectStep == ASSUME WrapperInv, run # NoRun, AfterDisconnect PROVE WrapperInv'
<1>1. run.pc = "after" /\ run.reason = "disconnect" /\ ledger # NoLedger /\ Only
  BY DEF AfterDisconnect, WrapperInv, RunFits
<1>2. CASE Refuse
  BY <1>1, <1>2, RefuseKeeps, OnlyKeeps
<1>3. CASE Proceed("plan") /\ UNCHANGED ledger
  BY <1>1, <1>3, ProceedKeeps DEF Phases, Connecting, Sampling
<1> QED
  BY <1>2, <1>3 DEF AfterDisconnect

LEMMA UndoStep == ASSUME WrapperInv, run # NoRun, Undo PROVE WrapperInv'
<1>1. /\ run.pc = "undo" /\ ledger # NoLedger /\ Only
      /\ run.reason \in {"disconnect", "repair"}
  BY DEF Undo, WrapperInv, RunFits
<1>2. CASE Refuse
  BY <1>1, <1>2, RefuseKeeps, OnlyKeeps
<1>3. CASE /\ Proceed(IF run.reason = "disconnect" THEN "launch" ELSE "plan")
           /\ UNCHANGED ledger
  <2>1. CASE run.reason = "disconnect"
    BY <1>1, <1>3, <2>1, ProceedKeeps DEF Phases, Connecting, Sampling, ConnectReasons
  <2>2. CASE run.reason # "disconnect"
    BY <1>1, <1>3, <2>2, ProceedKeeps DEF Phases, Connecting, Sampling
  <2> QED
    BY <2>1, <2>2
<1> QED
  BY <1>2, <1>3 DEF Undo

-----------------------------------------------------------------------------
(* What a run finds when it undoes a session. *)

LEMMA KnownTyped ==
  ASSUME WrapperInv
  PROVE  /\ Known \in {{}, Destinations}
         /\ ledger # NoLedger =>
              /\ ledger \in Ledgers /\ Known = DOMAIN ledger.records
              /\ ledger.records \in [Known -> Records]
<1>1. ledger # NoLedger => ledger \in Ledgers
  BY LedgerOrNone DEF WrapperInv
<1>2. ledger # NoLedger => Known = DOMAIN ledger.records
  BY DEF Known
<1>3. ledger = NoLedger => Known = {}
  BY DEF Known
<1>4. ledger # NoLedger => ledger.records \in [{} -> Records] \union [Destinations -> Records]
  BY <1>1 DEF Ledgers
<1> QED
  BY <1>1, <1>2, <1>3, <1>4

\* A run's snapshot says what is so, and says it of every destination in the ledger.
LEMMA CurrentSeen ==
  ASSUME WrapperInv, run # NoRun
  PROVE  /\ Current.boot = boot /\ Current.service = net.service
         /\ Current.gateway = net.gateway
         /\ Current.resolver \in Resolvers
         /\ Current.resolver.servers = setup[net.service].servers
         /\ Current.resolver.search = setup[net.service].search
         /\ Current.resolver.dynamic = dynamic
         /\ Current.resolver.tunnelKey = "present" => tunnelKey
         /\ Current.resolver.tunnelKey = "absent" => ~tunnelKey
         /\ ledger # NoLedger /\ ledger.tunnel => Current.resolver.tunnelKey # "unasked"
         /\ DOMAIN Current.routes \subseteq Known
         /\ \A d \in Known : /\ d \in DOMAIN Current.routes <=> routes[d] # NoRoute
                             /\ d \in DOMAIN Current.routes => Current.routes[d] = routes[d]
                             /\ RouteOf(Current, d) = routes[d]
<1> DEFINE named == \/ run.reason \in ConnectReasons \cup {"disconnect"}
                    \/ ledger # NoLedger /\ ledger.tunnel
<1>1. Current = Snapshot(Known, named)
  BY DEF Current
<1>2. Known \in {{}, Destinations} /\ SystemTyped
  BY KnownTyped DEF WrapperInv
<1>3. named \in BOOLEAN
  <2>1. ledger # NoLedger => ledger.tunnel \in BOOLEAN
    BY KnownTyped DEF Ledgers
  <2> QED
    BY <2>1
<1>4. PICK n \in BOOLEAN : /\ Current = Snapshot(Known, n)
                           /\ ledger # NoLedger /\ ledger.tunnel => n
  BY <1>1, <1>3
<1> HIDE DEF named
<1>5. PICK cur, dests : cur = Current /\ dests = Known
  OBVIOUS
<1>6. cur = Snapshot(dests, n) /\ dests \in {{}, Destinations}
  BY <1>2, <1>4, <1>5
<1>7. Faithful(cur, dests, n)
  BY <1>2, <1>6, SnapshotSeen
<1> QED
  BY <1>4, <1>5, <1>7 DEF Faithful

\* When the ledger's routes and resolver are the ones there were, the VPN is gone.
LEMMA NothingLeft ==
  ASSUME WrapperInv, Plain, ledger # NoLedger,
         \A d \in Destinations : routes[d].gateway # "vpn",
         routes["vpnHost"] \in {NoRoute, original["vpnHost"]},
         "vpn" \notin {setup[net.service].servers, setup[net.service].search},
         dynamic # "vpn", ~tunnelKey
  PROVE  ~VpnLeft
<1>1. \A s \in Services \ {net.service} : "vpn" \notin {setup[s].servers, setup[s].search}
  BY DEF WrapperInv, SamePlace, Plain
<1>2. \A s \in Services : "vpn" \notin {setup[s].servers, setup[s].search}
  BY <1>1
<1>3. \A d \in Destinations : ~VpnRoute(d)
  BY DEF VpnRoute
<1> QED
  BY <1>2, <1>3 DEF VpnLeft

\* Before the session changed anything, there is nothing to undo.
LEMMA NothingYet ==
  ASSUME WrapperInv, run # NoRun, run.pc \in {"undo", "apply"}, Plain, Known = {}
  PROVE  ~VpnLeft
<1>1. run.reason \in {"disconnect", "repair"}
  BY DEF WrapperInv, RunFits
<1>2. Alone
  BY DEF Plain, Alone
<1> QED
  BY <1>2 DEF WrapperInv, NothingBefore

LEMMA RestoredIsClean ==
  ASSUME WrapperInv, run # NoRun, run.pc \in {"undo", "apply"}, ledger # NoLedger, Plain,
         BaselineRestored(ledger, Current)
  PROVE  ~VpnLeft
<1>1. CASE Known = {}
  BY <1>1, NothingYet
<1>2. CASE Known # {}
  <2>1. /\ Known = Destinations /\ ledger.tunnel /\ ledger \in Ledgers
        /\ Known = DOMAIN ledger.records
    BY <1>2, KnownTyped DEF WrapperInv, LedgerShape
  <2>2. Alone /\ "reconnect" \notin happened
    BY DEF Plain, Alone
  <2>3. /\ \A d \in Destinations : ledger.records[d].before.gateway # "vpn"
        /\ \A f \in {"servers", "search", "dynamic"} : ledger.dnsBefore[f] # "vpn"
        /\ ledger.dnsBefore.tunnelKey # "present"
    BY <2>1, <2>2 DEF WrapperInv, BaselineIsNotVpn, Alone
  <2>4. ledger.records["vpnHost"].before \in {NoRoute, original["vpnHost"]}
    BY <2>1, <2>2 DEF WrapperInv, HostBefore, Destinations
  <2>5. /\ \A d \in Destinations : routes[d] = ledger.records[d].before
        /\ Current.resolver = ledger.dnsBefore
    BY <2>1, CurrentSeen DEF BaselineRestored
  <2>6. \A d \in Destinations : routes[d].gateway # "vpn"
    BY <2>3, <2>5
  <2>7. routes["vpnHost"] \in {NoRoute, original["vpnHost"]}
    BY <2>4, <2>5 DEF Destinations
  <2>8. /\ "vpn" \notin {setup[net.service].servers, setup[net.service].search}
        /\ dynamic # "vpn"
    <3>1. /\ ledger.dnsBefore["servers"] = setup[net.service].servers
          /\ ledger.dnsBefore["search"] = setup[net.service].search
          /\ ledger.dnsBefore["dynamic"] = dynamic
      BY <2>5, CurrentSeen
    <3> QED
      BY <2>3, <3>1
  <2>9. ~tunnelKey
    <3>1. ledger.dnsBefore.tunnelKey \in {"unasked", "present", "absent"}
      BY <2>1 DEF Ledgers, Resolvers
    <3> QED
      BY <2>1, <2>3, <2>5, <3>1, CurrentSeen
  <2> QED
    BY <2>6, <2>7, <2>8, <2>9, NothingLeft
<1> QED
  BY <1>1, <1>2

LEMMA StaleIsClean ==
  ASSUME WrapperInv, run # NoRun, run.pc \in {"undo", "apply"}, ledger # NoLedger, Plain,
         StaleRetirementSafe(ledger, Current)
  PROVE  ~VpnLeft
<1>1. CASE Known = {}
  BY <1>1, NothingYet
<1>2. CASE Known # {}
  <2>1. Known = Destinations
    BY <1>2, KnownTyped
  <2>2. /\ DOMAIN Current.routes = {} /\ Current.resolver.tunnelKey = "absent"
        /\ Current.resolver.servers = ledger.dnsBefore["servers"]
        /\ Current.resolver.search = ledger.dnsBefore["search"]
    BY DEF StaleRetirementSafe, StaleContextSafe, NothingOfOurs
  <2>3. \A d \in Destinations : routes[d] = NoRoute
    BY <2>1, <2>2, CurrentSeen
  <2>4. ~tunnelKey
    BY <2>2, CurrentSeen
  <2>5. Alone
    BY DEF Plain, Alone
  <2>6. dynamic # "vpn"
    BY <2>4, <2>5 DEF WrapperInv, DynamicKeyed
  <2>7. "vpn" \notin {setup[net.service].servers, setup[net.service].search}
    <3>1. \A f \in {"servers", "search", "dynamic"} : ledger.dnsBefore[f] # "vpn"
      BY <2>5 DEF WrapperInv, BaselineIsNotVpn, Alone
    <3>2. /\ setup[net.service].servers = ledger.dnsBefore["servers"]
          /\ setup[net.service].search = ledger.dnsBefore["search"]
      BY <2>2, CurrentSeen
    <3> QED
      BY <3>1, <3>2
  <2>8. NoRoute.gateway # "vpn"
    BY DEF NoRoute
  <2>9. /\ \A d \in Destinations : routes[d].gateway # "vpn"
        /\ routes["vpnHost"] \in {NoRoute, original["vpnHost"]}
    BY <2>3, <2>8 DEF Destinations
  <2> QED
    BY <2>4, <2>6, <2>7, <2>9, NothingLeft
<1> QED
  BY <1>1, <1>2

LEMMA RetiredIsClean ==
  ASSUME WrapperInv, run # NoRun, run.pc \in {"undo", "apply"}, ledger # NoLedger, Plain,
         RetirementSafe(ledger, Current)
  PROVE  ~VpnLeft
<1>1. CASE EmptyBaselineRetirementSafe(ledger, Current)
  <2>1. Known = {}
    BY <1>1, KnownTyped DEF EmptyBaselineRetirementSafe
  <2> QED
    BY <2>1, NothingYet
<1>2. ~CrossContextRetirementSafe(ledger, Current)
  <2>1. ledger.boot = boot /\ ledger.service = net.service
    BY DEF WrapperInv, SamePlace, Plain
  <2> QED
    BY <2>1, CurrentSeen DEF CrossContextRetirementSafe
<1>3. CASE StaleRetirementSafe(ledger, Current)
  BY <1>3, StaleIsClean
<1> QED
  BY <1>1, <1>2, <1>3 DEF RetirementSafe

-----------------------------------------------------------------------------
(* The wrapper's plans. *)

\* A run that starts to carry out a plan.
LEMMA PlanKeeps ==
  ASSUME WrapperInv, run # NoRun, run.pc \in {"undo", "plan"}, ledger # NoLedger,
         NEW plan \in Plans,
         \A s \in plan.routes :
           /\ s.dest \in Known
           /\ s.dest = "campus" /\ s.delete = "other"
                => ledger.records["campus"].applied.gateway = "other",
         run' = [run EXCEPT !.pc = "apply", !.plan = plan], UNCHANGED ledger, Only
  PROVE  WrapperInv'
<1>1. run \in Runs /\ run.reason \in {"disconnect", "repair"}
  BY DEF WrapperInv, RunTyped, RunFits
<1>2. /\ run' \in Runs /\ run' # NoRun
      /\ run'.pc = "apply" /\ run'.reason = run.reason /\ run'.plan = plan
  BY <1>1 DEF Runs, NoRun, Phases
<1>3. UNCHANGED <<systemVars, session, script, history>> /\ Known' = Known
  BY OnlyKeeps DEF Known
<1>4. plan # <<>>
  BY DEF Plans
<1>5. RunFits'
  BY <1>1, <1>2, <1>3, <1>4 DEF WrapperInv, RunFits, Sampling, Connecting
<1>6. PlanFits'
  BY <1>2, <1>3 DEF PlanFits
<1>7. SameLedger
  BY DEF SameLedger
<1>8. /\ run.pc # "script" /\ run'.pc # "script" /\ run'.pc # "remove"
      /\ run'.pc \notin Connecting \union {"preflight"}
  BY <1>2 DEF Connecting
<1> QED
  BY <1>2, <1>3, <1>5, <1>6, <1>7, <1>8, RunGoesOn

\* The routes a stale plan deletes are the ones the session added.
LEMMA StalePlanFits ==
  ASSUME WrapperInv, run # NoRun, ledger # NoLedger,
         NEW removes \in BOOLEAN, removes => StaleRoutesRemovable(ledger, Current),
         NEW plan, plan = StalePlan(ledger, Current, removes)
  PROVE  /\ plan \in Plans
         /\ \A s \in plan.routes :
              /\ s.dest \in Known
              /\ s.dest = "campus" /\ s.delete = "other"
                   => ledger.records["campus"].applied.gateway = "other"
<1> DEFINE clean == [Current EXCEPT !.routes = NoRoutes]
           fields == IF StaleDnsRepairable(ledger, clean)
                     THEN {f \in {"servers", "search"} : Installed(ledger, clean, f)} ELSE {}
           steps == {RouteStep(d, Current.routes[d].gateway, NoRoute) : d \in DOMAIN Current.routes}
<1>1. plan = [routes |-> IF removes THEN steps ELSE {}, fields |-> fields, check |-> "retire"]
  BY DEF StalePlan
<1>2. fields \subseteq {"servers", "search", "dynamic"}
  OBVIOUS
<1> HIDE DEF fields
<1>3. \A d \in DOMAIN Current.routes : d \in Known /\ d \in Destinations
                                        /\ Current.routes[d] \in Routes
  <2>1. Known \subseteq Destinations
    BY KnownTyped
  <2>2. \A d \in Destinations : routes[d] \in Routes
    BY DEF WrapperInv, SystemTyped
  <2> QED
    BY <2>1, <2>2, CurrentSeen
<1>4. \A s \in steps : /\ s.dest \in DOMAIN Current.routes
                       /\ s.delete = Current.routes[s.dest].gateway
                       /\ s.restore = NoRoute /\ s \in Steps
  BY <1>3, RoutesTyped DEF RouteStep, Steps, Routes
<1>5. removes => \A d \in DOMAIN Current.routes :
                   Current.routes[d].gateway = ledger.records[d].applied.gateway
  <2>1. removes => \A d \in DOMAIN Current.routes : OwnedStaleRoute(ledger, Current, d)
    BY DEF StaleRoutesRemovable
  <2>2. \A d : OwnedStaleRoute(ledger, Current, d)
               => Current.routes[d] = Via(ledger.records[d].applied.gateway, Current.service)
    BY DEF OwnedStaleRoute
  <2>3. \A g, i : Via(g, i).gateway = g
    BY DEF Via
  <2> QED
    BY <2>1, <2>2, <2>3
<1> HIDE DEF steps
<1>6. plan \in Plans
  BY <1>1, <1>2, <1>4 DEF Plans
<1>7. \A s \in plan.routes : s \in steps /\ removes
  BY <1>1
<1> QED
  BY <1>3, <1>4, <1>5, <1>6, <1>7

\* The routes a repair deletes are the ones the ledger says are the session's.
LEMMA RepairPlanFits ==
  ASSUME WrapperInv, run # NoRun, ledger # NoLedger,
         RepairPlanSafe(ledger, Current),
         NEW plan, plan = RepairPlan(ledger, Current)
  PROVE  /\ plan \in Plans
         /\ \A s \in plan.routes :
              /\ s.dest \in Known
              /\ s.dest = "campus" /\ s.delete = "other"
                   => ledger.records["campus"].applied.gateway = "other"
<1> DEFINE off == {d \in Known : RouteOf(Current, d) # ledger.records[d].before}
           steps == {RouteStep(d, RouteOf(Current, d).gateway, ledger.records[d].before) : d \in off}
<1>1. Known = DOMAIN ledger.records /\ ledger.records \in [Known -> Records]
  BY KnownTyped
<1>2. plan.routes = steps /\ plan.check = "restored"
      /\ plan = [routes |-> plan.routes, fields |-> plan.fields, check |-> plan.check]
  BY <1>1 DEF RepairPlan
<1>3. plan.fields \subseteq {"servers", "search", "dynamic"}
  BY DEF RepairPlan
<1>4. \A d \in off : /\ d \in Known /\ d \in Destinations
                     /\ RouteOf(Current, d) = routes[d] /\ routes[d] \in Routes
                     /\ ledger.records[d].before \in Routes
  <2>1. Known \subseteq Destinations
    BY KnownTyped
  <2>2. \A d \in Destinations : routes[d] \in Routes
    BY DEF WrapperInv, SystemTyped
  <2>3. \A d \in Known : ledger.records[d].before \in Routes
    BY <1>1 DEF Records
  <2> QED
    BY <2>1, <2>2, <2>3, CurrentSeen
<1>5. \A s \in steps : /\ s.dest \in off
                       /\ s.delete = RouteOf(Current, s.dest).gateway
                       /\ s \in Steps
  BY <1>4 DEF RouteStep, Steps, Routes
<1>6. \A d \in off : d = "campus" /\ RouteOf(Current, d).gateway = "other"
                       => ledger.records[d].applied.gateway = "other"
  <2> SUFFICES ASSUME NEW d \in off, d = "campus", RouteOf(Current, d).gateway = "other"
               PROVE  ledger.records[d].applied.gateway = "other"
    OBVIOUS
  <2>1. RouteOf(Current, d) \notin {ledger.records[d].before, NoRoute}
    BY DEF NoRoute
  <2>2. IntentOwned(ledger, Current, d)
    BY <1>1, <2>1 DEF RepairPlanSafe
  <2>3. Current.routes[d] = ledger.records[d].applied
    BY <2>2 DEF IntentOwned
  <2>4. RouteOf(Current, d) = Current.routes[d]
    BY <2>1 DEF RouteOf
  <2> QED
    BY <2>3, <2>4
<1> HIDE DEF steps, off
<1>7. plan \in Plans
  BY <1>2, <1>3, <1>5 DEF Plans
<1>8. \A d \in off : d \in Known
  BY <1>4
<1> QED
  BY <1>2, <1>5, <1>6, <1>7, <1>8

LEMMA UndoStaleStep == ASSUME WrapperInv, run # NoRun, UndoStale PROVE WrapperInv'
<1>1. /\ run.pc = "undo" /\ run.reason = "repair" /\ ledger # NoLedger
      /\ Only /\ UNCHANGED ledger
  BY DEF UndoStale, WrapperInv, RunFits
<1>2. CASE RetirementSafe(ledger, Current) /\ Proceed("remove")
  <2>1. Plain => ~VpnLeft
    BY <1>1, <1>2, RetiredIsClean
  <2> QED
    BY <1>1, <1>2, <2>1, ProceedKeeps DEF Phases, Connecting, Sampling
<1>3. CASE run' = [run EXCEPT !.pc = "apply",
                     !.plan = StalePlan(ledger, Current, StaleRoutesRemovable(ledger, Current))]
  <2>1. PICK removes \in BOOLEAN : removes <=> StaleRoutesRemovable(ledger, Current)
    OBVIOUS
  <2>2. PICK plan : plan = StalePlan(ledger, Current, removes)
    OBVIOUS
  <2>3. StalePlan(ledger, Current, StaleRoutesRemovable(ledger, Current)) = plan
    BY <2>1, <2>2 DEF StalePlan
  <2>4. /\ plan \in Plans
        /\ \A s \in plan.routes :
             /\ s.dest \in Known
             /\ s.dest = "campus" /\ s.delete = "other"
                  => ledger.records["campus"].applied.gateway = "other"
    BY <1>1, <2>1, <2>2, StalePlanFits
  <2> QED
    BY <1>1, <1>3, <2>3, <2>4, PlanKeeps
<1> QED
  BY <1>2, <1>3 DEF UndoStale

LEMMA MakePlanStep == ASSUME WrapperInv, run # NoRun, MakePlan PROVE WrapperInv'
<1>1. run.pc = "plan" /\ ledger # NoLedger /\ Only
  BY DEF MakePlan, WrapperInv, RunFits
<1>2. CASE Refuse
  BY <1>1, <1>2, RefuseKeeps, OnlyKeeps
<1>3. CASE /\ RepairPlanSafe(ledger, Current)
           /\ run' = [run EXCEPT !.pc = "apply", !.plan = RepairPlan(ledger, Current)]
           /\ UNCHANGED ledger
  <2>1. PICK plan : plan = RepairPlan(ledger, Current)
    OBVIOUS
  <2>2. /\ plan \in Plans
        /\ \A s \in plan.routes :
             /\ s.dest \in Known
             /\ s.dest = "campus" /\ s.delete = "other"
                  => ledger.records["campus"].applied.gateway = "other"
    BY <1>1, <1>3, <2>1, RepairPlanFits
  <2> QED
    BY <1>1, <1>3, <2>1, <2>2, PlanKeeps
<1> QED
  BY <1>2, <1>3 DEF MakePlan

LEMMA VerifyStep == ASSUME WrapperInv, run # NoRun, Verify PROVE WrapperInv'
<1>1. /\ run.pc = "apply" /\ ledger # NoLedger /\ Only
      /\ run.reason \in {"disconnect", "repair"}
  BY DEF Verify, WrapperInv, RunFits
<1>2. CASE Refuse
  BY <1>1, <1>2, RefuseKeeps, OnlyKeeps
<1>3. CASE /\ StaleRetirementSafe(ledger, Current) \/ BaselineRestored(ledger, Current)
           /\ Proceed("remove") /\ UNCHANGED ledger
  <2>1. Plain => ~VpnLeft
    BY <1>1, <1>3, StaleIsClean, RestoredIsClean
  <2> QED
    BY <1>1, <1>3, <2>1, ProceedKeeps DEF Phases, Connecting, Sampling
<1> QED
  BY <1>2, <1>3 DEF Verify

-----------------------------------------------------------------------------
(* The ledgers a wrapper writes. *)

\* A baseline says what is there.
IsBaseline(l, dests, named) ==
  /\ l \in Ledgers /\ DOMAIN l.records = dests
  /\ l.boot = boot /\ l.service = net.service /\ l.tunnel = named
  /\ \A d \in dests : /\ l.records[d].before = routes[d]
                      /\ l.records[d].after = routes[d]
                      /\ l.records[d].applied = NoRoute
  /\ l.dnsBefore.servers = setup[net.service].servers
  /\ l.dnsBefore.search = setup[net.service].search
  /\ l.dnsBefore.dynamic = dynamic
  /\ l.dnsBefore.tunnelKey = "present" => tunnelKey

LEMMA BaselineTyped ==
  ASSUME SystemTyped, NEW dests \in {{}, Destinations}, NEW named \in BOOLEAN,
         NEW l, l = Baseline(Snapshot(dests, named), dests, named)
  PROVE  IsBaseline(l, dests, named)
<1>1. PICK cur : cur = Snapshot(dests, named)
  OBVIOUS
<1>2. Faithful(cur, dests, named)
  BY <1>1, SnapshotSeen
<1> USE <1>2 DEF Faithful
<1> DEFINE records == [d \in dests |-> [before |-> RouteOf(cur, d), applied |-> NoRoute,
                                        after |-> RouteOf(cur, d)]]
<1>3. l = [status |-> "recorded", boot |-> boot, service |-> net.service,
           gateway |-> net.gateway, tunnel |-> named, records |-> records,
           dnsBefore |-> cur.resolver, dnsApplied |-> NoResolver]
  BY <1>1, <1>2 DEF Baseline
<1>4. records \in [dests -> Records]
  <2>1. \A d \in dests : routes[d] \in Routes
    BY DEF SystemTyped
  <2>2. \A d \in dests : RouteOf(cur, d) \in Routes
    BY <1>2, <2>1
  <2> QED
    BY <2>2, RoutesTyped DEF Records
<1>5. \A d \in dests : /\ records[d].before = routes[d] /\ records[d].after = routes[d]
                       /\ records[d].applied = NoRoute
  BY <1>2
<1> HIDE DEF records
<1>6. l \in Ledgers
  <2>1. boot \in Nat /\ net.service \in Services /\ net.gateway \in Gateways
    BY PhysicalNetworks DEF SystemTyped
  <2>2. records \in [{} -> Records] \union [Destinations -> Records]
    BY <1>4
  <2> QED
    BY <1>2, <1>3, <2>1, <2>2 DEF Ledgers
<1> QED
  BY <1>2, <1>3, <1>4, <1>5, <1>6 DEF IsBaseline

\* An intent keeps the baseline, and its tunnel routes are the VPN's.
IsIntent(l, m) ==
  /\ m \in Ledgers /\ DOMAIN m.records = Destinations
  /\ m.boot = l.boot /\ m.service = l.service /\ m.tunnel = TRUE
  /\ m.dnsBefore = l.dnsBefore
  /\ \A d \in Destinations :
       /\ m.records[d].before = l.records[d].before
       /\ m.records[d].after = l.records[d].after
       /\ m.records[d].applied.interface = "utun" => m.records[d].applied.gateway = "vpn"

LEMMA IntentTyped ==
  ASSUME NEW l \in Ledgers, DOMAIN l.records = Destinations
  PROVE  IsIntent(l, WithIntent(l))
<1>0. PICK m : m = WithIntent(l)
  OBVIOUS
<1> DEFINE records == [d \in Destinations |-> [l.records[d] EXCEPT !.applied = IntendedRoute(l, d)]]
<1>1. m = [status |-> l.status, boot |-> l.boot, service |-> l.service,
           gateway |-> l.gateway, tunnel |-> TRUE, records |-> records,
           dnsBefore |-> l.dnsBefore, dnsApplied |-> l.dnsApplied]
  BY <1>0 DEF WithIntent, Ledgers
<1>2. /\ l.records \in [Destinations -> Records]
      /\ l.service \in Services /\ l.gateway \in Gateways
  BY DEF Ledgers
<1>3. \A d \in Destinations :
        /\ IntendedRoute(l, d) \in Routes
        /\ IntendedRoute(l, d).interface = "utun" => IntendedRoute(l, d).gateway = "vpn"
  <2>1. l.service # "utun"
    BY <1>2, WrapperAssumption DEF Services
  <2>2. Via(l.gateway, l.service) \in Routes /\ Via("vpn", "utun") \in Routes
    BY <1>2 DEF Routes, Via, Interfaces, Gateways
  <2>3. Via(l.gateway, l.service).interface = l.service /\ Via("vpn", "utun").gateway = "vpn"
    BY DEF Via
  <2> QED
    BY <2>1, <2>2, <2>3 DEF IntendedRoute
<1>4. /\ records \in [Destinations -> Records]
      /\ \A d \in Destinations : /\ records[d].before = l.records[d].before
                                 /\ records[d].after = l.records[d].after
                                 /\ records[d].applied = IntendedRoute(l, d)
  <2>1. \A d \in Destinations : l.records[d] \in Records
    BY <1>2
  <2> QED
    BY <1>3, <2>1 DEF Records
<1> HIDE DEF records
<1> QED
  BY <1>0, <1>1, <1>3, <1>4 DEF Ledgers, IsIntent

LEMMA AfterScriptTyped ==
  ASSUME WrapperInv, run # NoRun, ledger # NoLedger, Known = Destinations,
         NEW status \in {"recorded", "repair-required"},
         NEW m, m = AfterScript(ledger, Current, status)
  PROVE  /\ m \in Ledgers /\ DOMAIN m.records = Destinations
         /\ m.boot = ledger.boot /\ m.service = ledger.service /\ m.tunnel = ledger.tunnel
         /\ m.dnsBefore = ledger.dnsBefore
         /\ \A d \in Destinations :
              /\ m.records[d].before \in {ledger.records[d].before, ledger.records[d].after}
              /\ m.records[d].applied.interface = "utun" => m.records[d].applied.gateway = "vpn"
<1>1. PICK cur : cur = Current
  OBVIOUS
<1>2. /\ cur.resolver \in Resolvers
      /\ \A d \in Destinations : d \in DOMAIN cur.routes => cur.routes[d] = routes[d]
  BY <1>1, CurrentSeen
<1>3. ledger \in Ledgers /\ ledger.records \in [Destinations -> Records]
  BY KnownTyped
<1> DEFINE records == RecordsAfter(ledger, cur)
<1>4. m = [status |-> status, boot |-> ledger.boot, service |-> ledger.service,
           gateway |-> ledger.gateway, tunnel |-> ledger.tunnel, records |-> records,
           dnsBefore |-> ledger.dnsBefore, dnsApplied |-> cur.resolver]
  BY <1>1, <1>3 DEF AfterScript, Ledgers
<1>5. \A d \in Destinations :
        /\ routes[d] \in Routes
        /\ routes[d].interface = "utun" => routes[d].gateway = "vpn"
        /\ ledger.records[d] \in Records
        /\ ledger.records[d].applied.interface = "utun"
             => ledger.records[d].applied.gateway = "vpn"
  BY <1>3 DEF WrapperInv, SystemTyped, TunnelRoutes
<1>6. /\ records \in [Destinations -> Records]
      /\ \A d \in Destinations :
           /\ records[d].before \in {ledger.records[d].before, ledger.records[d].after}
           /\ records[d].applied.interface = "utun" => records[d].applied.gateway = "vpn"
  <2>1. DOMAIN records = Destinations /\ records = [d \in Destinations |-> records[d]]
    BY <1>3 DEF RecordsAfter
  <2> SUFFICES ASSUME NEW d \in Destinations
               PROVE  /\ records[d] \in Records
                      /\ records[d].before \in {ledger.records[d].before, ledger.records[d].after}
                      /\ records[d].applied.interface = "utun" => records[d].applied.gateway = "vpn"
    BY <2>1
  <2>2. CASE d \in DOMAIN cur.routes
    <3>1. records[d] = [before |-> IF ledger.records[d].before # NoRoute
                                   THEN ledger.records[d].before ELSE ledger.records[d].after,
                        applied |-> routes[d], after |-> routes[d]]
      BY <1>2, <1>3, <2>2 DEF RecordsAfter
    <3> HIDE DEF records
    <3> QED
      BY <1>5, <3>1 DEF Records
  <2>3. CASE d \notin DOMAIN cur.routes
    <3>1. records[d] = ledger.records[d]
      BY <1>3, <2>3 DEF RecordsAfter
    <3> QED
      BY <1>5, <3>1
  <2> QED
    BY <2>2, <2>3
<1> HIDE DEF records
<1> QED
  BY <1>2, <1>3, <1>4, <1>6 DEF Ledgers

\* A ledger is written, and the network stays as it is.
LEMMA LedgerWritten ==
  ASSUME WrapperInv, UNCHANGED <<systemVars, session, history>>, session # "new",
         ledger' \in Ledgers,
         "elsewhere" \notin happened => ledger'.boot = boot /\ ledger'.service = net.service,
         ledger'.tunnel <=> DOMAIN ledger'.records = Destinations,
         \A d \in DOMAIN ledger'.records :
           ledger'.records[d].applied.interface = "utun"
             => ledger'.records[d].applied.gateway = "vpn",
         DOMAIN ledger'.records = {} => Known = {},
         session \in {"prepared", "opened"} => DOMAIN ledger'.records = {}
  PROVE  /\ ledger' # NoLedger /\ Known' = DOMAIN ledger'.records
         /\ SystemTyped' /\ TunnelRoutes' /\ SamePlace' /\ DynamicKeyed' /\ LedgerShape'
         /\ NothingBefore' /\ (VpnLeft' <=> VpnLeft)
         /\ (session \in {"new", "prepared", "opened"} => Known' = {})
<1>1. /\ UNCHANGED <<net, boot, routes, setup, dynamic, tunnelKey, tunnel>>
      /\ UNCHANGED <<session, original, happened>>
  BY DEF systemVars, history
<1>2. ledger' # NoLedger
  BY LedgerOrNone DEF WrapperInv
<1>3. Known' = DOMAIN ledger'.records
  BY <1>2 DEF Known
<1>4. SystemTyped'
  BY <1>1 DEF WrapperInv, SystemTyped
<1>5. TunnelRoutes'
  BY <1>1, <1>3 DEF WrapperInv, TunnelRoutes
<1>6. SamePlace'
  BY <1>1 DEF WrapperInv, SamePlace
<1>7. DynamicKeyed'
  BY <1>1 DEF WrapperInv, DynamicKeyed, Alone
<1>8. LedgerShape'
  BY <1>1, <1>3 DEF LedgerShape
<1>9. VpnLeft' <=> VpnLeft
  BY <1>1 DEF VpnLeft, VpnRoute
<1>10. NothingBefore'
  <2>1. Plain' = Plain /\ Alone' = Alone /\ Late' = Late
    BY <1>1 DEF Plain, Alone, Late
  <2> QED
    BY <1>3, <1>9, <2>1 DEF WrapperInv, NothingBefore
<1> QED
  BY <1>2, <1>3, <1>4, <1>5, <1>6, <1>7, <1>8, <1>9, <1>10

-----------------------------------------------------------------------------
(* The wrapper's steps that write the ledger, or change the network. *)

\* Nothing of the VPN is there when a wrapper takes a baseline for connect or pre-init.
LEMMA SaveBaselineStep == ASSUME WrapperInv, run # NoRun, SaveBaseline PROVE WrapperInv'
<1>1. /\ run.pc = "baseline" /\ Only /\ run \in Runs /\ Known = {}
      /\ run.reason \in ConnectReasons \union {"pre-init"}
  BY DEF SaveBaseline, WrapperInv, RunFits, RunTyped, Sampling
<1>2. UNCHANGED <<systemVars, session, script, history>>
  BY <1>1, OnlyKeeps
<1>3. CASE EndRun /\ UNCHANGED ledger
  BY <1>1, <1>2, <1>3, RefuseKeeps
<1>4. CASE ~(EndRun /\ UNCHANGED ledger)
  <2>1. PICK dests, named :
          /\ dests = IF run.reason = "pre-init" THEN {} ELSE Destinations
          /\ named = (run.reason # "pre-init")
    OBVIOUS
  <2>2. dests \in {{}, Destinations} /\ named \in BOOLEAN /\ (named <=> dests = Destinations)
    BY <2>1 DEF Destinations
  <2>3. ledger' = Baseline(Snapshot(dests, named), dests, named) /\ Proceed("preflight")
    BY <1>4, <2>1 DEF SaveBaseline, Store
  <2>4. PICK l : l = Baseline(Snapshot(dests, named), dests, named)
    OBVIOUS
  <2>5. IsBaseline(l, dests, named)
    <3>1. SystemTyped
      BY DEF WrapperInv
    <3>2. dests \in {{}, Destinations} /\ named \in BOOLEAN
      BY <2>2
    <3> QED
      BY <2>4, <3>1, <3>2, BaselineTyped
  <2> USE DEF IsBaseline
  <2>6. ledger' = l
    BY <2>3, <2>4
  <2>7. /\ session \in {"prepared", "connected"}
        /\ run.reason \in ConnectReasons => session = "connected"
    BY <1>1 DEF WrapperInv, RunOfSession
  <2>8. Alone => ~VpnLeft
    BY <1>1, <2>7 DEF WrapperInv, NothingBefore, Late
  <2>9. /\ ledger' # NoLedger /\ Known' = dests
        /\ SystemTyped' /\ TunnelRoutes' /\ SamePlace' /\ DynamicKeyed' /\ LedgerShape'
        /\ NothingBefore'
        /\ (session \in {"new", "prepared", "opened"} => Known' = {})
    <3>1. \A d \in dests : l.records[d].applied.interface # "utun"
      BY <2>5 DEF NoRoute
    <3>2. session \in {"prepared", "opened"} => dests = {}
      BY <1>1, <2>1, <2>7
    <3>3. l.tunnel <=> DOMAIN l.records = Destinations
      BY <2>2, <2>5
    <3> QED
      BY <1>1, <1>2, <2>5, <2>6, <2>7, <3>1, <3>2, <3>3, LedgerWritten
  <2>10. UNCHANGED <<net, boot, routes, setup, dynamic, tunnelKey, session, script, original, happened>>
    BY <1>2 DEF systemVars, history
  <2>11. BaselineIsNotVpn'
    <3> SUFFICES ASSUME Alone
                 PROVE  /\ \A d \in dests : l.records[d].before.gateway # "vpn"
                        /\ \A f \in {"servers", "search", "dynamic"} : l.dnsBefore[f] # "vpn"
                        /\ l.dnsBefore.tunnelKey # "present"
      BY <2>5, <2>6, <2>10 DEF BaselineIsNotVpn, Alone
    <3>1. ~VpnLeft /\ net.service \in Services
      BY <2>8, PhysicalNetworks DEF WrapperInv, SystemTyped
    <3>2. /\ \A d \in Destinations : routes[d].gateway # "vpn"
          /\ setup[net.service].servers # "vpn" /\ setup[net.service].search # "vpn"
          /\ dynamic # "vpn" /\ ~tunnelKey
      BY <3>1 DEF VpnLeft, VpnRoute
    <3>3. \A d \in dests : l.records[d].before.gateway # "vpn"
      BY <2>2, <2>5, <3>2
    <3> QED
      BY <2>5, <3>2, <3>3
  <2>12. HostBefore'
    <3> SUFFICES ASSUME Alone, "vpnHost" \in dests
                 PROVE  l.records["vpnHost"].before \in {NoRoute, original["vpnHost"]}
      BY <2>6, <2>9, <2>10 DEF HostBefore, Alone
    <3>1. ~VpnRoute("vpnHost")
      BY <2>8 DEF VpnLeft, Destinations
    <3> QED
      BY <2>5, <3>1 DEF VpnRoute
  <2>13. /\ run' \in Runs /\ run' # NoRun
         /\ run'.pc = "preflight" /\ run'.reason = run.reason
    BY <2>3, Proceeds DEF Phases
  <2>14. RunTyped' /\ ScriptOfRun' /\ Removable' /\ PlanFits'
    <3>1. RunTyped'
      BY <2>5, <2>6, <2>10, <2>13 DEF WrapperInv, RunTyped
    <3>2. ScriptOfRun'
      BY <1>1, <2>10, <2>13 DEF WrapperInv, ScriptOfRun
    <3> QED
      BY <2>13, <3>1, <3>2 DEF Removable, PlanFits
  <2>15. RunFits'
    <3>1. run.reason \in ConnectReasons => run.reason # "pre-init"
      BY DEF ConnectReasons
    <3> QED
      BY <1>1, <2>1, <2>9, <2>13, <3>1 DEF RunFits, Sampling, Connecting
  <2>16. RunOfSession'
    BY <1>1, <2>7, <2>9, <2>10, <2>13 DEF WrapperInv, RunOfSession
  <2>17. AfterIsBefore'
    BY <2>5, <2>6, <2>9 DEF AfterIsBefore
  <2> QED
    BY <2>9, <2>11, <2>12, <2>14, <2>15, <2>16, <2>17 DEF WrapperInv
<1> QED
  BY <1>3, <1>4

LEMMA SaveIntentStep == ASSUME WrapperInv, run # NoRun, SaveIntent PROVE WrapperInv'
<1>1. /\ run.pc = "intent" /\ Only /\ ledger # NoLedger
      /\ run.reason \in ConnectReasons /\ Known = Destinations
      /\ ledger' = WithIntent(ledger) /\ Proceed("launch")
  BY DEF SaveIntent, Store, WrapperInv, RunFits, Connecting
<1>2. UNCHANGED <<systemVars, session, script, history>>
  BY <1>1, OnlyKeeps
<1>3. UNCHANGED <<session, script, original, happened, net, boot>>
  BY <1>2 DEF history, systemVars
<1>4. PICK m : m = WithIntent(ledger)
  OBVIOUS
<1>5. ledger \in Ledgers /\ DOMAIN ledger.records = Destinations
  BY <1>1, KnownTyped
<1>6. IsIntent(ledger, m)
  BY <1>4, <1>5, IntentTyped
<1> USE DEF IsIntent
<1>7. ledger' = m
  BY <1>1, <1>4
<1>8. session = "connected"
  BY <1>1 DEF WrapperInv, RunOfSession
<1>9. /\ ledger' # NoLedger /\ Known' = Destinations
      /\ SystemTyped' /\ TunnelRoutes' /\ SamePlace' /\ DynamicKeyed' /\ LedgerShape'
      /\ NothingBefore'
  <2>1. "elsewhere" \notin happened => m.boot = boot /\ m.service = net.service
    BY <1>1, <1>6 DEF WrapperInv, SamePlace
  <2>2. Destinations # {}
    BY DEF Destinations
  <2> QED
    BY <1>2, <1>6, <1>7, <1>8, <2>1, <2>2, LedgerWritten
<1>10. BaselineIsNotVpn'
  BY <1>1, <1>3, <1>5, <1>6, <1>7 DEF WrapperInv, BaselineIsNotVpn
<1>11. HostBefore'
  BY <1>1, <1>3, <1>6, <1>7 DEF WrapperInv, HostBefore, Alone, Destinations
<1>12. /\ run' \in Runs /\ run' # NoRun
       /\ run'.pc = "launch" /\ run'.reason = run.reason
  BY <1>1, Proceeds DEF Phases
<1>13. RunTyped' /\ ScriptOfRun' /\ Removable' /\ PlanFits'
  <2>1. RunTyped'
    BY <1>3, <1>6, <1>7, <1>12 DEF WrapperInv, RunTyped
  <2>2. ScriptOfRun'
    BY <1>1, <1>3, <1>12 DEF WrapperInv, ScriptOfRun
  <2> QED
    BY <1>12, <2>1, <2>2 DEF Removable, PlanFits
<1>14. RunFits' /\ RunOfSession'
  <2>1. run.reason \notin {"pre-init", "repair"}
    BY <1>1 DEF ConnectReasons
  <2>2. RunFits'
    BY <1>9, <1>12, <2>1 DEF RunFits, Sampling
  <2> QED
    BY <1>1, <1>3, <1>8, <1>12, <2>2 DEF WrapperInv, RunOfSession
<1>15. AfterIsBefore'
  BY <1>1, <1>6, <1>7, <1>9, <1>12 DEF WrapperInv, AfterIsBefore, Connecting
<1> QED
  BY <1>9, <1>10, <1>11, <1>13, <1>14, <1>15 DEF WrapperInv

\* What the script did is written down, and the run ends.
LEMMA AfterScriptEnds ==
  ASSUME WrapperInv, run # NoRun, run.pc \in {"script", "after"}, run.reason \in ConnectReasons,
         NEW status \in {"recorded", "repair-required"},
         ledger' = AfterScript(ledger, Current, status), EndRun,
         UNCHANGED <<systemVars, session, history>>,
         script' = "none" \/ (script' = script /\ run.pc # "script")
  PROVE  WrapperInv'
<1>1. Known = Destinations /\ ledger # NoLedger
  BY DEF WrapperInv, RunFits, Connecting
<1>2. UNCHANGED <<session, original, happened, net, boot>>
  BY DEF history, systemVars
<1>3. PICK m : m = AfterScript(ledger, Current, status)
  OBVIOUS
<1>4. /\ m \in Ledgers /\ DOMAIN m.records = Destinations
      /\ m.boot = ledger.boot /\ m.service = ledger.service /\ m.tunnel = ledger.tunnel
      /\ m.dnsBefore = ledger.dnsBefore
      /\ \A d \in Destinations :
           /\ m.records[d].before \in {ledger.records[d].before, ledger.records[d].after}
           /\ m.records[d].applied.interface = "utun" => m.records[d].applied.gateway = "vpn"
  BY <1>1, <1>3, AfterScriptTyped
<1>5. ledger' = m
  BY <1>3
<1>6. session = "connected"
  BY DEF WrapperInv, RunOfSession
<1>7. /\ ledger' # NoLedger /\ Known' = Destinations
      /\ SystemTyped' /\ TunnelRoutes' /\ SamePlace' /\ DynamicKeyed' /\ LedgerShape'
      /\ NothingBefore'
  <2>1. "elsewhere" \notin happened => m.boot = boot /\ m.service = net.service
    BY <1>1, <1>4 DEF WrapperInv, SamePlace
  <2>2. Destinations # {}
    BY DEF Destinations
  <2>3. m.tunnel <=> Known = Destinations
    BY <1>1, <1>4 DEF WrapperInv, LedgerShape
  <2> QED
    BY <1>1, <1>4, <1>5, <1>6, <2>1, <2>2, <2>3, LedgerWritten
<1>8. "reconnect" \notin happened =>
        \A d \in Destinations : m.records[d].before = ledger.records[d].before
  <2> SUFFICES ASSUME "reconnect" \notin happened
               PROVE  \A d \in Destinations : ledger.records[d].after = ledger.records[d].before
    BY <1>4
  <2>1. run.reason = "connect"
    BY DEF WrapperInv, RunOfSession, ConnectReasons
  <2> QED
    BY <1>1, <2>1 DEF WrapperInv, AfterIsBefore, Connecting
<1>9. BaselineIsNotVpn'
  <2>1. DOMAIN ledger.records = Destinations
    BY <1>1, KnownTyped
  <2> QED
    BY <1>1, <1>2, <1>4, <1>5, <1>8, <2>1 DEF WrapperInv, BaselineIsNotVpn
<1>10. HostBefore'
  BY <1>1, <1>2, <1>4, <1>5, <1>8 DEF WrapperInv, HostBefore, Alone, Destinations
<1>11. run' = NoRun /\ run'.pc = "idle"
  BY DEF EndRun, NoRun
<1>12. RunTyped' /\ ScriptOfRun'
  BY <1>2, <1>4, <1>5, <1>11 DEF WrapperInv, RunTyped, ScriptOfRun
<1>13. RunFits' /\ Removable' /\ AfterIsBefore' /\ PlanFits'
  BY <1>11 DEF RunFits, Removable, AfterIsBefore, PlanFits
<1>14. RunOfSession'
  BY <1>2, <1>6, <1>11 DEF RunOfSession
<1> QED
  BY <1>7, <1>9, <1>10, <1>12, <1>13, <1>14 DEF WrapperInv

LEMMA AfterConnectStep == ASSUME WrapperInv, run # NoRun, AfterConnect PROVE WrapperInv'
<1>1. PICK status \in {"recorded", "repair-required"} :
        ledger' = AfterScript(ledger, Current, status)
  BY DEF AfterConnect, Store
<1>2. /\ run.pc = "after" /\ run.reason \in ConnectReasons /\ EndRun
      /\ UNCHANGED <<systemVars, session, script, history>>
  BY OnlyKeeps DEF AfterConnect
<1> QED
  BY <1>1, <1>2, AfterScriptEnds

LEMMA ScriptTimesOutStep == ASSUME WrapperInv, run # NoRun, ScriptTimesOut PROVE WrapperInv'
<1>1. /\ run.pc = "script" /\ script' = "none" /\ EndRun /\ ledger # NoLedger
      /\ UNCHANGED <<systemVars, session, history>> /\ run.reason \in Reasons
  BY DEF ScriptTimesOut, WrapperInv, RunFits, RunTyped, Runs
<1>2. CASE run.reason \in ConnectReasons
  <2>1. ledger' = AfterScript(ledger, Current, "repair-required")
    BY <1>2 DEF ScriptTimesOut, Store, ConnectReasons
  <2> QED
    BY <1>1, <1>2, <2>1, AfterScriptEnds
<1>3. CASE run.reason \notin ConnectReasons
  <2>1. ledger' = Marked(ledger) \/ ledger' = ledger
    BY <1>3 DEF ScriptTimesOut, Store
  <2>2. SameLedger /\ run' = NoRun
    BY <1>1, <2>1 DEF SameLedger, EndRun
  <2>3. UNCHANGED <<original, happened>>
    BY <1>1 DEF history
  <2> QED
    BY <1>1, <2>2, <2>3, RunEnds
<1> QED
  BY <1>2, <1>3

LEMMA WrapperDiesStep == ASSUME WrapperInv, WrapperDies PROVE WrapperInv'
<1>1. /\ SameLedger /\ run' = NoRun /\ script' = script
      /\ UNCHANGED <<systemVars, session, original>>
  BY DEF WrapperDies, EndRun, SameLedger
<1>2. happened \subseteq happened' /\ (run.pc = "script" => "orphan" \in happened')
  BY DEF WrapperDies, CutOff
<1> QED
  BY <1>1, <1>2, RunEnds

LEMMA RemoveLedgerStep == ASSUME WrapperInv, run # NoRun, RemoveLedger PROVE WrapperInv'
<1>1. /\ run.pc = "remove" /\ ledger' = NoLedger /\ run' = NoRun
      /\ UNCHANGED <<net, boot, routes, setup, dynamic, tunnelKey, tunnel>>
      /\ UNCHANGED <<session, script, original, happened>>
  BY OnlyKeeps DEF RemoveLedger, EndRun, systemVars, history
<1>2. Known' = {}
  BY <1>1 DEF Known
<1>3. run'.pc = "idle"
  BY <1>1 DEF NoRun
<1>4. SystemTyped' /\ RunTyped'
  BY <1>1 DEF WrapperInv, SystemTyped, RunTyped
<1>5. TunnelRoutes' /\ SamePlace' /\ LedgerShape' /\ BaselineIsNotVpn' /\ HostBefore'
  BY <1>1, <1>2 DEF WrapperInv, TunnelRoutes, SamePlace, LedgerShape, BaselineIsNotVpn, HostBefore
<1>6. DynamicKeyed' /\ ScriptOfRun'
  BY <1>1, <1>3 DEF WrapperInv, DynamicKeyed, Alone, ScriptOfRun
<1>7. RunFits' /\ Removable' /\ AfterIsBefore' /\ PlanFits' /\ RunOfSession'
  BY <1>1, <1>2, <1>3 DEF RunFits, Removable, AfterIsBefore, PlanFits, RunOfSession
<1>8. NothingBefore'
  <2>1. Late
    BY <1>1 DEF WrapperInv, RunFits, RunOfSession, Late, NoRun
  <2>2. Plain => ~VpnLeft
    BY <1>1 DEF WrapperInv, Removable
  <2>3. Plain' = Plain /\ Late' = Late /\ (VpnLeft' <=> VpnLeft)
    BY <1>1 DEF Plain, Late, VpnLeft, VpnRoute
  <2> QED
    BY <2>1, <2>2, <2>3 DEF NothingBefore
<1> QED
  BY <1>4, <1>5, <1>6, <1>7, <1>8 DEF WrapperInv

LEMMA LaunchScriptStep == ASSUME WrapperInv, run # NoRun, LaunchScript PROVE WrapperInv'
<1>1. /\ run.pc = "launch" /\ run.reason \in Reasons \ {"repair"}
      /\ script' = run.reason /\ Proceed("script") /\ UNCHANGED ledger
      /\ UNCHANGED <<systemVars, session, history>>
  BY DEF LaunchScript, WrapperInv, RunFits, RunTyped, Runs
<1>2. UNCHANGED <<session, original, happened>> /\ SameLedger /\ Known' = Known
  BY <1>1 DEF history, SameLedger, Known
<1>3. /\ run' \in Runs /\ run' # NoRun
      /\ run'.pc = "script" /\ run'.reason = run.reason
  BY <1>1, Proceeds DEF Phases
<1>4. /\ SystemTyped' /\ TunnelRoutes' /\ SamePlace' /\ DynamicKeyed'
      /\ LedgerShape' /\ BaselineIsNotVpn' /\ HostBefore' /\ NothingBefore'
  BY <1>1, <1>2, NetworkKept
<1>5. RunTyped' /\ ScriptOfRun' /\ Removable' /\ PlanFits'
  BY <1>1, <1>3 DEF WrapperInv, RunTyped, ScriptOfRun, Removable, PlanFits
<1>6. RunFits' /\ RunOfSession' /\ AfterIsBefore'
  <2>1. RunFits'
    BY <1>1, <1>2, <1>3 DEF WrapperInv, RunFits, Sampling, Connecting
  <2>2. RunOfSession'
    BY <1>1, <1>2, <1>3 DEF WrapperInv, RunOfSession
  <2>3. AfterIsBefore'
    BY <1>1, <1>2, <1>3 DEF WrapperInv, AfterIsBefore, Connecting
  <2> QED
    BY <2>1, <2>2, <2>3
<1> QED
  BY <1>4, <1>5, <1>6 DEF WrapperInv

-----------------------------------------------------------------------------
(* The wrapper's steps that change the network. *)

\* A plan that may be carried out: its routes are in the ledger, and one that is
\* another's is there because it was taken for the script's.
FitPlan(plan) ==
  /\ plan \in Plans
  /\ \A s \in plan.routes :
       /\ s.dest \in Known
       /\ s.dest = "campus" /\ s.delete = "other"
            => ledger.records["campus"].applied.gateway = "other"

LEMMA PlanIsFit == ASSUME WrapperInv, run # NoRun, run.pc = "apply" PROVE FitPlan(run.plan)
BY DEF WrapperInv, RunTyped, RunFits, Runs, PlanFits, FitPlan

LEMMA ApplyKeeps ==
  ASSUME WrapperInv, run # NoRun, run.pc = "apply", SameLedger,
         UNCHANGED <<net, boot, tunnel, session, script, history>>,
         SystemTyped', SamePlace', DynamicKeyed',
         \A d \in Destinations :
           routes'[d].interface = "utun" => routes'[d].gateway = "vpn" /\ tunnel,
         Known = {} /\ Plain => ~VpnLeft',
         run' = NoRun \/ \E plan : FitPlan(plan) /\ run' = [run EXCEPT !.plan = plan]
  PROVE  WrapperInv'
<1>1. UNCHANGED <<tunnel, session, script, original, happened>>
  BY DEF history
<1>2. /\ ledger # NoLedger /\ run \in Runs /\ run.reason \in {"disconnect", "repair"}
      /\ ledger' \in {NoLedger} \union Ledgers
      /\ ledger' = NoLedger <=> ledger = NoLedger
      /\ Known' = Known
      /\ ledger # NoLedger => Alike(ledger, ledger')
  BY SameLedgerView DEF WrapperInv, RunFits, RunTyped
<1>3. /\ \A d \in Known' : ledger'.records[d].applied.interface = "utun"
                             => ledger'.records[d].applied.gateway = "vpn"
      /\ LedgerShape' /\ BaselineIsNotVpn' /\ HostBefore'
  BY <1>1, LedgerKept
<1>4. TunnelRoutes'
  BY <1>1, <1>3 DEF TunnelRoutes
<1>5. NothingBefore'
  <2>1. Late
    BY <1>2 DEF WrapperInv, RunOfSession, Late
  <2>2. Plain' = Plain /\ Late' = Late
    BY <1>1 DEF Plain, Late
  <2> QED
    BY <1>2, <2>1, <2>2 DEF NothingBefore
<1>6. /\ run' \in {NoRun} \union Runs /\ run'.pc \in {"idle", "apply"}
      /\ run' # NoRun => run'.pc = "apply" /\ run'.reason = run.reason /\ FitPlan(run'.plan)
  <2>1. CASE run' = NoRun
    BY <2>1 DEF NoRun
  <2>2. ASSUME NEW plan, FitPlan(plan), run' = [run EXCEPT !.plan = plan]
        PROVE  run' \in Runs /\ run'.pc = "apply" /\ run'.reason = run.reason /\ run'.plan = plan
    BY <1>2, <2>2 DEF Runs, FitPlan
  <2> QED
    BY <2>1, <2>2
<1>7. RunTyped' /\ ScriptOfRun' /\ Removable'
  BY <1>1, <1>2, <1>6 DEF WrapperInv, RunTyped, ScriptOfRun, Removable
<1>8. RunFits'
  <2>1. \A plan : FitPlan(plan) => plan # <<>>
    BY DEF FitPlan, Plans
  <2> QED
    BY <1>2, <1>6, <2>1 DEF RunFits, Sampling, Connecting
<1>9. RunOfSession' /\ AfterIsBefore'
  BY <1>1, <1>2, <1>6 DEF WrapperInv, RunOfSession, AfterIsBefore
<1>10. PlanFits'
  <2>1. Known # {} => ledger'.records = ledger.records
    BY <1>2 DEF Alike
  <2>2. run'.pc = "apply" => FitPlan(run'.plan)
    BY <1>6 DEF NoRun
  <2> QED
    BY <1>2, <2>1, <2>2 DEF PlanFits, FitPlan
<1> QED
  BY <1>3, <1>4, <1>5, <1>7, <1>8, <1>9, <1>10 DEF WrapperInv

\* The plan without a step, or with what is left of it.
LEMMA PlanShrinks ==
  ASSUME NEW plan, FitPlan(plan), NEW s \in plan.routes,
         NEW rest \in SUBSET {RouteStep(s.dest, "none", s.restore)},
         NEW smaller, smaller = [plan EXCEPT !.routes = (@ \ {s}) \cup rest]
  PROVE  FitPlan(smaller)
<1>1. /\ plan \in Plans /\ s \in Steps /\ s.dest \in Known
      /\ smaller = [routes |-> (plan.routes \ {s}) \cup rest, fields |-> plan.fields,
                    check |-> plan.check]
  BY DEF FitPlan, Plans
<1>2. \A t \in rest : t \in Steps /\ t.dest = s.dest /\ t.delete = "none"
  BY <1>1 DEF RouteStep, Steps, Gateways
<1>3. smaller \in Plans
  BY <1>1, <1>2 DEF Plans
<1> QED
  BY <1>1, <1>2, <1>3 DEF FitPlan

LEMMA ApplyRouteStep == ASSUME WrapperInv, run # NoRun, ApplyRoute PROVE WrapperInv'
<1>1. /\ run.pc = "apply" /\ ledger # NoLedger /\ run \in Runs /\ FitPlan(run.plan)
      /\ UNCHANGED <<net, boot, setup, dynamic, tunnelKey, tunnel, session, script, history>>
  BY PlanIsFit DEF ApplyRoute, Keeps, WrapperInv, RunFits, RunTyped
<1>2. UNCHANGED <<original, happened>>
  BY <1>1 DEF history
<1>3. PICK s \in run.plan.routes : IF s.delete # "none" THEN DeleteRoute(s) ELSE RestoreRoute(s)
  BY DEF ApplyRoute
<1>4. s \in Steps /\ s.dest \in Known /\ s.dest \in Destinations
  BY <1>1 DEF FitPlan, Plans, Steps
<1>5. routes \in [Destinations -> Routes] /\ net.service \in Interfaces /\ net.service # "utun"
  BY PhysicalNetworks DEF WrapperInv, SystemTyped, Interfaces
<1>6. routes' = routes \/ routes' = [routes EXCEPT ![s.dest] = NoRoute]
      \/ (/\ s.restore.gateway \in Gateways
          /\ routes' = [routes EXCEPT ![s.dest] =
                          Via(s.restore.gateway, InterfaceOf(s.restore.gateway))])
  <2>1. s.restore.gateway \in Gateways
    BY <1>4 DEF Steps, Routes
  <2> QED
    BY <1>3, <2>1 DEF DeleteRoute, RestoreRoute
<1>7. /\ \A g \in Gateways : Via(g, InterfaceOf(g)) \in Routes
      /\ \A g \in Gateways : Via(g, InterfaceOf(g)).interface = "utun"
                               => Via(g, InterfaceOf(g)).gateway = "vpn" /\ tunnel
  BY <1>5 DEF Via, InterfaceOf, Routes, Interfaces
<1>8. routes' \in [Destinations -> Routes]
  BY <1>4, <1>5, <1>6, <1>7, RoutesTyped
<1>9. \A d \in Destinations :
        routes'[d].interface = "utun" => routes'[d].gateway = "vpn" /\ tunnel
  <2> SUFFICES ASSUME NEW d \in Destinations, routes'[d].interface = "utun"
               PROVE  routes'[d].gateway = "vpn" /\ tunnel
    OBVIOUS
  <2>1. CASE routes'[d] = routes[d]
    BY <2>1 DEF WrapperInv, TunnelRoutes
  <2>2. CASE routes'[d] # routes[d]
    <3>1. d = s.dest
      BY <1>4, <1>5, <1>6, <2>2
    <3>2. routes'[d] # NoRoute
      BY DEF NoRoute
    <3> QED
      BY <1>4, <1>5, <1>6, <1>7, <2>2, <3>1, <3>2
  <2> QED
    BY <2>1, <2>2
<1>10. SystemTyped' /\ DynamicKeyed'
  BY <1>1, <1>2, <1>8 DEF WrapperInv, SystemTyped, DynamicKeyed, Alone
<1>11. /\ SameLedger
       /\ run' = NoRun \/ \E plan : FitPlan(plan) /\ run' = [run EXCEPT !.plan = plan]
  <2>1. CASE Refuse
    BY <1>1, <2>1 DEF Refuse, EndRun, Store, SameLedger
  <2>2. CASE ~Refuse
    <3>1. PICK rest \in SUBSET {RouteStep(s.dest, "none", s.restore)} :
            /\ ledger' = ledger
            /\ run' = [run EXCEPT !.plan.routes = (@ \ {s}) \cup rest]
      <4>1. CASE DeleteRoute(s)
        <5>1. PICK rest : rest = IF s.restore = NoRoute THEN {}
                                 ELSE {RouteStep(s.dest, "none", s.restore)}
          OBVIOUS
        <5>2. /\ ledger' = ledger
              /\ run' = [run EXCEPT !.plan.routes = (@ \ {s}) \cup rest]
          BY <2>2, <4>1, <5>1 DEF DeleteRoute
        <5>3. rest \in SUBSET {RouteStep(s.dest, "none", s.restore)}
          BY <5>1
        <5> QED
          BY <5>2, <5>3
      <4>2. CASE RestoreRoute(s)
        <5>1. ledger' = ledger /\ run' = [run EXCEPT !.plan.routes = @ \ {s}]
          BY <2>2, <4>2 DEF RestoreRoute
        <5>2. (run.plan.routes \ {s}) \cup {} = run.plan.routes \ {s}
          OBVIOUS
        <5>3. run' = [run EXCEPT !.plan.routes = (@ \ {s}) \cup {}]
          BY <5>1, <5>2
        <5> QED
          BY <5>1, <5>3
      <4> QED
        BY <1>3, <4>1, <4>2
    <3>2. PICK smaller : smaller = [run.plan EXCEPT !.routes = (@ \ {s}) \cup rest]
      OBVIOUS
    <3>3. FitPlan(smaller)
      BY <1>1, <3>2, PlanShrinks
    <3>4. run' = [run EXCEPT !.plan = smaller]
      BY <1>1, <3>1, <3>2 DEF Runs
    <3> QED
      BY <3>1, <3>3, <3>4 DEF SameLedger
  <2> QED
    BY <2>1, <2>2
<1>12. SamePlace'
  <2>1. ledger' = NoLedger \/ (ledger # NoLedger /\ Alike(ledger, ledger'))
    BY <1>11, SameLedgerView DEF WrapperInv
  <2> QED
    BY <1>1, <1>2, <2>1 DEF WrapperInv, SamePlace, Alike
<1>13. Known # {}
  BY <1>4
<1> QED
  BY <1>1, <1>9, <1>10, <1>11, <1>12, <1>13, ApplyKeeps

\* A field of the resolver that is restored is as it was before the session.
LEMMA ApplyFieldStep == ASSUME WrapperInv, run # NoRun, ApplyField PROVE WrapperInv'
<1>1. /\ run.pc = "apply" /\ ledger # NoLedger /\ run \in Runs /\ FitPlan(run.plan)
      /\ UNCHANGED <<net, boot, routes, tunnel, ledger, session, script, history>>
  BY PlanIsFit DEF ApplyField, Keeps, WrapperInv, RunFits, RunTyped
<1>2. UNCHANGED <<original, happened>> /\ SameLedger
  BY <1>1 DEF history, SameLedger
<1>3. PICK f \in run.plan.fields : RestoreField(f) /\ run' = [run EXCEPT !.plan.fields = @ \ {f}]
  BY DEF ApplyField
<1>4. /\ ledger \in Ledgers /\ ledger.service \in Services /\ ledger.dnsBefore \in Resolvers
      /\ f \in {"servers", "search", "dynamic"}
  BY <1>1, KnownTyped DEF Ledgers, FitPlan, Plans
<1>5. /\ ledger.dnsBefore[f] \in DnsValues /\ ledger.dnsBefore.dynamic \in DnsValues
      /\ Alone => ledger.dnsBefore[f] # "vpn" /\ ledger.dnsBefore.dynamic # "vpn"
                    /\ ledger.dnsBefore.tunnelKey # "present"
  <2>1. ledger.dnsBefore["servers"] \in DnsValues /\ ledger.dnsBefore["search"] \in DnsValues
        /\ ledger.dnsBefore["dynamic"] \in DnsValues
    BY <1>4 DEF Resolvers
  <2>2. Alone => /\ \A g \in {"servers", "search", "dynamic"} : ledger.dnsBefore[g] # "vpn"
                 /\ ledger.dnsBefore.tunnelKey # "present"
    BY <1>1 DEF WrapperInv, BaselineIsNotVpn, Alone
  <2> QED
    BY <1>4, <2>1, <2>2
<1>6. setup \in [Services -> [servers : DnsValues, search : DnsValues]]
  BY DEF WrapperInv, SystemTyped
<1>7. f = "dynamic" => SystemTyped' /\ SamePlace' /\ DynamicKeyed' /\ (Known = {} /\ Plain => ~VpnLeft')
  <2> SUFFICES ASSUME f = "dynamic" PROVE SystemTyped' /\ SamePlace' /\ DynamicKeyed' /\ (Known = {} /\ Plain => ~VpnLeft')
    OBVIOUS
  <2>1. /\ dynamic' = ledger.dnsBefore.dynamic
        /\ tunnelKey' = (ledger.dnsBefore.tunnelKey = "present") /\ setup' = setup
    BY <1>3 DEF RestoreField
  <2>2. SystemTyped' /\ SamePlace'
    BY <1>1, <1>2, <1>5, <2>1 DEF WrapperInv, SystemTyped, SamePlace
  <2>3. DynamicKeyed'
    BY <1>2, <1>5, <2>1 DEF DynamicKeyed, Alone
  <2>4. Known = {} /\ Plain => ~VpnLeft'
    <3>1. Known = {} /\ Plain => ~VpnLeft /\ Alone
      BY <1>1, NothingYet DEF Plain, Alone
    <3>2. Alone => dynamic' # "vpn" /\ ~tunnelKey'
      BY <1>5, <2>1
    <3> QED
      BY <1>1, <1>2, <2>1, <3>1, <3>2 DEF VpnLeft, VpnRoute
  <2> QED
    BY <2>2, <2>3, <2>4
<1>8. f # "dynamic" => SystemTyped' /\ SamePlace' /\ DynamicKeyed' /\ (Known = {} /\ Plain => ~VpnLeft')
  <2> SUFFICES ASSUME f # "dynamic" PROVE SystemTyped' /\ SamePlace' /\ DynamicKeyed' /\ (Known = {} /\ Plain => ~VpnLeft')
    OBVIOUS
  <2>1. /\ setup' = [setup EXCEPT ![ledger.service][f] = ledger.dnsBefore[f]]
        /\ dynamic' = dynamic /\ tunnelKey' = tunnelKey /\ f \in {"servers", "search"}
    BY <1>3, <1>4 DEF RestoreField
  <2>2. /\ setup' \in [Services -> [servers : DnsValues, search : DnsValues]]
        /\ \A s \in Services : s # ledger.service => setup'[s] = setup[s]
        /\ \A s \in Services : "vpn" \in {setup'[s].servers, setup'[s].search}
             => "vpn" \in {setup[s].servers, setup[s].search} \/ ledger.dnsBefore[f] = "vpn"
    <3>1. CASE f = "servers"
      BY <1>4, <1>5, <1>6, <2>1, <3>1
    <3>2. CASE f = "search"
      BY <1>4, <1>5, <1>6, <2>1, <3>2
    <3> QED
      BY <2>1, <3>1, <3>2
  <2>3. SystemTyped'
    BY <1>1, <1>2, <2>1, <2>2 DEF WrapperInv, SystemTyped
  <2>4. SamePlace'
    BY <1>1, <1>2, <2>2 DEF WrapperInv, SamePlace
  <2>5. DynamicKeyed'
    BY <1>2, <2>1 DEF WrapperInv, DynamicKeyed, Alone
  <2>6. Known = {} /\ Plain => ~VpnLeft'
    <3>1. Known = {} /\ Plain => ~VpnLeft /\ Alone
      BY <1>1, NothingYet DEF Plain, Alone
    <3> QED
      BY <1>1, <1>2, <1>5, <2>1, <2>2, <3>1 DEF VpnLeft, VpnRoute
  <2> QED
    BY <2>3, <2>4, <2>5, <2>6
<1>9. \E plan : FitPlan(plan) /\ run' = [run EXCEPT !.plan = plan]
  <2>1. PICK plan : plan = [run.plan EXCEPT !.fields = @ \ {f}]
    OBVIOUS
  <2>2. /\ run.plan \in Plans
        /\ plan = [routes |-> run.plan.routes, fields |-> run.plan.fields \ {f},
                   check |-> run.plan.check]
    BY <1>1, <2>1 DEF FitPlan, Plans
  <2>3. FitPlan(plan)
    BY <1>1, <2>2 DEF FitPlan, Plans
  <2>4. run' = [run EXCEPT !.plan = plan]
    BY <1>1, <1>3, <2>1 DEF Runs
  <2> QED
    BY <2>3, <2>4
<1>10. \A d \in Destinations :
         routes'[d].interface = "utun" => routes'[d].gateway = "vpn" /\ tunnel
  BY <1>1 DEF WrapperInv, TunnelRoutes
<1> QED
  BY <1>1, <1>2, <1>7, <1>8, <1>9, <1>10, ApplyKeeps

-----------------------------------------------------------------------------
(* The script, the network and the user. *)

\* The network changes and the run goes on as it was.  Something of the VPN comes to
\* it only while a run with all its routes in the ledger waits for its script, or
\* from a script that outlived its wrapper.
LEMMA SystemMoves ==
  ASSUME WrapperInv, UNCHANGED <<ledger, run, script, session, original>>,
         happened \subseteq happened', SystemTyped', SamePlace', DynamicKeyed',
         \A d \in Destinations :
           routes'[d].interface = "utun" => routes'[d].gateway = "vpn" /\ tunnel',
         VpnLeft' => VpnLeft \/ ~Alone \/ (run.pc = "script" /\ Known # {})
  PROVE  WrapperInv'
<1>1. Known' = Known /\ SameLedger
  BY DEF Known, SameLedger
<1>2. /\ \A d \in Known' : ledger'.records[d].applied.interface = "utun"
                             => ledger'.records[d].applied.gateway = "vpn"
      /\ LedgerShape' /\ BaselineIsNotVpn' /\ HostBefore'
  BY <1>1, LedgerKept
<1>3. TunnelRoutes'
  BY <1>2 DEF TunnelRoutes
<1>4. (Plain' => Plain) /\ (Alone' => Alone) /\ (Plain => Alone) /\ Late' = Late
  BY DEF Plain, Alone, Late
<1>5. NothingBefore' /\ Removable'
  BY <1>1, <1>4 DEF WrapperInv, NothingBefore, Removable
<1>6. RunTyped' /\ ScriptOfRun' /\ PlanFits' /\ AfterIsBefore'
  BY <1>1 DEF WrapperInv, RunTyped, ScriptOfRun, PlanFits, AfterIsBefore
<1>7. RunFits' /\ RunOfSession'
  BY <1>1 DEF WrapperInv, RunFits, RunOfSession
<1> QED
  BY <1>2, <1>3, <1>5, <1>6, <1>7 DEF WrapperInv

\* A script that connects and has not outlived its wrapper has its routes recorded.
LEMMA ConnectIsRecorded ==
  ASSUME WrapperInv, script \in ConnectReasons
  PROVE  ~Alone \/ (run.pc = "script" /\ Known # {})
<1>1. CASE run.pc = "script"
  <2>1. run # NoRun /\ run.reason \in ConnectReasons
    BY <1>1 DEF NoRun, WrapperInv, ScriptOfRun
  <2> QED
    BY <1>1, <2>1 DEF WrapperInv, RunFits, Connecting, Destinations
<1>2. CASE run.pc # "script"
  BY <1>2 DEF WrapperInv, ScriptOfRun, Alone, ConnectReasons
<1> QED
  BY <1>1, <1>2

LEMMA ScriptAddsRouteStep == ASSUME WrapperInv, ScriptAddsRoute PROVE WrapperInv'
<1>1. /\ UNCHANGED <<net, boot, setup, dynamic, tunnelKey, tunnel, session, ledger, run, script>>
      /\ UNCHANGED <<original, happened>> /\ tunnel /\ script \in ConnectReasons
  BY DEF ScriptAddsRoute, ScriptOnly, history
<1>2. PICK d \in Destinations :
        routes' = [routes EXCEPT ![d] = IF d = "campus" THEN Via("vpn", "utun")
                                        ELSE Via(net.gateway, net.service)]
  BY DEF ScriptAddsRoute
<1>3. routes \in [Destinations -> Routes] /\ net \in Networks
  BY DEF WrapperInv, SystemTyped
<1>4. /\ Via(net.gateway, net.service) \in Routes /\ Via("vpn", "utun") \in Routes
      /\ Via(net.gateway, net.service).interface # "utun" /\ Via("vpn", "utun").gateway = "vpn"
  BY <1>3, PhysicalNetworks, RoutesTyped DEF Via
<1>5. SystemTyped' /\ SamePlace' /\ DynamicKeyed'
  BY <1>1, <1>2, <1>3, <1>4 DEF WrapperInv, SystemTyped, SamePlace, DynamicKeyed, Alone
<1>6. \A e \in Destinations :
        routes'[e].interface = "utun" => routes'[e].gateway = "vpn" /\ tunnel'
  BY <1>1, <1>2, <1>3, <1>4 DEF WrapperInv, TunnelRoutes
<1> QED
  BY <1>1, <1>5, <1>6, ConnectIsRecorded, SystemMoves

LEMMA ScriptSetsResolverStep == ASSUME WrapperInv, ScriptSetsResolver PROVE WrapperInv'
<1>1. /\ UNCHANGED <<net, boot, routes, tunnel, session, ledger, run, script>>
      /\ UNCHANGED <<original, happened>> /\ tunnel /\ script \in ConnectReasons
  BY DEF ScriptSetsResolver, ScriptOnly, history
<1>2. setup \in [Services -> [servers : DnsValues, search : DnsValues]] /\ "vpn" \in DnsValues
  BY DEF WrapperInv, SystemTyped, DnsValues
<1>3. \/ /\ setup' = [setup EXCEPT ![net.service] = [servers |-> "vpn", search |-> "vpn"]]
         /\ UNCHANGED <<dynamic, tunnelKey>>
      \/ dynamic' = "vpn" /\ tunnelKey' = TRUE /\ setup' = setup
  BY DEF ScriptSetsResolver
<1>4. SystemTyped'
  <2>1. setup' \in [Services -> [servers : DnsValues, search : DnsValues]]
    BY <1>2, <1>3
  <2>2. dynamic \in DnsValues /\ tunnelKey \in BOOLEAN
    BY DEF WrapperInv, SystemTyped
  <2>3. dynamic' \in DnsValues
    BY <1>2, <1>3, <2>2
  <2>4. tunnelKey' \in BOOLEAN
    BY <1>3, <2>2
  <2> QED
    BY <1>1, <2>1, <2>3, <2>4 DEF WrapperInv, SystemTyped
<1>5. SamePlace'
  BY <1>1, <1>2, <1>3 DEF WrapperInv, SamePlace
<1>6. DynamicKeyed'
  BY <1>1, <1>3 DEF WrapperInv, DynamicKeyed, Alone
<1>7. \A e \in Destinations :
        routes'[e].interface = "utun" => routes'[e].gateway = "vpn" /\ tunnel'
  BY <1>1 DEF WrapperInv, TunnelRoutes
<1> QED
  BY <1>1, <1>4, <1>5, <1>6, <1>7, ConnectIsRecorded, SystemMoves

LEMMA ScriptRemovesRouteStep == ASSUME WrapperInv, ScriptRemovesRoute PROVE WrapperInv'
<1>1. /\ UNCHANGED <<net, boot, setup, dynamic, tunnelKey, tunnel, session, ledger, run, script>>
      /\ UNCHANGED <<original, happened>>
  BY DEF ScriptRemovesRoute, ScriptOnly, history
<1>2. PICK d \in Destinations : routes' = [routes EXCEPT ![d] = NoRoute]
  BY DEF ScriptRemovesRoute
<1>3. /\ routes \in [Destinations -> Routes] /\ NoRoute \in Routes
      /\ NoRoute.interface # "utun" /\ NoRoute.gateway # "vpn"
  BY RoutesTyped DEF WrapperInv, SystemTyped, NoRoute
<1>4. SystemTyped' /\ SamePlace' /\ DynamicKeyed'
  BY <1>1, <1>2, <1>3 DEF WrapperInv, SystemTyped, SamePlace, DynamicKeyed, Alone
<1>5. \A e \in Destinations : routes'[e] = NoRoute \/ routes'[e] = routes[e]
  BY <1>2, <1>3
<1>6. \A e \in Destinations :
        routes'[e].interface = "utun" => routes'[e].gateway = "vpn" /\ tunnel'
  BY <1>1, <1>3, <1>5 DEF WrapperInv, TunnelRoutes
<1>7. VpnLeft' => VpnLeft
  BY <1>1, <1>3, <1>5 DEF VpnLeft, VpnRoute
<1> QED
  BY <1>1, <1>4, <1>6, <1>7, SystemMoves

LEMMA ScriptResetsResolverStep == ASSUME WrapperInv, ScriptResetsResolver PROVE WrapperInv'
<1>1. /\ UNCHANGED <<net, boot, routes, tunnel, session, ledger, run, script>>
      /\ UNCHANGED <<original, happened>>
      /\ setup' = [setup EXCEPT ![net.service] = [servers |-> "own", search |-> "own"]]
      /\ dynamic' = "own" /\ tunnelKey' = FALSE
  BY DEF ScriptResetsResolver, ScriptOnly, history
<1>2. setup \in [Services -> [servers : DnsValues, search : DnsValues]] /\ "own" \in DnsValues
  BY DEF WrapperInv, SystemTyped, DnsValues
<1>3. SystemTyped' /\ DynamicKeyed'
  BY <1>1, <1>2 DEF WrapperInv, SystemTyped, DynamicKeyed
<1>4. SamePlace'
  BY <1>1, <1>2 DEF WrapperInv, SamePlace
<1>5. \A e \in Destinations :
        routes'[e].interface = "utun" => routes'[e].gateway = "vpn" /\ tunnel'
  BY <1>1 DEF WrapperInv, TunnelRoutes
<1>6. VpnLeft' => VpnLeft
  BY <1>1, <1>2 DEF VpnLeft, VpnRoute
<1> QED
  BY <1>1, <1>3, <1>4, <1>5, <1>6, SystemMoves

LEMMA ScriptEndsStep == ASSUME WrapperInv, ScriptEnds PROVE WrapperInv'
<1>1. script' = "none" /\ UNCHANGED <<systemVars, ledger, session, history>>
  BY DEF ScriptEnds
<1>2. UNCHANGED <<session, original, happened, ledger>> /\ SameLedger /\ Known' = Known
  BY <1>1 DEF history, SameLedger, Known
<1>3. /\ SystemTyped' /\ TunnelRoutes' /\ SamePlace' /\ DynamicKeyed'
      /\ LedgerShape' /\ BaselineIsNotVpn' /\ HostBefore' /\ NothingBefore'
      /\ (VpnLeft' <=> VpnLeft) /\ (Plain' => Plain)
  BY <1>1, <1>2, NetworkKept
<1>4. \/ run.pc # "script" /\ run' = run
      \/ /\ run.pc = "script" /\ run \in Runs /\ run' \in Runs
         /\ run'.pc = "after" /\ run'.reason = run.reason
  <2>1. CASE run.pc # "script"
    BY <2>1 DEF ScriptEnds
  <2>2. CASE run.pc = "script"
    <3>1. run \in Runs
      BY <2>2 DEF WrapperInv, RunTyped, NoRun
    <3> QED
      BY <2>2, <3>1 DEF ScriptEnds, Runs, Phases
  <2> QED
    BY <2>1, <2>2
<1>5. run' = NoRun <=> run = NoRun
  BY <1>4 DEF Runs, NoRun, Phases
<1>6. RunTyped' /\ ScriptOfRun' /\ Removable' /\ PlanFits'
  <2>1. RunTyped'
    BY <1>1, <1>2, <1>4 DEF WrapperInv, RunTyped
  <2>2. ScriptOfRun'
    BY <1>1, <1>4 DEF ScriptOfRun
  <2>3. Removable'
    BY <1>3, <1>4 DEF WrapperInv, Removable
  <2>4. PlanFits'
    BY <1>2, <1>4 DEF WrapperInv, PlanFits
  <2> QED
    BY <2>1, <2>2, <2>3, <2>4
<1>7. RunFits' /\ RunOfSession' /\ AfterIsBefore'
  <2>1. RunFits'
    BY <1>2, <1>4, <1>5 DEF WrapperInv, RunFits, Sampling, Connecting
  <2>2. RunOfSession'
    BY <1>2, <1>4, <1>5 DEF WrapperInv, RunOfSession
  <2>3. AfterIsBefore'
    BY <1>2, <1>4, <1>5 DEF WrapperInv, AfterIsBefore, Connecting
  <2> QED
    BY <2>1, <2>2, <2>3
<1> QED
  BY <1>3, <1>6, <1>7 DEF WrapperInv

LEMMA NetworkMovesStep == ASSUME WrapperInv, NetworkMoves PROVE WrapperInv'
<1>1. /\ UNCHANGED <<boot, setup, tunnelKey, tunnel, session, ledger, run, script, original>>
      /\ dynamic' = "own"
  BY DEF NetworkMoves
<1>2. PICK n \in Networks :
        /\ net' = n
        /\ routes' = [d \in Destinations |->
                        IF routes[d].interface = net.service /\ n.service # net.service
                        THEN NoRoute ELSE routes[d]]
        /\ happened' = happened \cup (IF n.service # net.service THEN {"elsewhere"} ELSE {})
  BY DEF NetworkMoves
<1>3. \A d \in Destinations : routes'[d] = NoRoute \/ routes'[d] = routes[d]
  BY <1>2
<1>4. /\ routes \in [Destinations -> Routes] /\ NoRoute \in Routes
      /\ NoRoute.interface # "utun" /\ NoRoute.gateway # "vpn"
  BY RoutesTyped DEF WrapperInv, SystemTyped, NoRoute
<1>5. SystemTyped'
  <2>1. routes' \in [Destinations -> Routes] /\ "own" \in DnsValues
    BY <1>2, <1>4 DEF DnsValues
  <2> QED
    BY <1>1, <1>2, <2>1 DEF WrapperInv, SystemTyped
<1>6. SamePlace'
  BY <1>1, <1>2 DEF WrapperInv, SamePlace
<1>7. DynamicKeyed' /\ happened \subseteq happened'
  BY <1>1, <1>2 DEF DynamicKeyed
<1>8. \A e \in Destinations :
        routes'[e].interface = "utun" => routes'[e].gateway = "vpn" /\ tunnel'
  BY <1>1, <1>3, <1>4 DEF WrapperInv, TunnelRoutes
<1>9. VpnLeft' => VpnLeft
  BY <1>1, <1>3, <1>4 DEF VpnLeft, VpnRoute
<1> QED
  BY <1>1, <1>5, <1>6, <1>7, <1>8, <1>9, SystemMoves

LEMMA UserSetsServersStep == ASSUME WrapperInv, UserSetsServers PROVE WrapperInv'
<1>1. /\ UNCHANGED <<net, boot, routes, dynamic, tunnelKey, tunnel, session, ledger, run, script>>
      /\ UNCHANGED <<original, happened>>
      /\ setup' = [setup EXCEPT ![net.service].servers = "other"]
  BY DEF UserSetsServers, history
<1>2. setup \in [Services -> [servers : DnsValues, search : DnsValues]] /\ "other" \in DnsValues
  BY DEF WrapperInv, SystemTyped, DnsValues
<1>3. SystemTyped' /\ DynamicKeyed'
  BY <1>1, <1>2 DEF WrapperInv, SystemTyped, DynamicKeyed, Alone
<1>4. SamePlace'
  BY <1>1, <1>2 DEF WrapperInv, SamePlace
<1>5. \A e \in Destinations :
        routes'[e].interface = "utun" => routes'[e].gateway = "vpn" /\ tunnel'
  BY <1>1 DEF WrapperInv, TunnelRoutes
<1>6. VpnLeft' => VpnLeft
  BY <1>1, <1>2 DEF VpnLeft, VpnRoute
<1> QED
  BY <1>1, <1>3, <1>4, <1>5, <1>6, SystemMoves

LEMMA UserSetsRouteStep == ASSUME WrapperInv, UserSetsRoute PROVE WrapperInv'
<1>1. /\ UNCHANGED <<net, boot, setup, dynamic, tunnelKey, tunnel, session, ledger, run, script>>
      /\ UNCHANGED <<original, happened>>
      /\ routes' = [routes EXCEPT !["campus"] = Via("other", net.service)]
  BY DEF UserSetsRoute, history
<1>2. /\ Via("other", net.service) \in Routes
      /\ Via("other", net.service).interface # "utun"
      /\ Via("other", net.service).gateway # "vpn"
      /\ routes \in [Destinations -> Routes]
  BY PhysicalNetworks DEF WrapperInv, SystemTyped, Via
<1>3. SystemTyped' /\ SamePlace' /\ DynamicKeyed'
  BY <1>1, <1>2 DEF WrapperInv, SystemTyped, SamePlace, DynamicKeyed, Alone
<1>4. \A e \in Destinations :
        routes'[e].interface = "utun" => routes'[e].gateway = "vpn" /\ tunnel'
  BY <1>1, <1>2 DEF WrapperInv, TunnelRoutes
<1>5. VpnLeft' => VpnLeft
  <2>1. \A e \in Destinations : e = "campus" \/ routes'[e] = routes[e]
    BY <1>1, <1>2
  <2>2. \A e \in Destinations : VpnRoute(e)' => VpnRoute(e)
    BY <1>1, <1>2, <2>1 DEF VpnRoute
  <2> QED
    BY <1>1, <2>2 DEF VpnLeft
<1> QED
  BY <1>1, <1>3, <1>4, <1>5, SystemMoves

-----------------------------------------------------------------------------
(* openconnect and the helper. *)

\* A run begins: what it may be at, by what the ledger says.
LEMMA Begins ==
  ASSUME WrapperInv, NEW reason \in Reasons, Begin(reason),
         reason = "pre-init" => ledger = NoLedger,
         UNCHANGED original, happened \subseteq happened', RunOfSession',
         reason = "connect" => Known = {},
         Alone' /\ Known = {} /\ (Late' => Plain') => ~VpnLeft
  PROVE  WrapperInv'
<1>1. /\ run = NoRun /\ UNCHANGED <<net, boot, routes, setup, dynamic, tunnelKey, tunnel>>
      /\ UNCHANGED <<ledger, script>> /\ SameLedger /\ Known' = Known
  BY DEF Begin, systemVars, SameLedger, Known
<1>2. PICK pc : /\ pc = IF reason \in {"disconnect", "repair"} THEN "undo"
                       ELSE IF ledger = NoLedger THEN "sample"
                       ELSE IF Known = {} THEN "drift" ELSE "preflight"
                /\ run' = [pc |-> pc, reason |-> reason, identity |-> <<>>, plan |-> <<>>,
                           code |-> 0]
  BY DEF Begin
<1>3. /\ reason \in {"disconnect", "repair"} => ledger # NoLedger
      /\ reason \notin {"disconnect", "repair"} => reason \in ConnectReasons \union {"pre-init"}
      /\ ledger = NoLedger => Known = {}
      /\ Known \in {{}, Destinations}
  BY KnownTyped DEF Begin, ConnectReasons, Reasons, Known
<1>4. \/ pc = "undo" /\ reason \in {"disconnect", "repair"}
      \/ reason \notin {"disconnect", "repair"} /\
           \/ pc = "sample" /\ ledger = NoLedger
           \/ pc = "drift" /\ ledger # NoLedger /\ Known = {}
           \/ pc = "preflight" /\ ledger # NoLedger /\ Known # {}
  BY <1>2, <1>3
<1>5. pc \in Phases
  BY <1>4 DEF Phases
<1>6. /\ run' \in Runs /\ run' # NoRun /\ run'.pc = pc /\ run'.reason = reason
  BY <1>2, <1>5 DEF Runs, Identities, NoRun, Phases
<1>7. /\ \A d \in Known' : ledger'.records[d].applied.interface = "utun"
                             => ledger'.records[d].applied.gateway = "vpn"
      /\ LedgerShape' /\ BaselineIsNotVpn' /\ HostBefore'
  BY <1>1, LedgerKept
<1>8. session' \in {"new", "prepared", "opened", "connected", "closing", "gone"} => SystemTyped'
  BY <1>1 DEF WrapperInv, SystemTyped
<1>9. TunnelRoutes'
  BY <1>1, <1>7 DEF WrapperInv, TunnelRoutes
<1>10. SamePlace' /\ DynamicKeyed'
  <2>1. "elsewhere" \in happened => "elsewhere" \in happened'
    OBVIOUS
  <2> QED
    BY <1>1, <2>1 DEF WrapperInv, SamePlace, DynamicKeyed, Alone
<1>11. RunTyped'
  BY <1>1, <1>6 DEF WrapperInv, RunTyped
<1>12. ScriptOfRun'
  <2>1. run.pc # "script" /\ run'.pc # "script"
    BY <1>1, <1>4, <1>6 DEF NoRun
  <2> QED
    BY <1>1, <2>1 DEF WrapperInv, ScriptOfRun
<1>13. RunFits'
  BY <1>1, <1>3, <1>4, <1>6 DEF RunFits, Sampling, Connecting
<1>14. Removable' /\ PlanFits'
  BY <1>4, <1>6 DEF Removable, PlanFits
<1>15. AfterIsBefore'
  BY <1>1, <1>6 DEF AfterIsBefore
<1>16. NothingBefore'
  <2>1. VpnLeft' <=> VpnLeft
    BY <1>1 DEF VpnLeft, VpnRoute
  <2> QED
    BY <1>1, <2>1 DEF NothingBefore
<1>17. session' \in {"new", "prepared", "opened", "connected", "closing", "gone"}
  BY <1>6 DEF RunOfSession, Reasons, ConnectReasons
<1> QED
  BY <1>7, <1>8, <1>9, <1>10, <1>11, <1>12, <1>13, <1>14, <1>15, <1>16, <1>17 DEF WrapperInv

LEMMA OpenConnectCallsStep == ASSUME WrapperInv, OpenConnectCalls PROVE WrapperInv'
<1>1. PICK reason \in {"pre-init", "connect", "reconnect", "disconnect"} :
        /\ session = Follows(reason)
        /\ Begin(reason)
        /\ session' = CASE reason = "pre-init" -> "prepared"
                        [] reason = "disconnect" -> "closing"
                        [] OTHER -> "connected"
        /\ happened' = happened \cup ({reason} \cap {"reconnect"})
        /\ UNCHANGED original
  BY DEF OpenConnectCalls
<1>2. /\ reason = "pre-init" => session = "new" /\ session' = "prepared"
      /\ reason = "connect" => session = "opened" /\ session' = "connected"
      /\ reason = "reconnect" => session = "connected" /\ session' = "connected"
      /\ reason = "disconnect" => session = "connected" /\ session' = "closing"
  BY <1>1 DEF Follows
<1>3. run'.reason = reason /\ ledger' = ledger /\ Known' = Known /\ reason \in Reasons
  BY <1>1 DEF Begin, Known, Reasons
<1>4. reason = "pre-init" => ledger = NoLedger
  BY <1>2 DEF WrapperInv, RunOfSession
<1>5. reason = "connect" => Known = {}
  BY <1>2 DEF WrapperInv, RunOfSession
<1>6. RunOfSession'
  <2>1. reason = "reconnect" => "reconnect" \in happened'
    BY <1>1
  <2>2. reason = "pre-init" => Known = {}
    BY <1>4 DEF Known
  <2> QED
    BY <1>1, <1>2, <1>3, <2>1, <2>2 DEF RunOfSession, ConnectReasons, Reasons
<1>7. Alone' /\ Known = {} /\ (Late' => Plain') => ~VpnLeft
  <2>1. ~Late
    BY <1>1, <1>2 DEF Late
  <2>2. Alone' => Alone
    BY <1>1 DEF Alone
  <2> QED
    BY <2>1, <2>2 DEF WrapperInv, NothingBefore
<1>8. happened \subseteq happened'
  BY <1>1
<1> QED
  BY <1>1, <1>3, <1>4, <1>5, <1>6, <1>7, <1>8, Begins

LEMMA HelperRepairsStep == ASSUME WrapperInv, HelperRepairs PROVE WrapperInv'
<1>1. /\ session = "gone" /\ Begin("repair")
      /\ UNCHANGED <<session, original, happened>>
  BY DEF HelperRepairs, history
<1>2. run'.reason = "repair" /\ ledger' = ledger /\ Known' = Known
  BY <1>1 DEF Begin, Known
<1>3. RunOfSession'
  BY <1>1, <1>2 DEF RunOfSession, ConnectReasons
<1>4. Alone' /\ Known = {} /\ (Late' => Plain') => ~VpnLeft
  BY <1>1 DEF WrapperInv, NothingBefore, Alone, Late, Plain
<1> QED
  BY <1>1, <1>3, <1>4, Begins DEF Reasons

LEMMA OpenTunnelStep == ASSUME WrapperInv, OpenTunnel PROVE WrapperInv'
<1>1. /\ session = "prepared" /\ session' = "opened" /\ tunnel' = TRUE /\ run = NoRun
      /\ UNCHANGED <<net, boot, routes, setup, dynamic, tunnelKey>>
      /\ UNCHANGED <<ledger, run, script, original, happened>>
  BY DEF OpenTunnel, history
<1>2. Known' = Known /\ SameLedger
  BY <1>1 DEF Known, SameLedger
<1>3. SystemTyped' /\ SamePlace' /\ DynamicKeyed'
  BY <1>1 DEF WrapperInv, SystemTyped, SamePlace, DynamicKeyed, Alone
<1>4. TunnelRoutes'
  BY <1>1, <1>2 DEF WrapperInv, TunnelRoutes
<1>5. LedgerShape' /\ BaselineIsNotVpn' /\ HostBefore'
  BY <1>1, <1>2, LedgerKept
<1>6. NothingBefore' /\ Removable'
  <2>1. Alone' = Alone /\ ~Late /\ ~Late' /\ (VpnLeft' <=> VpnLeft) /\ (Plain' => Plain)
    BY <1>1 DEF Alone, Late, Plain, VpnLeft, VpnRoute
  <2> QED
    BY <1>1, <1>2, <2>1 DEF WrapperInv, NothingBefore, Removable
<1>7. RunTyped' /\ ScriptOfRun' /\ RunFits' /\ PlanFits' /\ AfterIsBefore'
  <2>1. RunTyped' /\ ScriptOfRun'
    BY <1>1 DEF WrapperInv, RunTyped, ScriptOfRun
  <2>2. run'.pc = "idle"
    BY <1>1 DEF NoRun
  <2> QED
    BY <1>1, <2>1, <2>2 DEF RunFits, PlanFits, AfterIsBefore
<1>8. RunOfSession'
  BY <1>1, <1>2 DEF WrapperInv, RunOfSession
<1> QED
  BY <1>3, <1>4, <1>5, <1>6, <1>7, <1>8 DEF WrapperInv

LEMMA OpenConnectEndsStep == ASSUME WrapperInv, OpenConnectEnds PROVE WrapperInv'
<1>1. /\ session' = "gone" /\ tunnel' = FALSE /\ run' = NoRun
      /\ UNCHANGED <<net, boot, setup, dynamic, tunnelKey, ledger, script, original>>
      /\ happened \subseteq happened'
      /\ run # NoRun /\ run.pc = "script" => "orphan" \in happened'
  BY DEF OpenConnectEnds, CutOff
<1>2. PICK fallsBack \in BOOLEAN :
        routes' = [d \in Destinations |->
                     IF routes[d].interface # "utun" THEN routes[d]
                     ELSE IF fallsBack THEN Via("vpn", net.service) ELSE NoRoute]
  BY DEF OpenConnectEnds
<1>3. Known' = Known /\ SameLedger /\ run'.pc = "idle"
  BY <1>1 DEF Known, SameLedger, NoRun
<1>4. /\ routes \in [Destinations -> Routes]
      /\ NoRoute \in Routes /\ NoRoute.interface # "utun"
      /\ Via("vpn", net.service) \in Routes /\ Via("vpn", net.service).interface # "utun"
  BY PhysicalNetworks, RoutesTyped DEF WrapperInv, SystemTyped, NoRoute, Via
<1>5. SystemTyped'
  <2>1. routes' \in [Destinations -> Routes]
    BY <1>2, <1>4
  <2> QED
    BY <1>1, <2>1 DEF WrapperInv, SystemTyped
<1>6. SamePlace' /\ DynamicKeyed'
  BY <1>1 DEF WrapperInv, SamePlace, DynamicKeyed, Alone
<1>7. \A d \in Destinations : routes'[d].interface # "utun"
  BY <1>2, <1>4
<1>8. /\ TunnelRoutes' /\ LedgerShape' /\ BaselineIsNotVpn' /\ HostBefore'
  BY <1>1, <1>3, <1>7, LedgerKept DEF TunnelRoutes
<1>9. NothingBefore'
  <2> SUFFICES ASSUME Alone', Known' = {}, Late' => Plain' PROVE ~VpnLeft'
    BY DEF NothingBefore
  <2>1. Plain /\ Alone
    BY <1>1 DEF Late, Plain, Alone
  <2>2. ~VpnLeft
    BY <1>3, <2>1 DEF WrapperInv, NothingBefore
  <2>3. \A d \in Destinations : routes[d].gateway # "vpn"
    BY <2>2 DEF VpnLeft, VpnRoute
  <2>4. \A d \in Destinations : routes'[d] = routes[d]
    BY <1>2, <2>3 DEF WrapperInv, TunnelRoutes
  <2> QED
    BY <1>1, <2>2, <2>4 DEF VpnLeft, VpnRoute
<1>10. Removable' /\ RunFits' /\ PlanFits' /\ AfterIsBefore'
  BY <1>1, <1>3 DEF Removable, RunFits, PlanFits, AfterIsBefore
<1>11. RunTyped' /\ ScriptOfRun' /\ RunOfSession'
  <2>1. run.pc = "script" => run # NoRun
    BY DEF NoRun
  <2>2. ScriptOfRun'
    BY <1>1, <1>3, <2>1 DEF WrapperInv, ScriptOfRun
  <2> QED
    BY <1>1, <2>2 DEF WrapperInv, RunTyped, RunOfSession
<1> QED
  BY <1>5, <1>6, <1>8, <1>9, <1>10, <1>11 DEF WrapperInv

LEMMA RebootStep == ASSUME WrapperInv, Reboot PROVE WrapperInv'
<1>1. /\ boot' = boot + 1 /\ routes' = [d \in Destinations |-> NoRoute]
      /\ dynamic' = "own" /\ tunnelKey' = FALSE /\ tunnel' = FALSE
      /\ session' = "gone" /\ run' = NoRun /\ script' = "none"
      /\ happened \subseteq happened' /\ "elsewhere" \in happened'
      /\ UNCHANGED <<net, setup, ledger, original>>
  BY DEF Reboot
<1>2. Known' = Known /\ SameLedger /\ run'.pc = "idle"
  BY <1>1 DEF Known, SameLedger, NoRun
<1>3. SystemTyped'
  <2>1. boot' \in Nat
    BY <1>1 DEF WrapperInv, SystemTyped
  <2>2. tunnelKey' \in BOOLEAN /\ tunnel' \in BOOLEAN
    BY <1>1
  <2>3. routes' \in [Destinations -> Routes] /\ dynamic' \in DnsValues
    BY <1>1, RoutesTyped DEF DnsValues
  <2> QED
    BY <1>1, <2>1, <2>2, <2>3 DEF WrapperInv, SystemTyped
<1>4. TunnelRoutes' /\ LedgerShape' /\ BaselineIsNotVpn' /\ HostBefore'
  <2>1. \A d \in Destinations : routes'[d].interface # "utun"
    BY <1>1 DEF NoRoute
  <2> QED
    BY <1>1, <1>2, <2>1, LedgerKept DEF TunnelRoutes
<1>5. NothingBefore' /\ SamePlace' /\ DynamicKeyed'
  BY <1>1 DEF NothingBefore, Late, Plain, SamePlace, DynamicKeyed
<1>6. Removable' /\ RunFits' /\ PlanFits' /\ AfterIsBefore'
  BY <1>1, <1>2 DEF Removable, RunFits, PlanFits, AfterIsBefore
<1>7. RunTyped' /\ ScriptOfRun' /\ RunOfSession'
  BY <1>1, <1>2 DEF WrapperInv, RunTyped, ScriptOfRun, RunOfSession
<1> QED
  BY <1>3, <1>4, <1>5, <1>6, <1>7 DEF WrapperInv

-----------------------------------------------------------------------------
(* What holds of every session. *)

LEMMA WrapperInvInit == WrapperInit => WrapperInv
<1> SUFFICES ASSUME WrapperInit PROVE WrapperInv
  OBVIOUS
<1>1. /\ net \in Networks /\ boot = 1 /\ original = routes
      /\ setup = [s \in Services |-> [servers |-> "own", search |-> "own"]]
      /\ dynamic = "own" /\ tunnelKey = FALSE /\ tunnel = FALSE
      /\ session = "new" /\ ledger = NoLedger /\ run = NoRun /\ script = "none"
      /\ happened = {}
  BY DEF WrapperInit
<1>2. /\ routes \in [Destinations -> Routes]
      /\ \A d \in Destinations : routes[d].interface # "utun" /\ routes[d].gateway # "vpn"
  <2>1. \A r \in {NoRoute, Via(net.gateway, net.service)} :
          r \in Routes /\ r.interface # "utun" /\ r.gateway # "vpn"
    <3>1. NoRoute \in Routes /\ NoRoute.interface # "utun" /\ NoRoute.gateway # "vpn"
      BY RoutesTyped DEF NoRoute
    <3>2. /\ Via(net.gateway, net.service) \in Routes
          /\ Via(net.gateway, net.service).interface = net.service
          /\ Via(net.gateway, net.service).gateway = net.gateway
      BY <1>1, PhysicalNetworks DEF Via
    <3> QED
      BY <1>1, <3>1, <3>2, PhysicalNetworks
  <2>2. routes \in [Destinations -> {NoRoute, Via(net.gateway, net.service)}]
    BY DEF WrapperInit
  <2> QED
    BY <2>1, <2>2
<1>3. Known = {} /\ run.pc = "idle"
  BY <1>1 DEF Known, NoRun
<1>4. SystemTyped /\ RunTyped
  <2>1. setup \in [Services -> [servers : DnsValues, search : DnsValues]]
    BY <1>1 DEF DnsValues
  <2> QED
    BY <1>1, <1>2, <2>1 DEF SystemTyped, RunTyped, DnsValues
<1>5. ~VpnLeft
  BY <1>1, <1>2 DEF VpnLeft, VpnRoute
<1>6. TunnelRoutes /\ ScriptOfRun /\ RunFits /\ RunOfSession /\ LedgerShape /\ NothingBefore
  BY <1>1, <1>2, <1>3, <1>5
     DEF TunnelRoutes, ScriptOfRun, RunFits, RunOfSession, LedgerShape, NothingBefore
<1>7. Removable /\ SamePlace /\ DynamicKeyed /\ BaselineIsNotVpn /\ HostBefore
      /\ AfterIsBefore /\ PlanFits
  BY <1>1, <1>3
     DEF Removable, SamePlace, DynamicKeyed, BaselineIsNotVpn, HostBefore, AfterIsBefore, PlanFits
<1> QED
  BY <1>4, <1>6, <1>7 DEF WrapperInv

LEMMA WrapperInvStep == WrapperInv /\ [WrapperNext]_wrapperVars => WrapperInv'
<1> SUFFICES ASSUME WrapperInv, [WrapperNext]_wrapperVars PROVE WrapperInv'
  OBVIOUS
<1>1. CASE Wrapper
  <2>1. run # NoRun
    BY <1>1 DEF Wrapper
  <2>2. CASE CheckDrift BY <2>1, <2>2, CheckDriftStep
  <2>3. CASE FirstSample BY <2>1, <2>3, FirstSampleStep
  <2>4. CASE SaveBaseline BY <2>1, <2>4, SaveBaselineStep
  <2>5. CASE Preflight BY <2>1, <2>5, PreflightStep
  <2>6. CASE SaveIntent BY <2>1, <2>6, SaveIntentStep
  <2>7. CASE LaunchScript BY <2>1, <2>7, LaunchScriptStep
  <2>8. CASE AfterPreInit BY <2>1, <2>8, AfterPreInitStep
  <2>9. CASE AfterConnect BY <2>1, <2>9, AfterConnectStep
  <2>10. CASE AfterDisconnect BY <2>1, <2>10, AfterDisconnectStep
  <2>11. CASE UndoStale BY <2>1, <2>11, UndoStaleStep
  <2>12. CASE Undo BY <2>1, <2>12, UndoStep
  <2>13. CASE MakePlan BY <2>1, <2>13, MakePlanStep
  <2>14. CASE ApplyRoute BY <2>1, <2>14, ApplyRouteStep
  <2>15. CASE ApplyField BY <2>1, <2>15, ApplyFieldStep
  <2>16. CASE Verify BY <2>1, <2>16, VerifyStep
  <2>17. CASE RemoveLedger BY <2>1, <2>17, RemoveLedgerStep
  <2> QED
    BY <1>1, <2>2, <2>3, <2>4, <2>5, <2>6, <2>7, <2>8, <2>9, <2>10, <2>11, <2>12, <2>13,
       <2>14, <2>15, <2>16, <2>17 DEF Wrapper
<1>2. CASE run # NoRun /\ ScriptTimesOut
  BY <1>2, ScriptTimesOutStep
<1>3. CASE WrapperDies
  BY <1>3, WrapperDiesStep
<1>4. CASE Script
  <2>1. CASE ScriptAddsRoute BY <2>1, ScriptAddsRouteStep
  <2>2. CASE ScriptSetsResolver BY <2>2, ScriptSetsResolverStep
  <2>3. CASE ScriptRemovesRoute BY <2>3, ScriptRemovesRouteStep
  <2>4. CASE ScriptResetsResolver BY <2>4, ScriptResetsResolverStep
  <2>5. CASE ScriptEnds BY <2>5, ScriptEndsStep
  <2> QED
    BY <1>4, <2>1, <2>2, <2>3, <2>4, <2>5 DEF Script
<1>5. CASE World
  <2>1. CASE OpenConnectCalls BY <2>1, OpenConnectCallsStep
  <2>2. CASE OpenTunnel BY <2>2, OpenTunnelStep
  <2>3. CASE OpenConnectEnds BY <2>3, OpenConnectEndsStep
  <2>4. CASE HelperRepairs BY <2>4, HelperRepairsStep
  <2>5. CASE NetworkMoves BY <2>5, NetworkMovesStep
  <2>6. CASE UserSetsServers BY <2>6, UserSetsServersStep
  <2>7. CASE UserSetsRoute BY <2>7, UserSetsRouteStep
  <2>8. CASE Reboot BY <2>8, RebootStep
  <2> QED
    BY <1>5, <2>1, <2>2, <2>3, <2>4, <2>5, <2>6, <2>7, <2>8 DEF World
<1>6. CASE UNCHANGED wrapperVars
  <2>1. /\ UNCHANGED <<ledger, run, script, session, original, happened>>
        /\ UNCHANGED <<net, boot, routes, setup, dynamic, tunnelKey, tunnel>>
    BY <1>6 DEF wrapperVars, systemVars, history
  <2>2. SystemTyped' /\ SamePlace' /\ DynamicKeyed'
    BY <2>1 DEF WrapperInv, SystemTyped, SamePlace, DynamicKeyed, Alone
  <2>3. \A d \in Destinations :
          routes'[d].interface = "utun" => routes'[d].gateway = "vpn" /\ tunnel'
    BY <2>1 DEF WrapperInv, TunnelRoutes
  <2>4. VpnLeft' => VpnLeft
    BY <2>1 DEF VpnLeft, VpnRoute
  <2> QED
    BY <2>1, <2>2, <2>3, <2>4, SystemMoves
<1> QED
  BY <1>1, <1>2, <1>3, <1>4, <1>5, <1>6 DEF WrapperNext

\* The inductive invariant holds at every step of every session.
THEOREM WrapperInvariant == WrapperSpec => []WrapperInv
BY WrapperInvInit, WrapperInvStep, PTL DEF WrapperSpec

LEMMA InvIsSound == WrapperInv => BaselineSound
<1> SUFFICES ASSUME WrapperInv PROVE WrapperTypeOK
  BY DEF BaselineSound, WrapperInv
<1>1. \A d \in Destinations :
        /\ routes[d].interface \in Services \cup {"none", "utun"}
        /\ routes[d].interface = "utun" => tunnel
  BY DEF WrapperInv, SystemTyped, TunnelRoutes, Routes, Interfaces
<1>2. ledger.status \in {"none", "recorded", "repair-required"}
  <2>1. CASE ledger = NoLedger
    BY <2>1 DEF NoLedger
  <2>2. CASE ledger # NoLedger
    BY <2>2, KnownTyped DEF Ledgers
  <2> QED
    BY <2>1, <2>2
<1> QED
  BY <1>1, <1>2 DEF WrapperInv, SystemTyped, ScriptOfRun, WrapperTypeOK

\* The baseline a session is restored to is never itself something of the VPN, wherever
\* the wrapper was cut off and however often it ran, but for the routes of a reconnect.
THEOREM BaselineIsSound == WrapperSpec => []BaselineSound
BY WrapperInvariant, InvIsSound, PTL

LEMMA InvIsRecorded == WrapperInv => ChangesAreRecorded
<1> SUFFICES ASSUME WrapperInv, happened \subseteq {"unrecorded"}, ledger = NoLedger
             PROVE  ~VpnLeft
  BY DEF ChangesAreRecorded
<1>1. Known = {} /\ Plain /\ Alone
  BY DEF Known, Plain, Alone
<1> QED
  BY <1>1 DEF WrapperInv, NothingBefore

\* What is left of the VPN on the machine is in a ledger, whatever step a wrapper or a
\* tool failed at: the ledger comes before the changes, and goes when they are undone.
THEOREM LeftIsRecorded == WrapperSpec => []ChangesAreRecorded
BY WrapperInvariant, InvIsRecorded, PTL

\* A route of the user's goes only when the ledger has one of his.
LEMMA StepSparesOthers ==
  ASSUME WrapperInv, [WrapperNext]_wrapperVars, run # NoRun, run' # run, run.pc = "apply",
         net' = net, boot' = boot, routes["campus"].gateway = "other",
         routes'["campus"] # routes["campus"]
  PROVE  ledger.records["campus"].applied.gateway = "other"
<1>1. CASE ApplyRoute
  <2>1. PICK s \in run.plan.routes : IF s.delete # "none" THEN DeleteRoute(s) ELSE RestoreRoute(s)
    BY <1>1 DEF ApplyRoute
  <2>2. s.dest \in Destinations /\ FitPlan(run.plan)
    BY PlanIsFit, KnownTyped DEF FitPlan
  <2>3. routes \in [Destinations -> Routes] /\ "campus" \in Destinations
    BY DEF WrapperInv, SystemTyped, Destinations
  <2>4. routes[s.dest] # NoRoute \/ s.dest # "campus"
    BY DEF NoRoute
  <2>5. s.dest = "campus" /\ s.delete = "other"
    BY <2>1, <2>2, <2>3, <2>4 DEF DeleteRoute, RestoreRoute
  <2> QED
    BY <2>2, <2>5 DEF FitPlan
<1>2. CASE OpenConnectEnds
  <2>1. PICK fallsBack \in BOOLEAN :
          routes' = [d \in Destinations |->
                       IF routes[d].interface # "utun" THEN routes[d]
                       ELSE IF fallsBack THEN Via("vpn", net.service) ELSE NoRoute]
    BY <1>2 DEF OpenConnectEnds
  <2>2. routes["campus"].interface # "utun" /\ "campus" \in Destinations
    BY DEF WrapperInv, TunnelRoutes, Destinations
  <2> QED
    BY <2>1, <2>2
<1>3. CASE Wrapper /\ ~ApplyRoute
  <2>1. routes' = routes
    BY <1>3 DEF Wrapper, CheckDrift, FirstSample, SaveBaseline, Preflight, SaveIntent,
          LaunchScript, AfterPreInit, AfterConnect, AfterDisconnect, UndoStale, Undo, MakePlan,
          ApplyField, Verify, RemoveLedger, Only, systemVars
  <2> QED
    BY <2>1
<1>4. CASE ScriptTimesOut \/ WrapperDies \/ ScriptEnds
  BY <1>4 DEF ScriptTimesOut, WrapperDies, ScriptEnds, systemVars
<1>5. CASE Script /\ ~ScriptEnds
  BY <1>5 DEF Script, ScriptAddsRoute, ScriptSetsResolver, ScriptRemovesRoute,
              ScriptResetsResolver, ScriptOnly
<1>6. CASE World /\ ~OpenConnectEnds
  <2>1. ~OpenConnectCalls /\ ~HelperRepairs /\ ~OpenTunnel
    BY DEF OpenConnectCalls, HelperRepairs, OpenTunnel, Begin
  <2>2. ~NetworkMoves /\ ~UserSetsServers /\ ~UserSetsRoute
    BY DEF NetworkMoves, UserSetsServers, UserSetsRoute
  <2>3. ~Reboot
    BY DEF Reboot, WrapperInv, SystemTyped
  <2> QED
    BY <1>6, <2>1, <2>2, <2>3 DEF World
<1>7. CASE UNCHANGED wrapperVars
  BY <1>7 DEF wrapperVars, systemVars
<1> QED
  BY <1>1, <1>2, <1>3, <1>4, <1>5, <1>6, <1>7 DEF WrapperNext

\* A wrapper never deletes a route the user put in place of the VPN's, unless the ledger
\* has it as the script's.
THEOREM OthersAreSpared == WrapperSpec => RepairSparesOthers
<1>1. WrapperInv /\ [WrapperNext]_wrapperVars
        => [/\ run # NoRun /\ run' # run /\ run.pc = "apply" /\ net' = net /\ boot' = boot
            /\ routes["campus"].gateway = "other" /\ routes'["campus"] # routes["campus"]
            => ledger.records["campus"].applied.gateway = "other"]_wrapperVars
  BY StepSparesOthers
<1> QED
  BY <1>1, WrapperInvariant, PTL DEF WrapperSpec, RepairSparesOthers

=============================================================================
