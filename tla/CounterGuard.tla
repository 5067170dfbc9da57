---------------------------- MODULE CounterGuard ----------------------------
(*****************************************************************************)
(* One-time codes are used once: CounterGuard of                             *)
(* rust/crates/hyu-vpn-core/src/totp.rs and the loop around it               *)
(* (GuardedCodes::next_code of the Linux service; those of the Windows and   *)
(* macOS services are the same).                                             *)
(*                                                                           *)
(* Several processes share one counter file: a service and its successor     *)
(* after a crash, or a service and a command line probe.  reserve takes an   *)
(* exclusive lock on a lock file, reads the last counter, and replaces the   *)
(* counter file by a new one with a rename; the lock goes when the call      *)
(* returns or the process dies.  A process may die between any two steps,    *)
(* and the clock may be set back.                                            *)
(*****************************************************************************)
EXTENDS Integers

CONSTANTS
  Processes,  (* the processes, or sessions of one process, that need codes *)
  Nobody,     (* no process: the lock is free                               *)
  MaxCounter  (* bound: the clock stays within this many 30-second steps    *)

ASSUME GuardAssumption == Nobody \notin Processes /\ MaxCounter \in Nat

VARIABLES
  clock,     (* seconds since the epoch / 30                                  *)
  document,  (* last_counter in the file, or NoDocument                       *)
  lock,      (* who holds the exclusive lock                                  *)
  pc,        (* where each process is in next_code and reserve                *)
  code,      (* the counter of the code each process has generated            *)
  last,      (* what each process has read from the file                      *)
  uses       (* history: how often the code of each counter was sent          *)

vars == <<clock, document, lock, pc, code, last, uses>>

Counters == 1 .. MaxCounter
NoDocument == 0
Steps == {"idle", "generated", "locked", "checked", "replaced", "reserved"}

At(p, s) == pc[p] = s
Goto(p, s) == pc' = [pc EXCEPT ![p] = s]

-----------------------------------------------------------------------------
\* code_at.  A process that was refused sleeps for the rest of the step and is idle
\* again meanwhile.
Generate(p) ==
  /\ At(p, "idle")
  /\ Goto(p, "generated")
  /\ code' = [code EXCEPT ![p] = clock]
  /\ UNCHANGED <<clock, document, lock, last, uses>>

Defect_NotExclusive(p) ==
  /\ At(p, "generated")
  /\ lock' = p
  /\ Goto(p, "locked")
  /\ UNCHANGED <<clock, document, code, last, uses>>

\* open_lock and lock_exclusive.
Lock(p) ==
  /\ At(p, "generated")
  /\ lock = Nobody
  /\ lock' = p
  /\ Goto(p, "locked")
  /\ UNCHANGED <<clock, document, code, last, uses>>

\* read_document.
ReadDocument(p) ==
  /\ At(p, "locked")
  /\ last' = [last EXCEPT ![p] = document]
  /\ Goto(p, "checked")
  /\ UNCHANGED <<clock, document, lock, code, uses>>

\* The call returns and drops the lock.
Unlock(p) == lock' = IF lock = p THEN Nobody ELSE lock

\* CounterAlreadyUsed.
Refuse(p) ==
  /\ At(p, "checked")
  /\ code[p] <= last[p]
  /\ Unlock(p)
  /\ Goto(p, "idle")
  /\ UNCHANGED <<clock, document, code, last, uses>>

\* write_document up to the rename, which puts the new file in place at once.
Replace(p) ==
  /\ At(p, "checked")
  /\ code[p] > last[p]
  /\ document' = code[p]
  /\ Goto(p, "replaced")
  /\ UNCHANGED <<clock, lock, code, last, uses>>

\* The file cannot be opened, read, written or renamed, or its permissions cannot be
\* set after the rename: StateFailure, and next_code gives up.
Fail(p) ==
  /\ pc[p] \in {"generated", "locked", "checked", "replaced"}
  /\ Unlock(p)
  /\ Goto(p, "idle")
  /\ UNCHANGED <<clock, document, code, last, uses>>

Reserved(p) ==
  /\ At(p, "replaced")
  /\ Unlock(p)
  /\ Goto(p, "reserved")
  /\ UNCHANGED <<clock, document, code, last, uses>>

\* next_code returns and the code is written to the connector.
Send(p) ==
  /\ At(p, "reserved")
  /\ uses' = [uses EXCEPT ![code[p]] = @ + 1]
  /\ Goto(p, "idle")
  /\ UNCHANGED <<clock, document, lock, code, last>>

\* The process dies and is started again; the system drops its lock.
Crash(p) ==
  /\ ~At(p, "idle")
  /\ Unlock(p)
  /\ Goto(p, "idle")
  /\ UNCHANGED <<clock, document, code, last, uses>>

\* The clock goes on, or is set.
Clock == clock' \in Counters /\ UNCHANGED <<document, lock, pc, code, last, uses>>

-----------------------------------------------------------------------------
Init ==
  /\ clock \in Counters
  /\ document = NoDocument
  /\ lock = Nobody
  /\ pc = [p \in Processes |-> "idle"]
  /\ code = [p \in Processes |-> clock]
  /\ last = [p \in Processes |-> NoDocument]
  /\ uses = [c \in Counters |-> 0]

Process(p) ==
  \/ Generate(p)
  \/ Lock(p)
  \/ ReadDocument(p)
  \/ Refuse(p)
  \/ Replace(p)
  \/ Fail(p)
  \/ Reserved(p)
  \/ Send(p)
  \/ Crash(p)

Next == Clock \/ \E p \in Processes : Process(p)

Spec == Init /\ [][Next]_vars

-----------------------------------------------------------------------------
(* Properties. *)

GuardTypeOK ==
  /\ clock \in Counters
  /\ document \in Counters \cup {NoDocument}
  /\ lock \in Processes \cup {Nobody}
  /\ pc \in [Processes -> Steps]
  /\ code \in [Processes -> Counters]
  /\ last \in [Processes -> Counters \cup {NoDocument}]
  /\ uses \in [Counters -> Nat]

\* No code is ever sent twice, whichever processes reserve, fail or die and however
\* the clock is set.
UsedOnce == \A c \in Counters : uses[c] <= 1

\* The counter in the file never goes back: what was reserved once stays reserved.
CounterGrows == [][document' >= document]_vars

=============================================================================
