------------------------ MODULE CredentialTransaction ------------------------
(*********************************************************************************)
(* CredentialTransaction of the menu core: the user name, the password and       *)
(* maybe the seed are written one after the other, the counter of the one-time   *)
(* codes is reset for a new seed, and what was written is taken back when one of *)
(* the steps fails.  Its store is EncryptedCredentialStore, which does each of   *)
(* its operations under a lock and replaces its document by a rename: one that   *)
(* fails has changed nothing.                                                    *)
(*                                                                               *)
(* A transaction may be killed anywhere, and another one follow.  Values are     *)
(* named by the transaction that wrote them.                                     *)
(*********************************************************************************)
EXTENDS Integers, Sequences

CONSTANTS
  MaxTransactions,   (* bound on the transactions                                     *)
  MaxOperationFaults (* bound on the operations that fail                             *)

ASSUME TransactionAssumption == MaxTransactions \in Nat /\ MaxOperationFaults \in Nat

VARIABLES
  stored,      (* per key, whose value is in the store, or Absent                     *)
  counter,     (* the seed that the state file of the counter is for, or Absent         *)
  number,      (* of the transaction                                               *)
  withSeed,    (* it has a new seed                                                 *)
  stage,       (* its next operation, or "over"                                      *)
  at,          (* the key of that operation                                         *)
  originals,   (* what it read                                                     *)
  changed,     (* the keys it has written, the last one first                          *)
  fallback,    (* the error it reports if the rollback goes well                       *)
  failed,      (* the keys whose rollback failed                                      *)
  verdict,     (* of the last transaction; "killed" if it did not get to one             *)
  operationFaults,
  before,      (* history: the store before the transaction                            *)
  connects     (* history: the reconnections it asked for                             *)

txVars == <<number, withSeed, originals, before>>
transactionVars ==
  <<stored, counter, txVars, stage, at, changed, fallback, failed, verdict, operationFaults,
    connects>>

Absent == 0
Installed == 1
Values == {Absent, Installed} \union 2 .. MaxTransactions + 1
Order == <<"username", "password", "totpSeed">>
Keys == {Order[i] : i \in 1 .. 3}
Failures == {"READ_FAILED", "WRITE_FAILED", "TOTP_RESET_FAILED"}

Faulty == operationFaults < MaxOperationFaults /\ operationFaults' = operationFaults + 1

-----------------------------------------------------------------------------
\* apply, with credentials that were validated.
Apply(seed) ==
  /\ stage = "over" /\ number <= MaxTransactions
  /\ number' = number + 1 /\ withSeed' = seed
  /\ stage' = "read" /\ at' = 1
  /\ originals' = [k \in Keys |-> Absent] /\ changed' = <<>> /\ failed' = {}
  /\ fallback' = "none" /\ verdict' = "none"
  /\ before' = stored /\ connects' = 0
  /\ UNCHANGED <<stored, counter, operationFaults>>

ReadKey ==
  /\ stage = "read"
  /\ originals' = [originals EXCEPT ![Order[at]] = stored[Order[at]]]
  /\ IF at < 3 THEN at' = at + 1 /\ UNCHANGED stage ELSE at' = 1 /\ stage' = "write"
  /\ UNCHANGED <<stored, counter, number, withSeed, before, changed, fallback, failed, verdict,
                 operationFaults, connects>>

Succeeds ==
  stage' = "over" /\ verdict' = "SUCCESS" /\ connects' = connects + 1 /\ UNCHANGED at

WriteKey ==
  /\ stage = "write"
  /\ stored' = [stored EXCEPT ![Order[at]] = number]
  /\ changed' = <<Order[at]>> \o changed
  /\ IF at = 1 THEN at' = 2 /\ UNCHANGED <<stage, verdict, connects>>
     ELSE IF at = 2 /\ withSeed THEN at' = 3 /\ UNCHANGED <<stage, verdict, connects>>
     ELSE IF at = 3 THEN stage' = "reset" /\ UNCHANGED <<at, verdict, connects>>
     ELSE Succeeds
  /\ UNCHANGED <<counter, txVars, fallback, failed, operationFaults>>

\* FileTOTPStateResetter: the state file is removed, if there is one.
ResetCounter ==
  /\ stage = "reset" /\ counter' = Absent
  /\ Succeeds
  /\ UNCHANGED <<stored, txVars, changed, fallback, failed, operationFaults>>

\* An operation fails.  Before anything was written there is nothing to take back.
OperationFails ==
  /\ stage \in {"read", "write", "reset"} /\ Faulty
  /\ IF stage = "read"
     THEN stage' = "over" /\ verdict' = "READ_FAILED" /\ UNCHANGED fallback
     ELSE /\ stage' = "rollback"
          /\ fallback' = IF stage = "write" THEN "WRITE_FAILED" ELSE "TOTP_RESET_FAILED"
          /\ UNCHANGED verdict
  /\ UNCHANGED <<stored, counter, txVars, at, changed, failed, connects>>

Defect_RollbackStops(fails) ==
  /\ stage = "rollback" /\ changed # <<>>
  /\ IF fails
     THEN /\ Faulty
          /\ failed' = failed \union {Head(changed)} /\ changed' = <<>> /\ UNCHANGED stored
     ELSE /\ stored' = [stored EXCEPT ![Head(changed)] = originals[Head(changed)]]
          /\ changed' = Tail(changed)
          /\ UNCHANGED <<operationFaults, failed>>
  /\ UNCHANGED <<counter, txVars, stage, at, fallback, verdict, connects>>

\* rollback: a value that was read is written again, one that was not there is removed, and
\* an error does not keep the others from it.
RollbackKey(fails) ==
  /\ stage = "rollback" /\ changed # <<>>
  /\ changed' = Tail(changed)
  /\ IF fails
     THEN /\ Faulty
          /\ failed' = failed \union {Head(changed)} /\ UNCHANGED stored
     ELSE /\ stored' = [stored EXCEPT ![Head(changed)] = originals[Head(changed)]]
          /\ UNCHANGED <<operationFaults, failed>>
  /\ UNCHANGED <<counter, txVars, stage, at, fallback, verdict, connects>>

RollbackEnds ==
  /\ stage = "rollback" /\ changed = <<>>
  /\ stage' = "over"
  /\ verdict' = IF failed = {} THEN fallback ELSE "ROLLBACK_FAILED"
  /\ UNCHANGED <<stored, counter, txVars, at, changed, fallback, failed, operationFaults,
                 connects>>

TransactionKilled ==
  /\ stage # "over" /\ Faulty
  /\ stage' = "over" /\ verdict' = "killed"
  /\ UNCHANGED <<stored, counter, txVars, at, changed, fallback, failed, connects>>

\* The connector uses a code of the stored seed and records its counter.
UseCode ==
  /\ stored["totpSeed"] # Absent /\ counter' = stored["totpSeed"]
  /\ UNCHANGED <<stored, txVars, stage, at, changed, fallback, failed, verdict, operationFaults,
                 connects>>

-----------------------------------------------------------------------------
TransactionInit ==
  /\ stored \in {[k \in Keys |-> Absent], [k \in Keys |-> Installed]}
  /\ counter \in {Absent, stored["totpSeed"]}
  /\ number = 1 /\ withSeed = FALSE
  /\ stage = "over" /\ at = 1 /\ originals = stored /\ changed = <<>>
  /\ fallback = "none" /\ failed = {} /\ verdict = "none" /\ operationFaults = 0
  /\ before = stored /\ connects = 0

TransactionNext ==
  \/ \E seed \in BOOLEAN : Apply(seed)
  \/ ReadKey \/ WriteKey \/ ResetCounter \/ OperationFails
  \/ \E fails \in BOOLEAN : RollbackKey(fails)
  \/ RollbackEnds
  \/ TransactionKilled \/ UseCode

TransactionSpec == TransactionInit /\ [][TransactionNext]_transactionVars

-----------------------------------------------------------------------------
(* Properties.                                                               *)

TransactionTypeOK ==
  /\ stored \in [Keys -> Values] /\ counter \in Values /\ originals \in [Keys -> Values]
  /\ number \in 1 .. MaxTransactions + 1 /\ withSeed \in BOOLEAN
  /\ stage \in {"over", "read", "write", "reset", "rollback"} /\ at \in 1 .. 3
  /\ changed \in Seq(Keys) /\ Len(changed) <= 3 /\ failed \subseteq Keys
  /\ fallback \in {"none"} \union Failures
  /\ verdict \in {"none", "SUCCESS", "ROLLBACK_FAILED", "killed"} \union Failures
  /\ operationFaults \in 0 .. MaxOperationFaults /\ connects \in 0 .. 1

\* SUCCESS: all of the new credentials are stored, the seed that was not given is the one
\* from before, no state of the counter is left that is for another seed, and the VPN is
\* asked to reconnect.  Nothing else asks for it.
SuccessMeansAll ==
  /\ verdict = "SUCCESS" =>
       /\ stored["username"] = number /\ stored["password"] = number
       /\ stored["totpSeed"] = IF withSeed THEN number ELSE before["totpSeed"]
       /\ withSeed => counter \in {Absent, number}
  /\ connects = (IF verdict = "SUCCESS" THEN 1 ELSE 0)

\* An error other than ROLLBACK_FAILED: the credentials are the ones from before.
FailureRestores == verdict \in Failures => stored = before

\* ROLLBACK_FAILED: only the keys whose rollback failed are not the ones from before.
RollbackGoesOn ==
  verdict = "ROLLBACK_FAILED" =>
    failed # {} /\ \A k \in Keys : stored[k] # before[k] => k \in failed

\* All of the new credentials or all of the old ones, except for keys that are known to have
\* failed twice.
AllOrNothing == TransactionTypeOK /\ SuccessMeansAll /\ FailureRestores /\ RollbackGoesOn

=============================================================================
