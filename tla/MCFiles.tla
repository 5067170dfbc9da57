------------------------------- MODULE MCFiles -------------------------------
(************************************************************************************)
(* The small stores of the program side by side: the counter of the one-time        *)
(* codes, the preference, and the credentials of the services and of the menu core. *)
(* They share nothing, so a behaviour is one of a single store, the subject, and    *)
(* the others stay where they began.                                                *)
(************************************************************************************)
EXTENDS CounterGuard, PreferenceFile, CredentialRepository, CredentialTransaction, TLC

VARIABLE subject

fileVars == <<subject, vars, storeVars, repositoryVars, transactionVars>>

Symmetry == Permutations(Processes)

GuardIdle == clock = 1
StoreIdle == ~onWindows /\ file = "none"
RepositoryIdle == named["key"] = None
TransactionIdle == stored["username"] = Absent

FilesInit ==
  /\ subject \in {"guard", "store", "repository", "transaction"}
  /\ Init /\ StoreInit /\ RepositoryInit /\ TransactionInit
  /\ subject # "guard" => GuardIdle
  /\ subject # "store" => StoreIdle
  /\ subject # "repository" => RepositoryIdle
  /\ subject # "transaction" => TransactionIdle

FilesNext ==
  \/ subject = "guard" /\ Next
       /\ UNCHANGED <<subject, storeVars, repositoryVars, transactionVars>>
  \/ subject = "store" /\ StoreNext
       /\ UNCHANGED <<subject, vars, repositoryVars, transactionVars>>
  \/ subject = "repository" /\ RepositoryNext
       /\ UNCHANGED <<subject, vars, storeVars, transactionVars>>
  \/ subject = "transaction" /\ TransactionNext
       /\ UNCHANGED <<subject, vars, storeVars, repositoryVars>>

FilesSpec == FilesInit /\ [][FilesNext]_fileVars

=============================================================================
