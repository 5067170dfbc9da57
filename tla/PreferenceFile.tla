---------------------------- MODULE PreferenceFile ----------------------------
(*********************************************************************************)
(* AutomaticPreference of the three services: the preference for reconnecting    *)
(* automatically is a small file, replaced through a temporary file.  One store  *)
(* at a time runs, in spawn_blocking; any of its calls may fail, and the process *)
(* may be killed between any two.                                                *)
(*********************************************************************************)
EXTENDS Naturals

CONSTANTS
  MaxStores,      (* bound on the stores                                            *)
  MaxStoreFaults  (* bound on the calls that fail and the crashes                     *)

ASSUME PreferenceAssumption ==
  MaxStores \in Nat /\ MaxStoreFaults \in Nat

VARIABLES
  onWindows, (* where the old file is removed before the new one is renamed          *)
  file,      (* the file: "on", "off", or "none" when there is no file             *)
  tempFile,  (* the temporary file of this process id; "empty" until it is written     *)
  request,   (* the preference being stored, or "none"                             *)
  step,      (* the next call of the store, or "idle"                              *)
  reply,     (* its answer, until the next store                                   *)
  stores, storeFaults,
  choice,    (* history: what a load may return after this store                     *)
  disturbed, (* history: a call of this store failed                               *)
  refusals   (* history: the stores answered "failed" in a row without such a cause   *)

historyVars == <<choice, disturbed, refusals>>
storeVars ==
  <<onWindows, file, tempFile, request, step, reply, stores, storeFaults, historyVars>>

StoreSteps == {"idle", "create", "write", "remove", "rename", "finish", "cleanup"}

-----------------------------------------------------------------------------
\* AutomaticPreference::load: no file stands for "on".
Load == IF file = "none" THEN "on" ELSE file

Store(preference) ==
  /\ step = "idle" /\ stores < MaxStores
  /\ request' = preference /\ step' = "create" /\ reply' = "none"
  /\ stores' = stores + 1 /\ choice' = {Load, preference} /\ disturbed' = FALSE
  /\ UNCHANGED <<file, tempFile, storeFaults, refusals>>

Goes(to) ==
  step' = to /\ UNCHANGED <<request, reply, stores, storeFaults, historyVars>>

\* create_new: a temporary file left by a killed process of the same id is in the way.
Create ==
  /\ step = "create"
  /\ IF tempFile = "none" THEN tempFile' = "empty" /\ Goes("write")
                          ELSE UNCHANGED tempFile /\ Goes("cleanup")
  /\ UNCHANGED file

Write ==
  /\ step = "write" /\ tempFile' = request
  /\ Goes(IF onWindows /\ file # "none" THEN "remove" ELSE "rename")
  /\ UNCHANGED file

Remove ==
  /\ step = "remove" /\ file' = "none"
  /\ Goes("rename")
  /\ UNCHANGED tempFile

Rename ==
  /\ step = "rename" /\ file' = tempFile /\ tempFile' = "none"
  /\ Goes("finish")

\* set_permissions, and on macOS the sync of the directory.
Finish ==
  /\ step = "finish"
  /\ step' = "idle" /\ request' = "none" /\ reply' = "ok" /\ refusals' = 0
  /\ UNCHANGED <<file, tempFile, stores, storeFaults, choice, disturbed>>

\* The directory is refused before the store begins: no cleanup follows.
PrepareFails ==
  /\ step = "create" /\ storeFaults < MaxStoreFaults /\ storeFaults' = storeFaults + 1
  /\ step' = "idle" /\ request' = "none" /\ reply' = "failed"
  /\ refusals' = 0 /\ disturbed' = TRUE
  /\ UNCHANGED <<file, tempFile, stores, choice>>

\* A call of the store returns an error.  After the rename the file is replaced all the
\* same; on Windows nothing follows the rename.
CallFails ==
  /\ step \notin {"idle", "cleanup"} /\ (onWindows => step # "finish")
  /\ storeFaults < MaxStoreFaults /\ storeFaults' = storeFaults + 1
  /\ step' = "cleanup" /\ disturbed' = TRUE
  /\ UNCHANGED <<file, tempFile, request, reply, stores, choice, refusals>>

Defect_NoCleanup ==
  /\ step = "cleanup"
  /\ UNCHANGED <<file, tempFile, stores, storeFaults, choice, disturbed>>
  /\ step' = "idle" /\ request' = "none" /\ reply' = "failed"
  /\ refusals' = IF disturbed THEN 0 ELSE refusals + 1

Defect_CleanupSaysOk ==
  /\ step = "cleanup" /\ tempFile' = "none"
  /\ step' = "idle" /\ request' = "none" /\ reply' = "ok"
  /\ refusals' = IF disturbed THEN 0 ELSE refusals + 1
  /\ UNCHANGED <<file, stores, storeFaults, choice, disturbed>>

\* The temporary file is removed after an error.
Cleanup ==
  /\ step = "cleanup" /\ tempFile' = "none"
  /\ step' = "idle" /\ request' = "none" /\ reply' = "failed"
  /\ refusals' = IF disturbed THEN 0 ELSE refusals + 1
  /\ UNCHANGED <<file, stores, storeFaults, choice, disturbed>>

\* remove_file fails too, which nobody looks at.
CleanupFails ==
  /\ step = "cleanup" /\ storeFaults < MaxStoreFaults /\ storeFaults' = storeFaults + 1
  /\ step' = "idle" /\ request' = "none" /\ reply' = "failed"
  /\ refusals' = 0 /\ disturbed' = TRUE
  /\ UNCHANGED <<file, tempFile, stores, choice>>

\* The service is killed and started again.  With another process id the temporary file
\* that is left is in nobody's way.
StoreCrash ==
  /\ storeFaults < MaxStoreFaults /\ storeFaults' = storeFaults + 1
  /\ step' = "idle" /\ request' = "none" /\ reply' = "none" /\ refusals' = 0
  /\ tempFile' \in {tempFile, "none"}
  /\ UNCHANGED <<file, stores, choice, disturbed>>

-----------------------------------------------------------------------------
StoreInit ==
  /\ onWindows \in BOOLEAN
  /\ file \in {"none", "on", "off"} /\ tempFile = "none"
  /\ request = "none" /\ step = "idle" /\ reply = "none"
  /\ stores = 0 /\ storeFaults = 0 /\ choice = {Load} /\ disturbed = FALSE /\ refusals = 0

StoreNext ==
  /\ \/ \E preference \in {"on", "off"} : Store(preference)
     \/ Create \/ Write \/ Remove \/ Rename \/ Finish
     \/ PrepareFails \/ CallFails \/ Cleanup \/ CleanupFails \/ StoreCrash
  /\ UNCHANGED onWindows

StoreSpec == StoreInit /\ [][StoreNext]_storeVars

-----------------------------------------------------------------------------
(* Properties.                                                               *)

PreferenceTypeOK ==
  /\ onWindows \in BOOLEAN
  /\ file \in {"none", "on", "off"} /\ tempFile \in {"none", "empty", "on", "off"}
  /\ request \in {"none", "on", "off"} /\ reply \in {"none", "ok", "failed"}
  /\ step \in StoreSteps
  /\ stores \in 0 .. MaxStores /\ storeFaults \in 0 .. MaxStoreFaults
  /\ choice \subseteq {"on", "off"} /\ disturbed \in BOOLEAN /\ refusals \in Nat

\* What is renamed is the whole of the new preference, and a store that runs knows it: the
\* file is never one that load refuses with an error.
WholeFileRenamed ==
  /\ (step = "idle") = (request = "none")
  /\ step \in {"rename", "remove"} => tempFile = request
  /\ step = "finish" => file = request
  /\ step = "write" => tempFile = "empty"

\* The file implements the preference the service relies on, whatever fails and wherever
\* it is killed: the forgetful one on Windows, the other one elsewhere.
Abstract == INSTANCE Preference WITH value <- Load, forgetful <- onWindows
ImplementsPreference == Abstract!Spec

\* A temporary file left behind costs one store and no more: the next one is refused for it
\* and removes it.
LitterCostsOneStore == refusals <= 1

\* Once a store is over, however it ended, a load returns the preference from before it or
\* the one it was to store; not so on Windows, where a store that is cut short between the
\* removal and the rename leaves no file, and turns "off" into "on".
OldOrNew == step = "idle" /\ ~onWindows => Load \in choice

\* All of the above that a state can tell: the file is whole, old or new, and a temporary
\* file is no lasting obstacle.
PreferenceSound == PreferenceTypeOK /\ WholeFileRenamed /\ LitterCostsOneStore /\ OldOrNew

=============================================================================
