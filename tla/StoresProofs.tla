---------------------------- MODULE StoresProofs ----------------------------
(***************************************************************************)
(* Proofs about the small stores of the program, for any bounds: the       *)
(* counter of the one-time codes, the preference, the credentials of the   *)
(* services, and the credentials of the menu core.                         *)
(***************************************************************************)
EXTENDS CounterGuard, PreferenceFile, CredentialRepository, CredentialTransaction,
        SequenceTheorems, TLAPS

-----------------------------------------------------------------------------
(*****************************************************************************)
(* CounterGuard, for any number of processes and any range of the clock: a   *)
(* code is sent at most once, and the counter in the file never goes back.   *)
(*****************************************************************************)

\* Between Lock and the end of the call the process holds the lock.
LockHeld == \A p \in Processes : pc[p] \in {"locked", "checked", "replaced"} => lock = p

\* So what it has read is still in the file.
ReadIsFresh == \A p \in Processes : pc[p] = "checked" => last[p] = document

\* A process that has won a counter owns it alone, and nobody can win it again:
\* the file is at or past it.
Winner(p) == pc[p] \in {"replaced", "reserved"}
WinnersOwn ==
  /\ \A p \in Processes : Winner(p) => code[p] <= document /\ uses[code[p]] = 0
  /\ \A p, q \in Processes : p # q /\ Winner(p) /\ Winner(q) => code[p] # code[q]

UsedIsPast == \A c \in Counters : uses[c] <= 1 /\ (uses[c] # 0 => c <= document)

GuardInv == GuardTypeOK /\ LockHeld /\ ReadIsFresh /\ WinnersOwn /\ UsedIsPast

USE GuardAssumption DEF Counters, NoDocument, Steps, At, Goto, Unlock

-----------------------------------------------------------------------------
\* The initial state satisfies the invariant: the file is empty and nobody is in a
\* call.
LEMMA InitGuardInv == Init => GuardInv
  BY DEF Init, GuardInv, GuardTypeOK, LockHeld, ReadIsFresh, Winner, WinnersOwn, UsedIsPast

\* Every step keeps the types.
LEMMA GuardStepType == ASSUME GuardInv, [Next]_vars PROVE GuardTypeOK'
<1> USE DEF GuardInv, GuardTypeOK
<1>1. CASE Clock
  BY <1>1 DEF Clock
<1>2. ASSUME NEW p \in Processes, Process(p) PROVE GuardTypeOK'
  <2>1. CASE Generate(p)
    BY <2>1 DEF Generate
  <2>2. CASE Lock(p)
    BY <2>2 DEF Lock
  <2>3. CASE ReadDocument(p)
    BY <2>3 DEF ReadDocument
  <2>4. CASE Refuse(p)
    BY <2>4 DEF Refuse
  <2>5. CASE Replace(p)
    BY <2>5 DEF Replace
  <2>6. CASE Fail(p)
    BY <2>6 DEF Fail
  <2>7. CASE Reserved(p)
    BY <2>7 DEF Reserved
  <2>8. CASE Send(p)
    BY <2>8 DEF Send
  <2>9. CASE Crash(p)
    BY <2>9 DEF Crash
  <2> QED
    BY <1>2, <2>1, <2>2, <2>3, <2>4, <2>5, <2>6, <2>7, <2>8, <2>9 DEF Process
<1>3. CASE UNCHANGED vars
  BY <1>3 DEF vars
<1> QED
  BY <1>1, <1>2, <1>3 DEF Next

\* Every step of a process keeps the rest of the invariant.
LEMMA ProcessKeeps ==
  ASSUME GuardInv, NEW p \in Processes, Process(p), GuardTypeOK'
  PROVE  GuardInv'
<1> USE DEF GuardInv, GuardTypeOK
<1>1. CASE Generate(p)
  <2> USE <1>1 DEF Generate
  <2>1. LockHeld' BY DEF LockHeld
  <2>2. ReadIsFresh' BY DEF ReadIsFresh
  <2>3. WinnersOwn' BY DEF WinnersOwn, Winner
  <2>4. UsedIsPast' BY DEF UsedIsPast
  <2> QED BY <2>1, <2>2, <2>3, <2>4
<1>2. CASE Lock(p)
  <2> USE <1>2 DEF Lock
  <2>1. LockHeld' BY DEF LockHeld
  <2>2. ReadIsFresh' BY DEF ReadIsFresh
  <2>3. WinnersOwn' BY DEF WinnersOwn, Winner
  <2>4. UsedIsPast' BY DEF UsedIsPast
  <2> QED BY <2>1, <2>2, <2>3, <2>4
<1>3. CASE ReadDocument(p)
  <2> USE <1>3 DEF ReadDocument
  <2>1. LockHeld' BY DEF LockHeld
  <2>2. ReadIsFresh' BY DEF ReadIsFresh
  <2>3. WinnersOwn' BY DEF WinnersOwn, Winner
  <2>4. UsedIsPast' BY DEF UsedIsPast
  <2> QED BY <2>1, <2>2, <2>3, <2>4
<1>4. CASE Replace(p)
  <2> USE <1>4 DEF Replace
  <2>1. LockHeld' BY DEF LockHeld
  <2>2. ReadIsFresh' BY DEF ReadIsFresh, LockHeld
  <2>3. last[p] = document /\ code[p] > document /\ document' = code[p]
    BY DEF ReadIsFresh
  <2>4. uses[code[p]] = 0
    BY <2>3 DEF UsedIsPast
  <2>5. \A q \in Processes : q # p /\ Winner(q)' => Winner(q) /\ code[q] < code[p]
    BY <2>3 DEF WinnersOwn, Winner
  <2>6. WinnersOwn'
    <3>1. ASSUME NEW q \in Processes, Winner(q)'
          PROVE  code[q] <= document' /\ uses[code[q]] = 0
      BY <2>3, <2>4, <2>5, <3>1 DEF WinnersOwn
    <3>2. ASSUME NEW q \in Processes, NEW r \in Processes, q # r, Winner(q)', Winner(r)'
          PROVE  code[q] # code[r]
      BY <2>5, <3>2 DEF WinnersOwn
    <3> QED BY <3>1, <3>2 DEF WinnersOwn
  <2>7. UsedIsPast' BY <2>3 DEF UsedIsPast
  <2> QED BY <2>1, <2>2, <2>6, <2>7
<1>5. CASE Send(p)
  <2> USE <1>5 DEF Send
  <2>1. LockHeld' BY DEF LockHeld
  <2>2. ReadIsFresh' BY DEF ReadIsFresh
  <2>3. WinnersOwn' BY DEF WinnersOwn, Winner
  <2>4. UsedIsPast' BY DEF UsedIsPast, WinnersOwn, Winner
  <2> QED BY <2>1, <2>2, <2>3, <2>4
<1>6. CASE Refuse(p) \/ Fail(p) \/ Reserved(p) \/ Crash(p)
  <2> USE <1>6 DEF Refuse, Fail, Reserved, Crash
  <2>1. LockHeld' BY DEF LockHeld
  <2>2. ReadIsFresh' BY DEF ReadIsFresh
  <2>3. WinnersOwn' BY DEF WinnersOwn, Winner
  <2>4. UsedIsPast' BY DEF UsedIsPast
  <2> QED BY <2>1, <2>2, <2>3, <2>4
<1> QED
  BY <1>1, <1>2, <1>3, <1>4, <1>5, <1>6 DEF Process

\* The invariant is inductive.
LEMMA NextGuardInv == ASSUME GuardInv, [Next]_vars PROVE GuardInv'
<1>1. CASE Clock
  BY <1>1, GuardStepType
     DEF Clock, GuardInv, LockHeld, ReadIsFresh, WinnersOwn, Winner, UsedIsPast
<1>2. ASSUME NEW p \in Processes, Process(p) PROVE GuardInv'
  BY <1>2, GuardStepType, ProcessKeeps
<1>3. CASE UNCHANGED vars
  BY <1>3, GuardStepType
     DEF vars, GuardInv, LockHeld, ReadIsFresh, WinnersOwn, Winner, UsedIsPast
<1> QED
  BY <1>1, <1>2, <1>3 DEF Next

-----------------------------------------------------------------------------
\* The invariant behind the two theorems below.
THEOREM GuardInvariant == Spec => []GuardInv
  BY InitGuardInv, NextGuardInv, PTL DEF Spec

\* Every variable of CounterGuard keeps its type, for any number of processes.
THEOREM GuardTypeCorrect == Spec => []GuardTypeOK
<1>1. GuardInv => GuardTypeOK
  BY DEF GuardInv
<1> QED
  BY GuardInvariant, <1>1, PTL

\* CounterGuard::reserve and next_code: no code is ever sent twice.
THEOREM CodesAreUsedOnce == Spec => []UsedOnce
<1>1. GuardInv => UsedOnce
  BY DEF GuardInv, UsedIsPast, UsedOnce
<1> QED
  BY GuardInvariant, <1>1, PTL

\* CounterGuard::write_document: the counter in the file never goes back.
THEOREM CounterNeverGoesBack == Spec => CounterGrows
<1>1. ASSUME GuardInv, [Next]_vars PROVE [document' >= document]_vars
  <2> USE <1>1
  <2>1. document \in Nat
    BY DEF GuardInv, GuardTypeOK
  <2>2. ASSUME NEW p \in Processes, Replace(p) PROVE document' >= document
    BY <2>2 DEF GuardInv, GuardTypeOK, ReadIsFresh, Replace
  <2>3. ASSUME NEW p \in Processes, Process(p), ~Replace(p) PROVE document' = document
    BY <2>3 DEF Process, Generate, Lock, ReadDocument, Refuse, Fail, Reserved, Send, Crash
  <2>4. Clock => document' = document
    BY DEF Clock
  <2>5. UNCHANGED vars \/ document' = document \/ document' >= document
    BY <2>2, <2>3, <2>4 DEF Next
  <2> QED
    BY <2>1, <2>5
<1> QED
  BY GuardInvariant, <1>1, PTL DEF Spec, CounterGrows

-----------------------------------------------------------------------------
(*****************************************************************************)
(* PreferenceFile, for any number of stores and of faults: what is renamed is *)
(* whole, litter costs one store, a store away from Windows leaves the old or *)
(* the new preference, and the file implements the one of module Preference. *)
(*****************************************************************************)

\* A store that was refused for a temporary file has removed it: the next one, as long as no
\* call of it fails, finds none.
RefusedOnce ==
  /\ refusals \in {0, 1}
  /\ refusals = 1 => /\ step \in {"idle", "create"} => tempFile = "none"
                     /\ step = "cleanup" => disturbed

\* While the old file is never removed, a load returns the old or the new preference at
\* any moment.
LoadInChoice == ~onWindows => Load \in choice

Chosen == request # "none" => request \in choice

FileInv ==
  PreferenceTypeOK /\ WholeFileRenamed /\ RefusedOnce /\ LoadInChoice /\ Chosen
    /\ (~onWindows => step # "remove")

USE PreferenceAssumption DEF StoreSteps, Goes, Load, historyVars

-----------------------------------------------------------------------------
\* Before the first store the file is whole, or absent, and no litter lies about.
LEMMA InitFileInv == StoreInit => FileInv
<1> SUFFICES ASSUME StoreInit PROVE FileInv
  OBVIOUS
<1> USE DEF StoreInit
<1>1. Load \in {"on", "off"}
  OBVIOUS
<1>2. PreferenceTypeOK
  <2>1. choice \subseteq {"on", "off"}
    BY <1>1
  <2>2. stores \in 0 .. MaxStores /\ storeFaults \in 0 .. MaxStoreFaults /\ refusals \in Nat
    OBVIOUS
  <2> QED
    BY <2>1, <2>2, Zenon DEF PreferenceTypeOK
<1>3. WholeFileRenamed /\ RefusedOnce /\ LoadInChoice /\ Chosen
  BY DEF WholeFileRenamed, RefusedOnce, LoadInChoice, Chosen
<1> QED
  BY <1>2, <1>3 DEF FileInv

\* Every step of a store, every failure and a crash keep the types.
LEMMA FileStepType == ASSUME FileInv, StoreNext PROVE PreferenceTypeOK'
<1> USE DEF FileInv, PreferenceTypeOK, WholeFileRenamed
<1>0. UNCHANGED onWindows
  BY DEF StoreNext
<1> USE <1>0
<1>1. ASSUME NEW preference \in {"on", "off"}, Store(preference) PROVE PreferenceTypeOK'
  <2>1. Load \in {"on", "off"}
    OBVIOUS
  <2>2. choice' \subseteq {"on", "off"}
    BY <1>1, <2>1 DEF Store
  <2>3. stores' \in 0 .. MaxStores
    BY <1>1 DEF Store
  <2> QED
    BY <1>1, <2>2, <2>3, Zenon DEF Store
<1>2. CASE Create
  BY <1>2 DEF Create
<1>3. CASE Write \/ Remove
  BY <1>3 DEF Write, Remove
<1>4. CASE Rename
  BY <1>4 DEF Rename
<1>5. CASE Finish
  BY <1>5 DEF Finish
<1>6. CASE CallFails
  BY <1>6 DEF CallFails
<1>7. CASE Cleanup \/ CleanupFails \/ PrepareFails
  <2>1. CASE Cleanup
    <3>1. refusals' \in Nat
      BY <2>1 DEF Cleanup
    <3> QED
      BY <2>1, <3>1 DEF Cleanup
  <2>2. CASE CleanupFails
    BY <2>2 DEF CleanupFails
  <2>3. CASE PrepareFails
    BY <2>3 DEF PrepareFails
  <2> QED
    BY <1>7, <2>1, <2>2, <2>3
<1>8. CASE StoreCrash
  BY <1>8 DEF StoreCrash
<1> QED
  BY <1>1, <1>2, <1>3, <1>4, <1>5, <1>6, <1>7, <1>8 DEF StoreNext

\* ... and what is known of the two files.
LEMMA StepWhole ==
  ASSUME FileInv, StoreNext PROVE WholeFileRenamed' /\ (~onWindows' => step' # "remove")
<1> USE DEF FileInv, PreferenceTypeOK, WholeFileRenamed
<1>0. UNCHANGED onWindows
  BY DEF StoreNext
<1> USE <1>0
<1>1. ASSUME NEW preference \in {"on", "off"}, Store(preference)
      PROVE  WholeFileRenamed' /\ step' # "remove"
  BY <1>1 DEF Store
<1>2. CASE Create \/ Write
  BY <1>2 DEF Create, Write
<1>3. CASE Remove \/ Rename
  BY <1>3 DEF Remove, Rename
<1>4. CASE Finish \/ Cleanup \/ CleanupFails \/ PrepareFails
  BY <1>4 DEF Finish, Cleanup, CleanupFails, PrepareFails
<1>5. CASE CallFails \/ StoreCrash
  BY <1>5 DEF CallFails, StoreCrash
<1> QED
  BY <1>1, <1>2, <1>3, <1>4, <1>5 DEF StoreNext

\* ... and that a refused store is followed by one that is not.
LEMMA StepRefused == ASSUME FileInv, StoreNext PROVE RefusedOnce'
<1> USE DEF FileInv, PreferenceTypeOK, WholeFileRenamed, RefusedOnce
<1>0. UNCHANGED onWindows
  BY DEF StoreNext
<1> USE <1>0
<1>1. ASSUME NEW preference \in {"on", "off"}, Store(preference) PROVE RefusedOnce'
  BY <1>1 DEF Store
<1>2. CASE Create \/ Write
  BY <1>2 DEF Create, Write
<1>3. CASE Remove \/ Rename
  BY <1>3 DEF Remove, Rename
<1>4. CASE Finish
  BY <1>4 DEF Finish
<1>5. CASE Cleanup \/ CleanupFails \/ PrepareFails
  BY <1>5 DEF Cleanup, CleanupFails, PrepareFails
<1>6. CASE CallFails \/ StoreCrash
  BY <1>6 DEF CallFails, StoreCrash
<1> QED
  BY <1>1, <1>2, <1>3, <1>4, <1>5, <1>6 DEF StoreNext

\* ... and that a load returns one of the two.
LEMMA StepChoice == ASSUME FileInv, StoreNext PROVE LoadInChoice' /\ Chosen'
<1> USE DEF FileInv, PreferenceTypeOK, WholeFileRenamed, LoadInChoice, Chosen
<1>0. UNCHANGED onWindows
  BY DEF StoreNext
<1> USE <1>0
<1>1. ASSUME NEW preference \in {"on", "off"}, Store(preference)
      PROVE  LoadInChoice' /\ Chosen'
  BY <1>1 DEF Store
<1>2. CASE Create \/ Write
  BY <1>2 DEF Create, Write
<1>3. CASE Remove
  BY <1>3 DEF Remove
<1>4. CASE Rename
  BY <1>4 DEF Rename
<1>5. CASE Finish \/ Cleanup \/ CleanupFails \/ PrepareFails
  BY <1>5 DEF Finish, Cleanup, CleanupFails, PrepareFails
<1>6. CASE CallFails \/ StoreCrash
  BY <1>6 DEF CallFails, StoreCrash
<1> QED
  BY <1>1, <1>2, <1>3, <1>4, <1>5, <1>6 DEF StoreNext

\* The invariant is inductive.
LEMMA NextFileInv == FileInv /\ [StoreNext]_storeVars => FileInv'
<1>1. ASSUME FileInv, StoreNext PROVE FileInv'
  BY <1>1, FileStepType, StepWhole, StepRefused, StepChoice DEF FileInv
<1>2. ASSUME FileInv, UNCHANGED storeVars PROVE FileInv'
  BY <1>2 DEF storeVars, FileInv, PreferenceTypeOK, WholeFileRenamed, RefusedOnce, LoadInChoice,
              Chosen
<1> QED
  BY <1>1, <1>2

-----------------------------------------------------------------------------
\* The invariant behind the theorems below.
THEOREM FileInvariant == StoreSpec => []FileInv
  BY InitFileInv, NextFileInv, PTL DEF StoreSpec

\* AutomaticPreference::store: what is renamed is the whole of the new preference.
THEOREM RenamedWhole == StoreSpec => [](PreferenceTypeOK /\ WholeFileRenamed)
<1>1. FileInv => PreferenceTypeOK /\ WholeFileRenamed
  BY DEF FileInv
<1> QED
  BY FileInvariant, <1>1, PTL

\* A temporary file that was left behind costs one store.
THEOREM OneStoreRefused == StoreSpec => []LitterCostsOneStore
<1>1. FileInv => LitterCostsOneStore
  BY DEF FileInv, RefusedOnce, LitterCostsOneStore
<1> QED
  BY FileInvariant, <1>1, PTL

\* With the order of the calls on Linux and macOS a store that is over has left the old or the
\* new preference.
THEOREM OldOrNewKept == StoreSpec => []OldOrNew
<1>1. FileInv => OldOrNew
  BY DEF FileInv, LoadInChoice, OldOrNew
<1> QED
  BY FileInvariant, <1>1, PTL

\* All of it at once: what the run of MCFiles checks on a small instance.
THEOREM PreferenceIsSound == StoreSpec => []PreferenceSound
BY RenamedWhole, OneStoreRefused, OldOrNewKept, PTL DEF PreferenceSound

\* Every call of a store is one of the steps of module Preference, or none of them.
LEMMA StepImplements ==
  ASSUME FileInv, StoreNext PROVE [Abstract!Next]_(Abstract!vars)
<1> USE DEF FileInv, PreferenceTypeOK, WholeFileRenamed, Abstract!Next, Abstract!vars
<1>0. UNCHANGED onWindows
  BY DEF StoreNext
<1> USE <1>0
<1>1. ASSUME NEW preference \in {"on", "off"}, Store(preference)
      PROVE  Abstract!Ask(preference)
  BY <1>1 DEF Store, Abstract!Ask
<1>2. CASE Create \/ Write
  BY <1>2 DEF Create, Write
<1>3. CASE Remove
  <2>1. onWindows /\ request # "none"
    BY <1>3 DEF Remove
  <2>2. Abstract!Forget
    BY <1>3, <2>1 DEF Remove, Abstract!Forget
  <2> QED
    BY <2>2
<1>4. CASE Rename
  BY <1>4 DEF Rename, Abstract!Take
<1>5. CASE Finish
  <2>1. Abstract!Answer("ok")
    BY <1>5 DEF Finish, Abstract!Answer
  <2> QED
    BY <2>1
<1>6. CASE CallFails
  BY <1>6 DEF CallFails
<1>7. CASE Cleanup \/ CleanupFails \/ PrepareFails
  <2>1. Abstract!Answer("failed")
    BY <1>7 DEF Cleanup, CleanupFails, PrepareFails, Abstract!Answer
  <2> QED
    BY <2>1
<1>8. CASE StoreCrash
  BY <1>8 DEF StoreCrash, Abstract!Interrupt
<1> QED
  BY <1>1, <1>2, <1>3, <1>4, <1>5, <1>6, <1>7, <1>8 DEF StoreNext

\* The file implements the preference the service is promised (the forgetful one on Windows),
\* whichever calls fail and wherever the service is killed.
THEOREM FileImplementsPreference == StoreSpec => ImplementsPreference
<1>1. StoreInit => Abstract!Init
  BY DEF StoreInit, Abstract!Init
<1>2. FileInv /\ [StoreNext]_storeVars => [Abstract!Next]_(Abstract!vars)
  <2>1. FileInv /\ StoreNext => [Abstract!Next]_(Abstract!vars)
    BY StepImplements
  <2>2. UNCHANGED storeVars => UNCHANGED Abstract!vars
    BY DEF storeVars, Abstract!vars
  <2> QED
    BY <2>1, <2>2
<1> QED
  BY FileInvariant, <1>1, <1>2, PTL DEF StoreSpec, ImplementsPreference, Abstract!Spec

-----------------------------------------------------------------------------
(*****************************************************************************)
(* CredentialRepository, for any number of replacements beside each other,   *)
(* of loads, failures and crashes: what is acknowledged stays and can be     *)
(* read, as long as no two requests cross.                                   *)
(*****************************************************************************)

\* The types.
Loads == [phase : {"idle", "key", "env", "over"}, key : {None} \union Writers,
          got : {None} \union Writers, steady : BOOLEAN, older : SUBSET Writers]

RepositoryShapes ==
  /\ phase \in [Requests -> RequestSteps] /\ part \in [Requests -> Parts]
  /\ sealed \in [Writers -> Writers]
  /\ outcome \in [Requests -> {"none", "ok", "failed", "lost"}]
  /\ past \in [Requests -> SUBSET Writers] /\ crossed \in BOOLEAN
  /\ named \in [Parts -> {None} \union Writers] /\ draft \in [Parts -> {None} \union Writers]
  /\ whole \subseteq Writers \X Parts
  /\ reader \in Loads

\* Whose requests are over, and stay so.
Gone == {Earlier} \union {q \in Requests : phase[q] = "over"}

\* What holds of a request whether or not others got in its way: what has the name of its
\* temporary file while it writes is nothing, its own, or of one that was not over yet.
Histories(r) ==
  /\ past[r] \subseteq Gone
  /\ outcome[r] # "none" => phase[r] = "over"
  /\ phase[r] \in {"waiting", "look", "reload"} => part[r] = "key"
  /\ phase[r] \in {"write", "rename"} => draft[part[r]] \notin past[r]
  /\ phase[r] = "rename" => <<r, part[r]>> \in whole

\* And while none have crossed: a request that makes a key found none, one that has sealed
\* its credentials has done so with the key that is there, and one that has stored them, or
\* is acknowledged, finds its own or newer ones.
Orderly(r) ==
  /\ named["env"] = r => part[r] = "env" /\ phase[r] \in {"finish", "cleanup", "over"}
  /\ part[r] = "key" /\ phase[r] \in {"create", "write", "rename"} =>
       named["key"] \notin past[r]
  /\ phase[r] \in {"finish", "reload"} => named["key"] # None
  /\ part[r] = "env" /\ Active(r) => named["key"] # None /\ sealed[r] = named["key"]
  /\ outcome[r] = "ok" \/ (part[r] = "env" /\ phase[r] = "finish") =>
       named["env"] # None /\ named["env"] \notin past[r]

\* What is in place was written to the end, and the credentials are sealed with the key
\* that is there.
InPlace ==
  /\ \A p \in Parts : named[p] # None => <<named[p], p>> \in whole
  /\ named["env"] # None => named["key"] # None /\ sealed[named["env"]] = named["key"]

\* The load under way read the key that is in place.
ReaderKnows ==
  /\ reader.steady => named["env"] # None
  /\ reader.phase = "env" => reader.key = named["key"] /\ reader.key # None
  /\ reader.phase \in {"key", "env"} => named["env"] \notin reader.older

RepositoryInv ==
  /\ RepositoryShapes /\ reader.older \subseteq Gone /\ \A r \in Requests : Histories(r)
  /\ ~crossed => /\ InPlace /\ \A r \in Requests : Orderly(r)
                 /\ ReaderKnows /\ LoadsOldOrNew

-----------------------------------------------------------------------------
\* Whose a file can be.
LEMMA WriterNumbers ==
  /\ None \notin Writers /\ Requests \subseteq Writers
  /\ Earlier \in Writers /\ Earlier \notin Requests
  /\ "key" \in Parts /\ "env" \in Parts /\ \A p \in Parts : p = "key" \/ p = "env"
BY CredentialAssumption DEF Requests, Writers, Earlier, None, Parts

\* The files can be opened as soon as there are credentials.
LEMMA ReadableView ==
  ASSUME RepositoryShapes, InPlace PROVE Readable <=> named["env"] # None
BY WriterNumbers DEF RepositoryShapes, InPlace, Readable, Opens

\* A request that is not over is none of those who are.
LEMMA NotGone ==
  ASSUME NEW r \in Requests, phase[r] # "over" PROVE r \notin Gone /\ None \notin Gone
BY WriterNumbers DEF Gone

\* What a step of a request that is not over leaves of the others and of the files: it puts
\* away a temporary file or makes its own, and gives a name to nobody's file but its own
\* unless it crosses others, and to no key if there is one.
LeavesOthers(r) ==
  /\ phase[r] # "over"
  /\ \A q \in Requests \ {r} :
       /\ phase'[q] = phase[q] /\ part'[q] = part[q]
       /\ outcome'[q] = outcome[q] /\ past'[q] = past[q] /\ sealed'[q] = sealed[q]
  /\ sealed'[Earlier] = sealed[Earlier]
  /\ sealed'[r] = sealed[r] \/ phase[r] \in {"look", "reload"}
  /\ whole \subseteq whole'
  /\ \A p \in Parts : draft'[p] \in {draft[p], None, r}
  /\ crossed => crossed'
  /\ ~crossed' => /\ \A p \in Parts : named'[p] \in {named[p], r}
                  /\ named["key"] # None => named'["key"] = named["key"]

LEMMA OthersStay ==
  ASSUME RepositoryInv, NEW r \in Requests, Watched, LeavesOthers(r), RepositoryShapes',
         Histories(r)', ~crossed' => Orderly(r)' /\ InPlace'
  PROVE  RepositoryInv'
<1>1. RepositoryShapes /\ reader.older \subseteq Gone /\ \A q \in Requests : Histories(q)
  BY DEF RepositoryInv
<1>2. Gone \subseteq Gone' /\ r \notin Gone /\ None \notin Gone
  BY NotGone DEF LeavesOthers, Gone
<1>3. /\ reader'.phase = reader.phase /\ reader'.key = reader.key /\ reader'.got = reader.got
      /\ reader'.older = reader.older /\ reader'.steady = (reader.steady /\ Readable')
  BY <1>1 DEF Watched, RepositoryShapes, Loads
<1>4. reader'.older \subseteq Gone'
  BY <1>1, <1>2, <1>3
<1>5. ASSUME NEW q \in Requests, q # r PROVE Histories(q)'
  <2>1. /\ phase'[q] = phase[q] /\ part'[q] = part[q]
        /\ outcome'[q] = outcome[q] /\ past'[q] = past[q]
    BY <1>5 DEF LeavesOthers
  <2>2. Histories(q) /\ part[q] \in Parts
    BY <1>1 DEF RepositoryShapes
  <2>3. draft'[part[q]] \in {draft[part[q]], None, r}
    BY <2>2 DEF LeavesOthers
  <2>4. whole \subseteq whole'
    BY DEF LeavesOthers
  <2> QED
    BY <1>2, <2>1, <2>2, <2>3, <2>4 DEF Histories
<1>6. ASSUME ~crossed'
      PROVE  (\A q \in Requests : Orderly(q)') /\ ReaderKnows' /\ LoadsOldOrNew'
  <2>1. /\ ~crossed /\ InPlace' /\ Orderly(r)'
        /\ named'["env"] \in {named["env"], r} /\ named'["key"] \in {named["key"], r}
        /\ named["key"] # None => named'["key"] = named["key"]
    BY <1>6, WriterNumbers DEF LeavesOthers
  <2>2. (\A q \in Requests : Orderly(q)) /\ ReaderKnows /\ LoadsOldOrNew
    BY <2>1 DEF RepositoryInv
  <2>3. ASSUME NEW q \in Requests, q # r PROVE Orderly(q)'
    <3>1. /\ phase'[q] = phase[q] /\ part'[q] = part[q] /\ sealed'[q] = sealed[q]
          /\ outcome'[q] = outcome[q] /\ past'[q] = past[q]
      BY <2>3 DEF LeavesOthers
    <3>2. past[q] \subseteq Gone /\ r # None /\ r \notin past[q]
      BY <1>1, <1>2, WriterNumbers DEF Histories
    <3> QED
      BY <2>1, <2>2, <2>3, <3>1, <3>2 DEF Orderly, Active
  <2>4. Readable' => named'["env"] # None
    BY DEF Readable, Opens
  <2>5. ReaderKnows'
    BY <1>1, <1>2, <1>3, <2>1, <2>2, <2>4 DEF ReaderKnows
  <2>6. LoadsOldOrNew'
    BY <1>3, <2>1, <2>2 DEF LoadsOldOrNew
  <2> QED
    BY <2>1, <2>3, <2>5, <2>6
<1>7. (\A q \in Requests : Histories(q)')
  BY <1>5
<1>8. (~crossed)' => (InPlace' /\ (\A q \in Requests : Orderly(q)') /\ ReaderKnows'
                      /\ LoadsOldOrNew')
  BY <1>6
<1> QED
  BY <1>4, <1>7, <1>8 DEF RepositoryInv

\* A step of a request that gives no file a name.
LEMMA NamesStay ==
  ASSUME RepositoryInv, NEW r \in Requests, Watched, LeavesOthers(r), RepositoryShapes',
         named' = named, crossed' = crossed, Histories(r)', ~crossed => Orderly(r)'
  PROVE  RepositoryInv'
<1>1. ASSUME ~crossed PROVE InPlace'
  <2>1. InPlace /\ Orderly(r) /\ RepositoryShapes
    BY <1>1 DEF RepositoryInv
  <2>2. whole \subseteq whole'
    BY DEF LeavesOthers
  <2>3. named["env"] # None => sealed'[named["env"]] = sealed[named["env"]]
    <3>1. named["env"] = r => sealed'[r] = sealed[r]
      BY <2>1 DEF Orderly, LeavesOthers
    <3>2. named["env"] \in {None, Earlier} \union Requests
      BY <2>1, WriterNumbers DEF RepositoryShapes, Writers
    <3> QED
      BY <3>1, <3>2 DEF LeavesOthers
  <2> QED
    BY <2>1, <2>2, <2>3 DEF InPlace
<1> QED
  BY <1>1, OthersStay

\* What is known before a step.
LEMMA KnownBefore ==
  ASSUME RepositoryInv, NEW r \in Requests
  PROVE  /\ RepositoryShapes /\ Histories(r) /\ part[r] \in Parts
         /\ ~crossed => InPlace /\ Orderly(r)
BY DEF RepositoryInv, RepositoryShapes

\* The watch keeps the type of the reader.
LEMMA ReaderShape == ASSUME RepositoryInv, Watched PROVE reader' \in Loads
BY DEF RepositoryInv, RepositoryShapes, Watched, Loads

LEMMA BeginStep ==
  ASSUME RepositoryInv, NEW r \in Requests, Begin(r), Watched PROVE RepositoryInv'
<1>1. /\ phase[r] = "waiting" /\ phase' = [phase EXCEPT ![r] = "look"]
      /\ past' = [past EXCEPT ![r] = Gone]
      /\ UNCHANGED <<part, sealed, outcome, named, draft, whole, crossed>>
  BY DEF Begin, Gone
<1>2. /\ RepositoryShapes /\ Histories(r) /\ part[r] \in Parts
      /\ ~crossed => InPlace /\ Orderly(r)
  BY KnownBefore
<1>3. Gone \subseteq Writers /\ Gone \subseteq Gone'
  BY <1>1, <1>2, WriterNumbers DEF Gone, RepositoryShapes
<1>4. /\ phase' \in [Requests -> RequestSteps] /\ past' \in [Requests -> SUBSET Writers]
      /\ phase'[r] = "look" /\ past'[r] = Gone
      /\ \A q \in Requests \ {r} : phase'[q] = phase[q] /\ past'[q] = past[q]
  BY <1>1, <1>2, <1>3 DEF RepositoryShapes, RequestSteps
<1>5. RepositoryShapes'
  BY <1>1, <1>2, <1>4, ReaderShape DEF RepositoryShapes
<1>6. LeavesOthers(r)
  BY <1>1, <1>4 DEF LeavesOthers
<1>7. Histories(r)'
  BY <1>1, <1>2, <1>3, <1>4 DEF Histories
<1>8. ~crossed => Orderly(r)'
  BY <1>1, <1>2, <1>4 DEF Orderly, Histories
<1> QED
  BY <1>1, <1>5, <1>6, <1>7, <1>8, NamesStay

\* Seal, where there is a key or none.
LEMMA SealStep ==
  ASSUME RepositoryInv, NEW r \in Requests, phase[r] \in {"look", "reload"},
         Seal(r), UNCHANGED <<named, draft, whole, past, crossed>>, Watched
  PROVE  RepositoryInv'
<1>1. /\ RepositoryShapes /\ Histories(r) /\ part[r] \in Parts
      /\ ~crossed => InPlace /\ Orderly(r)
  BY KnownBefore
<1>2. CASE <<named["key"], "key">> \in whole
  <2>1. /\ sealed' = [sealed EXCEPT ![r] = named["key"]]
        /\ part' = [part EXCEPT ![r] = "env"]
        /\ phase' = [phase EXCEPT ![r] = "create"]
        /\ outcome' = outcome /\ named["key"] \in Writers /\ named["key"] # None
    BY <1>1, <1>2, WriterNumbers DEF Seal, RepositoryShapes
  <2>2. /\ phase'[r] = "create" /\ part'[r] = "env" /\ sealed'[r] = named["key"]
        /\ \A q \in Requests \ {r} : phase'[q] = phase[q] /\ part'[q] = part[q]
        /\ \A w \in Writers \ {r} : sealed'[w] = sealed[w]
    BY <1>1, <2>1, WriterNumbers DEF RepositoryShapes
  <2>3. RepositoryShapes'
    BY <1>1, <2>1, WriterNumbers, ReaderShape DEF RepositoryShapes, RequestSteps
  <2>4. LeavesOthers(r)
    BY <2>1, <2>2, WriterNumbers DEF LeavesOthers
  <2>5. Histories(r)'
    BY <1>1, <2>1, <2>2 DEF Histories, Gone
  <2>6. ~crossed => Orderly(r)'
    BY <1>1, <2>1, <2>2 DEF Orderly, Histories
  <2> QED
    BY <2>3, <2>4, <2>5, <2>6, NamesStay
<1>3. CASE <<named["key"], "key">> \notin whole
  <2>1. /\ phase' = [phase EXCEPT ![r] = "over"] /\ outcome' = [outcome EXCEPT ![r] = "failed"]
        /\ UNCHANGED <<part, sealed>>
    BY <1>3 DEF Seal
  <2>2. /\ phase'[r] = "over" /\ outcome'[r] = "failed"
        /\ \A q \in Requests \ {r} : phase'[q] = phase[q] /\ outcome'[q] = outcome[q]
    BY <1>1, <2>1 DEF RepositoryShapes
  <2>3. RepositoryShapes'
    BY <1>1, <2>1, ReaderShape DEF RepositoryShapes, RequestSteps
  <2>4. LeavesOthers(r)
    BY <2>1, <2>2, WriterNumbers DEF LeavesOthers
  <2>5. Histories(r)'
    BY <1>1, <2>1, <2>2 DEF Histories, Gone
  <2>6. ~crossed => Orderly(r)'
    BY <1>1, <2>1, <2>2 DEF Orderly, Histories, Active
  <2> QED
    BY <2>3, <2>4, <2>5, <2>6, NamesStay
<1> QED
  BY <1>2, <1>3

LEMMA LookForKeyStep ==
  ASSUME RepositoryInv, NEW r \in Requests, LookForKey(r), Watched PROVE RepositoryInv'
<1>1. phase[r] = "look" /\ UNCHANGED <<named, draft, whole, past, crossed>>
  BY DEF LookForKey, traces
<1>2. CASE named["key"] # None
  BY <1>1, <1>2, SealStep DEF LookForKey
<1>3. CASE named["key"] = None
  <2>1. /\ part' = [part EXCEPT ![r] = "key"] /\ phase' = [phase EXCEPT ![r] = "create"]
        /\ UNCHANGED <<sealed, outcome>>
    BY <1>3 DEF LookForKey
  <2>2. /\ RepositoryShapes /\ Histories(r) /\ part[r] \in Parts
        /\ ~crossed => InPlace /\ Orderly(r)
    BY KnownBefore
  <2>3. /\ phase'[r] = "create" /\ part'[r] = "key"
        /\ \A q \in Requests \ {r} : phase'[q] = phase[q] /\ part'[q] = part[q]
    BY <2>1, <2>2 DEF RepositoryShapes
  <2>4. RepositoryShapes'
    BY <1>1, <2>1, <2>2, WriterNumbers, ReaderShape DEF RepositoryShapes, RequestSteps
  <2>5. LeavesOthers(r)
    BY <1>1, <2>1, <2>3, WriterNumbers DEF LeavesOthers
  <2>6. Histories(r)'
    BY <1>1, <2>1, <2>2, <2>3 DEF Histories, Gone
  <2>7. None \notin past[r]
    BY <2>2, WriterNumbers DEF RepositoryShapes
  <2>8. ~crossed => Orderly(r)'
    BY <1>1, <1>3, <2>1, <2>2, <2>3, <2>7 DEF Orderly, Histories
  <2> QED
    BY <1>1, <2>4, <2>5, <2>6, <2>8, NamesStay
<1> QED
  BY <1>2, <1>3

\* The temporary file is made, or there is one already.
LEMMA CreateDraftStep ==
  ASSUME RepositoryInv, NEW r \in Requests, CreateDraft(r), Watched PROVE RepositoryInv'
<1>1. /\ phase[r] = "create" /\ UNCHANGED <<part, sealed, outcome, named, whole, past, crossed>>
      /\ \/ phase' = [phase EXCEPT ![r] = "write"] /\ draft' = [draft EXCEPT ![part[r]] = r]
         \/ phase' = [phase EXCEPT ![r] = "cleanup"] /\ draft' = draft
  BY DEF CreateDraft, Proceeds, traces
<1>2. /\ RepositoryShapes /\ Histories(r) /\ part[r] \in Parts
      /\ ~crossed => InPlace /\ Orderly(r)
  BY KnownBefore
<1>3. PICK to \in {"write", "cleanup"} : /\ phase' = [phase EXCEPT ![r] = to]
                                         /\ to = "write" => draft' = [draft EXCEPT ![part[r]] = r]
                                         /\ to = "cleanup" => draft' = draft
  BY <1>1
<1>4. /\ phase'[r] = to /\ \A q \in Requests \ {r} : phase'[q] = phase[q]
      /\ \A p \in Parts : draft'[p] \in {draft[p], r}
      /\ to = "write" => draft'[part[r]] = r
  BY <1>2, <1>3 DEF RepositoryShapes
<1>5. RepositoryShapes'
  <2>1. phase' \in [Requests -> RequestSteps]
    BY <1>2, <1>3 DEF RepositoryShapes, RequestSteps
  <2>2. draft' \in [Parts -> {None} \union Writers]
    BY <1>2, <1>3, WriterNumbers DEF RepositoryShapes
  <2> QED
    BY <1>1, <1>2, <2>1, <2>2, ReaderShape DEF RepositoryShapes
<1>6. LeavesOthers(r)
  BY <1>1, <1>4 DEF LeavesOthers
<1>7. r \notin past[r]
  BY <1>1, <1>2, NotGone DEF Histories
<1>8. Histories(r)'
  BY <1>1, <1>2, <1>4, <1>7 DEF Histories, Gone
<1>9. ~crossed => Orderly(r)'
  BY <1>1, <1>2, <1>4 DEF Orderly, Histories, Active
<1> QED
  BY <1>1, <1>5, <1>6, <1>8, <1>9, NamesStay

LEMMA WriteDraftStep ==
  ASSUME RepositoryInv, NEW r \in Requests, WriteDraft(r), Watched PROVE RepositoryInv'
<1>1. /\ phase[r] = "write" /\ phase' = [phase EXCEPT ![r] = "rename"]
      /\ UNCHANGED <<part, sealed, outcome, named, draft, past, crossed>>
      /\ whole' = whole \union {<<r, part[r]>>}
  BY DEF WriteDraft, Proceeds, traces
<1>2. /\ RepositoryShapes /\ Histories(r) /\ part[r] \in Parts
      /\ ~crossed => InPlace /\ Orderly(r)
  BY KnownBefore
<1>3. phase'[r] = "rename" /\ \A q \in Requests \ {r} : phase'[q] = phase[q]
  BY <1>1, <1>2 DEF RepositoryShapes
<1>4. RepositoryShapes'
  BY <1>1, <1>2, WriterNumbers, ReaderShape DEF RepositoryShapes, RequestSteps
<1>5. LeavesOthers(r)
  BY <1>1, <1>3 DEF LeavesOthers
<1>6. Histories(r)'
  BY <1>1, <1>2, <1>3 DEF Histories, Gone
<1>7. ~crossed => Orderly(r)'
  BY <1>1, <1>2, <1>3 DEF Orderly, Histories, Active
<1> QED
  BY <1>1, <1>4, <1>5, <1>6, <1>7, NamesStay

\* A file takes its place: its own, unless requests cross.  A key does so only where there
\* is none, and credentials that were sealed with the key in place.
LEMMA RenameDraftStep ==
  ASSUME RepositoryInv, NEW r \in Requests, RenameDraft(r), Watched PROVE RepositoryInv'
<1>1. /\ phase[r] = "rename" /\ UNCHANGED <<part, sealed, outcome, whole, past>>
      /\ crossed' = (crossed \/ (draft[part[r]] # None /\ Crosses(r)))
  BY DEF RenameDraft, Proceeds
<1>2. /\ RepositoryShapes /\ Histories(r) /\ part[r] \in Parts
      /\ ~crossed => InPlace /\ Orderly(r)
  BY KnownBefore
<1>3. CASE draft[part[r]] = None
  <2>1. /\ phase' = [phase EXCEPT ![r] = "cleanup"] /\ UNCHANGED <<named, draft>>
        /\ crossed' = crossed
    BY <1>1, <1>2, <1>3 DEF RenameDraft, Proceeds, RepositoryShapes
  <2>2. phase'[r] = "cleanup" /\ \A q \in Requests \ {r} : phase'[q] = phase[q]
    BY <1>2, <2>1 DEF RepositoryShapes
  <2>3. RepositoryShapes'
    BY <1>1, <1>2, <2>1, ReaderShape DEF RepositoryShapes, RequestSteps
  <2>4. LeavesOthers(r)
    BY <1>1, <2>1, <2>2 DEF LeavesOthers
  <2>5. Histories(r)'
    BY <1>1, <1>2, <2>1, <2>2 DEF Histories, Gone
  <2>6. ~crossed => Orderly(r)'
    BY <1>1, <1>2, <2>1, <2>2 DEF Orderly, Histories, Active
  <2> QED
    BY <2>1, <2>3, <2>4, <2>5, <2>6, NamesStay
<1>4. CASE draft[part[r]] # None
  <2>1. /\ phase' = [phase EXCEPT ![r] = "finish"]
        /\ named' = [named EXCEPT ![part[r]] = draft[part[r]]]
        /\ draft' = [draft EXCEPT ![part[r]] = None]
    BY <1>4 DEF RenameDraft, Proceeds
  <2>2. /\ phase'[r] = "finish" /\ \A q \in Requests \ {r} : phase'[q] = phase[q]
        /\ named'[part[r]] = draft[part[r]]
        /\ \A p \in Parts : p # part[r] => named'[p] = named[p]
        /\ \A p \in Parts : draft'[p] \in {draft[p], None}
    BY <1>2, <2>1 DEF RepositoryShapes
  <2>3. RepositoryShapes'
    <3>1. crossed' \in BOOLEAN
      BY <1>1, <1>2 DEF RepositoryShapes, Crosses
    <3>2. phase' \in [Requests -> RequestSteps]
      BY <1>2, <2>1 DEF RepositoryShapes, RequestSteps
    <3>3. /\ named' \in [Parts -> {None} \union Writers]
          /\ draft' \in [Parts -> {None} \union Writers]
      BY <1>2, <2>1 DEF RepositoryShapes
    <3> QED
      BY <1>1, <1>2, <3>1, <3>2, <3>3, ReaderShape DEF RepositoryShapes
  <2>4. Histories(r)'
    BY <1>1, <1>2, <2>2 DEF Histories, Gone
  <2>5. ASSUME ~crossed'
        PROVE  /\ ~crossed /\ InPlace /\ Orderly(r)
               /\ draft[part[r]] = r
               /\ part[r] = "key" => named["key"] = None
    BY <1>1, <1>2, <1>4, <2>5 DEF Crosses, Histories, Orderly
  <2>6. LeavesOthers(r)
    <3>1. ASSUME ~crossed'
          PROVE  /\ \A p \in Parts : named'[p] \in {named[p], r}
                 /\ named["key"] # None => named'["key"] = named["key"]
      BY <1>2, <2>2, <2>5, <3>1, WriterNumbers
    <3> QED
      BY <1>1, <2>2, <3>1 DEF LeavesOthers
  <2>7. r # None /\ r \notin past[r] /\ <<r, part[r]>> \in whole
    BY <1>1, <1>2, WriterNumbers, NotGone DEF Histories
  <2>8. ASSUME ~crossed' PROVE Orderly(r)' /\ InPlace'
    <3>1. CASE part[r] = "key"
      <4>1. /\ named'["key"] = r /\ named'["env"] = named["env"] /\ named["env"] = None
        BY <2>2, <2>5, <2>8, <3>1, WriterNumbers DEF InPlace
      <4>2. InPlace'
        BY <1>1, <2>7, <3>1, <4>1, WriterNumbers DEF InPlace
      <4>3. Orderly(r)'
        BY <1>1, <1>2, <2>2, <2>5, <2>7, <2>8, <3>1, <4>1 DEF Orderly, Histories
      <4> QED
        BY <4>2, <4>3
    <3>2. CASE part[r] = "env"
      <4>1. /\ named'["env"] = r /\ named'["key"] = named["key"] /\ named["key"] # None
            /\ sealed[r] = named["key"]
        BY <1>1, <2>2, <2>5, <2>8, <3>2, WriterNumbers DEF Orderly, Active
      <4>2. InPlace'
        BY <1>1, <2>5, <2>7, <2>8, <3>2, <4>1, WriterNumbers DEF InPlace
      <4>3. Orderly(r)'
        BY <1>1, <1>2, <2>2, <2>5, <2>7, <2>8, <3>2, <4>1 DEF Orderly, Histories
      <4> QED
        BY <4>2, <4>3
    <3> QED
      BY <1>2, <3>1, <3>2, WriterNumbers
  <2> QED
    BY <2>3, <2>4, <2>6, <2>8, OthersStay
<1> QED
  BY <1>3, <1>4

\* The key is in place, or the credentials are: then the request is answered.
LEMMA FinishPartStep ==
  ASSUME RepositoryInv, NEW r \in Requests, FinishPart(r), Watched PROVE RepositoryInv'
<1>1. /\ phase[r] = "finish" /\ UNCHANGED <<part, sealed, named, draft, whole, past, crossed>>
      /\ \/ /\ part[r] = "key" /\ phase' = [phase EXCEPT ![r] = "reload"] /\ outcome' = outcome
         \/ /\ part[r] # "key" /\ phase' = [phase EXCEPT ![r] = "over"]
            /\ outcome' = [outcome EXCEPT ![r] = "ok"]
  BY DEF FinishPart, Proceeds, traces
<1>2. /\ RepositoryShapes /\ Histories(r) /\ part[r] \in Parts
      /\ ~crossed => InPlace /\ Orderly(r)
  BY KnownBefore
<1>3. /\ \A q \in Requests \ {r} : phase'[q] = phase[q] /\ outcome'[q] = outcome[q]
      /\ \/ part[r] = "key" /\ phase'[r] = "reload" /\ outcome'[r] = outcome[r]
         \/ part[r] = "env" /\ phase'[r] = "over" /\ outcome'[r] = "ok"
  BY <1>1, <1>2, WriterNumbers DEF RepositoryShapes
<1>4. RepositoryShapes'
  <2>1. phase' \in [Requests -> RequestSteps]
    BY <1>1, <1>2 DEF RepositoryShapes, RequestSteps
  <2>2. outcome' \in [Requests -> {"none", "ok", "failed", "lost"}]
    BY <1>1, <1>2 DEF RepositoryShapes
  <2> QED
    BY <1>1, <1>2, <2>1, <2>2, ReaderShape DEF RepositoryShapes
<1>5. LeavesOthers(r)
  BY <1>1, <1>3 DEF LeavesOthers
<1>6. Histories(r)'
  BY <1>1, <1>2, <1>3 DEF Histories, Gone
<1>7. ~crossed => Orderly(r)'
  BY <1>1, <1>2, <1>3 DEF Orderly, Histories, Active
<1> QED
  BY <1>1, <1>4, <1>5, <1>6, <1>7, NamesStay

\* The key is loaded again.
LEMMA ReloadStep ==
  ASSUME RepositoryInv, NEW r \in Requests, Reload(r), Watched PROVE RepositoryInv'
BY SealStep DEF Reload, traces

\* A call fails, or the temporary file is removed after one that failed.
LEMMA FailureStep ==
  ASSUME RepositoryInv, NEW r \in Requests, RequestCallFails(r) \/ RemoveDraft(r), Watched
  PROVE  RepositoryInv'
<1>1. /\ Active(r) /\ phase[r] \notin {"waiting", "look", "reload"}
      /\ UNCHANGED <<part, sealed, named, whole, past, crossed>>
      /\ \/ phase' = [phase EXCEPT ![r] = "cleanup"] /\ UNCHANGED <<outcome, draft>>
         \/ /\ phase' = [phase EXCEPT ![r] = "over"]
            /\ outcome' = [outcome EXCEPT ![r] = "failed"]
            /\ draft' = [draft EXCEPT ![part[r]] = None]
  BY DEF RequestCallFails, RemoveDraft, Proceeds, Active, traces
<1>2. /\ RepositoryShapes /\ Histories(r) /\ part[r] \in Parts
      /\ ~crossed => InPlace /\ Orderly(r)
  BY KnownBefore
<1>3. /\ \A q \in Requests \ {r} : phase'[q] = phase[q] /\ outcome'[q] = outcome[q]
      /\ \A p \in Parts : draft'[p] \in {draft[p], None}
      /\ \/ phase'[r] = "cleanup" /\ outcome'[r] = outcome[r]
         \/ phase'[r] = "over" /\ outcome'[r] = "failed"
  BY <1>1, <1>2 DEF RepositoryShapes
<1>4. RepositoryShapes'
  <2>1. phase' \in [Requests -> RequestSteps]
    BY <1>1, <1>2 DEF RepositoryShapes, RequestSteps
  <2>2. outcome' \in [Requests -> {"none", "ok", "failed", "lost"}]
    BY <1>1, <1>2 DEF RepositoryShapes
  <2>3. draft' \in [Parts -> {None} \union Writers]
    BY <1>1, <1>2 DEF RepositoryShapes
  <2> QED
    BY <1>1, <1>2, <2>1, <2>2, <2>3, ReaderShape DEF RepositoryShapes
<1>5. LeavesOthers(r)
  BY <1>1, <1>3 DEF LeavesOthers, Active
<1>6. Histories(r)'
  BY <1>1, <1>2, <1>3 DEF Histories, Gone, Active
<1>7. ~crossed => Orderly(r)'
  BY <1>1, <1>2, <1>3 DEF Orderly, Histories, Active
<1> QED
  BY <1>1, <1>4, <1>5, <1>6, <1>7, NamesStay

\* A load begins, finds the key, and opens the credentials.
LEMMA LoadStep ==
  ASSUME RepositoryInv, BeginLoad \/ LoadKey \/ LoadEnvelope PROVE RepositoryInv'
<1>1. UNCHANGED <<phase, part, sealed, outcome, named, draft, whole, past, crossed>>
  BY DEF BeginLoad, LoadKey, LoadEnvelope, requestVars, traces
<1>2. /\ RepositoryShapes /\ reader.older \subseteq Gone /\ \A r \in Requests : Histories(r)
      /\ reader \in Loads
  BY DEF RepositoryInv, RepositoryShapes
<1>3. ASSUME reader' \in Loads, reader'.older \subseteq Gone,
             ~crossed => ReaderKnows' /\ LoadsOldOrNew'
      PROVE  RepositoryInv'
  <2>1. RepositoryShapes' /\ (\A r \in Requests : Histories(r)') /\ Gone' = Gone
    BY <1>1, <1>2, <1>3 DEF RepositoryShapes, Histories, Gone
  <2>2. ~crossed => InPlace' /\ \A r \in Requests : Orderly(r)'
    BY <1>1 DEF RepositoryInv, InPlace, Orderly, Active
  <2> QED
    BY <1>1, <1>3, <2>1, <2>2 DEF RepositoryInv
<1>4. ~crossed => /\ InPlace /\ (\A r \in Requests : Orderly(r))
                  /\ ReaderKnows /\ LoadsOldOrNew
                  /\ (Readable <=> named["env"] # None)
  BY <1>2, ReadableView DEF RepositoryInv
<1>5. named["env"] \in {None} \union Writers /\ named["key"] \in {None} \union Writers
  BY <1>2, WriterNumbers DEF RepositoryShapes
<1>6. CASE BeginLoad
  <2>1. /\ reader' = [phase |-> "key", key |-> None, got |-> None, steady |-> Readable,
                      older |-> Replaced]
    BY <1>6 DEF BeginLoad
  <2>2. Replaced \subseteq Gone /\ Gone \subseteq Writers
    BY <1>2, WriterNumbers DEF Replaced, Histories, Gone
  <2>3. ~crossed => named["env"] \notin Replaced
    BY <1>4 DEF Replaced, Orderly
  <2>4. Readable \in BOOLEAN
    BY DEF Readable, Opens
  <2> HIDE DEF Replaced, Readable, Gone
  <2>5. reader' \in Loads
    BY <2>1, <2>2, <2>4 DEF Loads
  <2>6. /\ reader'.phase = "key" /\ reader'.steady = Readable /\ reader'.older = Replaced
    BY <2>1
  <2>7. ~crossed => ReaderKnows' /\ LoadsOldOrNew'
    BY <1>1, <1>4, <2>3, <2>6 DEF ReaderKnows, LoadsOldOrNew
  <2> QED
    BY <1>3, <2>2, <2>5, <2>6, <2>7
<1>7. CASE LoadKey
  <2>1. /\ reader.phase = "key"
        /\ \/ named["key"] = None /\ reader' = [reader EXCEPT !.phase = "over"]
           \/ named["key"] # None /\ reader' = [reader EXCEPT !.phase = "env", !.key = named["key"]]
    BY <1>7 DEF LoadKey
  <2>2. reader' \in Loads
    BY <1>2, <1>5, <2>1 DEF Loads
  <2>3. /\ reader'.steady = reader.steady /\ reader'.older = reader.older
        /\ \/ reader'.phase = "over" /\ named["key"] = None
           \/ reader'.phase = "env" /\ reader'.key = named["key"] /\ named["key"] # None
    BY <1>2, <2>1 DEF Loads
  <2>4. ~crossed => ReaderKnows' /\ LoadsOldOrNew'
    BY <1>1, <1>4, <2>1, <2>3 DEF ReaderKnows, LoadsOldOrNew, InPlace
  <2> QED
    BY <1>2, <1>3, <2>2, <2>3, <2>4
<1>8. CASE LoadEnvelope
  <2>1. /\ reader.phase = "env"
        /\ \/ /\ Opens(reader.key, named["env"])
              /\ reader' = [reader EXCEPT !.phase = "over", !.got = named["env"]]
           \/ /\ ~Opens(reader.key, named["env"])
              /\ reader' = [reader EXCEPT !.phase = "over", !.got = None]
    BY <1>8 DEF LoadEnvelope
  <2>2. reader' \in Loads
    BY <1>2, <1>5, <2>1 DEF Loads
  <2>3. /\ reader'.steady = reader.steady /\ reader'.older = reader.older
        /\ reader'.phase = "over"
        /\ Opens(reader.key, named["env"]) => reader'.got = named["env"]
    BY <1>2, <2>1 DEF Loads
  <2>4. ~crossed /\ reader.steady => /\ Opens(reader.key, named["env"])
                                     /\ named["env"] # None /\ named["env"] \notin reader.older
    BY <1>4, <2>1 DEF ReaderKnows, Readable
  <2>5. ~crossed => ReaderKnows' /\ LoadsOldOrNew'
    BY <1>1, <1>4, <2>3, <2>4 DEF ReaderKnows, LoadsOldOrNew
  <2> QED
    BY <1>2, <1>3, <2>2, <2>3, <2>5
<1> QED
  BY <1>6, <1>7, <1>8

\* The service is killed: what was under way is lost, and what is in place stays.
LEMMA CrashStep == ASSUME RepositoryInv, RepositoryCrash PROVE RepositoryInv'
<1>1. /\ RepositoryShapes /\ reader.older \subseteq Gone /\ (\A r \in Requests : Histories(r))
      /\ ~crossed => /\ InPlace /\ (\A r \in Requests : Orderly(r))
                     /\ ReaderKnows /\ LoadsOldOrNew
  BY DEF RepositoryInv
<1>2. /\ UNCHANGED <<part, sealed, named, whole, past, crossed>>
      /\ phase' = [r \in Requests |-> IF Active(r) THEN "over" ELSE phase[r]]
      /\ outcome' = [r \in Requests |-> IF Active(r) THEN "lost" ELSE outcome[r]]
      /\ draft' \in {draft, [p \in Parts |-> None]}
      /\ reader' = [reader EXCEPT !.phase = "idle"]
  BY DEF RepositoryCrash, traces
<1>3. \A r \in Requests : /\ phase'[r] = IF phase[r] = "waiting" THEN "waiting" ELSE "over"
                          /\ outcome'[r] = IF Active(r) THEN "lost" ELSE outcome[r]
  BY <1>2 DEF Active
<1>4. /\ reader'.phase = "idle" /\ reader'.steady = reader.steady
      /\ reader'.older = reader.older /\ reader' \in Loads
  BY <1>1, <1>2 DEF RepositoryShapes, Loads
<1>5. RepositoryShapes'
  <2>1. draft' \in [Parts -> {None} \union Writers]
    BY <1>1, <1>2 DEF RepositoryShapes
  <2>2. phase' \in [Requests -> RequestSteps]
    BY <1>1, <1>2, <1>3 DEF RequestSteps
  <2>3. outcome' \in [Requests -> {"none", "ok", "failed", "lost"}]
    BY <1>1, <1>2 DEF RepositoryShapes
  <2> QED
    BY <1>1, <1>2, <1>4, <2>1, <2>2, <2>3 DEF RepositoryShapes
<1>6. Gone \subseteq Gone'
  BY <1>3 DEF Gone
<1>7. \A r \in Requests : Histories(r)'
  BY <1>1, <1>2, <1>3, <1>6 DEF Histories, Active
<1>8. ASSUME ~crossed
      PROVE  InPlace' /\ (\A r \in Requests : Orderly(r)') /\ ReaderKnows' /\ LoadsOldOrNew'
  <2>1. InPlace'
    BY <1>1, <1>2, <1>8 DEF InPlace
  <2>2. \A r \in Requests : Orderly(r)'
    BY <1>1, <1>2, <1>3, <1>8 DEF Orderly, Active
  <2>3. ReaderKnows' /\ LoadsOldOrNew'
    BY <1>1, <1>2, <1>4, <1>8 DEF ReaderKnows, LoadsOldOrNew
  <2> QED
    BY <2>1, <2>2, <2>3
<1> QED
  BY <1>1, <1>2, <1>4, <1>5, <1>6, <1>7, <1>8 DEF RepositoryInv

LEMMA RepositoryInvInit == ASSUME RepositoryInit PROVE RepositoryInv
<1>1. RepositoryShapes
  <2>1. /\ named \in [Parts -> {None} \union Writers] /\ draft \in [Parts -> {None} \union Writers]
        /\ whole \subseteq Writers \X Parts
    BY WriterNumbers DEF RepositoryInit
  <2>2. reader \in Loads
    BY DEF RepositoryInit, Loads
  <2>3. /\ phase \in [Requests -> RequestSteps] /\ part \in [Requests -> Parts]
        /\ sealed \in [Writers -> Writers]
        /\ outcome \in [Requests -> {"none", "ok", "failed", "lost"}]
        /\ past \in [Requests -> SUBSET Writers] /\ crossed \in BOOLEAN
    BY WriterNumbers DEF RepositoryInit, RequestSteps
  <2> QED
    BY <2>1, <2>2, <2>3 DEF RepositoryShapes
<1>2. \A r \in Requests : /\ phase[r] = "waiting" /\ part[r] = "key" /\ outcome[r] = "none"
                          /\ past[r] = {}
  BY DEF RepositoryInit
<1>3. InPlace /\ (named["env"] = None \/ named["env"] = Earlier)
  BY WriterNumbers DEF RepositoryInit, InPlace
<1>4. \A r \in Requests : Histories(r) /\ Orderly(r)
  BY <1>2, <1>3, WriterNumbers DEF Histories, Orderly, Active
<1>5. ReaderKnows /\ LoadsOldOrNew /\ reader.older \subseteq Gone
  BY DEF RepositoryInit, ReaderKnows, LoadsOldOrNew
<1> QED
  BY <1>1, <1>3, <1>4, <1>5 DEF RepositoryInv

LEMMA RepositoryInvNext ==
  ASSUME RepositoryInv, [RepositoryNext]_repositoryVars PROVE RepositoryInv'
<1>1. ASSUME NEW r \in Requests, Replacing(r) PROVE RepositoryInv'
  BY <1>1, BeginStep, LookForKeyStep, CreateDraftStep, WriteDraftStep, RenameDraftStep,
     FinishPartStep, ReloadStep, FailureStep DEF Replacing
<1>2. CASE UNCHANGED repositoryVars
  BY <1>2 DEF RepositoryInv, RepositoryShapes, Histories, Gone, InPlace, Orderly, Active,
     ReaderKnows, LoadsOldOrNew, repositoryVars, requestVars, traces
<1> QED
  BY <1>1, <1>2, LoadStep, CrashStep DEF RepositoryNext

\* The stores keep their invariant, whatever runs beside each other, whatever fails and
\* whenever the service is killed.
THEOREM RepositoryInvariant == RepositorySpec => []RepositoryInv
<1>1. RepositoryInit => RepositoryInv
  BY RepositoryInvInit
<1>2. RepositoryInv /\ [RepositoryNext]_repositoryVars => RepositoryInv'
  BY RepositoryInvNext
<1> QED
  BY <1>1, <1>2, PTL DEF RepositorySpec

\* What is acknowledged is there and can be read, and a load during a replacement returns
\* the old or the new credentials, unless two requests crossed.
THEOREM RepositoryIsSound == RepositorySpec => []RepositorySound
<1>1. RepositoryInv => RepositorySound
  <2> SUFFICES ASSUME RepositoryInv PROVE RepositorySound
    OBVIOUS
  <2>1. RepositoryShapes /\ (~crossed => InPlace)
    BY DEF RepositoryInv
  <2>2. CredentialTypeOK
    <3>1. \A r \in Requests : /\ phase[r] \in RequestSteps /\ part[r] \in Parts
                              /\ sealed[r] \in Writers
                              /\ outcome[r] \in {"none", "ok", "failed", "lost"}
                              /\ past[r] \subseteq Writers
      BY <2>1, WriterNumbers DEF RepositoryShapes
    <3>2. reader.phase \in {"idle", "key", "env", "over"}
      BY <2>1 DEF RepositoryShapes, Loads
    <3> QED
      BY <2>1, <3>1, <3>2 DEF RepositoryShapes, InPlace, CredentialTypeOK
  <2>3. AckIsKept
    BY <2>1, ReadableView DEF RepositoryInv, Orderly, AckIsKept
  <2>4. LoadsOldOrNew
    BY DEF RepositoryInv, LoadsOldOrNew
  <2> QED
    BY <2>2, <2>3, <2>4 DEF RepositorySound
<1> QED
  BY <1>1, RepositoryInvariant, PTL

\* No replacement, whether it fails, is cut short by a crash or runs beside others, makes
\* stored credentials unreadable, unless two requests crossed.
THEOREM CredentialsStayReadable == RepositorySpec => StaysReadable
<1>1. RepositoryInv /\ RepositoryInv' /\ [RepositoryNext]_repositoryVars
        => (Readable => Readable' \/ crossed')
  <2> SUFFICES ASSUME RepositoryInv, RepositoryInv', [RepositoryNext]_repositoryVars,
                      Readable, ~crossed'
               PROVE  Readable'
    OBVIOUS
  <2>1. named["env"] # None
    BY DEF Readable, Opens
  <2>2. named'["env"] # None
    <3>1. ASSUME NEW r \in Requests, RenameDraft(r) PROVE named'["env"] # None
      <4>1. named' = named \/ (named' = [named EXCEPT ![part[r]] = draft[part[r]]]
                               /\ draft[part[r]] # None)
        BY <3>1 DEF RenameDraft
      <4> QED
        BY <2>1, <4>1, WriterNumbers DEF RepositoryInv, RepositoryShapes
    <3>2. named' = named \/ \E r \in Requests : RenameDraft(r)
      BY DEF RepositoryNext, Replacing, Begin, LookForKey, CreateDraft, WriteDraft, FinishPart,
         Reload, RequestCallFails, RemoveDraft, BeginLoad, LoadKey, LoadEnvelope,
         RepositoryCrash, repositoryVars
    <3> QED
      BY <2>1, <3>1, <3>2
  <2>3. RepositoryShapes' /\ InPlace'
    BY DEF RepositoryInv
  <2> QED
    BY <2>2, <2>3, WriterNumbers DEF RepositoryShapes, InPlace, Readable, Opens
<1> QED
  BY <1>1, RepositoryInvariant, PTL DEF RepositorySpec, StaysReadable

-----------------------------------------------------------------------------
(*****************************************************************************)
(* CredentialTransaction, for any number of transactions and failures: all   *)
(* or nothing.                                                               *)
(*****************************************************************************)

\* The keys are written in the order of the code and taken back in the opposite one.
IsChain(s) ==
  /\ s \in Seq(Keys) /\ Len(s) <= 3
  /\ \A i \in 1 .. Len(s) : s[i] = Order[Len(s) + 1 - i]
InChain(k, s) == \E i \in 1 .. Len(s) : k = Order[i]

\* The types; `changed` is a chain.
Shapes ==
  /\ number \in 1 .. MaxTransactions + 1 /\ at \in 1 .. 3 /\ withSeed \in BOOLEAN
  /\ stage # "over" => number > 1
  /\ stored \in [Keys -> Values] /\ originals \in [Keys -> Values]
  /\ before \in [Keys -> Values] /\ counter \in Values
  /\ IsChain(changed) /\ failed \subseteq Keys
  /\ fallback \in {"none"} \union Failures
  /\ operationFaults \in 0 .. MaxOperationFaults
  /\ stage \in {"over", "read", "write", "reset", "rollback"}
  /\ verdict \in {"none", "SUCCESS", "ROLLBACK_FAILED", "killed"} \union Failures
  /\ stage # "over" => verdict = "none"

\* While keys are read nothing is written, and what was read is what was there.
ReadsBefore ==
  stage = "read" =>
    /\ changed = <<>> /\ failed = {}
    /\ \A k \in Keys : stored[k] = before[k]
    /\ at >= 2 => originals["username"] = before["username"]
    /\ at >= 3 => originals["password"] = before["password"]

\* While keys are written the keys before this one are new, the others as they were.
WritesInOrder ==
  stage = "write" =>
    /\ failed = {} /\ Len(changed) = at - 1
    /\ at = 3 => withSeed
    /\ at >= 2 => stored["username"] = number
    /\ at < 2 => stored["username"] = before["username"]
    /\ at >= 3 => stored["password"] = number
    /\ at < 3 => stored["password"] = before["password"]
    /\ stored["totpSeed"] = before["totpSeed"]

ResetAfterAll ==
  stage = "reset" =>
    /\ withSeed /\ failed = {} /\ \A k \in Keys : stored[k] = number
    /\ Len(changed) = 3

\* From the first write on, what is needed to take everything back was read.
OriginalsAreBefore ==
  stage \in {"write", "reset", "rollback"} => \A k \in Keys : originals[k] = before[k]

\* During the rollback only the keys still to come and those that failed differ.
RollbackOwes ==
  stage = "rollback" =>
    /\ fallback \in Failures
    /\ \A k \in Keys : stored[k] # before[k] => InChain(k, changed) \/ k \in failed

\* A transaction that failed without a rollback that failed, key by key.
FailureLeavesBefore == verdict \in Failures => \A k \in Keys : stored[k] = before[k]

TransactionInv ==
  /\ Shapes /\ ReadsBefore /\ WritesInOrder /\ ResetAfterAll
  /\ OriginalsAreBefore /\ RollbackOwes
  /\ FailureLeavesBefore /\ RollbackGoesOn /\ SuccessMeansAll

-----------------------------------------------------------------------------
\* The three keys by name.
LEMMA KeysByName ==
  /\ Keys = {"username", "password", "totpSeed"}
  /\ Order[1] = "username" /\ Order[2] = "password" /\ Order[3] = "totpSeed"
<1>1. Order[1] = "username" /\ Order[2] = "password" /\ Order[3] = "totpSeed"
  BY DEF Order
<1>2. 1 .. 3 = {1, 2, 3}
  OBVIOUS
<1> QED
  BY <1>1, <1>2 DEF Keys

\* A step of the rollback takes the head of the chain and leaves the shorter chain.
LEMMA ChainTail ==
  ASSUME NEW s, IsChain(s), s # <<>>
  PROVE  /\ Head(s) \in Keys /\ IsChain(Tail(s))
         /\ \A k \in Keys : InChain(k, s) => k = Head(s) \/ InChain(k, Tail(s))
<1>1. s \in Seq(Keys) /\ Len(s) \in 1 .. 3
  <2> DEFINE n == Len(s)
  <2>1. s \in Seq(Keys) /\ n \in Nat /\ n <= 3
    BY DEF IsChain
  <2>2. n # 0
    BY <2>1, EmptySeq
  <2> HIDE DEF n
  <2>3. n \in 1 .. 3
    BY <2>1, <2>2
  <2> QED
    BY <2>1, <2>3 DEF n
<1>2. Head(s) = Order[Len(s)] /\ Head(s) \in Keys
  BY <1>1 DEF IsChain
<1>3. /\ Tail(s) \in Seq(Keys) /\ Len(Tail(s)) = Len(s) - 1
      /\ \A i \in 1 .. Len(Tail(s)) : Tail(s)[i] = s[i + 1]
  BY <1>1
<1>4. ASSUME NEW i \in 1 .. Len(Tail(s)) PROVE Tail(s)[i] = Order[Len(Tail(s)) + 1 - i]
  <2>1. i + 1 \in 1 .. Len(s) /\ Len(s) + 1 - (i + 1) = Len(Tail(s)) + 1 - i
    <3> DEFINE n == Len(s)
    <3>1. Len(Tail(s)) = n - 1 /\ n \in Nat
      BY <1>1, <1>3
    <3> HIDE DEF n
    <3>2. i + 1 \in 1 .. n /\ n + 1 - (i + 1) = (n - 1) + 1 - i
      BY <3>1
    <3> QED
      BY <3>1, <3>2 DEF n
  <2>2. s[i + 1] = Order[Len(s) + 1 - (i + 1)]
    BY <2>1 DEF IsChain
  <2> QED
    BY <1>3, <2>1, <2>2
<1>5. IsChain(Tail(s))
  BY <1>1, <1>3, <1>4 DEF IsChain
<1>6. ASSUME NEW k \in Keys, NEW i \in 1 .. Len(s), k = Order[i]
      PROVE  k = Head(s) \/ InChain(k, Tail(s))
  BY <1>1, <1>2, <1>3, <1>6 DEF InChain
<1> QED
  BY <1>2, <1>5, <1>6 DEF InChain

\* Writing the next key makes the chain longer.
LEMMA ChainGrows ==
  ASSUME NEW s, IsChain(s), NEW i \in 1 .. 3, Len(s) = i - 1
  PROVE  IsChain(<<Order[i]>> \o s) /\ Len(<<Order[i]>> \o s) = i
<1> DEFINE longer == <<Order[i]>> \o s
<1>1. s \in Seq(Keys) /\ Order[i] \in Keys /\ i \in Nat
  BY DEF IsChain, Keys
<1>2. <<Order[i]>> \in Seq(Keys) /\ Len(<<Order[i]>>) = 1 /\ <<Order[i]>>[1] = Order[i]
  BY <1>1
<1>3. /\ longer \in Seq(Keys) /\ Len(longer) = i
      /\ \A j \in 1 .. i : longer[j] = IF j = 1 THEN Order[i] ELSE s[j - 1]
  BY <1>1, <1>2
<1>4. ASSUME NEW j \in 1 .. i PROVE longer[j] = Order[i + 1 - j]
  <2>1. CASE j = 1
    BY <1>3, <2>1
  <2>2. CASE j # 1
    <3>1. j - 1 \in 1 .. Len(s) /\ Len(s) + 1 - (j - 1) = i + 1 - j
      BY <2>2
    <3>2. s[j - 1] = Order[Len(s) + 1 - (j - 1)]
      BY <3>1 DEF IsChain
    <3> QED
      BY <1>3, <2>2, <3>1, <3>2
  <2> QED
    BY <2>1, <2>2
<1> QED
  BY <1>3, <1>4 DEF IsChain

\* The values a transaction may store are values.
LEMMA NumberIsValue ==
  ASSUME number \in 1 .. MaxTransactions + 1, number > 1 PROVE number \in Values
BY TransactionAssumption DEF Values

-----------------------------------------------------------------------------
\* Before the first transaction every key has its first value, and nothing is owed.
LEMMA TransactionInvInit == TransactionInit => TransactionInv
<1> SUFFICES ASSUME TransactionInit PROVE TransactionInv
  OBVIOUS
<1>1. Shapes
  <2>1. /\ stored \in [Keys -> Values] /\ originals = stored /\ before = stored
        /\ changed = <<>> /\ failed = {} /\ number = 1 /\ at = 1 /\ withSeed = FALSE
        /\ stage = "over" /\ verdict = "none" /\ counter \in Values /\ fallback = "none"
        /\ operationFaults = 0 /\ connects = 0
    BY KeysByName, TransactionAssumption DEF TransactionInit, Values
  <2> QED
    <3>1. IsChain(changed)
      BY <2>1 DEF IsChain
    <3>2. number \in 1 .. MaxTransactions + 1 /\ operationFaults \in 0 .. MaxOperationFaults
      BY <2>1, TransactionAssumption
    <3>3. verdict \notin Failures /\ at \in 1 .. 3
      BY <2>1 DEF Failures
    <3> QED
      BY <2>1, <3>1, <3>2, <3>3 DEF Shapes
<1>2. verdict = "none" /\ stage = "over" /\ connects = 0
  BY DEF TransactionInit
<1> QED
  BY <1>1, <1>2 DEF TransactionInv, ReadsBefore, WritesInOrder, ResetAfterAll,
     OriginalsAreBefore, RollbackOwes, FailureLeavesBefore, RollbackGoesOn, SuccessMeansAll,
     Failures

\* A transaction starts with nothing read and nothing changed.
LEMMA ApplyStep ==
  ASSUME TransactionInv, NEW seed \in BOOLEAN, Apply(seed)
  PROVE  TransactionInv'
<1> USE DEF TransactionInv
<1>1. Shapes'
  <2>1. IsChain(<<>>)
    BY DEF IsChain
  <2>2. [k \in Keys |-> Absent] \in [Keys -> Values]
    BY DEF Values
  <2> QED
    BY <2>1, <2>2, TransactionAssumption DEF Apply, Shapes, Failures
<1>2. ReadsBefore'
  BY DEF Apply, ReadsBefore
<1>3. (WritesInOrder /\ ResetAfterAll /\ OriginalsAreBefore /\ RollbackOwes)'
  BY DEF Apply, WritesInOrder, ResetAfterAll, OriginalsAreBefore, RollbackOwes
<1>4. (FailureLeavesBefore /\ RollbackGoesOn /\ SuccessMeansAll)'
  BY DEF Apply, FailureLeavesBefore, RollbackGoesOn, SuccessMeansAll, Failures
<1> QED
  BY <1>1, <1>2, <1>3, <1>4

\* Reading a key takes its value, which is still the one from before the transaction.
LEMMA ReadKeyStep == ASSUME TransactionInv, ReadKey PROVE TransactionInv'
<1> USE DEF TransactionInv
<1>1. Order[at] \in Keys
  BY KeysByName DEF Shapes
<1>2. Shapes'
  BY <1>1 DEF ReadKey, Shapes
<1>3. \A k \in Keys : originals'[k] = IF k = Order[at] THEN before[k] ELSE originals[k]
  BY <1>1 DEF ReadKey, Shapes, ReadsBefore
<1>4. ReadsBefore'
  BY <1>3, KeysByName DEF ReadKey, ReadsBefore, Shapes
<1>5. stage' = "write" => \A k \in Keys : originals'[k] = before[k]
  BY <1>3, KeysByName DEF ReadKey, ReadsBefore, Shapes
<1>6. (OriginalsAreBefore /\ ResetAfterAll /\ RollbackOwes)'
  BY <1>5 DEF ReadKey, OriginalsAreBefore, ResetAfterAll, RollbackOwes
<1>7. WritesInOrder'
  BY KeysByName DEF ReadKey, WritesInOrder, ReadsBefore, Shapes
<1>8. (FailureLeavesBefore /\ RollbackGoesOn /\ SuccessMeansAll)'
  BY DEF ReadKey, Shapes, FailureLeavesBefore, RollbackGoesOn, SuccessMeansAll, Failures
<1> QED
  BY <1>2, <1>4, <1>6, <1>7, <1>8

\* Writing a key puts it at the head of what is to be taken back.
LEMMA WriteKeyStep == ASSUME TransactionInv, WriteKey PROVE TransactionInv'
<1> USE DEF TransactionInv
<1>1. Order[at] \in Keys /\ at \in {1, 2, 3}
  BY KeysByName DEF Shapes
<1>2. \A k \in Keys : stored'[k] = IF k = Order[at] THEN number ELSE stored[k]
  BY <1>1 DEF WriteKey, Shapes
<1>3. IsChain(changed') /\ Len(changed') = at
  <2>1. IsChain(changed) /\ at \in 1 .. 3 /\ Len(changed) = at - 1
    BY DEF WriteKey, WritesInOrder, Shapes
  <2> QED
    BY <2>1, ChainGrows DEF WriteKey
<1>4. Shapes'
  <2>1. stored' \in [Keys -> Values]
    BY <1>1, NumberIsValue DEF WriteKey, Shapes
  <2>2. (stage' # "over" => verdict' = "none") /\ at' \in 1 .. 3
    BY <1>1 DEF WriteKey, Succeeds, Shapes
  <2> QED
    BY <1>1, <1>3, <2>1, <2>2 DEF WriteKey, Succeeds, Shapes, txVars
<1>5. WritesInOrder'
  BY <1>1, <1>2, <1>3, KeysByName
     DEF WriteKey, Succeeds, WritesInOrder, txVars, Shapes
<1>6. (ReadsBefore /\ RollbackOwes /\ OriginalsAreBefore)'
  BY DEF WriteKey, Succeeds, ReadsBefore, RollbackOwes, OriginalsAreBefore, txVars
<1>7. ResetAfterAll'
  BY <1>1, <1>2, <1>3, KeysByName DEF WriteKey, Succeeds, ResetAfterAll, WritesInOrder, txVars
<1>8. FailureLeavesBefore' /\ RollbackGoesOn'
  BY DEF WriteKey, Succeeds, Shapes, FailureLeavesBefore, RollbackGoesOn, Failures
<1>9. SuccessMeansAll'
  BY <1>1, <1>2, KeysByName
     DEF WriteKey, Succeeds, SuccessMeansAll, WritesInOrder, Shapes, txVars
<1> QED
  BY <1>4, <1>5, <1>6, <1>7, <1>8, <1>9

\* The counter is reset when every key is the new one, and that is the end.
LEMMA ResetCounterStep == ASSUME TransactionInv, ResetCounter PROVE TransactionInv'
<1> USE DEF TransactionInv
<1>1. Shapes'
  BY DEF ResetCounter, Succeeds, Shapes, txVars, Values
<1>2. (ReadsBefore /\ WritesInOrder /\ ResetAfterAll /\ OriginalsAreBefore /\ RollbackOwes)'
  BY DEF ResetCounter, Succeeds, ReadsBefore, WritesInOrder, ResetAfterAll,
     OriginalsAreBefore, RollbackOwes
<1>3. (FailureLeavesBefore /\ RollbackGoesOn)'
  BY DEF ResetCounter, Succeeds, FailureLeavesBefore, RollbackGoesOn, Failures
<1>4. SuccessMeansAll'
  BY KeysByName DEF ResetCounter, Succeeds, SuccessMeansAll, ResetAfterAll, Shapes, txVars
<1> QED
  BY <1>1, <1>2, <1>3, <1>4

\* A call that fails turns the transaction to its rollback, which owes what was written.
LEMMA OperationFailsStep == ASSUME TransactionInv, OperationFails PROVE TransactionInv'
<1> USE DEF TransactionInv
<1>1. Shapes'
  BY TransactionAssumption DEF OperationFails, Faulty, Shapes, txVars, Failures
<1>2. (ReadsBefore /\ WritesInOrder /\ ResetAfterAll)'
  BY DEF OperationFails, ReadsBefore, WritesInOrder, ResetAfterAll
<1>3. OriginalsAreBefore'
  BY DEF OperationFails, OriginalsAreBefore, txVars
<1>4. RollbackOwes'
  <2>1. CASE stage = "write"
    <3>1. \A k \in Keys : stored[k] # before[k] => InChain(k, changed)
      <4>1. at \in {1, 2, 3}
        BY DEF Shapes
      <4> QED
        BY <2>1, <4>1, KeysByName DEF WritesInOrder, InChain, Shapes, IsChain
    <3> QED
      BY <2>1, <3>1 DEF OperationFails, RollbackOwes, txVars, Failures
  <2>2. CASE stage = "reset"
    <3>1. \A k \in Keys : InChain(k, changed)
      <4>1. Keys = {Order[i] : i \in 1 .. 3} /\ Len(changed) = 3
        BY <2>2 DEF Keys, ResetAfterAll
      <4> QED
        BY <4>1 DEF InChain
    <3> QED
      BY <2>2, <3>1 DEF OperationFails, RollbackOwes, txVars, Failures
  <2> QED
    BY <2>1, <2>2 DEF OperationFails, RollbackOwes
<1>5. (FailureLeavesBefore /\ RollbackGoesOn /\ SuccessMeansAll)'
  BY DEF OperationFails, ReadsBefore, FailureLeavesBefore, RollbackGoesOn, SuccessMeansAll,
     Failures, Shapes, txVars
<1> QED
  BY <1>1, <1>2, <1>3, <1>4, <1>5

\* A key taken back is as before; one whose rollback fails is remembered.
LEMMA RollbackKeyStep ==
  ASSUME TransactionInv, NEW fails \in BOOLEAN, RollbackKey(fails)
  PROVE  TransactionInv'
<1> USE DEF TransactionInv
<1> DEFINE key == Head(changed)
<1>1. /\ key \in Keys /\ IsChain(Tail(changed))
      /\ \A k \in Keys : InChain(k, changed) => k = key \/ InChain(k, Tail(changed))
  BY ChainTail DEF RollbackKey, Shapes
<1>2. changed' = Tail(changed) /\ stage = "rollback" /\ stage' = "rollback"
  BY DEF RollbackKey
<1>3. IF fails THEN failed' = failed \union {key} /\ stored' = stored
      ELSE failed' = failed /\ stored' = [stored EXCEPT ![key] = originals[key]]
  BY DEF RollbackKey
<1> HIDE DEF key
<1>4. Shapes'
  <2>1. stored' \in [Keys -> Values] /\ failed' \subseteq Keys
    BY <1>1, <1>3 DEF Shapes
  <2>2. operationFaults' \in 0 .. MaxOperationFaults
    BY TransactionAssumption DEF RollbackKey, Faulty, Shapes
  <2> QED
    BY <1>1, <1>2, <2>1, <2>2 DEF RollbackKey, Shapes, txVars
<1>5. RollbackOwes'
  <2>1. fallback' \in Failures /\ before' = before
    BY DEF RollbackKey, RollbackOwes, txVars
  <2>2. ASSUME NEW k \in Keys, stored'[k] # before[k]
        PROVE  InChain(k, Tail(changed)) \/ k \in failed'
    <3>1. stored[k] # before[k]
      BY <1>1, <1>2, <1>3, <2>2 DEF Shapes, OriginalsAreBefore
    <3>2. InChain(k, changed) \/ k \in failed
      BY <3>1, <1>2 DEF RollbackOwes
    <3>3. k = key => fails
      BY <1>1, <1>2, <1>3, <2>2 DEF Shapes, OriginalsAreBefore
    <3> QED
      BY <1>1, <1>3, <3>2, <3>3
  <2> QED
    BY <1>2, <2>1, <2>2 DEF RollbackOwes
<1>6. (ReadsBefore /\ WritesInOrder /\ ResetAfterAll)'
  BY <1>2 DEF ReadsBefore, WritesInOrder, ResetAfterAll
<1>7. OriginalsAreBefore'
  BY <1>2 DEF RollbackKey, OriginalsAreBefore, txVars
<1>8. (FailureLeavesBefore /\ RollbackGoesOn /\ SuccessMeansAll)'
  BY <1>2 DEF RollbackKey, Shapes, FailureLeavesBefore, RollbackGoesOn, SuccessMeansAll, Failures
<1> QED
  BY <1>4, <1>5, <1>6, <1>7, <1>8

\* The rollback ends with the first failure, or with ROLLBACK_FAILED when a key is left.
LEMMA RollbackEndsStep == ASSUME TransactionInv, RollbackEnds PROVE TransactionInv'
<1> USE DEF TransactionInv
<1>1. Shapes'
  BY DEF RollbackEnds, Shapes, RollbackOwes, txVars
<1>2. (ReadsBefore /\ WritesInOrder /\ ResetAfterAll /\ OriginalsAreBefore /\ RollbackOwes)'
  BY DEF RollbackEnds, ReadsBefore, WritesInOrder, ResetAfterAll, OriginalsAreBefore, RollbackOwes
<1>3. \A k \in Keys : stored[k] # before[k] => k \in failed
  BY DEF RollbackEnds, RollbackOwes, InChain
<1>4. FailureLeavesBefore' /\ RollbackGoesOn'
  BY <1>3 DEF RollbackEnds, FailureLeavesBefore, RollbackGoesOn, Failures, RollbackOwes, txVars
<1>5. SuccessMeansAll'
  BY DEF RollbackEnds, SuccessMeansAll, Failures, RollbackOwes, Shapes
<1> QED
  BY <1>1, <1>2, <1>4, <1>5

\* A transaction that is cut off promises nothing.
LEMMA TransactionKilledStep == ASSUME TransactionInv, TransactionKilled PROVE TransactionInv'
<1> USE DEF TransactionInv
<1>1. Shapes'
  BY TransactionAssumption DEF TransactionKilled, Faulty, Shapes, txVars
<1>2. (ReadsBefore /\ WritesInOrder /\ ResetAfterAll /\ OriginalsAreBefore /\ RollbackOwes)'
  BY DEF TransactionKilled, ReadsBefore, WritesInOrder, ResetAfterAll, OriginalsAreBefore,
     RollbackOwes
<1>3. (FailureLeavesBefore /\ RollbackGoesOn /\ SuccessMeansAll)'
  BY DEF TransactionKilled, FailureLeavesBefore, RollbackGoesOn, SuccessMeansAll, Failures, Shapes
<1> QED
  BY <1>1, <1>2, <1>3

\* A code used between two transactions moves the counter alone.
LEMMA UseCodeStep == ASSUME TransactionInv, UseCode PROVE TransactionInv'
<1> USE DEF TransactionInv
<1>1. Shapes'
  BY KeysByName DEF UseCode, Shapes, txVars
<1>2. (ReadsBefore /\ WritesInOrder /\ ResetAfterAll /\ OriginalsAreBefore /\ RollbackOwes)'
  BY DEF UseCode, ReadsBefore, WritesInOrder, ResetAfterAll, OriginalsAreBefore, RollbackOwes,
     txVars, InChain
<1>3. (FailureLeavesBefore /\ RollbackGoesOn)'
  BY DEF UseCode, FailureLeavesBefore, RollbackGoesOn, txVars
<1>4. SuccessMeansAll'
  BY DEF UseCode, SuccessMeansAll, txVars
<1> QED
  BY <1>1, <1>2, <1>3, <1>4

\* A step that changes nothing.
LEMMA TransactionIdles ==
  ASSUME TransactionInv, UNCHANGED transactionVars PROVE TransactionInv'
<1> USE DEF TransactionInv, transactionVars, txVars
<1>1. Shapes'
  BY DEF Shapes
<1>2. (ReadsBefore /\ WritesInOrder /\ ResetAfterAll /\ OriginalsAreBefore /\ RollbackOwes)'
  BY DEF ReadsBefore, WritesInOrder, ResetAfterAll, OriginalsAreBefore, RollbackOwes, InChain
<1>3. (FailureLeavesBefore /\ RollbackGoesOn /\ SuccessMeansAll)'
  BY DEF FailureLeavesBefore, RollbackGoesOn, SuccessMeansAll
<1> QED
  BY <1>1, <1>2, <1>3

\* The inductive invariant of the transaction: at every step what is not as it was before is
\* accounted for, and the means to take it back are at hand.
THEOREM TransactionInvariant == TransactionSpec => []TransactionInv
<1>1. TransactionInv /\ [TransactionNext]_transactionVars => TransactionInv'
  BY ApplyStep, ReadKeyStep, WriteKeyStep, ResetCounterStep, OperationFailsStep,
     RollbackKeyStep, RollbackEndsStep, TransactionKilledStep, UseCodeStep, TransactionIdles
     DEF TransactionNext
<1> QED
  BY <1>1, TransactionInvInit, PTL DEF TransactionSpec

\* A transaction that reports a failure, other than one of its rollback, has left the
\* credentials as they were, whatever failed and whatever was killed before it.
THEOREM FailuresRestore == TransactionSpec => []FailureRestores
<1>1. TransactionInv => FailureRestores
  <2> SUFFICES ASSUME TransactionInv, verdict \in Failures PROVE stored = before
    BY DEF FailureRestores
  <2>1. [k \in Keys |-> stored[k]] = [k \in Keys |-> before[k]]
    BY DEF TransactionInv, FailureLeavesBefore
  <2> QED
    BY <2>1 DEF TransactionInv, Shapes
<1> QED
  BY <1>1, TransactionInvariant, PTL

\* A rollback that fails for some of the keys has restored all the others.
THEOREM RollbacksGoOn == TransactionSpec => []RollbackGoesOn
<1>1. TransactionInv => RollbackGoesOn
  BY DEF TransactionInv
<1> QED
  BY <1>1, TransactionInvariant, PTL

\* A transaction that reports success has stored everything and leaves no state of the
\* counter for another seed.
THEOREM SuccessIsComplete == TransactionSpec => []SuccessMeansAll
<1>1. TransactionInv => SuccessMeansAll
  BY DEF TransactionInv
<1> QED
  BY <1>1, TransactionInvariant, PTL

\* All of it at once: what the run of MCFiles checks on a small instance.
THEOREM TransactionsAreAllOrNothing == TransactionSpec => []AllOrNothing
<1>1. TransactionInv => TransactionTypeOK
  <2> SUFFICES ASSUME TransactionInv PROVE TransactionTypeOK
    OBVIOUS
  <2>1. changed \in Seq(Keys) /\ Len(changed) <= 3
    BY DEF TransactionInv, Shapes, IsChain
  <2>2. connects \in 0 .. 1
    BY DEF TransactionInv, SuccessMeansAll
  <2> QED
    BY <2>1, <2>2 DEF TransactionInv, Shapes, TransactionTypeOK
<1> QED
  BY <1>1, TransactionInvariant, FailuresRestore, RollbacksGoOn, SuccessIsComplete, PTL
     DEF AllOrNothing

=============================================================================
