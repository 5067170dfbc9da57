------------------------- MODULE CredentialRepository -------------------------
(***********************************************************************************)
(* LinuxCredentialRepository, MacCredentialRepository and                          *)
(* WindowsCredentialRepository: the credentials are sealed with a key that lives   *)
(* in a file of its own and is made once; both files are replaced through a        *)
(* temporary file whose name only depends on the process.                          *)
(*                                                                                 *)
(* The handler of the service runs replace, load and present in spawn_blocking     *)
(* without a lock.  Windows serves one client at a time; on Linux and macOS the    *)
(* connections of two clients are served at once, so replacements overlap here as  *)
(* they like.  A file is named by the request that wrote it, and a request whose   *)
(* temporary file was renamed or removed by another one goes on writing to it.     *)
(* A reader is load.                                                               *)
(***********************************************************************************)
EXTENDS Integers, FiniteSets

CONSTANTS
  MaxRequests,   (* bound on the requests to replace the credentials                   *)
  MaxReads,      (* bound on the loads                                              *)
  MaxRequestFaults (* bound on the calls that fail and the crashes                      *)

ASSUME CredentialAssumption ==
  MaxRequests \in Nat /\ MaxReads \in Nat /\ MaxRequestFaults \in Nat

VARIABLES
  phase,     (* per request, its next call                                         *)
  part,      (* per request, the file it is about: "key" or "env"                     *)
  sealed,    (* per request, whose key its credentials are sealed with                 *)
  outcome,   (* per request, its answer                                            *)
  named,     (* whose key and whose credentials are in place                         *)
  draft,     (* whose temporary file has the name                                   *)
  whole,     (* the files that are written to the end                               *)
  reader,    (* the load that runs, or the last one                                 *)
  past,      (* history: per request, whose were over when it began                 *)
  crossed,   (* history: whether two requests got in each other's way (Crosses)     *)
  reads, requestFaults

requestVars == <<phase, part, sealed, outcome>>
traces == <<past, crossed>>
repositoryVars == <<requestVars, named, draft, whole, reader, traces, reads, requestFaults>>

None == 0
Earlier == 1                       \* who installed the credentials before
Requests == 2 .. MaxRequests + 1
Writers == {Earlier} \union Requests
Parts == {"key", "env"}
RequestSteps == {"waiting", "look", "create", "write", "rename", "finish", "reload",
                 "cleanup", "over"}

Active(r) == phase[r] \notin {"waiting", "over"}

\* What load, and present after both files were found, make of the two files.
Opens(key, env) ==
  /\ key # None /\ <<key, "key">> \in whole
  /\ env # None /\ <<env, "env">> \in whole
  /\ sealed[env] = key

Readable == Opens(named["key"], named["env"])

-----------------------------------------------------------------------------
(* replace.                                                                  *)

\* Requests are numbered in the order in which they begin, whatever others are under way.
Begin(r) ==
  /\ phase[r] = "waiting" /\ \A q \in Requests : q < r => phase[q] # "waiting"
  /\ phase' = [phase EXCEPT ![r] = "look"]
  /\ past' = [past EXCEPT ![r] = {Earlier} \union {q \in Requests : phase[q] = "over"}]
  /\ UNCHANGED <<part, sealed, outcome, named, draft, whole, crossed, reads, requestFaults>>

\* Proceeds on with credentials sealed with the key that is in place.
Seal(r) ==
  IF <<named["key"], "key">> \in whole
  THEN /\ sealed' = [sealed EXCEPT ![r] = named["key"]]
       /\ part' = [part EXCEPT ![r] = "env"]
       /\ phase' = [phase EXCEPT ![r] = "create"]
       /\ UNCHANGED outcome
  ELSE /\ phase' = [phase EXCEPT ![r] = "over"]
       /\ outcome' = [outcome EXCEPT ![r] = "failed"]
       /\ UNCHANGED <<part, sealed>>

Defect_NewKey(r) ==
  /\ phase[r] = "look"
  /\ part' = [part EXCEPT ![r] = "key"] /\ phase' = [phase EXCEPT ![r] = "create"]
  /\ UNCHANGED <<sealed, outcome, named, draft, whole, traces, reads, requestFaults>>

\* load_or_create_key.
LookForKey(r) ==
  /\ phase[r] = "look"
  /\ IF named["key"] # None THEN Seal(r)
     ELSE /\ part' = [part EXCEPT ![r] = "key"] /\ phase' = [phase EXCEPT ![r] = "create"]
          /\ UNCHANGED <<sealed, outcome>>
  /\ UNCHANGED <<named, draft, whole, traces, reads, requestFaults>>

\* atomic_private_write, of the key or of the credentials.
Proceeds(r, to) == phase' = [phase EXCEPT ![r] = to] /\ UNCHANGED <<part, sealed, outcome>>

CreateDraft(r) ==
  /\ phase[r] = "create"
  /\ IF draft[part[r]] = None
     THEN draft' = [draft EXCEPT ![part[r]] = r] /\ Proceeds(r, "write")
     ELSE UNCHANGED draft /\ Proceeds(r, "cleanup")
  /\ UNCHANGED <<named, whole, traces, reads, requestFaults>>

WriteDraft(r) ==
  /\ phase[r] = "write" /\ Proceeds(r, "rename")
  /\ whole' = whole \union {<<r, part[r]>>}
  /\ UNCHANGED <<named, draft, traces, reads, requestFaults>>

\* Requests that overlap get in each other's way: r puts its key in the place of one that
\* was made since it began, or takes the temporary file of another for its own, which was
\* removed by a third that found it in its way.
Crosses(r) ==
  \/ part[r] = "key" /\ named["key"] \notin {None} \union past[r]
  \/ draft[part[r]] \notin {r} \union past[r]

RenameDraft(r) ==
  /\ phase[r] = "rename"
  /\ IF draft[part[r]] = None THEN Proceeds(r, "cleanup") /\ UNCHANGED <<named, draft>>
     ELSE /\ named' = [named EXCEPT ![part[r]] = draft[part[r]]]
          /\ draft' = [draft EXCEPT ![part[r]] = None]
          /\ Proceeds(r, "finish")
  /\ crossed' = (crossed \/ (draft[part[r]] # None /\ Crosses(r)))
  /\ UNCHANGED <<whole, past, reads, requestFaults>>

\* set_permissions, and on macOS the sync of the directory.
FinishPart(r) ==
  /\ phase[r] = "finish"
  /\ IF part[r] = "key" THEN Proceeds(r, "reload")
     ELSE /\ phase' = [phase EXCEPT ![r] = "over"]
          /\ outcome' = [outcome EXCEPT ![r] = "ok"]
          /\ UNCHANGED <<part, sealed>>
  /\ UNCHANGED <<named, draft, whole, traces, reads, requestFaults>>

\* The key is loaded again from where it was stored, whoever stored it.
Reload(r) ==
  /\ phase[r] = "reload" /\ Seal(r)
  /\ UNCHANGED <<named, draft, whole, traces, reads, requestFaults>>

RequestCallFails(r) ==
  /\ phase[r] \in {"create", "write", "rename", "finish"}
  /\ requestFaults < MaxRequestFaults /\ requestFaults' = requestFaults + 1
  /\ Proceeds(r, "cleanup")
  /\ UNCHANGED <<named, draft, whole, traces, reads>>

Defect_FailureSwallowed(r) ==
  /\ phase[r] = "cleanup"
  /\ draft' = [draft EXCEPT ![part[r]] = None]
  /\ phase' = [phase EXCEPT ![r] = "over"]
  /\ outcome' = [outcome EXCEPT ![r] = "ok"]
  /\ UNCHANGED <<part, sealed, named, whole, traces, reads, requestFaults>>

\* Whatever has the name of the temporary file is removed.
RemoveDraft(r) ==
  /\ phase[r] = "cleanup"
  /\ draft' = [draft EXCEPT ![part[r]] = None]
  /\ phase' = [phase EXCEPT ![r] = "over"]
  /\ outcome' = [outcome EXCEPT ![r] = "failed"]
  /\ UNCHANGED <<part, sealed, named, whole, traces, reads, requestFaults>>

-----------------------------------------------------------------------------
(* load, and what may happen at any time.                                     *)

\* Whose credentials are older than some that were acknowledged.
Replaced == UNION {past[r] : r \in {q \in Requests : outcome[q] = "ok"}}

\* `steady`: the files could be opened all the time; `older`: whose credentials had been
\* replaced when the load began.
BeginLoad ==
  /\ reads < MaxReads /\ reads' = reads + 1
  /\ reader.phase \in {"idle", "over"}
  /\ reader' = [phase |-> "key", key |-> None, got |-> None, steady |-> Readable,
                older |-> Replaced]
  /\ UNCHANGED <<requestVars, named, draft, whole, traces, requestFaults>>

LoadKey ==
  /\ reader.phase = "key"
  /\ IF named["key"] = None THEN reader' = [reader EXCEPT !.phase = "over"]
     ELSE reader' = [reader EXCEPT !.phase = "env", !.key = named["key"]]
  /\ UNCHANGED <<requestVars, named, draft, whole, traces, reads, requestFaults>>

LoadEnvelope ==
  /\ reader.phase = "env"
  /\ reader' = [reader EXCEPT !.phase = "over",
                              !.got = IF Opens(reader.key, named["env"]) THEN named["env"]
                                      ELSE None]
  /\ UNCHANGED <<requestVars, named, draft, whole, traces, reads, requestFaults>>

\* The service is killed and started again, with the same process id or another.
RepositoryCrash ==
  /\ requestFaults < MaxRequestFaults /\ requestFaults' = requestFaults + 1
  /\ phase' = [r \in Requests |-> IF Active(r) THEN "over" ELSE phase[r]]
  /\ outcome' = [r \in Requests |-> IF Active(r) THEN "lost" ELSE outcome[r]]
  /\ draft' \in {draft, [p \in Parts |-> None]}
  /\ reader' = [reader EXCEPT !.phase = "idle"]
  /\ UNCHANGED <<part, sealed, named, whole, traces, reads>>

-----------------------------------------------------------------------------
RepositoryInit ==
  /\ phase = [r \in Requests |-> "waiting"] /\ part = [r \in Requests |-> "key"]
  /\ sealed = [w \in Writers |-> Earlier] /\ outcome = [r \in Requests |-> "none"]
  /\ draft = [p \in Parts |-> None]
  /\ \/ named = [p \in Parts |-> None] /\ whole = {}
     \/ named = [p \in Parts |-> Earlier] /\ whole = {<<Earlier, p>> : p \in Parts}
  /\ reader = [phase |-> "idle", key |-> None, got |-> None, steady |-> FALSE, older |-> {}]
  /\ past = [r \in Requests |-> {}] /\ crossed = FALSE
  /\ reads = 0 /\ requestFaults = 0

\* The reader notices when the files cannot be opened.
Watched == reader' = [reader EXCEPT !.steady = @ /\ Readable']

Replacing(r) ==
  /\ \/ Begin(r) \/ LookForKey(r)
     \/ CreateDraft(r) \/ WriteDraft(r) \/ RenameDraft(r) \/ FinishPart(r) \/ Reload(r)
     \/ RequestCallFails(r) \/ RemoveDraft(r)
  /\ Watched

RepositoryNext ==
  \/ \E r \in Requests : Replacing(r)
  \/ BeginLoad \/ LoadKey \/ LoadEnvelope
  \/ RepositoryCrash

RepositorySpec == RepositoryInit /\ [][RepositoryNext]_repositoryVars

-----------------------------------------------------------------------------
(* Properties.                                                               *)

\* Types; and what is in place is written to the end, unless a request took another's
\* temporary file for its own.
CredentialTypeOK ==
  /\ \A r \in Requests : /\ phase[r] \in RequestSteps /\ part[r] \in Parts
                         /\ sealed[r] \in Writers
                         /\ outcome[r] \in {"none", "ok", "failed", "lost"}
                         /\ past[r] \subseteq Writers
  /\ named \in [Parts -> {None} \union Writers]
  /\ draft \in [Parts -> {None} \union Writers]
  /\ whole \subseteq Writers \X Parts /\ crossed \in BOOLEAN
  /\ reader.phase \in {"idle", "key", "env", "over"}
  /\ crossed \/ \A p \in Parts : named[p] # None => <<named[p], p>> \in whole

\* Stored credentials stay readable: no replacement, whether it fails, is cut short by a
\* crash or runs beside another, leaves a key and credentials that do not belong together.
\* Two clients can break this, in the two ways of Crosses and in no other: two that find no
\* key may both make one, and both be acknowledged, with credentials sealed with the key
\* that was lost; and of three that share the name of their temporary file, one may put
\* that of another in place before it is written.  Where requests do not overlap neither
\* happens, since what Crosses asks for was made by a request that was not over.
StaysReadable == [][Readable => Readable' \/ crossed']_repositoryVars

\* An acknowledged replacement can be read, and what is in place is its own or of one that
\* was not over when it began, unless requests crossed.
AckIsKept ==
  crossed \/ \A r \in Requests : outcome[r] = "ok" => Readable /\ named["env"] \notin past[r]

\* A load while credentials are being replaced returns the old or the new ones, and never
\* any that had been replaced, and that replacement acknowledged, before it began; unless
\* requests crossed.
LoadsOldOrNew ==
  reader.phase = "over" /\ reader.steady /\ ~crossed =>
    reader.got # None /\ reader.got \notin reader.older

\* What is acknowledged is there, and what is loaded is not older.
RepositorySound == CredentialTypeOK /\ AckIsKept /\ LoadsOldOrNew

=============================================================================
