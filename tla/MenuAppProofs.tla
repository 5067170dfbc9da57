---------------------------- MODULE MenuAppProofs ----------------------------
(* Proofs about MenuApp for any number of attempts and inputs. *)
EXTENDS MenuApp, SequenceTheorems, TLAPS

Lookups == {"status", "otp"}
Requests ==
  [what : Operations \union Lookups, fresh : BOOLEAN,
   answer : {None, "ok", "unavailable", "failed", "unknown"} \union Statuses]

\* The coordinator alone: what its flags say about each other and about the gate.
Coordinator ==
  [gate : {None} \union Operations, startup : BOOLEAN, retry : BOOLEAN,
   attempts : 0 .. MaximumAttempts, paused : BOOLEAN, pending : BOOLEAN,
   terminating : BOOLEAN, attached : BOOLEAN, resolved : BOOLEAN]

FlagsAgree(a) ==
  /\ a.startup => a.gate = "connect" /\ a.attempts < MaximumAttempts
  /\ a.retry => a.gate = None /\ ~a.paused /\ ~a.terminating /\ a.attempts < MaximumAttempts
  /\ a.pending => a.paused /\ ~a.terminating /\ a.gate \in {"connect", "reconnect"}
  /\ a.gate = "quit" => a.terminating
  /\ a.attached => a.terminating /\ a.gate = "disconnect"

\* The queue holds the operation of the gate and the lookup of the refresh, nothing else.
\* An acknowledged disconnect holds; and a refresh that need not be repeated is still
\* going to ask for the status, if that is behind.
IsControl(x, gate, on) ==
  /\ x \in Requests /\ x.what = gate /\ gate \in Operations
  /\ gate \in {"disconnect", "quit"} /\ x.answer = "ok" => ~on
IsLookup(y, stage, late) ==
  /\ y \in Requests /\ y.what \in Lookups /\ stage \in {"active", "again"}
  /\ y.what = "status" => y.answer \in {None, "unknown"} \union Statuses
  /\ stage = "active" /\ late => y.what = "status" /\ y.fresh

Holds(list, gate, stage, late, on) ==
  \/ list = <<>> /\ gate = None /\ stage = "idle"
  \/ \E x \in Requests : list = <<x>> /\ IsControl(x, gate, on) /\ stage = "idle"
  \/ \E y \in Requests : list = <<y>> /\ gate = None /\ IsLookup(y, stage, late)
  \/ \E x, y \in Requests : /\ list = <<x, y>> \/ list = <<y, x>>
                            /\ IsControl(x, gate, on) /\ IsLookup(y, stage, late)

\* What was sent last and what the user asked for last.
HistoryAgrees ==
  /\ lastSent \in Operations /\ wish \in {None, "off"}
  /\ app.gate # None => lastSent = app.gate
  /\ wish = "off" => app.paused /\ ~app.terminating /\ app.gate # "credentialSave"
  /\ wish = "off" /\ ~refused =>
       \/ app.gate \in {None, "disconnect"} /\ lastSent = "disconnect"
       \/ app.pending

MenuInv ==
  /\ app \in Coordinator /\ FlagsAgree(app)
  /\ Holds(queue, app.gate, refresh, behind, wanted)
  /\ shown \in {"unknown"} \union Statuses
  /\ behind \in BOOLEAN /\ wanted \in BOOLEAN /\ refused \in BOOLEAN
  /\ behind => refresh # "idle"
  /\ ~payload /\ HistoryAgrees /\ QuitDisconnects

-----------------------------------------------------------------------------
(* The queue.                                                                *)

LEMMA Tuples ==
  ASSUME NEW x \in Requests, NEW y \in Requests
  PROVE  /\ Append(<<>>, x) = <<x>> /\ Append(<<x>>, y) = <<x, y>>
         /\ Head(<<x>>) = x /\ Tail(<<x>>) = <<>>
         /\ Head(<<x, y>>) = x /\ Tail(<<x, y>>) = <<y>>
         /\ <<x>> # <<>> /\ <<x, y>> # <<>> /\ <<x>> # <<x, y>>
<1>1. Append(<<>>, x) = <<x>>
  OBVIOUS
<1>2. Append(<<x>>, y) = <<x, y>>
  <2>1. /\ <<x>> \in Seq(Requests) /\ Len(<<x>>) = 1 /\ <<x>>[1] = x
        /\ <<x, y>> \in Seq(Requests) /\ Len(<<x, y>>) = 2
        /\ <<x, y>>[1] = x /\ <<x, y>>[2] = y
    OBVIOUS
  <2> DEFINE l == Append(<<x>>, y)
  <2>2. l \in Seq(Requests) /\ Len(l) = 2 /\ l[1] = x /\ l[2] = y
    BY <2>1, AppendProperties
  <2> HIDE DEF l
  <2>3. \A i \in 1 .. Len(l) : l[i] = <<x, y>>[i]
    BY <2>1, <2>2
  <2>4. l = <<x, y>>
    BY <2>1, <2>2, <2>3, SeqEqual
  <2> QED BY <2>4 DEF l
<1>3. Head(<<x>>) = x /\ Tail(<<x>>) = <<>>
  OBVIOUS
<1>4. Head(<<x, y>>) = x /\ Tail(<<x, y>>) = <<y>>
  OBVIOUS
<1>5. <<x>> # <<>> /\ <<x, y>> # <<>>
  OBVIOUS
<1>6. <<x>> # <<x, y>>
  OBVIOUS
<1> QED BY <1>1, <1>2, <1>3, <1>4, <1>5, <1>6

LEMMA NewRequests ==
  /\ \A op \in Operations : ControlRequest(op) \in Requests
  /\ StatusRequest \in Requests /\ OTPRequest \in Requests
  BY DEF Requests, ControlRequest, StatusRequest, OTPRequest, Lookups

LEMMA NamesDiffer == Operations \cap Lookups = {} /\ None \notin Operations
  BY DEF Operations, Lookups, None

\* An operation is sent while none is on its way.
LEMMA ControlAdded ==
  ASSUME NEW list, NEW op \in Operations, NEW stage, NEW late \in BOOLEAN,
         NEW on \in BOOLEAN, Holds(list, None, stage, late, on)
  PROVE  Holds(Append(list, ControlRequest(op)), op, stage, late, on)
<1> DEFINE c == ControlRequest(op)
<1>1. c \in Requests /\ IsControl(c, op, on)
  BY NewRequests DEF IsControl, ControlRequest, None
<1>2. \A x \in Requests : ~IsControl(x, None, on)
  BY NamesDiffer DEF IsControl
<1>3. CASE list = <<>> /\ stage = "idle"
  BY <1>1, <1>3, Tuples DEF Holds
<1>4. CASE \E y \in Requests : list = <<y>> /\ IsLookup(y, stage, late)
  <2>1. PICK y \in Requests : list = <<y>> /\ IsLookup(y, stage, late)
    BY <1>4
  <2>2. Append(list, c) = <<y, c>>
    BY <2>1, <1>1, Tuples
  <2> HIDE DEF c
  <2> QED BY <1>1, <2>1, <2>2 DEF Holds, c
<1> QED BY <1>2, <1>3, <1>4 DEF Holds

\* A refresh begins while none is under way.
LEMMA StatusAdded ==
  ASSUME NEW list, NEW gate, NEW late \in BOOLEAN, NEW after \in BOOLEAN,
         NEW on \in BOOLEAN, Holds(list, gate, "idle", late, on)
  PROVE  Holds(Append(list, StatusRequest), gate, "active", after, on)
<1> DEFINE s == StatusRequest
<1>1. s \in Requests /\ IsLookup(s, "active", after)
  BY NewRequests DEF IsLookup, StatusRequest, Lookups
<1>2. \A y : ~IsLookup(y, "idle", late)
  BY DEF IsLookup
<1>3. CASE list = <<>> /\ gate = None
  BY <1>1, <1>3, Tuples DEF Holds
<1>4. CASE \E x \in Requests : list = <<x>> /\ IsControl(x, gate, on)
  <2>1. PICK x \in Requests : list = <<x>> /\ IsControl(x, gate, on)
    BY <1>4
  <2>2. Append(list, s) = <<x, s>>
    BY <2>1, <1>1, Tuples
  <2> HIDE DEF s
  <2> QED BY <1>1, <2>1, <2>2 DEF Holds, s
<1> QED BY <1>2, <1>3, <1>4 DEF Holds

\* The lookup under way is the one a fresh refresh appends after the first.
LEMMA OTPAdded ==
  ASSUME NEW list, NEW gate, NEW late \in BOOLEAN, NEW on \in BOOLEAN,
         Holds(list, gate, "idle", late, on)
  PROVE  Holds(Append(list, OTPRequest), gate, "active", FALSE, on)
<1> DEFINE s == OTPRequest
<1>1. s \in Requests /\ IsLookup(s, "active", FALSE)
  BY NewRequests DEF IsLookup, OTPRequest, Lookups
<1>2. \A y : ~IsLookup(y, "idle", late)
  BY DEF IsLookup
<1>3. CASE list = <<>> /\ gate = None
  BY <1>1, <1>3, Tuples DEF Holds
<1>4. CASE \E x \in Requests : list = <<x>> /\ IsControl(x, gate, on)
  <2>1. PICK x \in Requests : list = <<x>> /\ IsControl(x, gate, on)
    BY <1>4
  <2>2. Append(list, s) = <<x, s>>
    BY <2>1, <1>1, Tuples
  <2> HIDE DEF s
  <2> QED BY <1>1, <2>1, <2>2 DEF Holds, s
<1> QED BY <1>2, <1>3, <1>4 DEF Holds

\* A refresh under way is to be repeated.
LEMMA RefreshRepeated ==
  ASSUME NEW list, NEW gate, NEW stage, stage # "idle", NEW late \in BOOLEAN,
         NEW after \in BOOLEAN, NEW on \in BOOLEAN, Holds(list, gate, stage, late, on)
  PROVE  Holds(list, gate, "again", after, on)
<1>1. \A y : IsLookup(y, stage, late) => IsLookup(y, "again", after)
  BY DEF IsLookup
<1> QED BY <1>1 DEF Holds

\* What ForceRefresh and CompleteRefresh leave, in one piece.
LEMMA Forced ==
  ASSUME NEW list, NEW gate, NEW late \in BOOLEAN, NEW after \in BOOLEAN,
         NEW on \in BOOLEAN, refresh \in {"idle", "active", "again"},
         NEW stage, stage = "idle" <=> refresh = "idle",
         Holds(list, gate, stage, late, on), ForceRefresh(list)
  PROVE  Holds(queue', gate, refresh', after, on) /\ refresh' # "idle"
<1>1. CASE refresh = "idle"
  <2>1. Holds(Append(list, StatusRequest), gate, "active", after, on)
    BY <1>1, StatusAdded
  <2> QED BY <1>1, <2>1 DEF ForceRefresh
<1>2. CASE refresh # "idle"
  <2>1. Holds(list, gate, "again", after, on)
    BY <1>2, RefreshRepeated
  <2> QED BY <1>2, <2>1 DEF ForceRefresh
<1> QED BY <1>1, <1>2

\* The oldest request is an operation: it is the one of the gate.
LEMMA ControlTaken ==
  ASSUME NEW list, NEW gate, NEW stage, NEW late \in BOOLEAN, NEW on \in BOOLEAN,
         Holds(list, gate, stage, late, on), list # <<>>, Head(list).what \in Operations
  PROVE  /\ IsControl(Head(list), gate, on)
         /\ Holds(Outdated(Tail(list)), None, IF stage = "idle" THEN "idle" ELSE "again",
                  TRUE, on)
<1>1. \A y : ~(IsLookup(y, stage, late) /\ y.what \in Operations)
  BY NamesDiffer DEF IsLookup
<1>2. CASE \E x \in Requests : list = <<x>> /\ IsControl(x, gate, on) /\ stage = "idle"
  <2>1. PICK x \in Requests : list = <<x>> /\ IsControl(x, gate, on) /\ stage = "idle"
    BY <1>2
  <2>2. Head(list) = x /\ Tail(list) = <<>>
    BY <2>1, Tuples
  <2>3. Outdated(<<>>) = <<>>
    BY DEF Outdated
  <2> QED BY <2>1, <2>2, <2>3 DEF Holds
<1>3. CASE \E y \in Requests : list = <<y>> /\ IsLookup(y, stage, late)
  <2>1. PICK y \in Requests : list = <<y>> /\ IsLookup(y, stage, late)
    BY <1>3
  <2> QED BY <1>1, <2>1, Tuples
<1>4. CASE \E x, y \in Requests : /\ list = <<x, y>> \/ list = <<y, x>>
                                  /\ IsControl(x, gate, on) /\ IsLookup(y, stage, late)
  <2>1. PICK x \in Requests, y \in Requests :
               /\ list = <<x, y>> \/ list = <<y, x>>
               /\ IsControl(x, gate, on) /\ IsLookup(y, stage, late)
    BY <1>4
  <2>2. list = <<x, y>>
    BY <1>1, <2>1, Tuples
  <2>3. Head(list) = x /\ Tail(list) = <<y>>
    BY <2>2, Tuples
  <2> DEFINE z == [y EXCEPT !.fresh = FALSE]
  <2>4. Outdated(<<y>>) = <<z>>
    <3>1. DOMAIN <<y>> = {1} /\ <<y>>[1] = y
      OBVIOUS
    <3>2. Outdated(<<y>>) = [i \in {1} |-> z]
      BY <3>1 DEF Outdated
    <3>3. DOMAIN <<z>> = {1} /\ <<z>>[1] = z /\ <<z>> = [i \in DOMAIN <<z>> |-> <<z>>[i]]
      OBVIOUS
    <3> QED BY <3>2, <3>3
  <2>5. z \in Requests /\ z.what = y.what /\ z.answer = y.answer
    BY DEF Requests
  <2>6. IsLookup(z, "again", TRUE) /\ stage # "idle"
    BY <2>1, <2>5 DEF IsLookup
  <2> HIDE DEF z
  <2> QED BY <2>1, <2>3, <2>4, <2>5, <2>6 DEF Holds
<1> QED BY <1>2, <1>3, <1>4 DEF Holds

\* The oldest request is a lookup: it is the one of the refresh.
LEMMA LookupTaken ==
  ASSUME NEW list, NEW gate, NEW stage, NEW late \in BOOLEAN, NEW on \in BOOLEAN,
         Holds(list, gate, stage, late, on), list # <<>>, Head(list).what \in Lookups
  PROVE  /\ IsLookup(Head(list), stage, late)
         /\ Holds(Tail(list), gate, "idle", FALSE, on)
<1>1. \A x : ~(IsControl(x, gate, on) /\ x.what \in Lookups)
  BY NamesDiffer DEF IsControl
<1>2. CASE \E x \in Requests : list = <<x>> /\ IsControl(x, gate, on)
  <2>1. PICK x \in Requests : list = <<x>> /\ IsControl(x, gate, on)
    BY <1>2
  <2> QED BY <1>1, <2>1, Tuples
<1>3. CASE \E y \in Requests : list = <<y>> /\ gate = None /\ IsLookup(y, stage, late)
  <2>1. PICK y \in Requests : list = <<y>> /\ gate = None /\ IsLookup(y, stage, late)
    BY <1>3
  <2>2. Head(list) = y /\ Tail(list) = <<>>
    BY <2>1, Tuples
  <2> QED BY <2>1, <2>2 DEF Holds
<1>4. CASE \E x, y \in Requests : /\ list = <<x, y>> \/ list = <<y, x>>
                                  /\ IsControl(x, gate, on) /\ IsLookup(y, stage, late)
  <2>1. PICK x \in Requests, y \in Requests :
               /\ list = <<x, y>> \/ list = <<y, x>>
               /\ IsControl(x, gate, on) /\ IsLookup(y, stage, late)
    BY <1>4
  <2>2. list = <<y, x>>
    BY <1>1, <2>1, Tuples
  <2>3. Head(list) = y /\ Tail(list) = <<x>>
    BY <2>2, Tuples
  <2> QED BY <2>1, <2>3 DEF Holds
<1> QED BY <1>2, <1>3, <1>4 DEF Holds

\* An answer closes its request; one that says "ok" to a disconnect left the VPN off.
LEMMA AnswerGiven ==
  ASSUME NEW x \in Requests, NEW answer \in Answers(x), NEW done \in BOOLEAN,
         answer = "ok" => done, wanted \in BOOLEAN, x.answer = None,
         wanted' = IF ~done THEN wanted
                   ELSE IF x.what \in {"connect", "reconnect"} THEN TRUE
                   ELSE IF x.what \in {"disconnect", "quit"} THEN FALSE
                   ELSE wanted
  PROVE  /\ wanted' \in BOOLEAN
         /\ \A gate : IsControl(x, gate, wanted)
                        => IsControl([x EXCEPT !.answer = answer], gate, wanted')
         /\ \A stage : \A late \in BOOLEAN : IsLookup(x, stage, late)
                        => /\ IsLookup([x EXCEPT !.answer = answer], stage, late)
                           /\ wanted' = wanted
<1> DEFINE z == [x EXCEPT !.answer = answer]
<1>1. wanted' \in BOOLEAN
  OBVIOUS
<1>2. answer \in {None, "ok", "unavailable", "failed", "unknown"} \union Statuses
  BY DEF Answers, Statuses, Requests, Lookups, Operations
<1>3. z \in Requests /\ z.what = x.what /\ z.fresh = x.fresh /\ z.answer = answer
  BY <1>2 DEF Requests
<1>4. ASSUME NEW gate, IsControl(x, gate, wanted)
      PROVE  IsControl(z, gate, wanted')
  BY <1>3, <1>4 DEF IsControl
<1>5. ASSUME NEW stage, NEW late \in BOOLEAN, IsLookup(x, stage, late)
      PROVE  IsLookup(z, stage, late) /\ wanted' = wanted
  <2>1. wanted' = wanted
    BY <1>5 DEF IsLookup, Lookups
  <2>2. x.what = "status" => answer \in {None, "unknown"} \union Statuses
    BY DEF Answers, Statuses
  <2> QED BY <1>3, <1>5, <2>1, <2>2 DEF IsLookup
<1> QED BY <1>1, <1>4, <1>5

LEMMA TuplesChanged ==
  ASSUME NEW x, NEW y, NEW z
  PROVE  /\ [<<x>> EXCEPT ![1] = z] = <<z>>
         /\ [<<x, y>> EXCEPT ![1] = z] = <<z, y>>
         /\ [<<x, y>> EXCEPT ![2] = z] = <<x, z>>
         /\ DOMAIN <<x>> = {1} /\ DOMAIN <<x, y>> = {1, 2}
         /\ <<x>>[1] = x /\ <<x, y>>[1] = x /\ <<x, y>>[2] = y
  OBVIOUS

-----------------------------------------------------------------------------
(* The coordinator.                                                          *)

\* What every event keeps of the coordinator `app` that becomes `next`.
Kept(next) ==
  /\ next \in Coordinator /\ FlagsAgree(next)
  /\ app.gate = None \/ next.gate = app.gate
  /\ next.resolved = app.resolved

LEMMA PrimaryKeeps ==
  ASSUME app \in Coordinator, FlagsAgree(app), NEW op \in {"connect", "reconnect"}
  PROVE  Kept(PrimaryRequested(op)) /\ (PrimaryRequested(op).startup => app.startup)
  BY MenuAssumption DEF Kept, PrimaryRequested, Begin, Coordinator, FlagsAgree, Operations, None

\* A disconnect that can be accepted begins, is under way, or waits for its turn.
LEMMA DisconnectKeeps ==
  ASSUME app \in Coordinator, FlagsAgree(app)
  PROVE  /\ Kept(DisconnectRequested) /\ (DisconnectRequested.startup => app.startup)
         /\ DisconnectRequested.paused
         /\ DisconnectRequested.terminating = app.terminating
         /\ DisconnectRequested.gate = IF app.gate = None /\ ~app.terminating
                                       THEN "disconnect" ELSE app.gate
         /\ app.gate \in {"connect", "reconnect"} /\ ~app.terminating
              => DisconnectRequested.pending
         /\ app.pending /\ ~app.terminating => DisconnectRequested.pending
  BY MenuAssumption DEF Kept, DisconnectRequested, Begin, Coordinator, FlagsAgree,
                        Operations, None

LEMMA ResetKeeps ==
  ASSUME app \in Coordinator, FlagsAgree(app)
  PROVE  /\ Kept(CredentialResetRequested)
         /\ CredentialResetRequested.startup => app.startup
         /\ CredentialResetRequested.paused
         /\ CredentialResetRequested.terminating = app.terminating
         /\ CredentialResetRequested.gate =
              IF app.gate = None /\ ~app.terminating THEN "credentialSave" ELSE app.gate
  BY MenuAssumption DEF Kept, CredentialResetRequested, Begin, Coordinator, FlagsAgree,
                        Operations, None

LEMMA TerminateKeeps ==
  ASSUME app \in Coordinator, FlagsAgree(app)
  PROVE  Kept(TerminateRequested) /\ (TerminateRequested.startup => app.startup)
  BY MenuAssumption DEF Kept, TerminateRequested, Begin, Coordinator, FlagsAgree,
                        Operations, None

LEMMA RetryKeeps ==
  ASSUME app \in Coordinator, FlagsAgree(app), app.retry
  PROVE  Kept(StartupRetryTimerFired) /\ ~app.paused /\ ~app.terminating
  BY MenuAssumption DEF Kept, StartupRetryTimerFired, Begin, Coordinator, FlagsAgree,
                        Operations, None

\* A completed operation is followed by the disconnect of a termination, by the
\* disconnect that waits, or by nothing.
LEMMA CompletedKeeps ==
  ASSUME app \in Coordinator, FlagsAgree(app), NEW result,
         app.gate \in Operations \ {"credentialSave"}, ~app.resolved
  PROVE  LET next == ControlCompleted(app.gate, result)
         IN /\ next \in Coordinator /\ FlagsAgree(next) /\ ~next.startup
            /\ next.gate \in {None, "quit", "disconnect"}
            /\ next.resolved => /\ result = "ok" /\ next.gate = None
                                /\ app.gate \in {"quit", "disconnect"}
            /\ app.paused /\ ~app.terminating =>
                 /\ next.paused /\ ~next.terminating
                 /\ next.gate = IF app.pending THEN "disconnect" ELSE None
<1> DEFINE a == [app EXCEPT !.gate = None, !.startup = FALSE]
           b == IF app.startup /\ ~a.paused THEN StartupPolicy(a, result) ELSE a
           next == ControlCompleted(app.gate, result)
<1>1. /\ a \in Coordinator /\ a.gate = None /\ ~a.startup /\ ~a.retry /\ ~a.resolved
      /\ a.paused = app.paused /\ a.pending = app.pending
      /\ a.terminating = app.terminating /\ a.attached = app.attached
      /\ a.attempts = app.attempts /\ (app.startup => app.attempts < MaximumAttempts)
  BY DEF Coordinator, FlagsAgree, None, Operations
<1>2. /\ b \in Coordinator /\ b.gate = None /\ ~b.startup /\ ~b.resolved
      /\ b.paused = app.paused /\ b.pending = app.pending
      /\ b.terminating = app.terminating /\ b.attached = app.attached
      /\ b.retry => ~b.paused /\ b.attempts < MaximumAttempts
  <2>1. CASE app.startup /\ ~a.paused /\ result = "unavailable"
    <3>1. b = [a EXCEPT !.attempts = @ + 1, !.retry = a.attempts + 1 < MaximumAttempts]
      BY <2>1 DEF StartupPolicy
    <3>2. a.attempts + 1 \in 0 .. MaximumAttempts /\ (a.attempts + 1 < MaximumAttempts) \in BOOLEAN
      BY <1>1, <2>1, MenuAssumption DEF Coordinator
    <3> HIDE DEF a, b
    <3> QED BY <1>1, <2>1, <3>1, <3>2 DEF Coordinator
  <2>2. CASE ~(app.startup /\ ~a.paused /\ result = "unavailable")
    BY <1>1, <2>2 DEF Coordinator, StartupPolicy
  <2> QED BY <2>1, <2>2
<1>3. app.pending => app.paused /\ ~app.terminating /\ app.gate \in {"connect", "reconnect"}
  BY DEF FlagsAgree
<1>4. app.attached => app.terminating /\ app.gate = "disconnect"
  BY DEF FlagsAgree
<1>5. app.gate = "quit" => app.terminating
  BY DEF FlagsAgree
<1> HIDE DEF a, b
<1>6. CASE app.gate = "quit" \/ app.attached
  <2>1. next = Replied(a, result = "ok")
    BY <1>6 DEF ControlCompleted, a
  <2>2. (result = "ok") \in BOOLEAN
    OBVIOUS
  <2> HIDE DEF next
  <2> QED BY <1>1, <1>3, <1>4, <1>5, <1>6, <2>1, <2>2 DEF Replied, Coordinator, FlagsAgree,
          next, Operations, None
<1>7. CASE ~(app.gate = "quit" \/ app.attached) /\ app.terminating
  <2>1. next = [a EXCEPT !.gate = "quit", !.startup = FALSE]
    BY <1>1, <1>7 DEF ControlCompleted, Begin, a
  <2> HIDE DEF next
  <2> QED BY <1>1, <1>3, <1>7, <2>1 DEF Coordinator, FlagsAgree, next, Operations, None
<1>8. CASE ~(app.gate = "quit" \/ app.attached) /\ ~app.terminating /\ app.pending
  <2>1. next = [b EXCEPT !.pending = FALSE, !.gate = "disconnect", !.startup = FALSE]
    BY <1>1, <1>2, <1>8 DEF ControlCompleted, Begin, a, b, Coordinator
  <2>2. ~b.retry
    BY <1>2, <1>3, <1>8
  <2> HIDE DEF next
  <2> QED BY <1>2, <1>3, <1>8, <2>1, <2>2 DEF Coordinator, FlagsAgree, next, Operations,
          None
<1>9. CASE ~(app.gate = "quit" \/ app.attached) /\ ~app.terminating /\ ~app.pending
  <2>1. next = b
    BY <1>1, <1>2, <1>9 DEF ControlCompleted, a, b
  <2> HIDE DEF next
  <2> QED BY <1>2, <1>9, <2>1 DEF Coordinator, FlagsAgree, next, Operations, None
<1> QED BY <1>6, <1>7, <1>8, <1>9

LEMMA TransactionKeeps ==
  ASSUME app \in Coordinator, FlagsAgree(app), app.gate = "credentialSave", ~app.resolved
  PROVE  LET next == CredentialTransactionCompleted
         IN /\ next \in Coordinator /\ FlagsAgree(next) /\ ~next.startup
            /\ next.gate = None
  BY DEF CredentialTransactionCompleted, Replied, Coordinator, FlagsAgree, Operations, None

-----------------------------------------------------------------------------
(* The actions.                                                              *)

\* What apply(transition) does to the queue and to the history.
LEMMA Applied ==
  ASSUME MenuInv, NEW next, Kept(next), Running, Apply(next, queue),
         UNCHANGED <<refresh, shown, behind, wanted>>
  PROVE  /\ app' = next /\ next \in Coordinator /\ FlagsAgree(next) /\ ~next.resolved
         /\ Holds(queue', next.gate, refresh', behind', wanted')
         /\ lastSent' \in Operations
         /\ next.gate # None => lastSent' = next.gate
         /\ next.gate = app.gate => lastSent' = lastSent
<1>1. next.gate \in {None} \union Operations
  BY DEF Kept, Coordinator
<1>2. CASE next.gate \notin {None, app.gate}
  <2>1. app.gate = None /\ next.gate \in Operations
    BY <1>1, <1>2 DEF Kept
  <2>2. Holds(Append(queue, ControlRequest(next.gate)), next.gate, refresh, behind, wanted)
    BY <2>1, ControlAdded DEF MenuInv
  <2>3. queue' = Append(queue, ControlRequest(next.gate)) /\ lastSent' = next.gate
    BY <1>2 DEF Apply
  <2> QED BY <1>2, <2>1, <2>2, <2>3 DEF Apply, Kept, Running
<1>3. CASE next.gate \in {None, app.gate}
  <2>1. next.gate = app.gate
    BY <1>3 DEF Kept
  <2>2. queue' = queue /\ lastSent' = lastSent
    BY <1>3 DEF Apply
  <2>3. Holds(queue', next.gate, refresh', behind', wanted')
    BY <2>1, <2>2 DEF MenuInv
  <2> QED BY <1>3, <2>1, <2>2, <2>3 DEF Apply, Kept, Running, MenuInv, HistoryAgrees
<1> QED BY <1>2, <1>3

\* The rest of the invariant, where only what is said here changes.
LEMMA Assembled ==
  ASSUME MenuInv, UNCHANGED <<shown, refresh, behind>>, wanted' \in BOOLEAN,
         refused' \in BOOLEAN, ~payload', ~app'.resolved,
         app' \in Coordinator, FlagsAgree(app'),
         Holds(queue', app'.gate, refresh', behind', wanted'), HistoryAgrees'
  PROVE  MenuInv'
  BY DEF MenuInv, QuitDisconnects

LEMMA StepPrimary ==
  ASSUME MenuInv, PrimaryConnection
  PROVE  MenuInv' /\ (app'.startup => app.startup)
<1>1. PICK op \in {"connect", "reconnect"} : Press(op) /\ Apply(PrimaryRequested(op), queue)
  BY DEF PrimaryConnection
<1> DEFINE next == PrimaryRequested(op)
<1>2. Kept(next) /\ (next.startup => app.startup)
  BY PrimaryKeeps DEF MenuInv
<1>3. Running /\ UNCHANGED <<refresh, shown, behind, wanted>> /\ wish' = None
      /\ refused' = FALSE /\ payload' = payload
  BY <1>1 DEF PrimaryConnection, Press, Input
<1> HIDE DEF next
<1>4. /\ app' = next /\ next \in Coordinator /\ FlagsAgree(next) /\ ~next.resolved
      /\ Holds(queue', next.gate, refresh', behind', wanted')
      /\ lastSent' \in Operations /\ (next.gate # None => lastSent' = next.gate)
  BY <1>1, <1>2, <1>3, Applied DEF next
<1>5. HistoryAgrees'
  BY <1>3, <1>4 DEF HistoryAgrees, None
<1>6. wanted' \in BOOLEAN /\ refused' \in BOOLEAN /\ ~payload'
  BY <1>3 DEF MenuInv
<1> QED BY <1>2, <1>3, <1>4, <1>5, <1>6, Assembled

LEMMA StepDisconnect ==
  ASSUME MenuInv, Disconnect
  PROVE  MenuInv' /\ (app'.startup => app.startup)
<1> DEFINE next == DisconnectRequested
<1>1. /\ Kept(next) /\ (next.startup => app.startup)
      /\ next.paused /\ next.terminating = app.terminating
      /\ next.gate = IF app.gate = None /\ ~app.terminating THEN "disconnect" ELSE app.gate
      /\ app.gate \in {"connect", "reconnect"} /\ ~app.terminating => next.pending
      /\ app.pending /\ ~app.terminating => next.pending
  BY DisconnectKeeps DEF MenuInv
<1>2. /\ Running /\ UNCHANGED <<refresh, shown, behind, wanted, payload>>
      /\ Apply(next, queue)
      /\ IF app.terminating \/ app.gate = "credentialSave" THEN UNCHANGED <<wish, refused>>
         ELSE wish' = "off" /\ refused' = FALSE
  BY DEF Disconnect, Press, Input
<1> HIDE DEF next
<1>3. /\ app' = next /\ next \in Coordinator /\ FlagsAgree(next) /\ ~next.resolved
      /\ Holds(queue', next.gate, refresh', behind', wanted')
      /\ lastSent' \in Operations /\ (next.gate # None => lastSent' = next.gate)
      /\ next.gate = app.gate => lastSent' = lastSent
  BY <1>1, <1>2, Applied
<1>4. HistoryAgrees'
  <2>1. CASE app.terminating \/ app.gate = "credentialSave"
    <3>1. wish # "off" /\ wish' = wish
      BY <2>1, <1>2 DEF MenuInv, HistoryAgrees
    <3>2. wish' \in {None, "off"}
      BY <3>1 DEF MenuInv, HistoryAgrees
    <3> QED BY <1>3, <3>1, <3>2 DEF HistoryAgrees
  <2>2. CASE ~(app.terminating \/ app.gate = "credentialSave")
    <3>1. wish' = "off" /\ refused' = FALSE
      BY <1>2, <2>2
    <3>2. app.gate \in {None, "connect", "reconnect", "disconnect"}
      BY <2>2 DEF MenuInv, Coordinator, Operations, FlagsAgree
    <3>3. next.gate # "credentialSave" /\ ~next.terminating
      BY <1>1, <2>2
    <3>4. next.pending \/ next.gate = "disconnect"
      BY <1>1, <2>2, <3>2
    <3> QED BY <1>1, <1>3, <3>1, <3>3, <3>4 DEF HistoryAgrees, None
  <2> QED BY <2>1, <2>2
<1>5. wanted' \in BOOLEAN /\ refused' \in BOOLEAN /\ ~payload'
  BY <1>2 DEF MenuInv
<1> QED BY <1>1, <1>2, <1>3, <1>4, <1>5, Assembled

\* A form that is refused finds the gate closed or the app about to end, and then no
\* retry waits: the payload is never left behind.
LEMMA StepSaveForm ==
  ASSUME MenuInv, SaveForm
  PROVE  MenuInv' /\ (app'.startup => app.startup)
<1> DEFINE next == CredentialResetRequested
           started == next.gate = "credentialSave" /\ app.gate = None
<1>1. /\ Kept(next) /\ (next.startup => app.startup)
      /\ next.paused /\ next.terminating = app.terminating
      /\ next.gate = IF app.gate = None /\ ~app.terminating THEN "credentialSave"
                     ELSE app.gate
  BY ResetKeeps DEF MenuInv
<1>2. /\ Running /\ UNCHANGED <<refresh, shown, behind, wanted>>
      /\ Apply(next, queue)
      /\ payload' = (~started /\ app.retry)
      /\ wish' = (IF started THEN None ELSE wish) /\ refused' = ~started
  BY DEF SaveForm, Input
<1>3. started <=> app.gate = None /\ ~app.terminating
  BY <1>1 DEF None
<1>4. ~payload' /\ refused' \in BOOLEAN
  BY <1>2, <1>3 DEF MenuInv, FlagsAgree
<1> HIDE DEF next, started
<1>5. /\ app' = next /\ next \in Coordinator /\ FlagsAgree(next) /\ ~next.resolved
      /\ Holds(queue', next.gate, refresh', behind', wanted')
      /\ lastSent' \in Operations /\ (next.gate # None => lastSent' = next.gate)
      /\ next.gate = app.gate => lastSent' = lastSent
  BY <1>1, <1>2, Applied
<1>6. HistoryAgrees'
  <2>1. CASE started
    BY <1>2, <1>5, <2>1 DEF HistoryAgrees, None
  <2>2. CASE ~started
    <3>1. wish' = wish /\ refused'
      BY <1>2, <2>2
    <3>2. next.gate = app.gate
      BY <1>1, <1>3, <2>2
    <3> QED BY <1>1, <1>5, <3>1, <3>2 DEF HistoryAgrees, MenuInv
  <2> QED BY <2>1, <2>2
<1> QED BY <1>1, <1>2, <1>4, <1>5, <1>6, Assembled DEF MenuInv

LEMMA StepTerminate ==
  ASSUME MenuInv, Terminate
  PROVE  MenuInv' /\ (app'.startup => app.startup)
<1> DEFINE next == TerminateRequested
<1>1. Kept(next) /\ (next.startup => app.startup)
  BY TerminateKeeps DEF MenuInv
<1>2. Running /\ UNCHANGED <<refresh, shown, behind, wanted>> /\ Apply(next, queue)
      /\ wish' = None /\ refused' = FALSE /\ payload' = FALSE
  BY DEF Terminate, Input
<1> HIDE DEF next
<1>3. /\ app' = next /\ next \in Coordinator /\ FlagsAgree(next) /\ ~next.resolved
      /\ Holds(queue', next.gate, refresh', behind', wanted')
      /\ lastSent' \in Operations /\ (next.gate # None => lastSent' = next.gate)
  BY <1>1, <1>2, Applied
<1>4. HistoryAgrees'
  BY <1>2, <1>3 DEF HistoryAgrees, None
<1>5. wanted' \in BOOLEAN /\ refused' \in BOOLEAN /\ ~payload'
  BY <1>2 DEF MenuInv
<1> QED BY <1>1, <1>2, <1>3, <1>4, <1>5, Assembled

LEMMA StepRetry ==
  ASSUME MenuInv, StartupRetry
  PROVE  MenuInv' /\ wish # "off" /\ ~app.terminating
<1> DEFINE next == StartupRetryTimerFired
<1>1. Kept(next) /\ ~app.paused /\ ~app.terminating
  BY RetryKeeps DEF MenuInv, StartupRetry
<1>2. Running /\ UNCHANGED <<refresh, shown, behind, wanted, payload, wish, refused>>
      /\ Apply(next, queue)
  BY DEF StartupRetry, historyVars
<1>3. wish # "off"
  BY <1>1 DEF MenuInv, HistoryAgrees
<1> HIDE DEF next
<1>4. /\ app' = next /\ next \in Coordinator /\ FlagsAgree(next) /\ ~next.resolved
      /\ Holds(queue', next.gate, refresh', behind', wanted')
      /\ lastSent' \in Operations /\ (next.gate # None => lastSent' = next.gate)
  BY <1>1, <1>2, Applied
<1>5. HistoryAgrees'
  BY <1>2, <1>3, <1>4 DEF HistoryAgrees, MenuInv
<1>6. wanted' \in BOOLEAN /\ refused' \in BOOLEAN /\ ~payload'
  BY <1>2 DEF MenuInv
<1> QED BY <1>1, <1>2, <1>3, <1>4, <1>5, <1>6, Assembled

\* The main thread keeps the coordinator: a lookup begins, or ends.
LEMMA StepLookups ==
  ASSUME MenuInv,
         Running, UNCHANGED <<app, payload, wanted, wish, refused, lastSent>>,
         shown' \in {"unknown"} \union Statuses, behind' \in BOOLEAN,
         behind' => refresh' # "idle",
         Holds(queue', app.gate, refresh', behind', wanted)
  PROVE  MenuInv'
<1>1. HistoryAgrees'
  BY DEF MenuInv, HistoryAgrees
<1> QED BY <1>1 DEF MenuInv, QuitDisconnects, Running

LEMMA Stages ==
  ASSUME MenuInv
  PROVE  refresh \in {"idle", "active", "again"}
  BY DEF MenuInv, Holds, IsLookup

LEMMA StepRefresh ==
  ASSUME MenuInv, RefreshFromTimer
  PROVE  MenuInv'
<1>1. refresh = "idle" /\ refresh' = "active" /\ queue' = Append(queue, StatusRequest)
      /\ Running /\ UNCHANGED <<app, payload, wanted, wish, refused, lastSent, shown, behind>>
  BY DEF RefreshFromTimer, historyVars
<1>2. Holds(queue, app.gate, "idle", behind, wanted)
  BY <1>1 DEF MenuInv
<1>3. Holds(queue', app.gate, refresh', behind', wanted)
  BY <1>1, <1>2, StatusAdded DEF MenuInv
<1>4. refresh' # "idle" /\ behind' \in BOOLEAN /\ shown' \in {"unknown"} \union Statuses
  BY <1>1 DEF MenuInv
<1> QED BY <1>1, <1>3, <1>4, StepLookups

LEMMA StepActive ==
  ASSUME MenuInv, BecomeActive
  PROVE  MenuInv'
<1>1. ForceRefresh(queue) /\ Running
      /\ UNCHANGED <<app, payload, wanted, wish, refused, lastSent, shown, behind>>
  BY DEF BecomeActive, Input, historyVars
<1>2. Holds(queue', app.gate, refresh', behind, wanted) /\ refresh' # "idle"
  BY <1>1, Forced, Stages DEF MenuInv
<1>3. behind' \in BOOLEAN /\ shown' \in {"unknown"} \union Statuses
  BY <1>1 DEF MenuInv
<1> QED BY <1>1, <1>2, <1>3, StepLookups

LEMMA StepServe ==
  ASSUME MenuInv, Serve
  PROVE  MenuInv'
<1>1. PICK i \in DOMAIN queue : \E answer \in Answers(queue[i]), done \in BOOLEAN :
        /\ queue[i].answer = None
        /\ answer = "ok" => done
        /\ queue' = [queue EXCEPT ![i].answer = answer]
        /\ wanted' = IF ~done THEN wanted
                     ELSE IF queue[i].what \in {"connect", "reconnect"} THEN TRUE
                     ELSE IF queue[i].what \in {"disconnect", "quit"} THEN FALSE
                     ELSE wanted
  BY DEF Serve
<1>2. PICK answer \in Answers(queue[i]), done \in BOOLEAN :
        /\ queue[i].answer = None
        /\ answer = "ok" => done
        /\ queue' = [queue EXCEPT ![i].answer = answer]
        /\ wanted' = IF ~done THEN wanted
                     ELSE IF queue[i].what \in {"connect", "reconnect"} THEN TRUE
                     ELSE IF queue[i].what \in {"disconnect", "quit"} THEN FALSE
                     ELSE wanted
  BY <1>1
<1>3. Running /\ UNCHANGED <<app, payload, refresh, shown, wish, refused, lastSent, behind>>
  BY DEF Serve, historyVars
<1>4. queue[i] \in Requests
  BY TuplesChanged DEF MenuInv, Holds
<1> DEFINE z == [queue[i] EXCEPT !.answer = answer]
<1>5. queue' = [queue EXCEPT ![i] = z]
  BY <1>2
<1>6. z \in Requests
  <2>1. answer \in {None, "ok", "unavailable", "failed", "unknown"} \union Statuses
    BY <1>4 DEF Answers, Statuses, Requests, Lookups, Operations
  <2> QED BY <1>4, <2>1 DEF Requests
<1>7. /\ wanted' \in BOOLEAN
      /\ IsControl(queue[i], app.gate, wanted) => IsControl(z, app.gate, wanted')
      /\ IsLookup(queue[i], refresh, behind)
           => IsLookup(z, refresh, behind) /\ wanted' = wanted
  BY <1>2, <1>4, AnswerGiven DEF MenuInv
<1> HIDE DEF z
<1>8. Holds(queue', app.gate, refresh, behind, wanted')
  <2>1. CASE queue = <<>>
    BY <1>1, <2>1
  <2>2. CASE \E x \in Requests : queue = <<x>> /\ IsControl(x, app.gate, wanted)
                                 /\ refresh = "idle"
    <3>1. PICK x \in Requests : queue = <<x>> /\ IsControl(x, app.gate, wanted)
                                /\ refresh = "idle"
      BY <2>2
    <3>2. i = 1 /\ queue[i] = x
      BY <3>1, TuplesChanged
    <3>3. queue' = <<z>>
      BY <1>5, <3>1, <3>2, TuplesChanged
    <3> QED BY <1>6, <1>7, <3>1, <3>2, <3>3 DEF Holds
  <2>3. CASE \E y \in Requests : queue = <<y>> /\ app.gate = None
                                 /\ IsLookup(y, refresh, behind)
    <3>1. PICK y \in Requests : queue = <<y>> /\ app.gate = None
                                /\ IsLookup(y, refresh, behind)
      BY <2>3
    <3>2. i = 1 /\ queue[i] = y
      BY <3>1, TuplesChanged
    <3>3. queue' = <<z>>
      BY <1>5, <3>1, <3>2, TuplesChanged
    <3> QED BY <1>6, <1>7, <3>1, <3>2, <3>3 DEF Holds
  <2>4. CASE \E x, y \in Requests : /\ queue = <<x, y>> \/ queue = <<y, x>>
                                    /\ IsControl(x, app.gate, wanted)
                                    /\ IsLookup(y, refresh, behind)
    <3>1. PICK x \in Requests, y \in Requests :
                 /\ queue = <<x, y>> \/ queue = <<y, x>>
                 /\ IsControl(x, app.gate, wanted) /\ IsLookup(y, refresh, behind)
      BY <2>4
    <3>2. i \in {1, 2}
      BY <3>1, TuplesChanged
    <3>3. CASE queue[i] = x /\ (queue' = <<z, y>> \/ queue' = <<y, z>>)
      <4>1. IsControl(z, app.gate, wanted')
        BY <1>7, <3>1, <3>3
      <4> QED BY <1>6, <3>1, <3>3, <4>1 DEF Holds
    <3>4. CASE queue[i] = y /\ (queue' = <<x, z>> \/ queue' = <<z, x>>)
      <4>1. IsLookup(z, refresh, behind) /\ IsControl(x, app.gate, wanted')
        BY <1>7, <3>1, <3>4
      <4> QED BY <1>6, <3>1, <3>4, <4>1 DEF Holds
    <3>5. CASE queue = <<x, y>>
      <4>1. i = 1 => queue[i] = x /\ queue' = <<z, y>>
        BY <1>5, <3>5, TuplesChanged
      <4>2. i = 2 => queue[i] = y /\ queue' = <<x, z>>
        BY <1>5, <3>5, TuplesChanged
      <4> QED BY <3>2, <3>3, <3>4, <4>1, <4>2
    <3>6. CASE queue = <<y, x>>
      <4>1. i = 1 => queue[i] = y /\ queue' = <<z, x>>
        BY <1>5, <3>6, TuplesChanged
      <4>2. i = 2 => queue[i] = x /\ queue' = <<y, z>>
        BY <1>5, <3>6, TuplesChanged
      <4> QED BY <3>2, <3>3, <3>4, <4>1, <4>2
    <3> QED BY <3>1, <3>5, <3>6
  <2> QED BY <2>1, <2>2, <2>3, <2>4 DEF MenuInv, Holds
<1>9. HistoryAgrees'
  BY <1>3 DEF MenuInv, HistoryAgrees
<1>10. ~app'.resolved /\ app' \in Coordinator /\ FlagsAgree(app') /\ ~payload'
       /\ refused' \in BOOLEAN
  BY <1>3 DEF MenuInv, Running
<1> QED BY <1>3, <1>7, <1>8, <1>9, <1>10, Assembled

LEMMA StepOTP ==
  ASSUME MenuInv, HandleOTP
  PROVE  MenuInv'
<1>1. /\ queue # <<>> /\ Head(queue).what = "otp" /\ Running
      /\ CompleteRefresh(Tail(queue))
      /\ UNCHANGED <<app, payload, wanted, wish, refused, lastSent, shown, behind>>
  BY DEF HandleOTP, Completes, historyVars
<1>2. IsLookup(Head(queue), refresh, behind) /\ Holds(Tail(queue), app.gate, "idle", FALSE, wanted)
  BY <1>1, LookupTaken DEF MenuInv, Lookups
<1>3. behind' \in BOOLEAN /\ shown' \in {"unknown"} \union Statuses
  BY <1>1 DEF MenuInv
<1>4. CASE refresh = "again"
  <2>1. Holds(Append(Tail(queue), StatusRequest), app.gate, "active", behind, wanted)
    BY <1>2, StatusAdded DEF MenuInv
  <2> QED BY <1>1, <1>3, <1>4, <2>1, StepLookups DEF CompleteRefresh
<1>5. CASE refresh # "again"
  <2>1. ~behind
    BY <1>1, <1>2, <1>5 DEF IsLookup
  <2>2. behind = FALSE
    BY <2>1 DEF MenuInv
  <2>3. queue' = Tail(queue) /\ refresh' = "idle" /\ behind' = FALSE
    BY <1>1, <1>5, <2>2 DEF CompleteRefresh
  <2>4. Holds(queue', app.gate, refresh', behind', wanted)
    BY <1>2, <2>3
  <2> QED BY <1>1, <1>3, <2>3, <2>4, StepLookups
<1> QED BY <1>4, <1>5

\* The status that is shown is one asked for after the last operation, if it is behind.
LEMMA StepStatus ==
  ASSUME MenuInv, HandleStatus
  PROVE  MenuInv'
<1>1. /\ queue # <<>> /\ Head(queue).what = "status" /\ Head(queue).answer # None /\ Running
      /\ UNCHANGED <<app, payload, wanted, wish, refused, lastSent>>
  BY DEF HandleStatus, Completes, historyVars
<1>2. IsLookup(Head(queue), refresh, behind) /\ Holds(Tail(queue), app.gate, "idle", FALSE, wanted)
  BY <1>1, LookupTaken DEF MenuInv, Lookups
<1>3. CASE refresh = "active"
  <2>1. /\ shown' = Head(queue).answer /\ behind' = (behind /\ ~Head(queue).fresh)
        /\ queue' = Append(Tail(queue), OTPRequest) /\ refresh' = refresh
    BY <1>3 DEF HandleStatus
  <2>2. behind' = FALSE
    BY <1>2, <1>3, <2>1 DEF IsLookup
  <2>3. shown' \in {"unknown"} \union Statuses
    BY <1>1, <1>2, <2>1 DEF IsLookup
  <2>4. Holds(queue', app.gate, refresh', behind', wanted)
    BY <1>2, <1>3, <2>1, <2>2, OTPAdded DEF MenuInv
  <2> QED BY <1>1, <2>2, <2>3, <2>4, StepLookups
<1>4. CASE refresh # "active"
  <2>1. CompleteRefresh(Tail(queue)) /\ UNCHANGED <<shown, behind>>
    BY <1>4 DEF HandleStatus
  <2>2. refresh = "again"
    BY <1>2, <1>4 DEF IsLookup
  <2>3. Holds(Append(Tail(queue), StatusRequest), app.gate, "active", behind, wanted)
    BY <1>2, StatusAdded DEF MenuInv
  <2>4. behind' \in BOOLEAN /\ shown' \in {"unknown"} \union Statuses
    BY <2>1 DEF MenuInv
  <2> QED BY <1>1, <2>1, <2>2, <2>3, <2>4, StepLookups DEF CompleteRefresh
<1> QED BY <1>3, <1>4

LEMMA StepControl ==
  ASSUME MenuInv, HandleControl
  PROVE  MenuInv' /\ ~app'.startup
<1> DEFINE request == Head(queue)
           next == IF request.what = "credentialSave" THEN CredentialTransactionCompleted
                   ELSE ControlCompleted(request.what, request.answer)
           started == next.gate # None
           sent == IF started THEN <<ControlRequest(next.gate)>> ELSE <<>>
           base == Outdated(Tail(queue))
           stage == IF refresh = "idle" THEN "idle" ELSE "again"
<1>1. /\ queue # <<>> /\ request.what \in Operations /\ Running
      /\ app' = next /\ ForceRefresh(base \o sent)
      /\ lastSent' = IF started THEN next.gate ELSE lastSent
      /\ payload' = (payload /\ app.terminating = app'.terminating)
      /\ behind' = TRUE /\ UNCHANGED <<shown, wanted, wish, refused>>
  BY DEF HandleControl, Completes, historyVars
<1>2. IsControl(request, app.gate, wanted) /\ Holds(base, None, stage, TRUE, wanted)
  BY <1>1, ControlTaken DEF MenuInv
<1>3. request.what = app.gate /\ app.gate \in Operations /\ ~app.resolved
  BY <1>1, <1>2 DEF IsControl, Running
<1>4. /\ next \in Coordinator /\ FlagsAgree(next) /\ ~next.startup
      /\ next.gate \in {None, "quit", "disconnect"}
  <2>1. CASE app.gate = "credentialSave"
    BY <1>3, <2>1, TransactionKeeps DEF MenuInv
  <2>2. CASE app.gate # "credentialSave"
    <3>1. app.gate \in Operations \ {"credentialSave"}
      BY <1>3, <2>2
    <3>2. next = ControlCompleted(app.gate, request.answer)
      BY <1>3, <2>2
    <3> QED BY <1>3, <3>1, <3>2, CompletedKeeps DEF MenuInv
  <2> QED BY <2>1, <2>2
<1>5. app.gate # "credentialSave" =>
        /\ next.resolved => /\ request.answer = "ok" /\ next.gate = None
                            /\ app.gate \in {"quit", "disconnect"}
        /\ app.paused /\ ~app.terminating =>
             /\ next.paused /\ ~next.terminating
             /\ next.gate = IF app.pending THEN "disconnect" ELSE None
  <2> SUFFICES ASSUME app.gate # "credentialSave"
               PROVE  /\ next.resolved => /\ request.answer = "ok" /\ next.gate = None
                                          /\ app.gate \in {"quit", "disconnect"}
                      /\ app.paused /\ ~app.terminating =>
                           /\ next.paused /\ ~next.terminating
                           /\ next.gate = IF app.pending THEN "disconnect" ELSE None
    OBVIOUS
  <2>1. app.gate \in Operations \ {"credentialSave"}
    BY <1>3
  <2>2. next = ControlCompleted(app.gate, request.answer)
    BY <1>3
  <2> HIDE DEF next
  <2> QED BY <1>3, <2>1, <2>2, CompletedKeeps DEF MenuInv
<1>6. app.gate = "credentialSave" => next.gate = None
  BY <1>3, TransactionKeeps DEF MenuInv
<1> HIDE DEF next, base, stage
<1>7. base \in Seq(Requests)
  <2>1. CASE base = <<>>
    BY <2>1
  <2>2. ASSUME NEW x \in Requests, base = <<x>>
        PROVE  base \in Seq(Requests)
    BY <2>2
  <2>3. ASSUME NEW x \in Requests, NEW y \in Requests, base = <<x, y>>
        PROVE  base \in Seq(Requests)
    BY <2>3
  <2>4. \/ base = <<>> \/ \E x \in Requests : base = <<x>>
        \/ \E x, y \in Requests : base = <<x, y>>
    BY <1>2 DEF Holds
  <2> QED BY <2>1, <2>2, <2>3, <2>4
<1>8. Holds(base \o sent, next.gate, stage, TRUE, wanted)
  <2>1. CASE started
    <3>1. next.gate \in Operations
      BY <1>4, <2>1 DEF Operations
    <3>2. Holds(Append(base, ControlRequest(next.gate)), next.gate, stage, TRUE, wanted)
      BY <1>2, <3>1, ControlAdded DEF MenuInv
    <3>3. base \o sent = Append(base, ControlRequest(next.gate))
      BY <1>7, <2>1, <3>1, NewRequests, AppendIsConcat
    <3> QED BY <3>2, <3>3
  <2>2. CASE ~started
    <3>1. base \o sent = base
      BY <1>7, <2>2, ConcatEmptySeq
    <3> QED BY <1>2, <2>2, <3>1
  <2> QED BY <2>1, <2>2
<1>9. Holds(queue', next.gate, refresh', behind', wanted) /\ refresh' # "idle"
  <2>1. stage = "idle" <=> refresh = "idle"
    BY DEF stage
  <2> HIDE DEF sent
  <2> QED BY <1>1, <1>8, <2>1, Forced, Stages DEF MenuInv
<1>10. HistoryAgrees'
  <2>1. /\ lastSent' \in Operations /\ (next.gate # None => lastSent' = next.gate)
        /\ next.gate # "credentialSave"
    BY <1>1, <1>4 DEF MenuInv, HistoryAgrees, Operations, None
  <2>2. CASE wish = "off"
    <3>1. app.paused /\ ~app.terminating /\ app.gate # "credentialSave"
      BY <2>2 DEF MenuInv, HistoryAgrees
    <3>2. /\ next.paused /\ ~next.terminating
          /\ next.gate = IF app.pending THEN "disconnect" ELSE None
      BY <1>5, <3>1
    <3>3. CASE refused
      BY <1>1, <2>1, <2>2, <3>2, <3>3 DEF HistoryAgrees
    <3>4. CASE app.pending
      BY <1>1, <2>1, <2>2, <3>2, <3>4 DEF HistoryAgrees, None
    <3>5. CASE ~refused /\ ~app.pending
      <4>1. lastSent = "disconnect" /\ next.gate = None
        BY <2>2, <3>2, <3>5 DEF MenuInv, HistoryAgrees
      <4> QED BY <1>1, <2>1, <2>2, <3>2, <4>1 DEF HistoryAgrees
    <3> QED BY <3>3, <3>4, <3>5
  <2>3. CASE wish # "off"
    BY <1>1, <2>1, <2>3 DEF MenuInv, HistoryAgrees
  <2> QED BY <2>2, <2>3
<1>11. QuitDisconnects'
  <2>1. CASE app.gate = "credentialSave"
    <3>1. lastSent' = "credentialSave"
      BY <1>1, <1>6, <2>1 DEF MenuInv, HistoryAgrees, None
    <3> QED BY <3>1 DEF QuitDisconnects
  <2>2. CASE app.gate # "credentialSave" /\ next.resolved
    <3>1. /\ request.answer = "ok" /\ next.gate = None
          /\ app.gate \in {"quit", "disconnect"}
      BY <1>5, <2>2
    <3>2. ~wanted /\ lastSent' = app.gate
      BY <1>1, <1>2, <3>1 DEF IsControl, MenuInv, HistoryAgrees, None
    <3> QED BY <1>1, <3>1, <3>2 DEF QuitDisconnects
  <2>3. CASE ~next.resolved
    BY <1>1, <2>3 DEF QuitDisconnects
  <2> QED BY <2>1, <2>2, <2>3
<1>12. ~payload'
  BY <1>1 DEF MenuInv
<1> QED BY <1>1, <1>4, <1>9, <1>10, <1>11, <1>12 DEF MenuInv

-----------------------------------------------------------------------------
(* The theorems.                                                             *)

LEMMA MenuInit == Init => MenuInv
<1> SUFFICES ASSUME Init PROVE MenuInv
  OBVIOUS
<1>1. app \in Coordinator /\ FlagsAgree(app) /\ app.gate = "connect" /\ ~app.resolved
  BY MenuAssumption DEF Init, Coordinator, FlagsAgree, Operations, None
<1>2. Holds(queue, app.gate, refresh, behind, wanted)
  <2>1. ControlRequest("connect") \in Requests /\ StatusRequest \in Requests
    BY NewRequests DEF Operations
  <2>2. IsControl(ControlRequest("connect"), "connect", wanted)
    BY <2>1 DEF IsControl, ControlRequest, Operations
  <2>3. IsLookup(StatusRequest, "active", FALSE)
    BY <2>1 DEF IsLookup, StatusRequest, Lookups
  <2>4. /\ queue = <<ControlRequest("connect"), StatusRequest>>
        /\ refresh = "active" /\ behind = FALSE
    BY DEF Init
  <2> QED BY <1>1, <2>1, <2>2, <2>3, <2>4 DEF Holds
<1>3. HistoryAgrees
  BY DEF Init, HistoryAgrees, Operations, None
<1> QED BY <1>1, <1>2, <1>3 DEF Init, MenuInv, QuitDisconnects

\* Only the timer of a retry begins a connect nobody asked for, and it is stopped by
\* whatever the user asks for.
LEMMA MenuStep ==
  MenuInv /\ [Next]_vars
    => MenuInv' /\ (app'.startup /\ ~app.startup => wish # "off" /\ ~app.terminating)
<1> SUFFICES ASSUME MenuInv, [Next]_vars
             PROVE  MenuInv' /\ (app'.startup /\ ~app.startup
                                   => wish # "off" /\ ~app.terminating)
  OBVIOUS
<1> DEFINE seen == <<app, queue, payload, refresh, shown, wanted, wish, refused, lastSent,
                     behind>>
<1>1. CASE UNCHANGED seen
  <2>1. HistoryAgrees'
    BY <1>1 DEF MenuInv, HistoryAgrees
  <2>2. QuitDisconnects'
    BY <1>1 DEF MenuInv, QuitDisconnects
  <2> QED BY <1>1, <2>1, <2>2 DEF MenuInv
<1>2. OpenMenu \/ ResetLoginInformation \/ CloseForm \/ UNCHANGED vars => UNCHANGED seen
  BY DEF OpenMenu, ResetLoginInformation, CloseForm, vars, clientVars, historyVars
<1>3. RefreshFromTimer \/ BecomeActive \/ Serve \/ HandleStatus \/ HandleOTP
        => app' = app
  BY DEF RefreshFromTimer, BecomeActive, Serve, HandleStatus, HandleOTP
<1> HIDE DEF seen
<1> QED BY <1>1, <1>2, <1>3, StepPrimary, StepDisconnect, StepSaveForm, StepTerminate,
        StepRetry, StepRefresh, StepActive, StepServe, StepOTP, StepStatus, StepControl
        DEF Next

\* One request of an operation is on its way exactly while the gate is closed for it.
LEMMA OwedByTheGate == MenuInv => GateSound
<1> SUFFICES ASSUME MenuInv PROVE GateSound
  OBVIOUS
<1>1. MenuTypeOK
  <2>1. Len(queue) <= 2
    <3>1. \A x, y : Len(<<>>) <= 2 /\ Len(<<x>>) <= 2 /\ Len(<<x, y>>) <= 2
      OBVIOUS
    <3> QED BY <3>1 DEF MenuInv, Holds
  <2>2. \A flag \in {"startup", "retry", "paused", "pending", "terminating", "attached",
                     "resolved"} : app[flag] \in BOOLEAN
    BY DEF MenuInv, Coordinator
  <2>3. app.gate \in {None} \union Operations /\ app.attempts \in 0 .. MaximumAttempts
    BY DEF MenuInv, Coordinator
  <2>4. shown \in {"unknown"} \union Statuses /\ lastSent \in Operations
    BY DEF MenuInv, HistoryAgrees
  <2> QED BY <2>1, <2>2, <2>3, <2>4, Stages DEF MenuTypeOK
<1> DEFINE sent == {i \in DOMAIN queue : queue[i].what \in Operations}
<1>2. /\ \A x : IsControl(x, app.gate, wanted)
                  => x.what \in Operations /\ x.what = app.gate /\ app.gate # None
      /\ \A y : IsLookup(y, refresh, behind) => y.what \notin Operations
  BY NamesDiffer DEF IsControl, IsLookup
<1>3. IF app.gate = None THEN sent = {}
      ELSE \E i \in sent : sent = {i} /\ queue[i].what = app.gate
  <2>1. CASE queue = <<>> /\ app.gate = None
    BY <2>1
  <2>2. CASE \E x \in Requests : queue = <<x>> /\ IsControl(x, app.gate, wanted)
    <3>1. PICK x \in Requests : queue = <<x>> /\ IsControl(x, app.gate, wanted)
      BY <2>2
    <3>2. DOMAIN queue = {1} /\ queue[1] = x
      BY <3>1, TuplesChanged
    <3>3. sent = {1}
      BY <1>2, <3>1, <3>2
    <3> QED BY <1>2, <3>1, <3>2, <3>3
  <2>3. CASE \E y \in Requests : queue = <<y>> /\ app.gate = None
                                 /\ IsLookup(y, refresh, behind)
    <3>1. PICK y \in Requests : queue = <<y>> /\ app.gate = None
                                /\ IsLookup(y, refresh, behind)
      BY <2>3
    <3>2. DOMAIN queue = {1} /\ queue[1] = y
      BY <3>1, TuplesChanged
    <3> QED BY <1>2, <3>1, <3>2
  <2>4. CASE \E x, y \in Requests : /\ queue = <<x, y>> \/ queue = <<y, x>>
                                    /\ IsControl(x, app.gate, wanted)
                                    /\ IsLookup(y, refresh, behind)
    <3>1. PICK x \in Requests, y \in Requests :
                 /\ queue = <<x, y>> \/ queue = <<y, x>>
                 /\ IsControl(x, app.gate, wanted) /\ IsLookup(y, refresh, behind)
      BY <2>4
    <3>2. PICK i \in {1, 2} : /\ DOMAIN queue = {1, 2} /\ queue[i] = x
                              /\ \A j \in {1, 2} : j # i => queue[j] = y
      BY <3>1, TuplesChanged
    <3>3. sent = {i}
      BY <1>2, <3>1, <3>2
    <3> QED BY <1>2, <3>1, <3>2, <3>3
  <2> QED BY <2>1, <2>2, <2>3, <2>4 DEF MenuInv, Holds
<1> QED BY <1>1, <1>3 DEF GateSound, GateIsOwed, NoPayloadKept, MenuInv

\* What the three parts of the menu app agree on at all times: the coordinator's flags
\* with its gate, the queue with the gate and with the refresh, the history with both.
THEOREM MenuInvariant == Spec => []MenuInv
  BY MenuInit, MenuStep, PTL DEF Spec

\* The gate of AppLifecycleCoordinator is closed exactly while one request of its
\* operation is in the client's queue, which never holds more than that and one lookup;
\* and no credentials stay in pendingResetPayload.
THEOREM GateIsSound == Spec => []GateSound
  BY MenuInvariant, OwedByTheGate, PTL

\* Whatever operations were under way when the user chose Disconnect, once the gate is
\* open again a disconnect is the last thing that was sent, unless new credentials were
\* refused since: pendingDisconnect survives every completion but that.
THEOREM DisconnectIsCarriedOut == Spec => []DisconnectCarriedOut
<1>1. MenuInv => DisconnectCarriedOut
  BY DEF MenuInv, HistoryAgrees, FlagsAgree, DisconnectCarriedOut, None
<1> QED BY <1>1, MenuInvariant, PTL

\* After the completion of an operation a refresh stays under way until a status that
\* was asked for later is shown, however answers and operations interleave.
THEOREM OperationsAreShown == Spec => []OperationIsShown
<1>1. MenuInv => OperationIsShown
  BY DEF MenuInv, OperationIsShown
<1> QED BY <1>1, MenuInvariant, PTL

\* The connect of the launch and its retries never begin after a Disconnect or while the
\* app is about to end.
THEOREM NoConnectIsUnasked == Spec => NoUnaskedConnect
<1>1. MenuInv /\ [Next]_vars
        => [app'.startup /\ ~app.startup => wish # "off" /\ ~app.terminating]_vars
  BY MenuStep
<1> QED BY <1>1, MenuInvariant, PTL DEF Spec, NoUnaskedConnect

\* The system is told that the app may end only when the service acknowledged the
\* disconnect that was sent last, or for a replacement of the credentials.
THEOREM QuitIsDisconnected == Spec => []QuitDisconnects
<1>1. MenuInv => QuitDisconnects
  BY DEF MenuInv
<1> QED BY <1>1, MenuInvariant, PTL

=============================================================================
